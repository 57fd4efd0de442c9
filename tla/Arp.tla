--------------------------------- MODULE Arp ---------------------------------
(***************************************************************************)
(* Address resolution: the network task, which creates the ARP table and   *)
(* runs arp_receive for every ARP frame, and another task, which runs      *)
(* ipv4_send.  The scheduler switches between the two anywhere, and the    *)
(* clock ticks.  Nothing locks the table: every access to a field of an    *)
(* entry is a step of its own, and what a task has read may be stale when  *)
(* it acts on it.                                                          *)
(*                                                                         *)
(* Hosts are honest: the host with address a announces MacOf[a].  Sending  *)
(* a frame is the business of E1000Tx; here it may end or last for ever.   *)
(***************************************************************************)
EXTENDS ArpTable

CONSTANTS
  SenderIps,            \* sender addresses that occur in frames; 0 for a probe
  Destinations,         \* addresses the sending task sends to
  Garbage,              \* entries the memory of malloc may hold
  WAIT_ON_ARP_TIMEOUT,
  MaxTime               \* bound: seconds the clock counts

ASSUME ArpConstantsOK ==
  /\ SenderIps \subseteq Ips \cup {NULL_IP}
  /\ Destinations \subseteq Ips
  /\ Garbage \subseteq Entry
  /\ WAIT_ON_ARP_TIMEOUT \in Nat
  /\ MaxTime \in Nat /\ MaxTime > WAIT_ON_ARP_TIMEOUT

VARIABLES
  clock_seconds,
  arp_table,            \* the table, or <<>> while the pointer is NULL
  find,                 \* the pass of arp_table_find each task is in
  npc, frame, i, slot, now, \* the network task: routing_init, arp_receive
  cpc, ip, dest_mac, start  \* the sending task: ipv4_send

netVars    == <<npc, frame, i, slot, now>>
clientVars == <<cpc, ip, dest_mac, start>>
vars == <<clock_seconds, arp_table, find, netVars, clientVars>>

NoTable == <<>>
Tasks   == {"net", "client"}

\* What arp_receive looks at: the sender, and whether the frame is for us.
Frame ==
  {f \in [src_ip : SenderIps, src_mac : Macs \ {NULL_MAC}, to_us : BOOLEAN] :
     f.src_ip # NULL_IP => f.src_mac = MacOf[f.src_ip]}
NoFrame == [src_ip |-> NULL_IP, src_mac |-> NULL_MAC, to_us |-> FALSE]

----------------------------------------------------------------------------
(* arp_table_find, by either task. *)

\* A pass at entry e, with the result so far and no copy of an entry.
PassAt(at, e, res) == [at |-> at, i |-> e, ip |-> NULL_IP, time |-> 0, res |-> res]
NoPass == PassAt("none", 0, NotFound)

\* The call: without a table it returns at once.
arp_table_find == PassAt(IF arp_table = NoTable THEN "done" ELSE "ip", 0, NotFound)

Key(t) == IF t = "net" THEN frame.src_ip ELSE ip

\* The pass goes on to the next entry, or returns.
NextEntry(p) ==
  IF p.i + 1 < MAX_ARP_TABLE_ENTRIES THEN PassAt("ip", p.i + 1, p.res)
                                     ELSE PassAt("done", 0, p.res)

AtStep(t, step) == find[t].at = step /\ UNCHANGED <<clock_seconds, netVars, clientVars>>
Goes(t, p)      == find' = [find EXCEPT ![t] = p]

\* The local copy of the entry; its mac is never used.
copy_ip(t) ==
  /\ AtStep(t, "ip")
  /\ Goes(t, [find[t] EXCEPT !.at = "time", !.ip = arp_table[find[t].i].ip])
  /\ UNCHANGED arp_table

copy_time(t) ==
  /\ AtStep(t, "time")
  /\ Goes(t, [find[t] EXCEPT !.at = "test", !.time = arp_table[find[t].i].entry_time])
  /\ UNCHANGED arp_table

\* The copy is tested, against the clock and the ip.
test_entry(t) ==
  /\ AtStep(t, "test")
  /\ Goes(t, IF Expired(find[t].time, clock_seconds) THEN PassAt("null_ip", find[t].i, find[t].res)
             ELSE IF find[t].ip = Key(t)
               THEN PassAt("clock", find[t].i, find[t].i)
             ELSE NextEntry(find[t]))
  /\ UNCHANGED arp_table

\* arp_table[i] = ARP_NULL_ENTRY, field by field.
null_ip(t) ==
  /\ AtStep(t, "null_ip")
  /\ arp_table' = [arp_table EXCEPT ![find[t].i].ip = NULL_IP]
  /\ Goes(t, [find[t] EXCEPT !.at = "null_mac"])

null_mac(t) ==
  /\ AtStep(t, "null_mac")
  /\ arp_table' = [arp_table EXCEPT ![find[t].i].mac = NULL_MAC]
  /\ Goes(t, [find[t] EXCEPT !.at = "null_time"])

null_time(t) ==
  /\ AtStep(t, "null_time")
  /\ arp_table' = [arp_table EXCEPT ![find[t].i].entry_time = 0]
  /\ Goes(t, NextEntry(find[t]))

\* The time of an entry found is the clock's, read before it is stored.
read_clock(t) ==
  /\ AtStep(t, "clock")
  /\ Goes(t, [find[t] EXCEPT !.at = "refresh", !.time = clock_seconds])
  /\ UNCHANGED arp_table

refresh_entry(t) ==
  /\ AtStep(t, "refresh")
  /\ arp_table' = [arp_table EXCEPT ![find[t].i].entry_time = find[t].time]
  /\ Goes(t, NextEntry(find[t]))

FindStep(t) ==
  \/ copy_ip(t) \/ copy_time(t) \/ test_entry(t)
  \/ null_ip(t) \/ null_mac(t) \/ null_time(t) \/ read_clock(t) \/ refresh_entry(t)

----------------------------------------------------------------------------
(* The network task. *)

NetStep(from) == npc = from /\ UNCHANGED <<clock_seconds, clientVars>>

\* The table is there for everybody before it is cleared.  The allocation may
\* fail; the task goes on without a table.
routing_init ==
  /\ NetStep("init")
  /\ \/ arp_table' \in [Entries -> Garbage] /\ npc' = "clear"
     \/ arp_table' = NoTable /\ npc' = "idle"
  /\ UNCHANGED <<find, frame, i, slot, now>>

\* Faulty variant: the last entry is not cleared.
Bad_clear_entry ==
  /\ NetStep("clear")
  /\ IF i + 1 < MAX_ARP_TABLE_ENTRIES
       THEN /\ arp_table' = [arp_table EXCEPT ![i] = ARP_NULL_ENTRY]
            /\ i' = i + 1 /\ UNCHANGED npc
       ELSE i' = 0 /\ npc' = "idle" /\ UNCHANGED arp_table
  /\ UNCHANGED <<find, frame, slot, now>>

\* One round of the loop that clears it.
clear_entry ==
  /\ NetStep("clear")
  /\ arp_table' = [arp_table EXCEPT ![i] = ARP_NULL_ENTRY]
  /\ IF i + 1 < MAX_ARP_TABLE_ENTRIES
       THEN i' = i + 1 /\ UNCHANGED npc
       ELSE i' = 0 /\ npc' = "idle"
  /\ UNCHANGED <<find, frame, slot, now>>

\* A frame of the wrong hardware or protocol type is ignored; any other goes to
\* arp_table_update, which searches the table for its sender.
arp_receive(f) ==
  /\ NetStep("idle")
  /\ frame' = f
  /\ Goes("net", arp_table_find)
  /\ npc' = "update"
  /\ UNCHANGED <<arp_table, i, slot, now>>

\* Faulty variant: the merge flag is ignored.
Bad_arp_table_update ==
  /\ NetStep("update") /\ find["net"].at = "done"
  /\ LET position == find["net"].res IN
     /\ arp_table' = IF position = NotFound THEN arp_table
                     ELSE [arp_table EXCEPT ![position].mac = frame.src_mac]
     /\ IF frame.to_us /\ arp_table # NoTable
          THEN npc' = "search" /\ UNCHANGED frame
          ELSE npc' = "reply" /\ frame' = NoFrame
  /\ Goes("net", NoPass)
  /\ UNCHANGED <<i, slot, now>>

\* The rest of arp_table_update writes the address to the slot found, and
\* arp_receive decides whether an entry is added.
arp_table_update ==
  /\ NetStep("update") /\ find["net"].at = "done"
  /\ LET position == find["net"].res IN
     /\ arp_table' = IF position = NotFound THEN arp_table
                     ELSE [arp_table EXCEPT ![position].mac = frame.src_mac]
     /\ IF frame.to_us /\ position = NotFound /\ arp_table # NoTable
          THEN npc' = "search" /\ UNCHANGED frame
          ELSE npc' = "reply" /\ frame' = NoFrame
  /\ Goes("net", NoPass)
  /\ UNCHANGED <<i, slot, now>>

\* arp_table_add_entry: one round of the search for a slot ...
search_slot ==
  /\ NetStep("search")
  /\ slot' = SlotAfter(arp_table, i, slot)
  /\ IF SearchOver(arp_table, i)
       THEN i' = 0 /\ npc' = "clock"
       ELSE i' = i + 1 /\ UNCHANGED npc
  /\ UNCHANGED <<arp_table, find, frame, now>>

\* ... the time of the new entry ...
read_now ==
  /\ NetStep("clock") /\ npc' = "write_ip"
  /\ now' = clock_seconds
  /\ UNCHANGED <<arp_table, find, frame, i, slot>>

\* ... and the entry, field by field.
write_ip ==
  /\ NetStep("write_ip") /\ npc' = "write_mac"
  /\ arp_table' = [arp_table EXCEPT ![slot].ip = frame.src_ip]
  /\ UNCHANGED <<find, frame, i, slot, now>>

write_mac ==
  /\ NetStep("write_mac") /\ npc' = "write_time"
  /\ arp_table' = [arp_table EXCEPT ![slot].mac = frame.src_mac]
  /\ UNCHANGED <<find, frame, i, slot, now>>

write_time ==
  /\ NetStep("write_time") /\ npc' = "reply"
  /\ arp_table' = [arp_table EXCEPT ![slot].entry_time = now]
  /\ slot' = 0 /\ now' = 0 /\ frame' = NoFrame
  /\ UNCHANGED <<find, i>>

\* arp_receive returns, after arp_handle_request has sent an answer if the
\* frame is a request for us.  The table does not depend on the answer.
arp_handle_request ==
  /\ NetStep("reply") /\ npc' = "idle"
  /\ UNCHANGED <<arp_table, find, frame, i, slot, now>>

NetworkTask ==
  \/ FindStep("net") \/ routing_init \/ clear_entry \/ arp_table_update
  \/ search_slot \/ read_now \/ write_ip \/ write_mac \/ write_time \/ arp_handle_request
  \/ \E f \in Frame : arp_receive(f)

----------------------------------------------------------------------------
(* The sending task: ipv4_send. *)

ClientStep(from) == cpc = from /\ UNCHANGED <<clock_seconds, netVars>>

\* The last second at which a call may still read the start of its wait, so
\* that the bounded clock can reach its timeout.
LastStart == MaxTime - WAIT_ON_ARP_TIMEOUT - 1

\* The call, up to the search of arp_table_get_mac.
ipv4_send(dest) ==
  /\ ClientStep("idle")
  /\ clock_seconds <= LastStart
  /\ ip' = dest
  /\ IF arp_table = NoTable
       THEN cpc' = "start" /\ UNCHANGED find
       ELSE cpc' = "get_mac" /\ Goes("client", arp_table_find)
  /\ UNCHANGED <<arp_table, dest_mac, start>>

\* The address is read at the position found.
arp_table_get_mac ==
  /\ ClientStep("get_mac") /\ find["client"].at = "done"
  /\ dest_mac' = MacAt(arp_table, find["client"].res)
  /\ cpc' = IF dest_mac' = NULL_MAC THEN "request" ELSE "start"
  /\ Goes("client", NoPass)
  /\ UNCHANGED <<arp_table, ip, start>>

\* The request is handed to the card.
arp_send_request ==
  /\ ClientStep("request") /\ cpc' = "start"
  /\ UNCHANGED <<arp_table, find, ip, dest_mac, start>>

read_start ==
  /\ ClientStep("start") /\ cpc' = "test"
  /\ start' = clock_seconds
  /\ UNCHANGED <<arp_table, find, ip, dest_mac>>

\* The head of the loop, and the call of arp_table_lookup.
test_mac ==
  /\ ClientStep("test")
  /\ IF dest_mac # NULL_MAC
       THEN cpc' = "send" /\ UNCHANGED find
       ELSE cpc' = "lookup" /\ Goes("client", arp_table_find)
  /\ UNCHANGED <<arp_table, ip, dest_mac, start>>

arp_table_lookup ==
  /\ ClientStep("lookup") /\ find["client"].at = "done"
  /\ dest_mac' = MacAt(arp_table, find["client"].res)
  /\ cpc' = "timeout"
  /\ Goes("client", NoPass)
  /\ UNCHANGED <<arp_table, ip, start>>

\* Faulty variant: the wait starts anew in every round.
Bad_test_timeout ==
  /\ ClientStep("timeout")
  /\ cpc' = IF clock_seconds - start > WAIT_ON_ARP_TIMEOUT THEN "failed" ELSE "start"
  /\ UNCHANGED <<arp_table, find, ip, dest_mac, start>>

test_timeout ==
  /\ ClientStep("timeout")
  /\ cpc' = IF clock_seconds - start > WAIT_ON_ARP_TIMEOUT THEN "failed" ELSE "test"
  /\ UNCHANGED <<arp_table, find, ip, dest_mac, start>>

\* The call returns: -1 after the timeout, or 0 once ethernet_send has sent.
return ==
  /\ cpc \in {"send", "failed"} /\ cpc' = "idle"
  /\ ip' = NULL_IP /\ dest_mac' = NULL_MAC /\ start' = 0
  /\ UNCHANGED <<clock_seconds, arp_table, find, netVars>>

\* The steps of ipv4_send outside the driver of the card.
Resolve ==
  \/ FindStep("client") \/ arp_table_get_mac \/ read_start
  \/ test_mac \/ arp_table_lookup \/ test_timeout

SendingTask == Resolve \/ arp_send_request \/ return \/ \E dest \in Destinations : ipv4_send(dest)

----------------------------------------------------------------------------
Tick ==
  /\ clock_seconds < MaxTime
  /\ cpc \in {"get_mac", "request", "start"} => clock_seconds < LastStart
  /\ clock_seconds' = clock_seconds + 1
  /\ UNCHANGED <<arp_table, find, netVars, clientVars>>

Init ==
  /\ clock_seconds = 0
  /\ arp_table = NoTable
  /\ find = [t \in Tasks |-> NoPass]
  /\ npc = "init" /\ frame = NoFrame /\ i = 0 /\ slot = 0 /\ now = 0
  /\ cpc = "idle" /\ ip = NULL_IP /\ dest_mac = NULL_MAC /\ start = 0

Next == NetworkTask \/ SendingTask \/ Tick

Spec == Init /\ [][Next]_vars

\* The scheduler gives the sending task its turns and the clock ticks.  Nothing
\* is asked of the network task, nor of the card a frame is handed to.
FairSpec == Spec /\ WF_vars(Resolve) /\ WF_vars(Tick)

----------------------------------------------------------------------------
(* Properties. *)

\* The table is there and routing_init has cleared it.
Ready == arp_table # NoTable /\ npc # "clear"

Known(e) == Ready /\ arp_table[e].ip # NULL_IP

\* The table never holds an address twice, although the search and the write
\* of arp_receive are not atomic and the sending task clears and refreshes
\* entries in between: only the network task ever writes an ip.
OneEntryPerIp ==
  \A e, g \in Entries : Known(e) /\ Known(g) /\ arp_table[e].ip = arp_table[g].ip => e = g

\* The slot arp_table_add_entry is in the middle of writing.
BeingWritten(e) == npc = "write_mac" /\ e = slot

\* No entry ever pairs an ip with the hardware address of another host: not by
\* the update of a slot found earlier, not by a stale clearing of a slot that
\* has a new owner, not from memory that was used before.
NoForeignMac ==
  \A e \in Entries : Known(e) /\ ~BeingWritten(e) =>
    arp_table[e].mac \in {MacOf[arp_table[e].ip], NULL_MAC}

\* The loops of ipv4_send end: after any call it either has an address to send
\* to or gives up, whether or not there is a table and whatever the network
\* task does, as soon as the request is handed to the card.
WaitEnds ==
  cpc \in {"get_mac", "start", "test", "lookup", "timeout"} ~>
    cpc \in {"request", "send", "failed"}

\* ipv4_send gives up only while the address is unresolved.
FailsOnlyUnresolved == cpc = "failed" => dest_mac = NULL_MAC
=============================================================================
