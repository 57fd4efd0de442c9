------------------------------ MODULE ArpProofs ------------------------------
(***************************************************************************)
(* Proofs about Arp, for every size of the table, every set of hosts, and  *)
(* every interleaving of the two tasks and the clock.                      *)
(***************************************************************************)
EXTENDS Arp, TLAPS

----------------------------------------------------------------------------
(* The inductive invariant. *)

HasTable == arp_table # NoTable
Sender   == frame.src_ip
Pass     == find["net"]          \* the network task's pass over the table

InPass == {"ip", "time", "test", "null_ip", "null_mac", "null_time", "clock", "refresh"}
Adding == {"search", "clock", "write_ip", "write_mac", "write_time"}

PassType == [at : InPass \cup {"none", "done"}, i : Entries, ip : Ips \cup {NULL_IP},
             time : Nat, res : Entries \cup {NotFound}]

TypeInv ==
  /\ clock_seconds \in Nat
  /\ HasTable => arp_table \in [Entries -> Entry]
  /\ find \in [Tasks -> PassType]
  /\ npc \in {"init", "clear", "idle", "update", "reply"} \cup Adding
  /\ frame \in Frame \cup {NoFrame}
  /\ i \in Entries /\ slot \in Entries /\ now \in Nat
  /\ ip \in Ips \cup {NULL_IP}

\* Where each task can be, with and without a table.
CtrlInv ==
  /\ npc = "init" => ~HasTable
  /\ npc \in {"clear"} \cup Adding => HasTable
  /\ \A t \in Tasks : find[t].at \in InPass \/ find[t].res # NotFound => HasTable
  /\ Pass.at # "none" <=> npc = "update"
  /\ npc # "update" => Pass.res = NotFound
  /\ npc \in {"update"} \cup Adding => frame \in Frame

\* What the network task has read and found is still so, or the slot has been
\* cleared by the other task; what it has not found is not there, for nobody
\* else writes an ip.
ReadInv ==
  /\ Pass.at \in {"time", "test"} => arp_table[Pass.i].ip \in {Pass.ip, NULL_IP}
  /\ Pass.at \in {"null_mac", "null_time"} => arp_table[Pass.i].ip = NULL_IP
  /\ Pass.at \in {"clock", "refresh"} => Pass.res # NotFound
  /\ Pass.res # NotFound => arp_table[Pass.res].ip \in {Sender, NULL_IP}
  /\ HasTable /\ npc = "update" /\ Pass.res = NotFound =>
       \A e \in Entries : Pass.at = "done" \/ e < Pass.i =>
         arp_table[e].ip # Sender \/ Sender = NULL_IP

\* The entry being added is not there yet, and then it is in its slot unless
\* the other task clears it.
AddInv ==
  /\ npc \in {"search", "clock", "write_ip"} =>
       \A e \in Entries : arp_table[e].ip # Sender \/ Sender = NULL_IP
  /\ npc = "write_mac" => arp_table[slot].ip \in {Sender, NULL_IP}

\* The part of the table that routing_init has cleared.
ClearInv ==
  /\ npc = "init" => i = 0
  /\ npc = "clear" => \A e \in Entries : e < i => arp_table[e].ip = NULL_IP

IInv ==
  TypeInv /\ CtrlInv /\ ReadInv /\ AddInv /\ ClearInv /\ OneEntryPerIp /\ NoForeignMac

----------------------------------------------------------------------------
(* Accesses to the table. *)

\* A table is not the null pointer.
LEMMA TableNotNull == ASSUME NEW T \in [Entries -> Entry] PROVE T # NoTable
<1>1. 0 \in DOMAIN T /\ 0 \notin DOMAIN NoTable
  BY TableConstantsOK DEF Entries, NoTable
<1> QED  BY <1>1

\* A store of the time of an entry.
LEMMA WriteTime ==
  ASSUME NEW T \in [Entries -> Entry], NEW e \in Entries, NEW n \in Nat,
         NEW U, U = [T EXCEPT ![e].entry_time = n]
  PROVE  /\ U \in [Entries -> Entry]
         /\ U[e].ip = T[e].ip /\ U[e].mac = T[e].mac
         /\ \A g \in Entries \ {e} : U[g] = T[g]
BY DEF Entry

\* What a pass of arp_table_find does to the addresses in the table: it keeps
\* or clears them.
Faded(T, U) ==
  \A e \in Entries : U[e].ip \in {T[e].ip, NULL_IP} /\ U[e].mac \in {T[e].mac, NULL_MAC}

\* The next entry of a pass.
LEMMA NextEntryType ==
  ASSUME NEW p \in PassType
  PROVE  /\ NextEntry(p) \in PassType
         /\ NextEntry(p).at \in {"ip", "done"} /\ NextEntry(p).res = p.res
         /\ NextEntry(p).at = "ip" => NextEntry(p).i = p.i + 1
         /\ NextEntry(p).at = "done" => p.i = MAX_ARP_TABLE_ENTRIES - 1
BY TableConstantsOK DEF NextEntry, PassAt, PassType, InPass, Entries

\* A step of either task in arp_table_find.
LEMMA FindStepIs ==
  ASSUME TypeInv, CtrlInv, NEW t \in Tasks, FindStep(t)
  PROVE  /\ HasTable /\ arp_table \in [Entries -> Entry]
         /\ HasTable' /\ arp_table' \in [Entries -> Entry]
         /\ Faded(arp_table, arp_table')
         /\ find' = [find EXCEPT ![t] = find'[t]] /\ find'[t] \in PassType
         /\ find[t].at \in InPass /\ find'[t].at # "none"
         /\ UNCHANGED <<clock_seconds, netVars, clientVars>>
<1> DEFINE p == find[t]
<1>0. /\ p \in PassType /\ p.i \in Entries /\ p.res \in Entries \cup {NotFound}
      /\ clock_seconds \in Nat /\ find \in [Tasks -> PassType]
  BY DEF TypeInv, PassType
<1>1. p.at \in InPass /\ UNCHANGED <<clock_seconds, netVars, clientVars>>
  BY DEF FindStep, copy_ip, copy_time, test_entry, null_ip, null_mac, null_time,
         read_clock, refresh_entry,
         AtStep, InPass
<1>2. HasTable /\ arp_table \in [Entries -> Entry]
  BY <1>1 DEF CtrlInv, TypeInv
<1>3. arp_table[p.i] \in Entry
  BY <1>0, <1>2
<1>4. /\ NULL_IP \in Ips \cup {NULL_IP} /\ NULL_MAC \in Macs /\ 0 \in Nat
      /\ NextEntry(p) \in PassType /\ NextEntry(p).at # "none"
  BY <1>0, NextEntryType DEF Macs
<1>5. /\ arp_table' \in [Entries -> Entry] /\ Faded(arp_table, arp_table')
      /\ \E s \in PassType : Goes(t, s) /\ s.at # "none"
  <2>1. CASE copy_ip(t)
    <3> DEFINE q == [p EXCEPT !.at = "time", !.ip = arp_table[p.i].ip]
    <3>1. q \in PassType /\ q.at # "none"
      BY <1>0, <1>3 DEF PassType, InPass, Entry
    <3> QED  BY <1>2, <2>1, <3>1 DEF copy_ip, Faded
  <2>2. CASE copy_time(t)
    <3> DEFINE q == [p EXCEPT !.at = "test", !.time = arp_table[p.i].entry_time]
    <3>1. q \in PassType /\ q.at # "none"
      BY <1>0, <1>3 DEF PassType, InPass, Entry
    <3> QED  BY <1>2, <2>2, <3>1 DEF copy_time, Faded
  <2>3. CASE test_entry(t)
    <3> DEFINE q == PassAt("null_ip", p.i, p.res)
               r == PassAt("clock", p.i, p.i)
    <3>1. q \in PassType /\ q.at # "none" /\ r \in PassType /\ r.at # "none"
      BY <1>0 DEF PassType, InPass, PassAt
    <3>2. (Goes(t, q) \/ Goes(t, r) \/ Goes(t, NextEntry(p))) /\ arp_table' = arp_table
      BY <2>3 DEF test_entry
    <3>3. \E s \in PassType : Goes(t, s) /\ s.at # "none"
      <4> HIDE DEF p, q, r
      <4>1. CASE Goes(t, q)
        BY <3>1, <4>1
      <4>2. CASE Goes(t, r)
        BY <3>1, <4>2
      <4>3. CASE Goes(t, NextEntry(p))
        BY <1>4, <4>3
      <4> QED  BY <3>2, <4>1, <4>2, <4>3
    <3>4. arp_table' \in [Entries -> Entry] /\ Faded(arp_table, arp_table')
      BY <1>2, <3>2 DEF Faded
    <3> QED  BY <3>3, <3>4
  <2>4. CASE null_ip(t)
    <3> DEFINE q == [p EXCEPT !.at = "null_mac"]
    <3>1. q \in PassType /\ q.at # "none"
      BY <1>0 DEF PassType, InPass
    <3>2. arp_table' = [arp_table EXCEPT ![p.i].ip = NULL_IP] /\ Goes(t, q)
      BY <2>4 DEF null_ip
    <3>3. /\ arp_table' \in [Entries -> Entry]
          /\ arp_table'[p.i].ip = NULL_IP /\ arp_table'[p.i].mac = arp_table[p.i].mac
          /\ \A g \in Entries \ {p.i} : arp_table'[g] = arp_table[g]
      BY <1>0, <1>2, <3>2 DEF Entry
    <3>4. Faded(arp_table, arp_table')
      BY <3>3 DEF Faded
    <3> QED  BY <3>1, <3>2, <3>3, <3>4
  <2>5. CASE null_mac(t)
    <3> DEFINE q == [p EXCEPT !.at = "null_time"]
    <3>1. q \in PassType /\ q.at # "none"
      BY <1>0 DEF PassType, InPass
    <3>2. arp_table' = [arp_table EXCEPT ![p.i].mac = NULL_MAC] /\ Goes(t, q)
      BY <2>5 DEF null_mac
    <3>3. /\ arp_table' \in [Entries -> Entry]
          /\ arp_table'[p.i].ip = arp_table[p.i].ip /\ arp_table'[p.i].mac = NULL_MAC
          /\ \A g \in Entries \ {p.i} : arp_table'[g] = arp_table[g]
      BY <1>0, <1>2, <1>4, <3>2 DEF Entry
    <3>4. Faded(arp_table, arp_table')
      BY <3>3 DEF Faded
    <3> QED  BY <3>1, <3>2, <3>3, <3>4
  <2>6. CASE null_time(t) \/ refresh_entry(t)
    <3>1. PICK n \in Nat : arp_table' = [arp_table EXCEPT ![p.i].entry_time = n]
      BY <1>0, <2>6 DEF null_time, refresh_entry, PassType
    <3>2. Goes(t, NextEntry(p))
      BY <2>6 DEF null_time, refresh_entry
    <3> QED  BY <1>0, <1>2, <1>4, <3>1, <3>2, WriteTime DEF Faded
  <2>7. CASE read_clock(t)
    <3> DEFINE q == [p EXCEPT !.at = "refresh", !.time = clock_seconds]
    <3>1. q \in PassType /\ q.at # "none"
      BY <1>0 DEF PassType, InPass
    <3> QED  BY <1>2, <2>7, <3>1 DEF read_clock, Faded
  <2> QED  BY <2>1, <2>2, <2>3, <2>4, <2>5, <2>6, <2>7 DEF FindStep
<1>6. HasTable'
  BY <1>5, TableNotNull DEF HasTable
<1>7. find' = [find EXCEPT ![t] = find'[t]] /\ find'[t] \in PassType /\ find'[t].at # "none"
  BY <1>0, <1>5 DEF Goes
<1> QED  BY <1>1, <1>2, <1>5, <1>6, <1>7

----------------------------------------------------------------------------
(* The invariant holds at first and is kept by every step. *)

\* Before routing_init there is no table and nobody searches it.
LEMMA InitInv == Init => IInv
<1> SUFFICES ASSUME Init PROVE IInv
  OBVIOUS
<1>1. /\ ~HasTable /\ Pass = NoPass /\ \A t \in Tasks : find[t] = NoPass
      /\ NoPass \in PassType /\ NoPass.at = "none" /\ NoPass.res = NotFound
      /\ 0 \in Entries
  BY TableConstantsOK DEF Init, HasTable, Pass, Tasks, NoPass, PassAt, PassType, Entries
<1>2. TypeInv
  BY <1>1 DEF Init, TypeInv
<1>3. CtrlInv
  BY <1>1 DEF Init, CtrlInv, InPass, Adding
<1>4. ReadInv /\ AddInv /\ ClearInv
  BY <1>1 DEF Init, ReadInv, AddInv, ClearInv
<1>5. OneEntryPerIp /\ NoForeignMac
  BY <1>1 DEF OneEntryPerIp, NoForeignMac, Known, Ready, HasTable
<1> QED  BY <1>2, <1>3, <1>4, <1>5 DEF IInv

\* A step that leaves the network task alone, and at most clears addresses,
\* keeps what the network task relies on.
LEMMA NetUndisturbed ==
  ASSUME IInv, UNCHANGED netVars, Pass' = Pass, HasTable' <=> HasTable,
         HasTable => Faded(arp_table, arp_table')
  PROVE  ReadInv' /\ AddInv' /\ ClearInv' /\ OneEntryPerIp' /\ NoForeignMac'
<1> USE DEF netVars
<1>0. /\ \A e \in Entries : HasTable =>
           /\ arp_table'[e].ip \in {arp_table[e].ip, NULL_IP}
           /\ arp_table'[e].mac \in {arp_table[e].mac, NULL_MAC}
      /\ Sender' = Sender
      /\ Pass.i \in Entries /\ Pass.res \in Entries \cup {NotFound} /\ slot \in Entries
  BY DEF Faded, Sender, IInv, TypeInv, PassType, Pass, Tasks
<1>1. /\ Pass.at \in InPass \/ Pass.res # NotFound => HasTable
      /\ npc \in {"clear"} \cup Adding => HasTable
  BY DEF IInv, CtrlInv, Pass, Tasks
<1>2. ReadInv'
  BY <1>0, <1>1 DEF IInv, ReadInv, InPass
<1>3. AddInv'
  BY <1>0, <1>1 DEF IInv, AddInv, Adding
<1>4. ClearInv'
  BY <1>0, <1>1 DEF IInv, ClearInv
<1>5. \A e \in Entries : Known(e)' => Known(e) /\ arp_table'[e].ip = arp_table[e].ip
  BY <1>0 DEF Known, Ready, HasTable
<1>6. OneEntryPerIp'
  BY <1>5 DEF IInv, OneEntryPerIp
<1>7. NoForeignMac'
  <2> SUFFICES ASSUME NEW e \in Entries, Known(e)', ~BeingWritten(e)'
               PROVE  arp_table'[e].mac \in {MacOf[arp_table'[e].ip], NULL_MAC}
    BY DEF NoForeignMac
  <2>1. Known(e) /\ ~BeingWritten(e) /\ arp_table'[e].ip = arp_table[e].ip
    BY <1>5 DEF BeingWritten
  <2>2. HasTable
    BY <2>1 DEF Known, Ready, HasTable
  <2> QED  BY <1>0, <2>1, <2>2 DEF IInv, NoForeignMac
<1> QED  BY <1>2, <1>3, <1>4, <1>6, <1>7

\* The other task's steps in arp_table_find.
LEMMA ClientFindInv == IInv /\ FindStep("client") => IInv'
<1> SUFFICES ASSUME IInv, FindStep("client") PROVE IInv'
  OBVIOUS
<1>0. TypeInv /\ CtrlInv /\ "client" \in Tasks /\ "net" \in Tasks
  BY DEF IInv, Tasks
<1>1. /\ HasTable /\ HasTable' /\ arp_table' \in [Entries -> Entry]
      /\ Faded(arp_table, arp_table')
      /\ find' = [find EXCEPT !["client"] = find'["client"]] /\ find'["client"] \in PassType
      /\ UNCHANGED <<clock_seconds, netVars, clientVars>>
  BY <1>0, FindStepIs
<1>2. find' \in [Tasks -> PassType] /\ Pass' = Pass
  BY <1>0, <1>1 DEF TypeInv, Pass
<1>3. TypeInv'
  BY <1>0, <1>1, <1>2 DEF TypeInv, netVars, clientVars
<1>4. CtrlInv'
  BY <1>0, <1>1, <1>2 DEF CtrlInv, netVars
<1> QED  BY <1>1, <1>2, <1>3, <1>4, NetUndisturbed DEF IInv

\* Every other step of the sending task leaves the table alone, and at most
\* begins or ends a pass.
LEMMA ClientInv ==
  ASSUME IInv, SendingTask, ~FindStep("client")
  PROVE  IInv'
<1>0. TypeInv /\ CtrlInv /\ "client" \in Tasks /\ "net" \in Tasks /\ "client" # "net"
  BY DEF IInv, Tasks
<1>1. /\ UNCHANGED <<arp_table, clock_seconds, netVars>>
      /\ ip' \in Ips \cup {NULL_IP}
      /\ \/ UNCHANGED find
         \/ Goes("client", arp_table_find) \/ Goes("client", NoPass)
  BY <1>0, ArpConstantsOK
     DEF SendingTask, Resolve, ipv4_send, arp_table_get_mac, arp_send_request, read_start, test_mac,
         arp_table_lookup, test_timeout, return, ClientStep, TypeInv
<1>2. HasTable' <=> HasTable
  BY <1>1 DEF HasTable
<1>3. /\ arp_table_find \in PassType /\ NoPass \in PassType
      /\ arp_table_find.at \in InPass => HasTable
      /\ arp_table_find.res = NotFound /\ NoPass.res = NotFound /\ NoPass.at \notin InPass
  BY TableConstantsOK DEF arp_table_find, NoPass, PassAt, PassType, InPass, Entries, HasTable
<1>4. /\ find' \in [Tasks -> PassType] /\ Pass' = Pass
      /\ \A t \in Tasks : find'[t].at \in InPass \/ find'[t].res # NotFound => HasTable
  <2>1. CASE UNCHANGED find
    BY <1>0, <2>1 DEF TypeInv, CtrlInv, Pass
  <2>2. ASSUME NEW q \in PassType, Goes("client", q),
               q.at \in InPass \/ q.res # NotFound => HasTable
        PROVE  <1>4!1 /\ <1>4!2
    BY <1>0, <2>2 DEF TypeInv, CtrlInv, Pass, Goes, Tasks
  <2> QED  BY <1>1, <1>3, <2>1, <2>2
<1>5. TypeInv'
  BY <1>0, <1>1, <1>2, <1>4 DEF TypeInv, netVars
<1>6. CtrlInv'
  BY <1>0, <1>1, <1>2, <1>4 DEF CtrlInv, netVars
<1>7. HasTable => Faded(arp_table, arp_table')
  BY <1>1 DEF Faded
<1> QED  BY <1>1, <1>2, <1>4, <1>5, <1>6, <1>7, NetUndisturbed DEF IInv

\* So does the clock.
LEMMA TickInv == IInv /\ (Tick \/ UNCHANGED vars) => IInv'
<1> SUFFICES ASSUME IInv, Tick \/ UNCHANGED vars PROVE IInv'
  OBVIOUS
<1>1. UNCHANGED <<arp_table, find, netVars, ip>> /\ clock_seconds' \in Nat
  BY DEF Tick, vars, clientVars, IInv, TypeInv
<1>2. /\ TypeInv' /\ CtrlInv' /\ Pass' = Pass /\ (HasTable' <=> HasTable)
      /\ Faded(arp_table, arp_table')
  BY <1>1 DEF IInv, TypeInv, CtrlInv, netVars, HasTable, Faded, Pass
<1> QED  BY <1>1, <1>2, NetUndisturbed DEF IInv

\* A step of the network task that keeps or clears addresses keeps both
\* properties of the table.
LEMMA TableFades ==
  ASSUME IInv, HasTable, Faded(arp_table, arp_table'), npc # "clear" \/ npc' = "clear",
         npc = "write_mac" => npc' = "write_mac" /\ slot' = slot
  PROVE  OneEntryPerIp' /\ NoForeignMac'
<1>1. \A e \in Entries : Known(e)' => Known(e) /\ arp_table'[e].ip = arp_table[e].ip
  BY DEF Known, Ready, HasTable, Faded
<1>2. \A e \in Entries : BeingWritten(e) => BeingWritten(e)'
  BY DEF BeingWritten
<1>3. OneEntryPerIp'
  BY <1>1 DEF IInv, OneEntryPerIp
<1>4. NoForeignMac'
  <2> SUFFICES ASSUME NEW e \in Entries, Known(e)', ~BeingWritten(e)'
               PROVE  arp_table'[e].mac \in {MacOf[arp_table'[e].ip], NULL_MAC}
    BY DEF NoForeignMac
  <2>1. Known(e) /\ ~BeingWritten(e) /\ arp_table'[e].ip = arp_table[e].ip
    BY <1>1, <1>2
  <2> QED  BY <2>1 DEF IInv, NoForeignMac, Faded
<1> QED  BY <1>3, <1>4

\* The network task's own steps in arp_table_find.
LEMMA NetFindInv == IInv /\ FindStep("net") => IInv'
<1> SUFFICES ASSUME IInv, FindStep("net") PROVE IInv'
  OBVIOUS
<1>0. TypeInv /\ CtrlInv /\ ReadInv /\ "client" \in Tasks /\ "net" \in Tasks
  BY DEF IInv, Tasks
<1>1. /\ HasTable /\ HasTable' /\ arp_table \in [Entries -> Entry]
      /\ arp_table' \in [Entries -> Entry] /\ Faded(arp_table, arp_table')
      /\ find' = [find EXCEPT !["net"] = find'["net"]] /\ find'["net"] \in PassType
      /\ Pass.at \in InPass /\ Pass'.at # "none"
      /\ UNCHANGED <<clock_seconds, netVars, clientVars>>
  BY <1>0, FindStepIs DEF Pass
<1>2. /\ find' \in [Tasks -> PassType] /\ find'["client"] = find["client"]
      /\ Pass \in PassType /\ Pass' \in PassType /\ Sender' = Sender
  BY <1>0, <1>1 DEF TypeInv, Pass, Tasks, Sender, netVars
<1>3. npc = "update" /\ npc' = "update"
  BY <1>0, <1>1 DEF CtrlInv, InPass, netVars
<1>4. TypeInv'
  BY <1>0, <1>1, <1>2 DEF TypeInv, netVars, clientVars
<1>5. CtrlInv'
  BY <1>0, <1>1, <1>3 DEF CtrlInv, netVars, Adding, Pass
<1>6. AddInv' /\ ClearInv'
  BY <1>1, <1>3 DEF AddInv, ClearInv, IInv, netVars
<1>7. OneEntryPerIp' /\ NoForeignMac'
  BY <1>1, <1>3, TableFades
<1>8. ReadInv'
  <2> DEFINE Missing(e) == arp_table[e].ip # Sender \/ Sender = NULL_IP
             Gone(e)    == arp_table'[e].ip # Sender \/ Sender = NULL_IP
  <2>0. /\ Pass.i \in Entries /\ arp_table[Pass.i] \in Entry
        /\ Pass.res \in Entries \cup {NotFound}
        /\ NotFound \notin Entries /\ MAX_ARP_TABLE_ENTRIES \in Nat
        /\ \A e \in Entries : e \in Int /\ e <= MAX_ARP_TABLE_ENTRIES - 1
    BY <1>1, <1>2, TableConstantsOK DEF PassType, NotFound, Entries
  <2>1. /\ Pass.res # NotFound => arp_table[Pass.res].ip \in {Sender, NULL_IP}
        /\ Pass.res = NotFound => \A e \in Entries : e < Pass.i => Missing(e)
    BY <1>0, <1>1, <1>3 DEF ReadInv
  <2>2. /\ Pass.res # NotFound => arp_table'[Pass.res].ip \in {Sender, NULL_IP}
        /\ \A e \in Entries : Missing(e) => Gone(e)
    BY <1>1, <1>2, <2>0, <2>1 DEF Faded
  <2>3. ASSUME NEW q, Pass' = q, q.res = Pass.res, q.i = Pass.i,
               q.at \in {"time", "test"} => arp_table'[q.i].ip \in {q.ip, NULL_IP},
               q.at \in {"null_mac", "null_time"} => arp_table'[q.i].ip = NULL_IP,
               q.at \notin {"done", "clock", "refresh"}
        PROVE  ReadInv'
    BY <1>2, <2>1, <2>2, <2>3 DEF ReadInv
  <2>4. ASSUME Pass' = NextEntry(Pass),
               Pass.res = NotFound => Gone(Pass.i)
        PROVE  ReadInv'
    <3>1. /\ Pass'.at \in {"ip", "done"} /\ Pass'.res = Pass.res
          /\ Pass'.at = "ip" => Pass'.i = Pass.i + 1
          /\ Pass'.at = "done" => Pass.i = MAX_ARP_TABLE_ENTRIES - 1
      BY <1>2, <2>4, NextEntryType
    <3>2. \A e \in Entries : Pass'.at = "done" \/ e < Pass'.i => e <= Pass.i
      BY <2>0, <3>1
    <3>3. Pass.res = NotFound =>
            \A e \in Entries : Pass'.at = "done" \/ e < Pass'.i => Gone(e)
      <4> SUFFICES ASSUME Pass.res = NotFound, NEW e \in Entries,
                          Pass'.at = "done" \/ e < Pass'.i
                   PROVE  Gone(e)
        OBVIOUS
      <4>1. e < Pass.i \/ e = Pass.i
        BY <2>0, <3>2
      <4> QED  BY <2>1, <2>2, <2>4, <4>1
    <3> QED  BY <1>2, <2>2, <3>1, <3>3 DEF ReadInv
  <2>5. CASE copy_ip("net")
    <3>1. /\ Pass' = [Pass EXCEPT !.at = "time", !.ip = arp_table[Pass.i].ip]
          /\ arp_table' = arp_table
      BY <1>0, <2>5 DEF copy_ip, Goes, TypeInv, Pass
    <3>2. /\ Pass'.at = "time" /\ Pass'.i = Pass.i /\ Pass'.res = Pass.res
          /\ Pass'.ip = arp_table'[Pass.i].ip
      BY <1>2, <3>1 DEF PassType
    <3> QED  BY <2>3, <3>2
  <2>6. CASE copy_time("net")
    <3>1. /\ Pass' = [Pass EXCEPT !.at = "test", !.time = arp_table[Pass.i].entry_time]
          /\ arp_table' = arp_table /\ Pass.at = "time"
      BY <1>0, <2>6 DEF copy_time, Goes, TypeInv, Pass, AtStep
    <3>2. arp_table[Pass.i].ip \in {Pass.ip, NULL_IP}
      BY <1>0, <3>1 DEF ReadInv
    <3>3. /\ Pass'.at = "test" /\ Pass'.i = Pass.i /\ Pass'.res = Pass.res
          /\ Pass'.ip = Pass.ip
      BY <1>2, <3>1 DEF PassType
    <3> QED  BY <2>3, <3>1, <3>2, <3>3
  <2>7. CASE test_entry("net")
    <3>1. /\ arp_table' = arp_table /\ Pass.at = "test"
          /\ \/ Pass' = PassAt("null_ip", Pass.i, Pass.res)
             \/ Pass' = PassAt("clock", Pass.i, Pass.i) /\ Pass.ip = Sender
             \/ Pass' = NextEntry(Pass) /\ Pass.ip # Sender
      BY <1>0, <2>7 DEF test_entry, Goes, TypeInv, Pass, AtStep, Key, Sender
    <3>2. arp_table[Pass.i].ip \in {Pass.ip, NULL_IP}
      BY <1>0, <3>1 DEF ReadInv
    <3>3. CASE Pass' = PassAt("null_ip", Pass.i, Pass.res)
      BY <2>3, <3>3 DEF PassAt
    <3>4. CASE Pass' = PassAt("clock", Pass.i, Pass.i) /\ Pass.ip = Sender
      BY <1>2, <2>0, <3>1, <3>2, <3>4 DEF PassAt, ReadInv
    <3>5. CASE Pass' = NextEntry(Pass) /\ Pass.ip # Sender
      BY <1>2, <2>4, <3>1, <3>2, <3>5
    <3> QED  BY <3>1, <3>3, <3>4, <3>5
  <2>8. CASE null_ip("net")
    <3>1. /\ Pass' = [Pass EXCEPT !.at = "null_mac"]
          /\ arp_table' = [arp_table EXCEPT ![Pass.i].ip = NULL_IP]
      BY <1>0, <2>8 DEF null_ip, Goes, TypeInv, Pass
    <3>2. arp_table'[Pass.i].ip = NULL_IP
      BY <1>1, <2>0, <3>1 DEF Entry
    <3>3. Pass'.at = "null_mac" /\ Pass'.i = Pass.i /\ Pass'.res = Pass.res
      BY <1>2, <3>1 DEF PassType
    <3> QED  BY <2>3, <3>2, <3>3
  <2>9. CASE null_mac("net")
    <3>1. /\ Pass' = [Pass EXCEPT !.at = "null_time"] /\ Pass.at = "null_mac"
      BY <1>0, <2>9 DEF null_mac, Goes, TypeInv, Pass, AtStep
    <3>2. arp_table'[Pass.i].ip = NULL_IP
      BY <1>0, <1>1, <2>0, <3>1 DEF ReadInv, Faded
    <3>3. Pass'.at = "null_time" /\ Pass'.i = Pass.i /\ Pass'.res = Pass.res
      BY <1>2, <3>1 DEF PassType
    <3> QED  BY <2>3, <3>2, <3>3
  <2>10. CASE null_time("net")
    <3>1. Pass' = NextEntry(Pass) /\ Pass.at = "null_time"
      BY <1>0, <2>10 DEF null_time, Goes, TypeInv, Pass, AtStep
    <3>2. arp_table'[Pass.i].ip = NULL_IP
      BY <1>0, <1>1, <2>0, <3>1 DEF ReadInv, Faded
    <3> QED  BY <1>2, <2>4, <3>1, <3>2
  <2>11. CASE refresh_entry("net")
    <3>1. Pass' = NextEntry(Pass) /\ Pass.at = "refresh"
      BY <1>0, <2>11 DEF refresh_entry, Goes, TypeInv, Pass, AtStep
    <3>2. Pass.res # NotFound
      BY <1>0, <3>1 DEF ReadInv
    <3> QED  BY <2>4, <3>1, <3>2
  <2>12. CASE read_clock("net")
    <3>1. /\ Pass' = [Pass EXCEPT !.at = "refresh", !.time = clock_seconds]
          /\ arp_table' = arp_table /\ Pass.at = "clock"
      BY <1>0, <2>12 DEF read_clock, Goes, TypeInv, Pass, AtStep
    <3>2. Pass.res # NotFound
      BY <1>0, <3>1 DEF ReadInv
    <3>3. Pass'.at = "refresh" /\ Pass'.i = Pass.i /\ Pass'.res = Pass.res
      BY <1>2, <3>1 DEF PassType
    <3> QED  BY <1>2, <2>2, <3>2, <3>3 DEF ReadInv
  <2> QED  BY <2>5, <2>6, <2>7, <2>8, <2>9, <2>10, <2>11, <2>12 DEF FindStep
<1> QED  BY <1>4, <1>5, <1>6, <1>7, <1>8 DEF IInv

\* The steps of the network task that use no pass.
LEMMA PassIdle ==
  ASSUME IInv, npc # "update"
  PROVE  /\ Pass.at = "none" /\ find \in [Tasks -> PassType]
         /\ Pass.res = NotFound
BY DEF IInv, CtrlInv, TypeInv, Pass, Tasks

\* What a frame brings is an address of the network.
LEMMA FrameType ==
  ASSUME NEW f \in Frame
  PROVE  /\ f.src_ip \in Ips \cup {NULL_IP} /\ f.src_mac \in Macs
         /\ f.src_ip # NULL_IP => f.src_mac = MacOf[f.src_ip]
BY ArpConstantsOK DEF Frame

\* routing_init publishes the table, with whatever the memory held.
LEMMA RoutingInitInv == IInv /\ routing_init => IInv'
<1> SUFFICES ASSUME IInv, routing_init PROVE IInv'
  OBVIOUS
<1>0. TypeInv /\ CtrlInv /\ ReadInv /\ npc = "init" /\ "net" \in Tasks
  BY DEF IInv, routing_init, NetStep, Tasks
<1>1. ~HasTable /\ UNCHANGED <<clock_seconds, find, frame, i, slot, now, clientVars>>
  BY <1>0 DEF CtrlInv, routing_init, NetStep
<1>2. \/ arp_table' \in [Entries -> Entry] /\ HasTable' /\ npc' = "clear"
      \/ ~HasTable' /\ npc' = "idle"
  BY ArpConstantsOK, TableNotNull DEF routing_init, HasTable
<1>3. \A t \in Tasks : find[t].at \notin InPass /\ find[t].res = NotFound
  BY <1>0, <1>1 DEF CtrlInv
<1>4. Pass.at = "none" /\ Pass.res = NotFound
  BY <1>0, <1>3, PassIdle DEF Pass
<1>5. TypeInv'
  BY <1>0, <1>1, <1>2 DEF TypeInv, clientVars
<1>6. CtrlInv'
  BY <1>0, <1>1, <1>2, <1>3, <1>4 DEF CtrlInv, Adding, Pass
<1>7. ReadInv' /\ AddInv'
  BY <1>1, <1>2, <1>4 DEF ReadInv, AddInv, Pass
<1>8. ClearInv' /\ OneEntryPerIp' /\ NoForeignMac'
  <2>1. \A e \in Entries : ~Known(e)'
    BY <1>2 DEF Known, Ready, HasTable
  <2>2. i' = 0
    BY <1>0, <1>1 DEF IInv, ClearInv
  <2>3. \A e \in Entries : ~(e < 0)
    BY TableConstantsOK DEF Entries
  <2>4. ClearInv'
    BY <1>2, <2>2, <2>3 DEF ClearInv
  <2> QED  BY <2>1, <2>4 DEF OneEntryPerIp, NoForeignMac
<1> QED  BY <1>5, <1>6, <1>7, <1>8 DEF IInv

\* The loop that clears the table.
LEMMA ClearEntryInv == IInv /\ clear_entry => IInv'
<1> SUFFICES ASSUME IInv, clear_entry PROVE IInv'
  OBVIOUS
<1>0. TypeInv /\ CtrlInv /\ npc = "clear" /\ HasTable /\ i \in Entries
  BY DEF IInv, TypeInv, CtrlInv, clear_entry, NetStep
<1>1. /\ arp_table' = [arp_table EXCEPT ![i] = ARP_NULL_ENTRY]
      /\ UNCHANGED <<clock_seconds, find, frame, slot, now, clientVars>>
      /\ \/ i + 1 < MAX_ARP_TABLE_ENTRIES /\ i' = i + 1 /\ npc' = "clear"
         \/ ~(i + 1 < MAX_ARP_TABLE_ENTRIES) /\ i' = 0 /\ npc' = "idle"
  BY <1>0 DEF clear_entry, NetStep
<1>2. arp_table' \in [Entries -> Entry] /\ HasTable'
  <2>1. ARP_NULL_ENTRY \in Entry
    BY DEF ARP_NULL_ENTRY, Entry, Macs
  <2>2. arp_table \in [Entries -> Entry]
    BY <1>0 DEF TypeInv
  <2>3. arp_table' \in [Entries -> Entry]
    BY <1>0, <1>1, <2>1, <2>2
  <2> QED  BY <2>3, TableNotNull DEF HasTable
<1>3. i' \in Entries
  BY <1>0, <1>1, TableConstantsOK DEF Entries
<1>4. Pass.at = "none" /\ Pass.res = NotFound /\ Pass' = Pass
  BY <1>0, <1>1, PassIdle DEF Pass
<1>5. \A e \in Entries : e <= i => arp_table'[e].ip = NULL_IP
  <2> TAKE e \in Entries
  <2>0. e \in Int /\ i \in Int /\ arp_table \in [Entries -> Entry]
    BY <1>0, TableConstantsOK DEF Entries, TypeInv
  <2>1. CASE e = i
    BY <1>0, <1>1, <2>0, <2>1 DEF ARP_NULL_ENTRY
  <2>2. CASE e < i
    <3>1. arp_table[e].ip = NULL_IP
      BY <1>0, <2>2 DEF IInv, ClearInv
    <3>2. e # i
      BY <2>0, <2>2
    <3> QED  BY <1>1, <2>0, <3>1, <3>2
  <2> QED  BY <2>0, <2>1, <2>2
<1>6. TypeInv'
  BY <1>0, <1>1, <1>2, <1>3 DEF TypeInv, clientVars
<1>7. CtrlInv'
  BY <1>0, <1>1, <1>2, <1>4 DEF CtrlInv, Adding
<1>8. ClearInv'
  BY <1>0, <1>1, <1>5 DEF ClearInv, Entries
<1>9. ReadInv' /\ AddInv'
  BY <1>1, <1>4 DEF ReadInv, AddInv
<1>10. OneEntryPerIp' /\ NoForeignMac'
  <2>1. \A e \in Entries : ~Known(e)'
    <3> TAKE e \in Entries
    <3>1. npc' = "idle" => e <= i
      BY <1>0, <1>1, TableConstantsOK DEF Entries
    <3> QED  BY <1>1, <1>5, <3>1 DEF Known, Ready
  <2> QED  BY <2>1 DEF OneEntryPerIp, NoForeignMac
<1> QED  BY <1>6, <1>7, <1>8, <1>9, <1>10 DEF IInv

\* A frame begins a search for its sender.
LEMMA ReceiveInv == ASSUME NEW f \in Frame PROVE IInv /\ arp_receive(f) => IInv'
<1> SUFFICES ASSUME IInv, arp_receive(f) PROVE IInv'
  OBVIOUS
<1>0. TypeInv /\ CtrlInv /\ npc = "idle" /\ "net" \in Tasks /\ Tasks = {"net", "client"}
  BY DEF IInv, arp_receive, NetStep, Tasks
<1>1. /\ npc' = "update" /\ frame' = f /\ Goes("net", arp_table_find)
      /\ UNCHANGED <<clock_seconds, arp_table, i, slot, now, clientVars>>
  BY DEF arp_receive, NetStep
<1>2. /\ arp_table_find \in PassType /\ arp_table_find.at \in {"ip", "done"}
      /\ arp_table_find.at = "ip" <=> HasTable
      /\ arp_table_find.i = 0 /\ arp_table_find.res = NotFound
  BY TableConstantsOK DEF arp_table_find, PassAt, PassType, InPass, Entries, HasTable
<1>3. /\ find' \in [Tasks -> PassType] /\ Pass' = arp_table_find
      /\ find'["client"] = find["client"] /\ (HasTable' <=> HasTable)
  BY <1>0, <1>1, <1>2 DEF TypeInv, Goes, Pass, HasTable
<1>4. TypeInv'
  BY <1>0, <1>1, <1>3 DEF TypeInv, clientVars
<1>5. CtrlInv'
  BY <1>0, <1>1, <1>2, <1>3 DEF CtrlInv, Adding, InPass, Pass
<1>6. ReadInv' /\ AddInv' /\ ClearInv'
  <2>1. \A e \in Entries : ~(e < 0)
    BY TableConstantsOK DEF Entries
  <2>2. ReadInv'
    BY <1>1, <1>2, <1>3, <2>1 DEF ReadInv
  <2> QED  BY <1>1, <2>2 DEF AddInv, ClearInv
<1>7. OneEntryPerIp' /\ NoForeignMac'
  BY <1>0, <1>1 DEF IInv, OneEntryPerIp, NoForeignMac, Known, Ready, BeingWritten
<1> QED  BY <1>4, <1>5, <1>6, <1>7 DEF IInv

----------------------------------------------------------------------------
(* The steps of arp_receive that write the table. *)

\* A step that writes the hardware address of the sender to an entry that is
\* the sender's or has been cleared.
LEMMA OwnMac ==
  ASSUME IInv, HasTable, frame \in Frame, npc \notin {"init", "clear"},
         npc' \notin {"clear", "write_mac"}, NEW g \in Entries,
         npc = "write_mac" => g = slot,
         arp_table[g].ip \in {Sender, NULL_IP},
         arp_table' = [arp_table EXCEPT ![g].mac = frame.src_mac]
  PROVE  /\ arp_table' \in [Entries -> Entry] /\ HasTable'
         /\ \A e \in Entries : arp_table'[e].ip = arp_table[e].ip
         /\ OneEntryPerIp' /\ NoForeignMac'
<1>1. /\ arp_table \in [Entries -> Entry] /\ frame.src_mac \in Macs
      /\ Sender # NULL_IP => frame.src_mac = MacOf[Sender]
  BY FrameType DEF IInv, TypeInv, Sender
<1>2. /\ arp_table' \in [Entries -> Entry]
      /\ arp_table'[g].ip = arp_table[g].ip /\ arp_table'[g].mac = frame.src_mac
      /\ \A e \in Entries \ {g} : arp_table'[e] = arp_table[e]
  BY <1>1 DEF Entry
<1>3. HasTable'
  BY <1>2, TableNotNull DEF HasTable
<1>4. \A e \in Entries : arp_table'[e].ip = arp_table[e].ip
  BY <1>2
<1>5. \A e \in Entries : Known(e)' => Known(e)
  BY <1>4 DEF Known, Ready, HasTable
<1>6. OneEntryPerIp'
  BY <1>4, <1>5 DEF IInv, OneEntryPerIp
<1>7. NoForeignMac'
  <2> SUFFICES ASSUME NEW e \in Entries, Known(e)'
               PROVE  arp_table'[e].mac \in {MacOf[arp_table'[e].ip], NULL_MAC}
    BY DEF NoForeignMac
  <2>1. Known(e) /\ arp_table'[e].ip # NULL_IP
    BY <1>5 DEF Known
  <2>2. CASE e = g
    <3>1. arp_table'[e].ip = Sender /\ Sender # NULL_IP
      BY <1>2, <2>1, <2>2
    <3> QED  BY <1>1, <1>2, <2>2, <3>1
  <2>3. CASE e # g
    <3>1. ~BeingWritten(e)
      BY <2>3 DEF BeingWritten
    <3>2. arp_table[e].mac \in {MacOf[arp_table[e].ip], NULL_MAC}
      BY <2>1, <3>1 DEF IInv, NoForeignMac
    <3> QED  BY <1>2, <2>3, <3>2
  <2> QED  BY <2>2, <2>3
<1> QED  BY <1>2, <1>3, <1>4, <1>6, <1>7

\* The address of a known sender is written to the slot found.
LEMMA UpdateInv == IInv /\ arp_table_update => IInv'
<1> SUFFICES ASSUME IInv, arp_table_update PROVE IInv'
  OBVIOUS
<1> DEFINE position == Pass.res
<1>0. TypeInv /\ CtrlInv /\ ReadInv /\ npc = "update" /\ Pass.at = "done" /\ "net" \in Tasks
  BY DEF IInv, arp_table_update, NetStep, Pass, Tasks
<1>1. /\ arp_table' = IF position = NotFound THEN arp_table
                      ELSE [arp_table EXCEPT ![position].mac = frame.src_mac]
      /\ \/ npc' = "search" /\ frame' = frame /\ position = NotFound /\ HasTable
         \/ npc' = "reply" /\ frame' = NoFrame
      /\ Goes("net", NoPass) /\ UNCHANGED <<clock_seconds, i, slot, now, clientVars>>
  BY DEF arp_table_update, NetStep, Pass, HasTable
<1>2. /\ NoPass \in PassType /\ NoPass.at = "none" /\ NoPass.res = NotFound
      /\ position \in Entries \cup {NotFound} /\ frame \in Frame
  BY <1>0, TableConstantsOK
     DEF NoPass, PassAt, PassType, Entries, TypeInv, CtrlInv, Pass
<1>3. /\ find' \in [Tasks -> PassType] /\ Pass' = NoPass
      /\ \A t \in Tasks : find'[t] \in {find[t], NoPass}
  BY <1>0, <1>1, <1>2 DEF TypeInv, Goes, Pass
<1>4. /\ HasTable' <=> HasTable
      /\ HasTable => arp_table' \in [Entries -> Entry]
      /\ \A e \in Entries : arp_table'[e].ip = arp_table[e].ip
      /\ OneEntryPerIp' /\ NoForeignMac'
  <2>1. CASE position = NotFound
    <3>1. arp_table' = arp_table /\ npc' # "clear" /\ npc' # "write_mac"
      BY <1>1, <2>1
    <3>2. OneEntryPerIp' /\ NoForeignMac'
      BY <1>0, <3>1 DEF IInv, OneEntryPerIp, NoForeignMac, Known, Ready, BeingWritten
    <3> QED  BY <1>0, <3>1, <3>2 DEF HasTable, TypeInv
  <2>2. CASE position # NotFound
    <3>1. HasTable /\ arp_table[position].ip \in {Sender, NULL_IP} /\ position \in Entries
      BY <1>0, <1>2, <2>2 DEF CtrlInv, ReadInv, Pass
    <3>2. arp_table' = [arp_table EXCEPT ![position].mac = frame.src_mac]
      BY <1>1, <2>2
    <3> HIDE DEF position
    <3> QED  BY <1>0, <1>1, <1>2, <3>1, <3>2, OwnMac
  <2> QED  BY <2>1, <2>2
<1>5. TypeInv'
  BY <1>0, <1>1, <1>3, <1>4 DEF TypeInv, Adding, clientVars
<1>6. CtrlInv'
  BY <1>0, <1>1, <1>2, <1>3, <1>4 DEF CtrlInv, Adding, InPass
<1>7. ReadInv' /\ ClearInv'
  BY <1>1, <1>2, <1>3 DEF ReadInv, ClearInv
<1>8. AddInv'
  <2>1. npc' = "search" => \A e \in Entries : arp_table[e].ip # Sender \/ Sender = NULL_IP
    BY <1>0, <1>1 DEF ReadInv
  <2>2. npc' = "search" => Sender' = Sender
    BY <1>1 DEF Sender
  <2> QED  BY <1>1, <1>4, <2>1, <2>2 DEF AddInv
<1> QED  BY <1>4, <1>5, <1>6, <1>7, <1>8 DEF IInv

\* A step of the search for a slot reads the table only.
LEMMA SearchInv == IInv /\ search_slot => IInv'
<1> SUFFICES ASSUME IInv, search_slot PROVE IInv'
  OBVIOUS
<1>0. TypeInv /\ CtrlInv /\ AddInv /\ npc = "search" /\ i \in Entries /\ slot \in Entries
  BY DEF IInv, TypeInv, search_slot, NetStep
<1>1. UNCHANGED <<clock_seconds, arp_table, find, frame, now, clientVars>>
  BY DEF search_slot, NetStep
<1>2. slot' \in Entries
  BY <1>0 DEF search_slot, SlotAfter
<1>3. npc' \in {"search", "clock"} /\ i' \in Entries
  BY <1>0, TableConstantsOK DEF search_slot, SearchOver, Entries
<1>4. /\ Pass.at = "none" /\ Pass.res = NotFound /\ Pass' = Pass /\ Sender' = Sender
      /\ HasTable' <=> HasTable
  BY <1>0, <1>1, PassIdle DEF Pass, Sender, HasTable
<1>5. TypeInv'
  BY <1>0, <1>1, <1>2, <1>3, <1>4 DEF TypeInv, Adding, clientVars
<1>6. CtrlInv'
  BY <1>0, <1>1, <1>3, <1>4 DEF CtrlInv, Adding
<1>7. ReadInv' /\ AddInv' /\ ClearInv'
  BY <1>0, <1>1, <1>3, <1>4 DEF ReadInv, AddInv, ClearInv
<1>8. OneEntryPerIp' /\ NoForeignMac'
  BY <1>0, <1>1, <1>3 DEF IInv, OneEntryPerIp, NoForeignMac, Known, Ready, BeingWritten
<1> QED  BY <1>5, <1>6, <1>7, <1>8 DEF IInv

\* Nor does reading the clock change it.
LEMMA ReadNowInv == IInv /\ read_now => IInv'
<1> SUFFICES ASSUME IInv, read_now PROVE IInv'
  OBVIOUS
<1>0. /\ TypeInv /\ CtrlInv /\ AddInv /\ npc = "clock" /\ npc' = "write_ip"
      /\ now' \in Nat
      /\ UNCHANGED <<clock_seconds, arp_table, find, frame, i, slot, clientVars>>
  BY DEF IInv, TypeInv, read_now, NetStep
<1>1. /\ Pass.at = "none" /\ Pass.res = NotFound /\ Pass' = Pass /\ Sender' = Sender
      /\ HasTable' <=> HasTable
  BY <1>0, PassIdle DEF Pass, Sender, HasTable
<1>2. TypeInv' /\ CtrlInv'
  BY <1>0, <1>1 DEF TypeInv, CtrlInv, Adding, clientVars
<1>3. ReadInv' /\ AddInv' /\ ClearInv'
  BY <1>0, <1>1 DEF ReadInv, AddInv, ClearInv
<1>4. OneEntryPerIp' /\ NoForeignMac'
  BY <1>0 DEF IInv, OneEntryPerIp, NoForeignMac, Known, Ready, BeingWritten
<1> QED  BY <1>2, <1>3, <1>4 DEF IInv

\* The ip of the new entry, which is nowhere else in the table.
LEMMA WriteIpInv == IInv /\ write_ip => IInv'
<1> SUFFICES ASSUME IInv, write_ip PROVE IInv'
  OBVIOUS
<1>0. /\ TypeInv /\ CtrlInv /\ AddInv /\ npc = "write_ip" /\ npc' = "write_mac"
      /\ slot \in Entries /\ HasTable /\ frame \in Frame
      /\ arp_table' = [arp_table EXCEPT ![slot].ip = frame.src_ip]
      /\ UNCHANGED <<clock_seconds, find, frame, i, slot, now, clientVars>>
  BY DEF IInv, TypeInv, CtrlInv, Adding, write_ip, NetStep
<1>1. arp_table \in [Entries -> Entry] /\ frame.src_ip \in Ips \cup {NULL_IP}
  BY <1>0, FrameType DEF TypeInv
<1>2. /\ arp_table' \in [Entries -> Entry] /\ arp_table'[slot].ip = Sender
      /\ \A e \in Entries \ {slot} : arp_table'[e] = arp_table[e]
  BY <1>0, <1>1 DEF Sender, Entry
<1>3. /\ Pass.at = "none" /\ Pass.res = NotFound /\ Pass' = Pass /\ Sender' = Sender
      /\ HasTable'
  BY <1>0, <1>2, PassIdle, TableNotNull DEF Pass, Sender, HasTable
<1>4. TypeInv'
  BY <1>0, <1>2, <1>3 DEF TypeInv, Adding, clientVars
<1>5. CtrlInv'
  BY <1>0, <1>3 DEF CtrlInv, Adding
<1>6. ReadInv' /\ AddInv' /\ ClearInv'
  BY <1>0, <1>2, <1>3 DEF ReadInv, AddInv, ClearInv
<1>7. \A e \in Entries : arp_table[e].ip # Sender \/ Sender = NULL_IP
  BY <1>0 DEF AddInv
<1>8. OneEntryPerIp'
  <2> SUFFICES ASSUME NEW e \in Entries, NEW g \in Entries, Known(e)', Known(g)',
                      arp_table'[e].ip = arp_table'[g].ip, e # g
               PROVE  FALSE
    BY DEF OneEntryPerIp
  <2>1. arp_table'[e].ip # NULL_IP /\ arp_table'[g].ip # NULL_IP
    BY DEF Known
  <2>2. CASE e = slot \/ g = slot
    BY <1>2, <1>7, <2>1, <2>2
  <2>3. CASE e # slot /\ g # slot
    <3>1. Known(e) /\ Known(g) /\ arp_table[e].ip = arp_table[g].ip
      BY <1>0, <1>2, <2>1, <2>3 DEF Known, Ready, HasTable
    <3> QED  BY <3>1 DEF IInv, OneEntryPerIp
  <2> QED  BY <2>2, <2>3
<1>9. NoForeignMac'
  <2> SUFFICES ASSUME NEW e \in Entries, Known(e)', ~BeingWritten(e)'
               PROVE  arp_table'[e].mac \in {MacOf[arp_table'[e].ip], NULL_MAC}
    BY DEF NoForeignMac
  <2>1. e # slot
    BY <1>0 DEF BeingWritten
  <2>2. Known(e) /\ ~BeingWritten(e) /\ arp_table'[e] = arp_table[e]
    BY <1>0, <1>2, <2>1 DEF Known, Ready, HasTable, BeingWritten
  <2> QED  BY <2>2 DEF IInv, NoForeignMac
<1> QED  BY <1>4, <1>5, <1>6, <1>8, <1>9 DEF IInv

\* Its hardware address.
LEMMA WriteMacInv == IInv /\ write_mac => IInv'
<1> SUFFICES ASSUME IInv, write_mac PROVE IInv'
  OBVIOUS
<1>0. /\ TypeInv /\ CtrlInv /\ npc = "write_mac" /\ npc' = "write_time"
      /\ slot \in Entries /\ HasTable /\ frame \in Frame
      /\ arp_table' = [arp_table EXCEPT ![slot].mac = frame.src_mac]
      /\ UNCHANGED <<clock_seconds, find, frame, i, slot, now, clientVars>>
  BY DEF IInv, TypeInv, CtrlInv, Adding, write_mac, NetStep
<1>1. arp_table[slot].ip \in {Sender, NULL_IP}
  BY <1>0 DEF IInv, AddInv
<1>2. arp_table' \in [Entries -> Entry] /\ HasTable' /\ OneEntryPerIp' /\ NoForeignMac'
  BY <1>0, <1>1, OwnMac
<1>3. Pass.at = "none" /\ Pass.res = NotFound /\ Pass' = Pass
  BY <1>0, PassIdle DEF Pass
<1>4. TypeInv'
  BY <1>0, <1>2 DEF TypeInv, Adding, clientVars
<1>5. CtrlInv'
  BY <1>0, <1>2, <1>3 DEF CtrlInv, Adding
<1>6. ReadInv' /\ AddInv' /\ ClearInv'
  BY <1>0, <1>3 DEF ReadInv, AddInv, ClearInv
<1> QED  BY <1>2, <1>4, <1>5, <1>6 DEF IInv

\* Its time.
LEMMA WriteTimeInv == IInv /\ write_time => IInv'
<1> SUFFICES ASSUME IInv, write_time PROVE IInv'
  OBVIOUS
<1>0. /\ TypeInv /\ CtrlInv /\ npc = "write_time" /\ npc' = "reply" /\ HasTable
      /\ arp_table' = [arp_table EXCEPT ![slot].entry_time = now]
      /\ slot \in Entries /\ now \in Nat /\ now' = 0 /\ arp_table \in [Entries -> Entry]
      /\ slot' = 0 /\ frame' = NoFrame /\ UNCHANGED <<clock_seconds, find, i, clientVars>>
  BY DEF IInv, TypeInv, CtrlInv, Adding, write_time, NetStep
<1>1. /\ arp_table' \in [Entries -> Entry]
      /\ arp_table'[slot].ip = arp_table[slot].ip /\ arp_table'[slot].mac = arp_table[slot].mac
      /\ \A e \in Entries \ {slot} : arp_table'[e] = arp_table[e]
  BY <1>0, WriteTime
<1>2. HasTable' /\ Faded(arp_table, arp_table') /\ 0 \in Entries
  BY <1>1, TableNotNull, TableConstantsOK DEF HasTable, Faded, Entries
<1>3. Pass.at = "none" /\ Pass.res = NotFound /\ Pass' = Pass
  BY <1>0, PassIdle DEF Pass
<1>4. TypeInv'
  BY <1>0, <1>1, <1>2 DEF TypeInv, clientVars
<1>5. CtrlInv'
  BY <1>0, <1>2, <1>3 DEF CtrlInv, Adding
<1>6. ReadInv' /\ AddInv' /\ ClearInv'
  BY <1>0, <1>3 DEF ReadInv, AddInv, ClearInv
<1>7. OneEntryPerIp' /\ NoForeignMac'
  BY <1>0, <1>2, TableFades
<1> QED  BY <1>4, <1>5, <1>6, <1>7 DEF IInv

\* The answer leaves the table alone.
LEMMA ReplyInv == IInv /\ arp_handle_request => IInv'
<1> SUFFICES ASSUME IInv, arp_handle_request PROVE IInv'
  OBVIOUS
<1>0. /\ TypeInv /\ CtrlInv /\ npc = "reply" /\ npc' = "idle"
      /\ UNCHANGED <<clock_seconds, arp_table, find, frame, i, slot, now, clientVars>>
  BY DEF IInv, arp_handle_request, NetStep
<1>1. /\ Pass.at = "none" /\ Pass.res = NotFound /\ Pass' = Pass
      /\ HasTable' <=> HasTable
  BY <1>0, PassIdle DEF Pass, HasTable
<1>2. TypeInv' /\ CtrlInv'
  BY <1>0, <1>1 DEF TypeInv, CtrlInv, Adding, clientVars
<1>3. ReadInv' /\ AddInv' /\ ClearInv'
  BY <1>0, <1>1 DEF ReadInv, AddInv, ClearInv
<1>4. OneEntryPerIp' /\ NoForeignMac'
  BY <1>0 DEF IInv, OneEntryPerIp, NoForeignMac, Known, Ready, BeingWritten
<1> QED  BY <1>2, <1>3, <1>4 DEF IInv

----------------------------------------------------------------------------
(* The theorems. *)

\* Every step of either task and of the clock keeps the invariant.
LEMMA NextInv == IInv /\ [Next]_vars => IInv'
<1> SUFFICES ASSUME IInv, [Next]_vars PROVE IInv'
  OBVIOUS
<1>1. CASE NetworkTask
  BY <1>1, NetFindInv, RoutingInitInv, ClearEntryInv, UpdateInv, SearchInv, ReadNowInv, WriteIpInv,
     WriteMacInv, WriteTimeInv, ReplyInv, ReceiveInv DEF NetworkTask
<1>2. CASE SendingTask
  BY <1>2, ClientFindInv, ClientInv
<1>3. CASE Tick \/ UNCHANGED vars
  BY <1>3, TickInv
<1> QED  BY <1>1, <1>2, <1>3 DEF Next

LEMMA Invariance == Spec => []IInv
BY InitInv, NextInv, PTL DEF Spec

\* arp_receive never gives a host a second entry (routing.c:143-154), however
\* the tasks interleave, for every size of the table and every set of hosts.
THEOREM NoDuplicateEntry == Spec => []OneEntryPerIp
<1>1. IInv => OneEntryPerIp
  BY DEF IInv
<1> QED  BY <1>1, Invariance, PTL

\* No host's address is ever paired with the hardware address of another: the
\* writes of a task that acts on a stale read (routing.c:57, 62, 154, 176) can
\* lose an entry or keep it too long, but never mix two.
THEOREM NoMixedEntry == Spec => []NoForeignMac
<1>1. IInv => NoForeignMac
  BY DEF IInv
<1> QED  BY <1>1, Invariance, PTL
=============================================================================
