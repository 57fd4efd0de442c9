------------------------------- MODULE ArpTable -------------------------------
(***************************************************************************)
(* The data of routing.c: the entries of the ARP table and the decisions   *)
(* its loops take on what they have read.  Addresses are numbers; 0 is     *)
(* both the null ip and NULL_MAC.                                          *)
(***************************************************************************)
EXTENDS Integers

CONSTANTS
  MAX_ARP_TABLE_ENTRIES,
  MAX_ARP_TABLE_AGE,
  Ips,                  \* addresses of the hosts on the network
  MacOf                 \* the hardware address of each

ASSUME TableConstantsOK ==
  /\ MAX_ARP_TABLE_ENTRIES \in Nat \ {0}
  /\ MAX_ARP_TABLE_AGE \in Nat
  /\ Ips \subseteq Nat \ {0}
  /\ MacOf \in [Ips -> Nat \ {0}]
  /\ \A a, b \in Ips : MacOf[a] = MacOf[b] => a = b

Entries  == 0..(MAX_ARP_TABLE_ENTRIES - 1)
NULL_IP  == 0
NULL_MAC == 0
NotFound == -1
Macs     == {MacOf[a] : a \in Ips} \cup {NULL_MAC}
Entry    == [ip : Ips \cup {NULL_IP}, mac : Macs, entry_time : Nat]

ARP_NULL_ENTRY == [ip |-> NULL_IP, mac |-> NULL_MAC, entry_time |-> 0]

\* entry_time 0 marks a free slot, which has no age.
Expired(time, now) == time # 0 /\ now - time > MAX_ARP_TABLE_AGE

\* One round of the search in arp_table_add_entry, at i with the best slot so
\* far: a free slot ends it, an older entry is preferred.
SlotAfter(table, i, slot) ==
  IF table[i].entry_time = 0 \/ table[i].entry_time < table[slot].entry_time THEN i ELSE slot

SearchOver(table, i) == table[i].entry_time = 0 \/ i = MAX_ARP_TABLE_ENTRIES - 1

\* The address at a position that arp_table_find returned earlier, whatever the
\* slot holds by now.
MacAt(table, position) == IF position = NotFound THEN NULL_MAC ELSE table[position].mac
=============================================================================
