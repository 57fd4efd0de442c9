------------------------------- MODULE MC_Arp -------------------------------
(* Instances of Arp for model checking. *)
EXTENDS Arp

\* Host a has hardware address 10 + a.
MacOfHosts == [a \in Ips |-> 10 + a]

\* A cleared entry, and one that looks like an entry of a wrong address.
UsedMemory == {ARP_NULL_ENTRY, [ip |-> 1, mac |-> 12, entry_time |-> 1]}
\* Memory that happens to be clear.
ClearMemory == {ARP_NULL_ENTRY}
=============================================================================
