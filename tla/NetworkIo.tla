----------------------------- MODULE NetworkIo ------------------------------
(* Byte order of hardware addresses (network/network_io.c).  An address is a   *)
(* function from byte number, in the order of memory, to bytes.                *)
EXTENDS Integers

CONSTANT BigEndian       \* is_big_endian(): bit 1 of SYS_CFGDATA2

\* the loops of hton_mac and ntoh_mac
Swap(w, n) == [i \in 0 .. n - 1 |-> w[n - 1 - i]]

hton_mac(mac) == IF BigEndian THEN mac ELSE Swap(mac, 6)
Bad_ntoh_mac(mac) == mac
ntoh_mac(mac) == IF BigEndian THEN mac ELSE Swap(mac, 6)
=============================================================================
