------------------------------ MODULE Allocator ------------------------------
(***************************************************************************)
(* What malloc and free promise: memory inside the heap, aligned, that     *)
(* nobody else has been given and not yet returned.                        *)
(***************************************************************************)
EXTENDS Integers

CONSTANTS
  First, Limit,   \* the heap is the bytes First .. Limit - 1
  Alignment,
  Sizes           \* sizes that are asked for

VARIABLE live     \* the size asked for, for every pointer handed out

Disjoint(p, m, q, n) == p + m <= q \/ q + n <= p

Init == live = [p \in {} |-> 0]

Alloc(p, n) ==
  /\ p \notin DOMAIN live
  /\ p % Alignment = 0
  /\ First <= p /\ p + n <= Limit
  /\ \A q \in DOMAIN live : Disjoint(p, n, q, live[q])
  /\ live' = [q \in DOMAIN live \cup {p} |-> IF q = p THEN n ELSE live[q]]

Free(p) ==
  /\ p \in DOMAIN live
  /\ live' = [q \in DOMAIN live \ {p} |-> live[q]]

Next ==
  \/ \E p \in First..Limit, n \in Sizes : Alloc(p, n)
  \/ \E p \in DOMAIN live : Free(p)

Spec == Init /\ [][Next]_live
=============================================================================
