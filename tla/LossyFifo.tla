------------------------------ MODULE LossyFifo ------------------------------
(***************************************************************************)
(* What the receive queue promises its two ends: a FIFO of at most         *)
(* Capacity packets.  A packet offered to a full queue is thrown away; any *)
(* other is handled once, in order, and stays what it was while the        *)
(* consumer has it in hand.                                                *)
(***************************************************************************)
EXTENDS Naturals, Sequences

CONSTANTS Packets, None, Capacity

VARIABLES
  queue,    \* packets waiting
  inhand,   \* the packet the consumer works on, or None
  lost,     \* packets thrown away
  handled   \* packets the consumer is done with, in order

Init == queue = <<>> /\ inhand = None /\ lost = {} /\ handled = <<>>

Offer(p) ==
  \/ /\ Len(queue) < Capacity
     /\ queue' = Append(queue, p)
     /\ UNCHANGED <<inhand, lost, handled>>
  \/ /\ Len(queue) = Capacity
     /\ lost' = lost \cup {p}
     /\ UNCHANGED <<queue, inhand, handled>>

Take ==
  /\ inhand = None
  /\ queue # <<>>
  /\ inhand' = Head(queue)
  /\ queue' = Tail(queue)
  /\ UNCHANGED <<lost, handled>>

Finish ==
  /\ inhand # None
  /\ handled' = Append(handled, inhand)
  /\ inhand' = None
  /\ UNCHANGED <<queue, lost>>

Next == Take \/ Finish \/ \E p \in Packets : Offer(p)

Spec == Init /\ [][Next]_<<queue, inhand, lost, handled>>
=============================================================================
