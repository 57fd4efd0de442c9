----------------------------- MODULE RoundRobin -----------------------------
(***************************************************************************)
(* What the scheduler promises: a FIFO of waiting tasks and one running    *)
(* task.  A task that is created goes to the tail of the queue, the first  *)
(* start takes the head, and every turn of the wheel runs the head and     *)
(* puts the task that ran at the tail.  Nothing else changes either.       *)
(***************************************************************************)
EXTENDS Sequences, SequencesExt

CONSTANTS Tasks, None

VARIABLES queue, running

Init == queue = <<>> /\ running = None

Create(t) ==
  /\ t # running
  /\ ~Contains(queue, t)
  /\ queue' = Append(queue, t)
  /\ UNCHANGED running

Start ==
  /\ running = None
  /\ queue # <<>>
  /\ running' = Head(queue)
  /\ queue' = Tail(queue)

Rotate ==
  /\ running # None
  /\ queue # <<>>
  /\ running' = Head(queue)
  /\ queue' = Append(Tail(queue), running)

Next == Start \/ Rotate \/ \E t \in Tasks : Create(t)

Spec == Init /\ [][Next]_<<queue, running>>
=============================================================================
