------------------------- MODULE SchedulerRefinement -------------------------
(***************************************************************************)
(* Below the capacity of tasks[], the array ring_buffer[] with its two     *)
(* wrapping indices implements the FIFO of RoundRobin.                     *)
(***************************************************************************)
EXTENDS Scheduler

\* Entries between buffer_start and buffer_end, across the wrap.
Used == (buffer_end - buffer_start) % MAX_TASK_NUMBER

Queue == [k \in 1..Used |-> ring_buffer[(buffer_start + k - 1) % MAX_TASK_NUMBER]]

RR == INSTANCE RoundRobin WITH
        Tasks <- TaskIds, None <- NULL, queue <- Queue, running <- current_task

\* The tick's schedule (insert the current task, then remove the oldest) is
\* one turn of a round robin, and add_task and start_scheduler are its
\* creation and start; no other step of the kernel touches queue or task.
\* This holds for every step that leaves a slot of tasks[] free.
IsRoundRobin ==
  RR!Init /\ [][task_count' < MAX_TASK_NUMBER => RR!Next]_<<Queue, current_task>>
=============================================================================
