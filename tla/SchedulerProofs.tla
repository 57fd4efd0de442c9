--------------------------- MODULE SchedulerProofs ---------------------------
(***************************************************************************)
(* Proofs about Scheduler, for every size of tasks[], every number of boot *)
(* tasks and every bound; and that it implements RoundRobin, for any       *)
(* number of tasks below the size of tasks[].                              *)
(***************************************************************************)
EXTENDS SchedulerRefinement, CommonLemmas, TLAPS

----------------------------------------------------------------------------
(* The wrapping indices, as linear arithmetic. *)

In(s, e, i)  == IF s <= e THEN s <= i /\ i < e ELSE s <= i \/ i < e
Size(s, e)   == IF s <= e THEN e - s ELSE e - s + MAX_TASK_NUMBER

\* (i + 1) % MAX_TASK_NUMBER is the successor of an index, with one wrap.
LEMMA NextIndexIs ==
  \A i \in TaskIds :
    /\ NextIndex(i) = IF i = MAX_TASK_NUMBER - 1 THEN 0 ELSE i + 1
    /\ NextIndex(i) \in TaskIds
BY ConstantsOK DEF NextIndex, TaskIds

\* A successful ring_buffer_insert occupies exactly the slot it writes; it is
\* refused exactly when one slot is left.
LEMMA InsertSlot ==
  ASSUME NEW s \in TaskIds, NEW e \in TaskIds
  PROVE  /\ ~In(s, e, e)
         /\ Size(s, e) \in 0..(MAX_TASK_NUMBER - 1)
         /\ NextIndex(e) = s <=> Size(s, e) = MAX_TASK_NUMBER - 1
         /\ NextIndex(e) # s =>
              /\ Size(s, NextIndex(e)) = Size(s, e) + 1
              /\ \A i \in TaskIds : In(s, NextIndex(e), i) <=> In(s, e, i) \/ i = e
BY ConstantsOK, NextIndexIs DEF In, Size, TaskIds

\* A ring_buffer_remove that finds an entry frees exactly the slot it reads.
LEMMA RemoveSlot ==
  ASSUME NEW s \in TaskIds, NEW e \in TaskIds, s # e
  PROVE  /\ In(s, e, s)
         /\ Size(NextIndex(s), e) = Size(s, e) - 1
         /\ \A i \in TaskIds : In(NextIndex(s), e, i) <=> In(s, e, i) /\ i # s
BY ConstantsOK, NextIndexIs DEF In, Size, TaskIds

----------------------------------------------------------------------------
(* The inductive invariant. *)

\* TypeOK in two parts: the ring, and the rest.
RingType ==
  /\ task_count \in 0..MAX_TASK_NUMBER
  /\ buffer_start \in TaskIds /\ buffer_end \in TaskIds
  /\ ring_buffer \in [TaskIds -> TaskIds \cup {NULL}]
  /\ current_task \in TaskIds \cup {NULL}

RestType ==
  /\ isRunning \in {0, 1}
  /\ tasks \in [TaskIds -> Context]
  /\ cpu \in Context
  /\ irq_status \subseteq Irqs
  /\ timer_on \in {0, 1}
  /\ clock \in Nat
  /\ errno \in Errno
  /\ reached \in [TaskIds -> Nat]

\* Entries of the ring plus the task that runs.
Held == Size(buffer_start, buffer_end) + (IF current_task = NULL THEN 0 ELSE 1)

\* What the ring holds are created tasks, each once, and not the current one.
RingInv ==
  \A i \in TaskIds :
    InRing(i) =>
      /\ ring_buffer[i] \in 0..(task_count - 1)
      /\ ring_buffer[i] # current_task
      /\ \A j \in TaskIds : InRing(j) /\ ring_buffer[i] = ring_buffer[j] => i = j

\* At most one of the created tasks is missing, and none of them before
\* tasks[] is full: then the ring, one entry smaller, has always had room.
CountInv ==
  /\ task_count - 1 <= Held /\ Held <= task_count
  /\ task_count < MAX_TASK_NUMBER => Held = task_count
  /\ Held = task_count => NoTaskLost
  /\ AtMostOneTaskLost

\* Which thread can be on the CPU or in a saved context, and when.
ThreadInv ==
  /\ cpu.thread = Boot =>
       /\ cpu.pos \in BootPositions
       /\ cpu.pos <= AtStart <=> isRunning = 0
       /\ cpu.pos > AtAddTask => task_count >= BootTasks
  /\ cpu.thread # Boot => isRunning = 1
  /\ cpu.thread # NULL
  /\ isRunning = 0 <=> current_task = NULL
  /\ isRunning = 1 => current_task < task_count
  /\ \A t \in TaskIds : t < task_count =>
       /\ tasks[t].thread # NULL
       /\ tasks[t].thread = Boot => tasks[t].pos \in {AtTimerStart, AtLoad}
       /\ tasks[t].thread = Boot => isRunning = 1
  /\ isRunning = 1 => task_count >= BootTasks

IInv == RingType /\ RestType /\ RingInv /\ CountInv /\ ThreadInv

\* The ring part of the state.
RingView == <<task_count, ring_buffer, buffer_start, buffer_end, current_task>>

\* A step that leaves the ring buffer and its indices alone keeps the ring's part.
LEMMA RingStutter ==
  ASSUME RingInv, CountInv, UNCHANGED RingView
  PROVE  RingInv' /\ CountInv'
BY DEF RingInv, CountInv, RingView, InRing, Held, Size, NoTaskLost,
       AtMostOneTaskLost, Created, Runnable

\* The invariant holds at boot.
LEMMA InitInv == Init => IInv
<1> SUFFICES ASSUME Init PROVE IInv
  OBVIOUS
<1>1. RingType /\ RestType
  BY ConstantsOK DEF Init, RingType, RestType, TaskIds, Context, Errno, NULL, Boot, AtAddTask, Irqs
<1>2. RingInv
  BY ConstantsOK DEF Init, RingInv, InRing, TaskIds
<1>3. CountInv
  BY ConstantsOK DEF Init, CountInv, Held, Size, NoTaskLost, AtMostOneTaskLost,
                     Created, TaskIds, NULL
<1>4. ThreadInv
  BY ConstantsOK DEF Init, ThreadInv, Boot, NULL, AtAddTask, AtLoad, AtStart,
                     BootPositions, TaskIds
<1> QED
  BY <1>1, <1>2, <1>3, <1>4 DEF IInv

----------------------------------------------------------------------------
(* The ring under add_task, schedule and the removal of start_scheduler. *)

CurrentCreated == current_task = NULL \/ current_task < task_count

\* add_task keeps the ring's part.
LEMMA AddTaskRing ==
  ASSUME RingType, RingInv, CountInv, CurrentCreated, add_task("svc"), UNCHANGED current_task
  PROVE  RingType' /\ RingInv' /\ CountInv' /\ CurrentCreated'
<1> USE DEF RingType
<1>1. CASE task_count >= MAX_TASK_NUMBER
  <2>1. UNCHANGED RingView
    BY <1>1, ConstantsOK DEF add_task, is_privileged, RingView, ringVars
  <2> QED
    BY <2>1, RingStutter DEF RingView, CurrentCreated
<1>2. CASE task_count < MAX_TASK_NUMBER /\ NextIndex(buffer_end) = buffer_start
  <2>1. /\ task_count' = task_count + 1
        /\ UNCHANGED <<ring_buffer, buffer_start, buffer_end, current_task>>
    BY <1>2, ConstantsOK DEF add_task, is_privileged, ring_buffer_insert
  <2>2. Held = task_count /\ task_count = MAX_TASK_NUMBER - 1 /\ Held' = Held
    BY <1>2, <2>1, InsertSlot, ConstantsOK DEF CountInv, Held
  <2>3. RingInv'
    BY <2>1 DEF RingInv, InRing
  <2>4. NoTaskLost
    BY <2>2 DEF CountInv
  <2>5. \A t \in TaskIds : Created(t)' /\ ~Runnable(t)' => t = task_count
    BY <2>1, <2>4 DEF NoTaskLost, Created, Runnable, InRing, TaskIds
  <2>6. CountInv'
    BY <2>1, <2>2, <2>5, ConstantsOK DEF CountInv, AtMostOneTaskLost
  <2> QED
    BY <1>2, <2>1, <2>3, <2>6, ConstantsOK DEF CurrentCreated, TaskIds, NULL
<1>3. CASE task_count < MAX_TASK_NUMBER /\ NextIndex(buffer_end) # buffer_start
  <2>1. /\ task_count' = task_count + 1
        /\ ring_buffer' = [ring_buffer EXCEPT ![buffer_end] = task_count]
        /\ buffer_end' = NextIndex(buffer_end)
        /\ UNCHANGED <<buffer_start, current_task>>
    BY <1>3, ConstantsOK DEF add_task, is_privileged, ring_buffer_insert
  <2>2. \A i \in TaskIds : InRing(i)' <=> InRing(i) \/ i = buffer_end
    BY <1>3, <2>1, InsertSlot DEF InRing, In
  <2>3. ~InRing(buffer_end)
    BY InsertSlot DEF InRing, In
  <2>4. Held' = Held + 1
    BY <1>3, <2>1, InsertSlot DEF Held, Size, TaskIds
  <2>5. Held = task_count /\ NoTaskLost
    BY <1>3 DEF CountInv
  <2>6. RingType'
    BY <1>3, <2>1, NextIndexIs, ConstantsOK DEF TaskIds
  <2>7. current_task # task_count
    BY DEF CurrentCreated, NULL, TaskIds
  <2>8. RingInv'
    BY <1>3, <2>1, <2>2, <2>3, <2>7 DEF RingInv, TaskIds
  <2>9. NoTaskLost'
    BY <1>3, <2>1, <2>2, <2>3, <2>5 DEF NoTaskLost, Created, Runnable, TaskIds
  <2>10. CountInv'
    BY <2>1, <2>4, <2>5, <2>9, ConstantsOK DEF CountInv, AtMostOneTaskLost, NoTaskLost
  <2> QED
    BY <2>1, <2>6, <2>8, <2>10 DEF CurrentCreated, TaskIds, NULL
<1> QED
  BY <1>1, <1>2, <1>3, ConstantsOK

\* So does schedule, which rotates the ring,
LEMMA ScheduleRing ==
  ASSUME RingType, RingInv, CountInv, CurrentCreated, current_task # NULL,
         schedule, UNCHANGED task_count
  PROVE  RingType' /\ RingInv' /\ CountInv' /\ CurrentCreated' /\ current_task' # NULL
<1> USE DEF RingType
<1> current_task \in TaskIds /\ current_task < task_count
  BY DEF CurrentCreated
<1>1. CASE NextIndex(buffer_end) = buffer_start
  <2>1. Size(buffer_start, buffer_end) = MAX_TASK_NUMBER - 1
    BY <1>1, InsertSlot
  <2>2. buffer_start # buffer_end
    BY <2>1, ConstantsOK DEF Size, TaskIds
  <2>3. /\ current_task' = ring_buffer[buffer_start]
        /\ buffer_start' = NextIndex(buffer_start)
        /\ UNCHANGED <<ring_buffer, buffer_end, task_count>>
    BY <1>1, <2>2 DEF schedule, ring_buffer_insert, ring_buffer_remove
  <2>4. /\ InRing(buffer_start)
        /\ \A i \in TaskIds : InRing(i)' <=> InRing(i) /\ i # buffer_start
    BY <2>2, <2>3, RemoveSlot DEF InRing, In
  <2>5. RingType' /\ current_task' \in 0..(task_count - 1)
    BY <2>3, <2>4, NextIndexIs, ConstantsOK DEF RingInv, TaskIds
  <2>6. CurrentCreated' /\ current_task' # NULL
    BY <2>3, <2>5 DEF CurrentCreated, NULL
  <2>7. RingInv'
    BY <2>3, <2>4, <2>5 DEF RingInv
  <2>8. Held = task_count /\ task_count = MAX_TASK_NUMBER /\ NoTaskLost
    BY <2>1, ConstantsOK DEF CountInv, Held
  <2>9. Held' = Held - 1
    BY <2>2, <2>3, <2>6, RemoveSlot, InsertSlot DEF Held
  <2>10. \A t \in TaskIds : Created(t)' /\ ~Runnable(t)' => t = current_task
    BY <2>3, <2>4, <2>8 DEF NoTaskLost, Created, Runnable
  <2>11. CountInv'
    BY <2>3, <2>8, <2>9, <2>10, ConstantsOK DEF CountInv, AtMostOneTaskLost
  <2> QED
    BY <2>5, <2>6, <2>7, <2>11
<1>2. CASE NextIndex(buffer_end) # buffer_start
  <2> DEFINE buf == [ring_buffer EXCEPT ![buffer_end] = current_task]
             end == NextIndex(buffer_end)
  <2>1. end \in TaskIds /\ buffer_start # end
    BY <1>2, NextIndexIs
  <2>2. /\ ring_buffer' = buf /\ buffer_end' = end
        /\ current_task' = buf[buffer_start]
        /\ buffer_start' = NextIndex(buffer_start)
        /\ UNCHANGED task_count
    BY <1>2 DEF schedule, ring_buffer_insert, ring_buffer_remove
  <2>3. ~InRing(buffer_end)
    BY InsertSlot DEF InRing, In
  <2>4. \A i \in TaskIds : InRing(i)' <=> (InRing(i) \/ i = buffer_end) /\ i # buffer_start
    BY <1>2, <2>1, <2>2, InsertSlot, RemoveSlot DEF InRing, In
  <2>5. InRing(buffer_start) \/ buffer_start = buffer_end
    BY RemoveSlot DEF InRing, In
  <2>6. buf \in [TaskIds -> TaskIds \cup {NULL}]
    OBVIOUS
  <2>7. current_task' \in 0..(task_count - 1)
    BY <2>2, <2>5 DEF RingInv, TaskIds
  <2>8. RingType' /\ CurrentCreated' /\ current_task' # NULL
    <3>1. current_task' \in TaskIds /\ CurrentCreated' /\ current_task' # NULL
      BY <2>2, <2>7, ConstantsOK DEF TaskIds, CurrentCreated, NULL
    <3>2. buffer_start' \in TaskIds /\ buffer_end' \in TaskIds
      BY <2>1, <2>2, NextIndexIs
    <3> QED
      BY <3>1, <3>2, <2>2, <2>6
  <2>9. RingInv'
    BY <2>2, <2>3, <2>4, <2>5, <2>7 DEF RingInv, TaskIds
  <2>10. Size(buffer_start, buffer_end)' = Size(buffer_start, buffer_end)
    <3>1. Size(buffer_start, end) = Size(buffer_start, buffer_end) + 1
      BY <1>2, InsertSlot
    <3>2. Size(NextIndex(buffer_start), end) = Size(buffer_start, end) - 1
      BY <2>1, RemoveSlot
    <3>3. Size(buffer_start, buffer_end) \in Int
      BY InsertSlot, ConstantsOK
    <3> QED
      BY <3>1, <3>2, <3>3, <2>2
  <2>11. Held' = Held
    BY <2>8, <2>10 DEF Held
  <2>12. \A t \in TaskIds : Runnable(t) => Runnable(t)'
    BY <2>2, <2>3, <2>4, <2>5 DEF Runnable
  <2>13. CountInv'
    BY <2>2, <2>11, <2>12 DEF CountInv, NoTaskLost, AtMostOneTaskLost, Created
  <2> QED
    BY <2>8, <2>9, <2>13
<1> QED
  BY <1>1, <1>2

\* and start_scheduler, which takes the first task.
LEMMA StartRing ==
  ASSUME RingType, RingInv, CountInv, current_task = NULL, task_count >= 1,
         ring_buffer_remove(ring_buffer, buffer_end),
         UNCHANGED <<task_count, ring_buffer, buffer_end>>
  PROVE  RingType' /\ RingInv' /\ CountInv' /\ CurrentCreated' /\ current_task' # NULL
<1> USE DEF RingType
<1>1. buffer_start # buffer_end
  BY ConstantsOK DEF CountInv, Held, Size, TaskIds
<1>2. current_task' = ring_buffer[buffer_start] /\ buffer_start' = NextIndex(buffer_start)
  BY <1>1 DEF ring_buffer_remove
<1>3. /\ InRing(buffer_start)
      /\ \A i \in TaskIds : InRing(i)' <=> InRing(i) /\ i # buffer_start
  BY <1>1, <1>2, RemoveSlot DEF InRing, In
<1>4. RingType' /\ CurrentCreated' /\ current_task' # NULL
  BY <1>2, <1>3, NextIndexIs, ConstantsOK DEF RingInv, TaskIds, CurrentCreated, NULL
<1>5. RingInv'
  BY <1>2, <1>3 DEF RingInv
<1>6. Held' = Held
  BY <1>1, <1>2, <1>4, RemoveSlot, InsertSlot, ConstantsOK DEF Held
<1>7. \A t \in TaskIds : Runnable(t) => Runnable(t)'
  BY <1>2, <1>3 DEF Runnable, NULL, TaskIds
<1>8. CountInv'
  BY <1>6, <1>7 DEF CountInv, NoTaskLost, AtMostOneTaskLost, Created
<1> QED
  BY <1>4, <1>5, <1>8

----------------------------------------------------------------------------
(* Every step preserves the invariant. *)

\* The boot code keeps the invariant.
LEMMA BootNextInv == IInv /\ BootNext => IInv'
<1> SUFFICES ASSUME IInv, BootNext PROVE IInv'
  OBVIOUS
<1> USE DEF AtAddTask, AtTimeInit, AtStart, AtTimerStart, AtLoad
<1>0. RingType /\ RestType /\ RingInv /\ CountInv /\ ThreadInv /\ CurrentCreated
  BY DEF IInv, ThreadInv, CurrentCreated, RestType
<1>1. CASE BootAddTask
  <2>1. add_task("svc") /\ UNCHANGED <<isRunning, current_task, cpu, irq_status, timer_on, clock, reached>>
    BY <1>1 DEF BootAddTask
  <2>2. RingType' /\ RingInv' /\ CountInv'
    BY <1>0, <2>1, AddTaskRing
  <2>3. \/ tasks' = tasks /\ task_count' = task_count
        \/ /\ task_count' = task_count + 1
           /\ tasks' = [tasks EXCEPT ![task_count] = [thread |-> task_count, pos |-> 0]]
           /\ task_count \in TaskIds
    BY <1>0, <2>1, ConstantsOK DEF add_task, is_privileged, init_task, RingType, TaskIds
  <2>4. RestType'
    BY <1>0, <2>1, <2>3 DEF RestType, Context, add_task, is_privileged, Errno
  <2>5. ThreadInv'
    <3>1. CASE tasks' = tasks /\ task_count' = task_count
      BY <1>0, <2>1, <3>1 DEF ThreadInv
    <3>2. CASE /\ task_count' = task_count + 1
               /\ tasks' = [tasks EXCEPT ![task_count] = [thread |-> task_count, pos |-> 0]]
               /\ task_count \in TaskIds
      BY <1>0, <2>1, <3>2, ConstantsOK
         DEF ThreadInv, RingType, RestType, TaskIds, NULL, Boot
    <3> QED
      BY <2>3, <3>1, <3>2
  <2> QED
    BY <2>2, <2>4, <2>5 DEF IInv
<1>2. CASE BootTasksAdded \/ time_init \/ timer_start
  <2>1. UNCHANGED <<RingView, isRunning, tasks, clock, errno, reached>>
    BY <1>2 DEF BootTasksAdded, time_init, timer_start, RingView, ringVars
  <2>2. RingType' /\ RingInv' /\ CountInv'
    BY <1>0, <2>1, RingStutter DEF RingView, RingType
  <2>3. RestType'
    BY <1>0, <1>2, <2>1
       DEF RestType, Context, BootTasksAdded, time_init, timer_start, BootGoes
  <2>4. ThreadInv'
    BY <1>0, <1>2, <2>1
       DEF ThreadInv, RestType, Context, RingView, BootTasksAdded, time_init,
           timer_start, BootGoes, BootAt, BootPositions, Boot, NULL
  <2> QED
    BY <2>2, <2>3, <2>4 DEF IInv
<1>3. CASE start_scheduler
  <2>1. current_task = NULL /\ task_count >= 1
    BY <1>0, <1>3, ConstantsOK DEF start_scheduler, ThreadInv, BootAt, RingType
  <2>2. RingType' /\ RingInv' /\ CountInv' /\ CurrentCreated' /\ current_task' # NULL
    BY <1>0, <1>3, <2>1, StartRing DEF start_scheduler
  <2>3. RestType'
    BY <1>0, <1>3 DEF RestType, Context, start_scheduler, timer_stop, BootGoes
  <2>4. ThreadInv'
    BY <1>0, <1>3, <2>2
       DEF ThreadInv, start_scheduler, BootGoes, BootAt, BootPositions, Boot, NULL,
           CurrentCreated
  <2> QED
    BY <2>2, <2>3, <2>4 DEF IInv
<1>4. CASE load_current_task_state
  <2>1. UNCHANGED <<RingView, isRunning, tasks, clock, errno, reached, irq_status, timer_on>>
    BY <1>4 DEF load_current_task_state, RingView, ringVars
  <2>2. RingType' /\ RingInv' /\ CountInv'
    BY <1>0, <2>1, RingStutter DEF RingView, RingType
  <2>3. isRunning = 1 /\ current_task \in TaskIds /\ current_task < task_count
    BY <1>0, <1>4 DEF load_current_task_state, BootAt, ThreadInv, RestType, RingType
  <2>4. RestType'
    BY <1>0, <1>4, <2>1, <2>3 DEF RestType, load_current_task_state
  <2>5. ThreadInv'
    BY <1>0, <1>4, <2>1, <2>3
       DEF ThreadInv, RestType, RingView, load_current_task_state, BootPositions
  <2> QED
    BY <2>2, <2>4, <2>5 DEF IInv
<1> QED
  BY <1>1, <1>2, <1>3, <1>4 DEF BootNext

\* An interrupt that is raised keeps it.
LEMMA RaiseIrqInv == ASSUME NEW line \in Irqs PROVE IInv /\ RaiseIrq(line) => IInv'
<1> SUFFICES ASSUME IInv, RaiseIrq(line) PROVE IInv'
  OBVIOUS
<1>1. UNCHANGED <<RingView, isRunning, tasks, cpu, clock, errno, reached, timer_on>>
  BY DEF RaiseIrq, RingView, ringVars
<1>2. RingType' /\ RingInv' /\ CountInv'
  BY <1>1, RingStutter DEF IInv, RingView, RingType
<1>3. RestType'
  BY <1>1 DEF IInv, RestType, RaiseIrq
<1>4. ThreadInv'
  BY <1>1 DEF IInv, ThreadInv, RingView
<1> QED
  BY <1>2, <1>3, <1>4 DEF IInv

\* The interrupt handler keeps it.
LEMMA IrqHandlerInv == IInv /\ irq_handler => IInv'
<1> SUFFICES ASSUME IInv, irq_handler PROVE IInv'
  OBVIOUS
<1>0. RingType /\ RestType /\ RingInv /\ CountInv /\ ThreadInv
  BY DEF IInv
<1>1. isRunning = 1 /\ current_task \in TaskIds /\ current_task < task_count
  BY <1>0 DEF irq_handler, IrqEnabled, ThreadInv, RestType, RingType, Context,
              AtTimerStart, AtStart, BootPositions
<1>2. CurrentCreated /\ current_task # NULL
  BY <1>1, <1>0 DEF CurrentCreated, ThreadInv
<1>3. UNCHANGED <<task_count, isRunning, timer_on, errno, reached>>
  BY DEF irq_handler
<1>4. /\ RingType' /\ RingInv' /\ CountInv'
      /\ current_task' \in TaskIds /\ current_task' # NULL /\ current_task' < task_count
  <2>1. CASE "TIMER1" \in irq_status
    <3>1. schedule
      BY <2>1 DEF irq_handler, handle_interrupt, irq_handler_timer
    <3>2. RingType' /\ RingInv' /\ CountInv' /\ CurrentCreated' /\ current_task' # NULL
      BY <1>0, <1>2, <1>3, <3>1, ScheduleRing
    <3> QED
      BY <1>3, <3>2 DEF RingType, CurrentCreated
  <2>2. CASE "TIMER1" \notin irq_status
    <3>1. UNCHANGED RingView
      BY <2>2, <1>3 DEF irq_handler, handle_interrupt, RingView, ringVars
    <3> QED
      BY <1>0, <1>1, <1>2, <3>1, RingStutter DEF RingView, RingType
  <2> QED
    BY <2>1, <2>2
<1>5. tasks' = [tasks EXCEPT ![current_task] = cpu] /\ cpu' = tasks'[current_task']
  BY DEF irq_handler, save_current_task_state
<1>6. clock' \in Nat /\ irq_status' \subseteq irq_status
  BY <1>0, ConstantsOK DEF irq_handler, handle_interrupt, irq_handler_clock, RestType
<1>7. RestType'
  BY <1>0, <1>1, <1>3, <1>4, <1>5, <1>6 DEF RestType
<1>8. cpu.thread = Boot => cpu.pos \in {AtTimerStart, AtLoad}
  BY <1>0, <1>1 DEF ThreadInv, BootPositions, AtAddTask, AtStart, AtTimerStart, AtLoad
<1>9. ThreadInv'
  BY <1>0, <1>1, <1>3, <1>4, <1>5, <1>8
     DEF ThreadInv, RestType, RingType, BootPositions, AtAddTask, AtStart, AtTimerStart, AtLoad
<1> QED
  BY <1>4, <1>7, <1>9 DEF IInv

\* The steps of a task keep it.
LEMMA TaskNextInv == ASSUME NEW t \in TaskIds PROVE IInv /\ TaskNext(t) => IInv'
<1> SUFFICES ASSUME IInv, TaskNext(t) PROVE IInv'
  OBVIOUS
<1>0. /\ RingType /\ RestType /\ RingInv /\ CountInv /\ ThreadInv /\ CurrentCreated
      /\ TaskAdvances(t)
  BY DEF IInv, ThreadInv, CurrentCreated, RestType, TaskNext, TaskStep, syscall, AddTaskDirectly
<1>1. cpu' \in Context /\ reached' \in [TaskIds -> Nat] /\ cpu'.thread = t /\ cpu.thread = t
  BY <1>0, ConstantsOK DEF TaskAdvances, RestType, Context
<1>2. isRunning = 1 /\ t # NULL /\ t # Boot
  BY <1>0, <1>1, ConstantsOK DEF ThreadInv, Boot, NULL, TaskIds
<1>3. CASE syscall(t, CREATE_PROCESS)
  <2>1. add_task("svc") /\ UNCHANGED <<isRunning, current_task, irq_status, timer_on, clock>>
    BY <1>3 DEF syscall, syscall_dispatcher, create_process_dispatch, CREATE_PROCESS,
                ZERO_SYSCALL, SHUTDOWN
  <2>2. RingType' /\ RingInv' /\ CountInv'
    BY <1>0, <2>1, AddTaskRing
  <2>3. \/ tasks' = tasks /\ task_count' = task_count
        \/ /\ task_count' = task_count + 1
           /\ tasks' = [tasks EXCEPT ![task_count] = [thread |-> task_count, pos |-> 0]]
           /\ task_count \in TaskIds
    BY <1>0, <2>1, ConstantsOK DEF add_task, is_privileged, init_task, RingType, TaskIds
  <2>4. RestType'
    BY <1>0, <1>1, <2>1, <2>3 DEF RestType, Context, add_task, is_privileged, Errno
  <2>5. ThreadInv'
    <3>1. CASE tasks' = tasks /\ task_count' = task_count
      BY <1>0, <1>1, <1>2, <2>1, <3>1 DEF ThreadInv
    <3>2. CASE /\ task_count' = task_count + 1
               /\ tasks' = [tasks EXCEPT ![task_count] = [thread |-> task_count, pos |-> 0]]
               /\ task_count \in TaskIds
      BY <1>0, <1>1, <1>2, <2>1, <3>2, ConstantsOK
         DEF ThreadInv, RingType, RestType, TaskIds, NULL, Boot
    <3> QED
      BY <2>3, <3>1, <3>2
  <2> QED
    BY <2>2, <2>4, <2>5 DEF IInv
<1>4. CASE TaskStep(t) \/ AddTaskDirectly(t)
            \/ \E n \in SyscallNumbers \ {CREATE_PROCESS} : syscall(t, n)
  <2>1. /\ UNCHANGED <<RingView, isRunning, tasks, irq_status, timer_on, clock>>
        /\ errno' \in Errno
    BY <1>0, <1>4 DEF TaskStep, AddTaskDirectly, syscall, syscall_dispatcher, add_task,
                      is_privileged, RingView, ringVars, Errno, RestType
  <2>2. RingType' /\ RingInv' /\ CountInv'
    BY <1>0, <2>1, RingStutter DEF RingView, RingType
  <2>3. RestType'
    BY <1>0, <1>1, <2>1 DEF RestType
  <2>4. ThreadInv'
    BY <1>0, <1>1, <1>2, <2>1 DEF ThreadInv, RingView
  <2> QED
    BY <2>2, <2>3, <2>4 DEF IInv
<1> QED
  BY <1>3, <1>4 DEF TaskNext

\* Every step keeps the invariant.
LEMMA NextInv == IInv /\ [Next]_vars => IInv'
<1> SUFFICES ASSUME IInv, [Next]_vars PROVE IInv'
  OBVIOUS
<1>1. CASE UNCHANGED vars
  BY <1>1, RingStutter
     DEF IInv, vars, ringVars, RingView, RingType, RestType, ThreadInv
<1> QED
  BY <1>1, BootNextInv, RaiseIrqInv, IrqHandlerInv, TaskNextInv DEF Next

----------------------------------------------------------------------------
(* Theorems. *)

\* IInv is an invariant of the kernel: boot, IRQ entry and system calls.
THEOREM Inductive == Spec => []IInv
BY InitInv, NextInv, PTL DEF Spec

\* No step of boot code, IRQ path or system call leaves the arrays' bounds
\* or loads a context from a null current_task.
THEOREM TypeCorrect == Spec => []TypeOK
<1>1. IInv => TypeOK
  BY DEF IInv, RingType, RestType, TypeOK
<1> QED
  BY <1>1, Inductive, PTL

\* As long as tasks[] has a free slot, every task that add_task accepted is
\* the current one or queued in ring_buffer[].
THEOREM NoLossBelowCapacity == Spec => []NoTaskLostBelowCapacity
<1>1. IInv => NoTaskLostBelowCapacity
  BY DEF IInv, CountInv, NoTaskLostBelowCapacity
<1> QED
  BY <1>1, Inductive, PTL

\* A full tasks[] costs one task, never two: after schedule or add_task has
\* dropped one, the ring has room for all the others.
THEOREM AtMostOneLost == Spec => []AtMostOneTaskLost
<1>1. IInv => AtMostOneTaskLost
  BY DEF IInv, CountInv
<1> QED
  BY <1>1, Inductive, PTL

\* ring_buffer[] never holds a task twice nor the task that runs, also when
\* insertions are refused and the indices wrap.
THEOREM QueuedOnce == Spec => []NeverQueuedTwice
<1>1. IInv => NeverQueuedTwice
  BY DEF IInv, RingInv, RingType, NeverQueuedTwice, Created, TaskIds
<1> QED
  BY <1>1, Inductive, PTL

----------------------------------------------------------------------------
(* Contexts, when no device interrupts the boot code. *)

\* The CPU executes the boot code, with no interrupt pending, or the current
\* task; a slot of tasks[] not yet given out has not run.
CtxInv ==
  /\ ContextsIntact
  /\ cpu.thread = Boot => irq_status = {}
  /\ cpu.thread # Boot => cpu.thread = current_task
  /\ \A t \in TaskIds : t >= task_count => reached[t] = 0

\* The contexts are right at boot.
LEMMA CtxInit == Init => CtxInv
BY ConstantsOK DEF Init, CtxInv, ContextsIntact, Created, TaskIds, Boot

\* add_task prepares the context of the new task only.
LEMMA CtxAddTask ==
  ASSUME IInv, CtxInv, add_task("svc"), UNCHANGED <<current_task, irq_status>>,
         \/ cpu.thread = Boot /\ UNCHANGED <<cpu, reached>>
         \/ TaskAdvances(current_task) /\ current_task \in TaskIds /\ current_task < task_count
  PROVE  CtxInv'
<1> DEFINE Fresh(t) == [thread |-> t, pos |-> 0]
<1>1. /\ task_count' >= task_count /\ task_count \in Nat /\ task_count' \in Nat
      /\ \A t \in TaskIds : t < task_count => tasks'[t] = tasks[t]
      /\ \A t \in TaskIds : t < task_count' /\ ~(t < task_count) => tasks'[t] = Fresh(t)
  <2>1. CASE task_count >= MAX_TASK_NUMBER
    BY <2>1, ConstantsOK DEF add_task, is_privileged, IInv, RingType, TaskIds
  <2>2. CASE task_count < MAX_TASK_NUMBER
    BY <2>2, ConstantsOK DEF add_task, is_privileged, init_task, IInv, RingType, RestType, TaskIds
  <2> QED
    BY <2>1, <2>2, ConstantsOK DEF IInv, RingType
<1>2. CASE cpu.thread = Boot /\ UNCHANGED <<cpu, reached>>
  <2>1. \A t \in TaskIds : cpu.thread # t
    BY <1>2, ConstantsOK DEF TaskIds, Boot
  <2>2. ContextsIntact'
    BY <1>1, <1>2, <2>1 DEF CtxInv, ContextsIntact, Created, TaskIds
  <2> QED
    BY <1>1, <1>2, <2>2 DEF CtxInv, TaskIds
<1>3. CASE TaskAdvances(current_task) /\ current_task \in TaskIds /\ current_task < task_count
  <2>1. /\ cpu.thread = current_task /\ cpu'.thread = current_task
        /\ reached' = [reached EXCEPT ![current_task] = cpu'.pos]
        /\ reached' \in [TaskIds -> Nat]
    BY <1>3, ConstantsOK DEF TaskAdvances, IInv, RestType, Context
  <2>2. ContextsIntact'
    BY <1>1, <1>3, <2>1 DEF CtxInv, ContextsIntact, Created, IInv, RestType, TaskIds
  <2> QED
    BY <1>1, <1>3, <2>1, <2>2, ConstantsOK DEF CtxInv, IInv, RestType, TaskIds, Boot
<1> QED
  BY <1>2, <1>3

\* The boot code keeps the contexts right.
LEMMA CtxBoot == IInv /\ CtxInv /\ BootNext => CtxInv'
<1> SUFFICES ASSUME IInv, CtxInv, BootNext PROVE CtxInv'
  OBVIOUS
<1> USE DEF AtAddTask, AtTimeInit, AtStart, AtTimerStart, AtLoad
<1>1. CASE BootAddTask
  BY <1>1, CtxAddTask DEF BootAddTask, BootAt
<1>2. CASE BootTasksAdded \/ time_init \/ timer_start \/ start_scheduler
  <2>1. /\ cpu.thread = Boot /\ cpu'.thread = Boot /\ irq_status' \subseteq irq_status
        /\ UNCHANGED <<task_count, tasks, reached>>
    BY <1>2 DEF BootTasksAdded, time_init, timer_start, start_scheduler, timer_stop, BootAt, BootGoes
  <2> QED
    <3>1. \A t \in TaskIds : cpu.thread # t /\ cpu'.thread # t
      BY <2>1, ConstantsOK DEF TaskIds, Boot
    <3>2. ContextsIntact'
      BY <2>1, <3>1 DEF CtxInv, ContextsIntact, Created
    <3> QED
      BY <2>1, <3>2 DEF CtxInv
<1>3. CASE load_current_task_state
  <2>1. /\ cpu.thread = Boot /\ cpu' = tasks[current_task]
        /\ UNCHANGED <<task_count, tasks, reached, irq_status, current_task>>
    BY <1>3 DEF load_current_task_state, BootAt
  <2>2. current_task \in TaskIds /\ current_task < task_count
    BY <1>3 DEF load_current_task_state, BootAt, IInv, ThreadInv, RestType, RingType
  <2> QED
    <3>1. \A t \in TaskIds : Created(t) => tasks[t] = [thread |-> t, pos |-> reached[t]]
      BY <2>1, ConstantsOK DEF CtxInv, ContextsIntact, TaskIds, Boot
    <3>2. cpu' = [thread |-> current_task, pos |-> reached[current_task]]
      BY <2>1, <2>2, <3>1 DEF Created
    <3>3. ContextsIntact'
      BY <2>1, <3>1, <3>2 DEF ContextsIntact, Created
    <3> QED
      BY <2>1, <2>2, <3>2, <3>3, ConstantsOK DEF CtxInv, TaskIds, Boot
<1> QED
  BY <1>1, <1>2, <1>3 DEF BootNext

\* The interrupt handler saves and restores the right ones.
LEMMA CtxIrq == IInv /\ CtxInv /\ irq_handler => CtxInv'
<1> SUFFICES ASSUME IInv, CtxInv, irq_handler PROVE CtxInv'
  OBVIOUS
<1>1. cpu.thread = current_task /\ cpu.thread # Boot
  BY DEF CtxInv, irq_handler
<1>2. current_task \in TaskIds /\ current_task < task_count
  BY <1>1 DEF IInv, ThreadInv, RestType, RingType
<1>3. tasks' = [tasks EXCEPT ![current_task] = cpu] /\ cpu' = tasks'[current_task']
  BY DEF irq_handler, save_current_task_state
<1>4. UNCHANGED <<task_count, reached, isRunning>> /\ irq_status' \subseteq irq_status
  BY DEF irq_handler, handle_interrupt
<1>5. cpu = [thread |-> current_task, pos |-> reached[current_task]]
  BY <1>1, <1>2 DEF CtxInv, ContextsIntact, Created, IInv, RestType, Context
<1>6. \A t \in TaskIds : Created(t) => tasks'[t] = [thread |-> t, pos |-> reached[t]]
  BY <1>1, <1>2, <1>3, <1>5 DEF CtxInv, ContextsIntact, Created, IInv, RestType
<1>7. IInv'
  BY IrqHandlerInv
<1>8. current_task' \in TaskIds /\ Created(current_task')
  BY <1>1, <1>4, <1>7 DEF IInv, ThreadInv, RestType, RingType, Created
<1>9. cpu' = [thread |-> current_task', pos |-> reached[current_task']]
  BY <1>3, <1>6, <1>8
<1>10. cpu'.thread # Boot
  BY <1>8, <1>9, ConstantsOK DEF TaskIds, Boot
<1> QED
  BY <1>4, <1>6, <1>9, <1>10 DEF CtxInv, ContextsIntact, Created

\* So do the steps of a task.
LEMMA CtxTask == ASSUME NEW t \in TaskIds PROVE IInv /\ CtxInv /\ TaskNext(t) => CtxInv'
<1> SUFFICES ASSUME IInv, CtxInv, TaskNext(t) PROVE CtxInv'
  OBVIOUS
<1>1. TaskAdvances(t)
  BY DEF TaskNext, TaskStep, syscall, AddTaskDirectly
<1>2. cpu.thread = t /\ t = current_task /\ t < task_count
  BY <1>1, ConstantsOK DEF TaskAdvances, CtxInv, IInv, ThreadInv, RestType, TaskIds, Boot
<1>3. CASE syscall(t, CREATE_PROCESS)
  <2>1. add_task("svc") /\ UNCHANGED <<current_task, irq_status>>
    BY <1>3 DEF syscall, syscall_dispatcher, create_process_dispatch, CREATE_PROCESS,
                ZERO_SYSCALL, SHUTDOWN
  <2> QED
    BY <1>1, <1>2, <2>1, CtxAddTask
<1>4. CASE TaskStep(t) \/ AddTaskDirectly(t)
            \/ \E n \in SyscallNumbers \ {CREATE_PROCESS} : syscall(t, n)
  <2>1. UNCHANGED <<task_count, tasks, current_task>>
    BY <1>4 DEF TaskStep, AddTaskDirectly, syscall, syscall_dispatcher, add_task, is_privileged
  <2>2. t # Boot
    BY DEF TaskIds, Boot
  <2>3. /\ cpu'.thread = t /\ reached' = [reached EXCEPT ![t] = cpu'.pos]
        /\ reached \in [TaskIds -> Nat]
    BY <1>1 DEF TaskAdvances, IInv, RestType, Context
  <2>4. ContextsIntact'
    BY <1>2, <2>1, <2>3 DEF CtxInv, ContextsIntact, Created
  <2>5. \A u \in TaskIds : u >= task_count' => reached'[u] = 0
    BY <1>2, <2>1, <2>3, ConstantsOK DEF CtxInv, TaskIds, IInv, RingType
  <2> QED
    BY <1>2, <2>1, <2>2, <2>3, <2>4, <2>5 DEF CtxInv
<1> QED
  BY <1>3, <1>4 DEF TaskNext

\* Without an interrupt before the first task is loaded, save_current_task_state
\* and load_current_task_state are exact: no task resumes in another one's
\* context, or somewhere it has not been.
THEOREM ContextsSafe == ASSUME EarlyIrqs = {} PROVE Spec => []ContextsIntact
<1>1. IInv /\ CtxInv /\ [Next]_vars => CtxInv'
  <2> SUFFICES ASSUME IInv, CtxInv, [Next]_vars PROVE CtxInv'
    OBVIOUS
  <2>1. CASE UNCHANGED vars
    BY <2>1 DEF vars, CtxInv, ContextsIntact, Created
  <2>2. ASSUME NEW line \in Irqs, RaiseIrq(line) PROVE CtxInv'
    BY <2>2 DEF RaiseIrq, CtxInv, ContextsIntact, Created
  <2> QED
    BY <2>1, <2>2, CtxBoot, CtxIrq, CtxTask DEF Next
<1>2. CtxInv => ContextsIntact
  BY DEF CtxInv
<1> QED
  BY <1>1, <1>2, CtxInit, Inductive, PTL DEF Spec

----------------------------------------------------------------------------
(* The queue of RoundRobin. *)

\* tasks[] has a free slot, which is what keeps a place free in ring_buffer[].
Below == task_count < MAX_TASK_NUMBER

\* The queue as a window of the ring, in a state and in the next one.
LEMMA QueueIsWindow ==
  /\ Queue = Window(ring_buffer, MAX_TASK_NUMBER, buffer_start, buffer_end)
  /\ Queue' = Window(ring_buffer', MAX_TASK_NUMBER, buffer_start', buffer_end')
BY DEF Queue, Used, Window

\* InRing is the lemmas' WIn, and Size their WSize.
LEMMA SameWindow ==
  ASSUME NEW s, NEW e
  PROVE  /\ Size(s, e) = WSize(MAX_TASK_NUMBER, s, e)
         /\ \A i : In(s, e, i) <=> WIn(s, e, i)
BY DEF Size, WSize, In, WIn

\* What waits are created tasks, and none of them the current one.
LEMMA QueueOfCreated ==
  ASSUME RingType, RingInv
  PROVE  /\ Queue \in Seq(0..(task_count - 1))
         /\ Len(Queue) = Size(buffer_start, buffer_end)
<1> USE ConstantsOK
<1> DEFINE N == MAX_TASK_NUMBER
           n == WSize(N, buffer_start, buffer_end)
           V == 0..(task_count - 1)
<1>1. buffer_start \in 0..(N - 1) /\ buffer_end \in 0..(N - 1)
  BY DEF RingType, TaskIds
<1>2. /\ n \in 0..(N - 1)
      /\ \A k \in 1..n : /\ WSlot(N, buffer_start, k) \in 0..(N - 1)
                         /\ WIn(buffer_start, buffer_end, WSlot(N, buffer_start, k))
      /\ Queue = [k \in 1..n |-> ring_buffer[WSlot(N, buffer_start, k)]]
  BY <1>1, WindowIs, QueueIsWindow
<1>3. \A i \in 0..(N - 1) : WIn(buffer_start, buffer_end, i) => ring_buffer[i] \in V
  BY DEF RingInv, InRing, WIn, TaskIds
<1>4. n = Size(buffer_start, buffer_end)
  BY SameWindow
<1> HIDE DEF n, V
<1>5. Queue \in [1..n -> V]
  BY <1>2, <1>3
<1>6. n \in Nat
  BY <1>2
<1>7. Queue \in Seq(V) /\ Len(Queue) = n
  BY <1>5, <1>6
<1> QED  BY <1>4, <1>7 DEF V

----------------------------------------------------------------------------
(* The steps that change the queue or the current task. *)

\* An add_task that leaves a slot of tasks[] free creates a task of RoundRobin.
LEMMA CreateStep ==
  ASSUME IInv, CurrentCreated, Below', add_task("svc"), UNCHANGED current_task
  PROVE  \E t \in TaskIds : RR!Create(t)
<1> USE ConstantsOK
<1>0. RingType /\ RingInv /\ CountInv
  BY DEF IInv
<1>1. task_count < MAX_TASK_NUMBER /\ task_count' = task_count + 1
  BY <1>0 DEF add_task, is_privileged, Below, RingType
<1>2. Size(buffer_start, buffer_end) < MAX_TASK_NUMBER - 1
  <2>1. Held = task_count /\ task_count + 1 < MAX_TASK_NUMBER
    BY <1>0, <1>1 DEF CountInv, Below
  <2>2. Size(buffer_start, buffer_end) \in Int
    BY <1>0, InsertSlot DEF RingType
  <2> QED  BY <1>0, <2>1, <2>2 DEF Held, RingType
<1>3. NextIndex(buffer_end) # buffer_start
  BY <1>0, <1>2, InsertSlot DEF RingType
<1>4. /\ ring_buffer' = [ring_buffer EXCEPT ![buffer_end] = task_count]
      /\ buffer_end' = NextIndex(buffer_end)
      /\ UNCHANGED <<buffer_start, current_task>>
  BY <1>1, <1>3 DEF add_task, is_privileged, ring_buffer_insert
<1>5. Queue' = Append(Queue, task_count)
  <2>1. /\ SameBut(ring_buffer, ring_buffer', 0..(MAX_TASK_NUMBER - 1), buffer_end)
        /\ ring_buffer'[buffer_end] = task_count
    BY <1>0, <1>4 DEF SameBut, RingType, TaskIds
  <2>2. Window(ring_buffer', MAX_TASK_NUMBER, buffer_start, (buffer_end + 1) % MAX_TASK_NUMBER)
          = Append(Window(ring_buffer, MAX_TASK_NUMBER, buffer_start, buffer_end), ring_buffer'[buffer_end])
    BY <1>0, <1>3, <2>1, WindowInsert DEF RingType, TaskIds, NextIndex
  <2> QED  BY <1>4, <2>1, <2>2, QueueIsWindow DEF NextIndex
<1>6. task_count \in TaskIds /\ task_count # current_task
  BY <1>0, <1>1 DEF CurrentCreated, RingType, TaskIds, NULL
<1>7. ~RR!Contains(Queue, task_count)
  <2>1. Queue \in Seq(0..(task_count - 1))
    BY <1>0, QueueOfCreated
  <2>2. \A i \in 1..Len(Queue) : Queue[i] \in 0..(task_count - 1)
    <3> DEFINE V == 0..(task_count - 1)
    <3> HIDE DEF V
    <3>1. Queue \in Seq(V)
      BY <2>1 DEF V
    <3>2. \A i \in 1..Len(Queue) : Queue[i] \in V
      BY <3>1
    <3> QED  BY <3>2 DEF V
  <2> QED  BY <1>0, <2>2 DEF RR!Contains, RingType
<1> QED  BY <1>4, <1>5, <1>6, <1>7 DEF RR!Create

\* The removal of start_scheduler takes the head.
LEMMA StartStep ==
  ASSUME IInv, start_scheduler
  PROVE  RR!Start
<1> USE ConstantsOK
<1>0. RingType /\ RingInv /\ CountInv
  BY DEF IInv
<1>1. current_task = NULL /\ task_count >= 1
  BY DEF IInv, ThreadInv, start_scheduler, BootAt, AtStart, AtAddTask, RingType
<1>2. buffer_start # buffer_end
  BY <1>0, <1>1 DEF CountInv, Held, Size, RingType, TaskIds
<1>3. /\ current_task' = ring_buffer[buffer_start]
      /\ buffer_start' = NextIndex(buffer_start)
      /\ UNCHANGED <<ring_buffer, buffer_end>>
  BY <1>2 DEF start_scheduler, ring_buffer_remove
<1>4. Queue # << >> /\ Head(Queue) = current_task' /\ Tail(Queue) = Queue'
  <2> DEFINE W(s) == Window(ring_buffer, MAX_TASK_NUMBER, s, buffer_end)
  <2>1. Queue = W(buffer_start) /\ Queue' = W(NextIndex(buffer_start))
    BY <1>3, QueueIsWindow
  <2>2. /\ W(buffer_start) # << >>
        /\ Head(W(buffer_start)) = ring_buffer[buffer_start]
        /\ Tail(W(buffer_start)) = W(NextIndex(buffer_start))
    BY <1>0, <1>2, WindowRemove DEF RingType, TaskIds, NextIndex
  <2> HIDE DEF W
  <2> QED  BY <1>3, <2>1, <2>2
<1> QED  BY <1>1, <1>4 DEF RR!Start

\* schedule, which inserts the current task before it removes the oldest one,
\* is one turn of the wheel, and nothing when no other task waits.
LEMMA RotateStep ==
  ASSUME IInv, Below, current_task # NULL, schedule
  PROVE  RR!Rotate \/ UNCHANGED <<Queue, current_task>>
<1> USE ConstantsOK
<1> DEFINE buf == [ring_buffer EXCEPT ![buffer_end] = current_task]
           end == NextIndex(buffer_end)
           V   == TaskIds
<1>0. RingType /\ RingInv /\ CountInv
  BY DEF IInv
<1>1. end # buffer_start
  <2>1. Held = task_count /\ Held = Size(buffer_start, buffer_end) + 1
    BY <1>0 DEF CountInv, Below, Held
  <2>2. Size(buffer_start, buffer_end) \in Int
    BY <1>0, InsertSlot DEF RingType
  <2> QED  BY <1>0, <2>1, <2>2, InsertSlot DEF Below, RingType
<1>2. /\ ring_buffer' = buf /\ buffer_end' = end
      /\ current_task' = buf[buffer_start]
      /\ buffer_start' = NextIndex(buffer_start)
  BY <1>1 DEF schedule, ring_buffer_insert, ring_buffer_remove
<1>3. Window(buf, MAX_TASK_NUMBER, buffer_start, end) = Append(Queue, current_task)
  <2>1. /\ SameBut(ring_buffer, buf, 0..(MAX_TASK_NUMBER - 1), buffer_end)
        /\ buf[buffer_end] = current_task
    BY <1>0 DEF SameBut, RingType, TaskIds
  <2> HIDE DEF buf
  <2>2. Window(buf, MAX_TASK_NUMBER, buffer_start, (buffer_end + 1) % MAX_TASK_NUMBER)
          = Append(Window(ring_buffer, MAX_TASK_NUMBER, buffer_start, buffer_end), buf[buffer_end])
    BY <1>0, <1>1, <2>1, WindowInsert DEF RingType, TaskIds, NextIndex
  <2> QED  BY <2>1, <2>2, QueueIsWindow DEF NextIndex
<1>4. /\ Head(Append(Queue, current_task)) = current_task'
      /\ Tail(Append(Queue, current_task)) = Queue'
  <2>1. end \in 0..(MAX_TASK_NUMBER - 1)
    BY <1>0, NextIndexIs DEF RingType, TaskIds
  <2> HIDE DEF buf, end
  <2>2. /\ Head(Window(buf, MAX_TASK_NUMBER, buffer_start, end)) = buf[buffer_start]
        /\ Tail(Window(buf, MAX_TASK_NUMBER, buffer_start, end))
             = Window(buf, MAX_TASK_NUMBER, (buffer_start + 1) % MAX_TASK_NUMBER, end)
    BY <1>0, <1>1, <2>1, WindowRemove DEF RingType, TaskIds
  <2> QED  BY <1>2, <1>3, <2>2, QueueIsWindow DEF NextIndex
<1>5. Queue \in Seq(V) /\ current_task \in V
  <2>1. Queue \in Seq(0..(task_count - 1)) /\ 0..(task_count - 1) \subseteq V
    BY <1>0, QueueOfCreated DEF RingType, TaskIds
  <2> QED  BY <1>0, <2>1 DEF RingType
<1> HIDE DEF buf, end, V
<1>6. CASE Queue = << >>
  BY <1>4, <1>6
<1>7. CASE Queue # << >>
  <2>1. /\ Head(Append(Queue, current_task)) = Head(Queue)
        /\ Tail(Append(Queue, current_task)) = Append(Tail(Queue), current_task)
    BY <1>5, <1>7
  <2> QED  BY <1>4, <1>7, <2>1 DEF RR!Rotate
<1> QED  BY <1>6, <1>7

----------------------------------------------------------------------------
(* The refinement. *)

\* With fewer boot tasks than slots, and tasks that stop asking for another
\* one in time, a slot of tasks[] stays free.
LEMMA StaysBelow ==
  ASSUME BootTasks < MAX_TASK_NUMBER, TaskLimit < MAX_TASK_NUMBER
  PROVE  IInv /\ Below /\ [Next]_vars => Below'
<1> SUFFICES ASSUME IInv, Below, [Next]_vars PROVE Below'
  OBVIOUS
<1> USE ConstantsOK DEF Below
<1>0. task_count \in Nat
  BY DEF IInv, RingType
<1>1. CASE BootAddTask
  BY <1>0, <1>1 DEF BootAddTask, add_task
<1>2. ASSUME NEW t \in TaskIds, NEW number \in SyscallNumbers, syscall(t, number)
      PROVE  Below'
  BY <1>0, <1>2 DEF syscall, syscall_dispatcher, create_process_dispatch, add_task
<1>3. CASE task_count' = task_count
  BY <1>3
<1>4. \/ BootAddTask \/ task_count' = task_count
      \/ \E t \in TaskIds, number \in SyscallNumbers : syscall(t, number)
  BY DEF Next, BootNext, BootTasksAdded, time_init, start_scheduler, timer_start,
         load_current_task_state, irq_handler, RaiseIrq, TaskNext, TaskStep, AddTaskDirectly,
         add_task, is_privileged, vars
<1> QED  BY <1>1, <1>2, <1>3, <1>4

\* Every step of the kernel is a step of RoundRobin or leaves the queue and the
\* current task alone.
LEMMA StepSimulates ==
  ASSUME IInv, Below, Below', [Next]_vars
  PROVE  [RR!Next]_<<Queue, current_task>>
<1>0. CurrentCreated
  BY DEF IInv, ThreadInv, CurrentCreated, RestType
<1>1. ASSUME UNCHANGED <<ringVars, current_task>>
      PROVE  UNCHANGED <<Queue, current_task>>
  BY <1>1 DEF ringVars, Queue, Used
<1>2. CASE BootAddTask
  <2>1. \E t \in TaskIds : RR!Create(t)
    BY <1>0, <1>2, CreateStep DEF BootAddTask
  <2> QED  BY <2>1 DEF RR!Next
<1>3. CASE start_scheduler
  BY <1>3, StartStep DEF RR!Next
<1>4. CASE irq_handler
  <2>1. CASE "TIMER1" \in irq_status
    <3>1. schedule
      BY <1>4, <2>1 DEF irq_handler, handle_interrupt, irq_handler_timer
    <3>2. current_task # NULL
      BY <1>4, ConstantsOK DEF irq_handler, IrqEnabled, IInv, ThreadInv, RestType, RingType,
           AtStart, AtTimerStart, BootPositions, AtAddTask, AtLoad
    <3> QED  BY <3>1, <3>2, RotateStep DEF RR!Next
  <2>2. CASE "TIMER1" \notin irq_status
    BY <1>1, <1>4, <2>2 DEF irq_handler, handle_interrupt
  <2> QED  BY <2>1, <2>2
<1>5. ASSUME NEW t \in TaskIds, syscall(t, CREATE_PROCESS)
      PROVE  [RR!Next]_<<Queue, current_task>>
  <2>1. add_task("svc") /\ UNCHANGED current_task
    BY <1>5 DEF syscall, syscall_dispatcher, create_process_dispatch, CREATE_PROCESS,
                ZERO_SYSCALL, SHUTDOWN
  <2>2. \E u \in TaskIds : RR!Create(u)
    BY <1>0, <2>1, CreateStep
  <2> QED  BY <2>2 DEF RR!Next
<1>6. ASSUME NEW t \in TaskIds, NEW number \in SyscallNumbers \ {CREATE_PROCESS}, syscall(t, number)
      PROVE  UNCHANGED <<ringVars, current_task>>
  BY <1>6 DEF syscall, syscall_dispatcher, ringVars
<1>7. ASSUME \/ BootTasksAdded \/ time_init \/ timer_start \/ load_current_task_state
             \/ \E line \in Irqs : RaiseIrq(line)
             \/ \E t \in TaskIds : TaskStep(t) \/ AddTaskDirectly(t)
             \/ UNCHANGED vars
      PROVE  UNCHANGED <<ringVars, current_task>>
  BY <1>7 DEF BootTasksAdded, time_init, timer_start, load_current_task_state, RaiseIrq,
              TaskStep, AddTaskDirectly, add_task, is_privileged, vars, ringVars
<1> QED
  BY <1>1, <1>2, <1>3, <1>4, <1>5, <1>6, <1>7 DEF Next, BootNext, TaskNext

\* task_count never falls, so a step that leaves a slot free found one free.
LEMMA WasBelow == ASSUME IInv, Below', [Next]_vars PROVE Below
<1>0. task_count \in Nat
  BY DEF IInv, RingType
<1>1. CASE BootAddTask
  BY <1>0, <1>1, ConstantsOK DEF Below, BootAddTask, add_task
<1>2. ASSUME NEW t \in TaskIds, NEW number \in SyscallNumbers, syscall(t, number)
      PROVE  Below
  BY <1>0, <1>2, ConstantsOK DEF Below, syscall, syscall_dispatcher, create_process_dispatch, add_task
<1>3. CASE task_count' = task_count
  BY <1>3 DEF Below
<1>4. \/ BootAddTask \/ task_count' = task_count
      \/ \E t \in TaskIds, number \in SyscallNumbers : syscall(t, number)
  BY DEF Next, BootNext, BootTasksAdded, time_init, start_scheduler, timer_start,
         load_current_task_state, irq_handler, RaiseIrq, TaskNext, TaskStep, AddTaskDirectly,
         add_task, is_privileged, vars
<1> QED  BY <1>1, <1>2, <1>3, <1>4

\* The initial states of the kernel are those of the round robin.
LEMMA InitSimulates == Init => Below /\ RR!Init
<1> SUFFICES ASSUME Init PROVE Below /\ RR!Init
  OBVIOUS
<1>1. Queue = << >>
  BY ConstantsOK, WindowBounds, QueueIsWindow DEF Init
<1> QED  BY <1>1, ConstantsOK DEF Init, Below, RR!Init

\* What add_task, start_scheduler and the tick do to ring_buffer[] and
\* current_task is a step of the round robin, as long as the step leaves a
\* slot of tasks[] free: tasks run in the order they were queued, each goes
\* back to the tail, none is skipped or run out of turn, wherever the indices
\* wrap.
THEOREM RoundRobinBelowCapacity == Spec => IsRoundRobin
<1>1. Init => RR!Init
  BY InitSimulates
<1>2. IInv /\ [Next]_vars =>
        [task_count' < MAX_TASK_NUMBER => RR!Next]_<<Queue, current_task>>
  <2> SUFFICES ASSUME IInv, [Next]_vars, Below'
               PROVE  [RR!Next]_<<Queue, current_task>>
    BY DEF Below
  <2>1. Below
    BY WasBelow
  <2> QED  BY <2>1, StepSimulates
<1> QED
  BY <1>1, <1>2, Inductive, PTL DEF Spec, IsRoundRobin

\* A kernel that never fills tasks[] implements the round robin.
THEOREM ImplementsRoundRobin ==
  ASSUME BootTasks < MAX_TASK_NUMBER, TaskLimit < MAX_TASK_NUMBER
  PROVE  Spec => RR!Spec
<1>1. Init => Below /\ RR!Init
  BY InitSimulates
<1>2. IInv /\ Below /\ [Next]_vars => Below'
  BY StaysBelow
<1>3. IInv /\ Below /\ Below' /\ [Next]_vars => [RR!Next]_<<Queue, current_task>>
  BY StepSimulates
<1> QED
  BY <1>1, <1>2, <1>3, Inductive, PTL DEF Spec, RR!Spec
=============================================================================
