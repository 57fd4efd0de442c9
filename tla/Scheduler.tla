------------------------------ MODULE Scheduler ------------------------------
(***************************************************************************)
(* The preemptive round-robin scheduler of ninjastorms together with what  *)
(* drives it: kernel_main and start_scheduler (boot), the IRQ entry path   *)
(* that saves, dispatches and reloads a context, and the system calls.     *)
(*                                                                         *)
(* One CPU executes one thread at a time.  A thread is the code of a task  *)
(* or the boot code (kernel_main).  A context stands for the whole saved   *)
(* register file of task_t: which thread it belongs to, and the position   *)
(* that thread had reached (pc and every register that depends on it).     *)
(* An exception (IRQ or SVC) masks IRQs on entry, so the IRQ path and a    *)
(* system call are each one step; the boot code is interruptible from      *)
(* enable_irq on, and a task (cpsr = user mode, I clear) always is.        *)
(***************************************************************************)
EXTENDS Integers

CONSTANTS
  MAX_TASK_NUMBER,  \* slots of tasks[] and of ring_buffer[]
  BootTasks,        \* add_task calls kernel_main makes before start_scheduler
  TaskLimit,        \* bound: tasks ask for another one while task_count < TaskLimit
  PosCount,         \* bound: positions a task's (endless) code cycles through
  CLOCK_MOD,        \* modulus of the millisecond counter (2^64 in the code)
  EarlyIrqs,        \* lines whose device may raise them while boot code executes
  UnservedIrqs      \* PCI lines with a device but no handler

\* The lines handle_interrupt tests.  init_interrupt_controller unmasks the
\* other PCI lines too, which nobody acknowledges once they are asserted.
ServedIrqs == {"PCI3", "TIMER1", "TIMER3"}
Irqs == ServedIrqs \cup UnservedIrqs

ASSUME ConstantsOK ==
  /\ MAX_TASK_NUMBER \in Nat /\ MAX_TASK_NUMBER >= 2
  /\ BootTasks \in 1..MAX_TASK_NUMBER
  /\ TaskLimit \in Nat
  /\ PosCount \in Nat \ {0}
  /\ CLOCK_MOD \in Nat \ {0}
  /\ UnservedIrqs \subseteq {"PCI0", "PCI1", "PCI2"}
  /\ EarlyIrqs \subseteq Irqs

VARIABLES
  task_count, buffer_start, buffer_end, isRunning, ring_buffer,
  current_task,  \* index into tasks[], or NULL
  tasks,         \* the saved context of every task slot
  cpu,           \* the context being executed
  irq_status,    \* asserted interrupt lines (PIC_IRQ_STATUS)
  timer_on,      \* TIMER1_CTRL bit 7: TIMER1 is counting
  clock,         \* milliseconds since start
  errno,
  reached        \* history: the position task t's own code has reached

ringVars == <<ring_buffer, buffer_start, buffer_end>>
vars == <<task_count, ringVars, isRunning, current_task, tasks, cpu,
          irq_status, timer_on, clock, errno, reached>>

TaskIds   == 0..(MAX_TASK_NUMBER - 1)
NULL      == -1                \* a null pointer, or a slot never initialised
Boot      == -2                \* the thread of kernel_main

\* Positions of the boot code between two of its calls.
AtAddTask    == 0
AtTimeInit   == 1
AtStart      == 2
AtTimerStart == 3              \* enable_irq has been executed
AtLoad       == 4
BootPositions == AtAddTask..AtLoad

Context == [thread : TaskIds \cup {Boot, NULL}, pos : Nat]
Errno   == {"none", "EPERMISSION", "ETOOMANYTASKS", "EINVALIDSYSCALLNO"}

----------------------------------------------------------------------------
(* The ring buffer of runnable tasks. *)

NextIndex(i) == (i + 1) % MAX_TASK_NUMBER

\* Faulty variant: the test for a full ring is one entry too strict.
Bad_insert_early_full(task) ==
  IF NextIndex(NextIndex(buffer_end)) # buffer_start
    THEN [buf |-> [ring_buffer EXCEPT ![buffer_end] = task],
          end |-> NextIndex(buffer_end)]
    ELSE [buf |-> ring_buffer, end |-> buffer_end]

\* The ring after an attempt to insert: a full ring is left as it is.
ring_buffer_insert(task) ==
  IF NextIndex(buffer_end) # buffer_start
    THEN [buf |-> [ring_buffer EXCEPT ![buffer_end] = task],
          end |-> NextIndex(buffer_end)]
    ELSE [buf |-> ring_buffer, end |-> buffer_end]

\* Faulty variant: buffer_start is not advanced.
Bad_remove_keeps(buf, end) ==
  IF buffer_start = end
    THEN current_task' = NULL /\ buffer_start' = buffer_start
    ELSE /\ current_task' = buf[buffer_start]
         /\ buffer_start' = buffer_start

\* Takes the oldest task of the ring <<buf, end>> into current_task.
ring_buffer_remove(buf, end) ==
  IF buffer_start = end
    THEN current_task' = NULL /\ buffer_start' = buffer_start
    ELSE /\ current_task' = buf[buffer_start]
         /\ buffer_start' = NextIndex(buffer_start)

\* Faulty variants: the current task is not put back while others wait; the
\* current task goes on for ever.
Bad_schedule_no_insert ==
  IF buffer_start = buffer_end
    THEN UNCHANGED <<ringVars, current_task>>
    ELSE /\ ring_buffer_remove(ring_buffer, buffer_end)
         /\ UNCHANGED <<ring_buffer, buffer_end>>
Bad_schedule_nothing == UNCHANGED <<ringVars, current_task>>

schedule ==
  LET ring == ring_buffer_insert(current_task)
  IN  /\ ring_buffer' = ring.buf
      /\ buffer_end' = ring.end
      /\ ring_buffer_remove(ring.buf, ring.end)

----------------------------------------------------------------------------
(* add_task, called by boot code, by a system call, or directly by a task. *)

init_task(slot) == [tasks EXCEPT ![slot] = [thread |-> slot, pos |-> 0]]

\* The mode bits of the cpsr, as get_operating_mode reads them.
is_privileged(mode) == mode # "user"

\* Faulty variant: the limit is off by one.
Bad_add_task_limit(mode) ==
  \/ /\ ~is_privileged(mode) \/ task_count > MAX_TASK_NUMBER
     /\ errno' = "ETOOMANYTASKS"
     /\ UNCHANGED <<task_count, ringVars, tasks>>
  \/ /\ is_privileged(mode) /\ task_count <= MAX_TASK_NUMBER
     /\ LET ring == ring_buffer_insert(task_count)
        IN  ring_buffer' = ring.buf /\ buffer_end' = ring.end
     /\ tasks' = init_task(task_count)
     /\ task_count' = task_count + 1
     /\ UNCHANGED <<buffer_start, errno>>

add_task(mode) ==
  \/ /\ ~is_privileged(mode)
     /\ errno' = "EPERMISSION"
     /\ UNCHANGED <<task_count, ringVars, tasks>>
  \/ /\ is_privileged(mode)
     /\ task_count >= MAX_TASK_NUMBER
     /\ errno' = "ETOOMANYTASKS"
     /\ UNCHANGED <<task_count, ringVars, tasks>>
  \/ /\ is_privileged(mode)
     /\ task_count < MAX_TASK_NUMBER
     /\ LET ring == ring_buffer_insert(task_count)
        IN  ring_buffer' = ring.buf /\ buffer_end' = ring.end
     /\ tasks' = init_task(task_count)
     /\ task_count' = task_count + 1
     /\ UNCHANGED <<buffer_start, errno>>

----------------------------------------------------------------------------
(* Boot: kernel_main and start_scheduler. *)

BootAt(pos) == cpu = [thread |-> Boot, pos |-> pos]
BootGoes(pos) == cpu' = [thread |-> Boot, pos |-> pos]

BootAddTask ==
  /\ BootAt(AtAddTask)
  /\ task_count < BootTasks
  /\ add_task("svc")
  /\ UNCHANGED <<isRunning, current_task, cpu, irq_status, timer_on, clock, reached>>

BootTasksAdded ==
  /\ BootAt(AtAddTask)
  /\ task_count >= BootTasks
  /\ BootGoes(AtTimeInit)
  /\ UNCHANGED <<task_count, ringVars, isRunning, current_task, tasks,
                 irq_status, timer_on, clock, errno, reached>>

\* Clears TIMER3's interrupt and starts its 1 ms period.
time_init ==
  /\ BootAt(AtTimeInit)
  /\ BootGoes(AtStart)
  /\ irq_status' = irq_status \ {"TIMER3"}
  /\ UNCHANGED <<task_count, ringVars, isRunning, current_task, tasks,
                 timer_on, clock, errno, reached>>

timer_stop == timer_on' = 0 /\ irq_status' = irq_status \ {"TIMER1"}

\* start_scheduler up to and including init_interrupt_handling.
start_scheduler ==
  /\ BootAt(AtStart)
  /\ isRunning = 0
  /\ ring_buffer_remove(ring_buffer, buffer_end)
  /\ isRunning' = 1
  /\ timer_stop
  /\ BootGoes(AtTimerStart)
  /\ UNCHANGED <<task_count, ring_buffer, buffer_end, tasks, clock, errno, reached>>

timer_start ==
  /\ BootAt(AtTimerStart)
  /\ timer_on' = 1
  /\ irq_status' = irq_status \ {"TIMER1"}
  /\ BootGoes(AtLoad)
  /\ UNCHANGED <<task_count, ringVars, isRunning, current_task, tasks,
                 clock, errno, reached>>

load_current_task_state ==
  /\ BootAt(AtLoad)
  /\ cpu' = tasks[current_task]
  /\ UNCHANGED <<task_count, ringVars, isRunning, current_task, tasks,
                 irq_status, timer_on, clock, errno, reached>>

----------------------------------------------------------------------------
(* Interrupts. *)

\* A device asserts its line: a timer that runs, or the network card.
RaiseIrq(line) ==
  /\ line \notin irq_status
  /\ cpu.thread = Boot => line \in EarlyIrqs
  /\ line = "TIMER1" => timer_on = 1
  /\ line = "TIMER3" => (cpu.thread = Boot => cpu.pos > AtTimeInit)
  /\ irq_status' = irq_status \cup {line}
  /\ UNCHANGED <<task_count, ringVars, isRunning, current_task, tasks, cpu,
                 timer_on, clock, errno, reached>>

IrqEnabled == cpu.thread = Boot => cpu.pos >= AtTimerStart

\* Faulty variant: the saved pc is not corrected, one instruction is skipped.
Bad_save_pc ==
  [tasks EXCEPT ![current_task] = [cpu EXCEPT !.pos = (cpu.pos + 1) % PosCount]]

save_current_task_state == [tasks EXCEPT ![current_task] = cpu]

irq_handler_timer == schedule
irq_handler_clock == clock' = (clock + 1) % CLOCK_MOD

\* Faulty variant: a chain of alternatives, one line served per interrupt.
Bad_handle_one_line ==
  LET line == IF "PCI3" \in irq_status THEN "PCI3"
              ELSE IF "TIMER1" \in irq_status THEN "TIMER1" ELSE "TIMER3"
  IN  /\ IF line = "TIMER1" THEN irq_handler_timer ELSE UNCHANGED <<ringVars, current_task>>
      /\ IF line = "TIMER3" THEN irq_handler_clock ELSE UNCHANGED clock
      /\ irq_status' = irq_status \ {line}

\* The handler of every served line asserted, each of which acknowledges its
\* device; e1000_irq_handler is in the module E1000Rx.  An unserved line stays
\* asserted, and the interrupt is taken again and again.
handle_interrupt ==
  /\ IF "TIMER1" \in irq_status
       THEN irq_handler_timer
       ELSE UNCHANGED <<ringVars, current_task>>
  /\ IF "TIMER3" \in irq_status THEN irq_handler_clock ELSE UNCHANGED clock
  /\ irq_status' = irq_status \ ServedIrqs

irq_handler ==
  /\ IrqEnabled
  /\ irq_status # {}
  /\ tasks' = save_current_task_state
  /\ handle_interrupt
  /\ cpu' = tasks'[current_task']
  /\ UNCHANGED <<task_count, isRunning, timer_on, errno, reached>>

----------------------------------------------------------------------------
(* The code of the tasks, in user mode. *)

\* The executing task t goes on to its next position.
TaskAdvances(t) ==
  LET next == IF cpu.pos + 1 < PosCount THEN cpu.pos + 1 ELSE 0
  IN  /\ cpu.thread = t
      /\ cpu' = [cpu EXCEPT !.pos = next]
      /\ reached' = [reached EXCEPT ![t] = next]

\* Ordinary instructions.
TaskStep(t) ==
  /\ TaskAdvances(t)
  /\ UNCHANGED <<task_count, ringVars, isRunning, current_task, tasks,
                 irq_status, timer_on, clock, errno>>

ZERO_SYSCALL    == 0
CREATE_PROCESS  == 1
SHUTDOWN        == 99
SyscallNumbers  == {ZERO_SYSCALL, CREATE_PROCESS, SHUTDOWN, 2}  \* 2: no such call

\* The result of add_task is ignored.
create_process_dispatch == add_task("svc")

\* System call 0 only prints, and halt_execution, called for SHUTDOWN, is empty.
syscall_dispatcher(number) ==
  \/ /\ number \in {ZERO_SYSCALL, SHUTDOWN}
     /\ UNCHANGED <<task_count, ringVars, tasks, errno>>
  \/ /\ number = CREATE_PROCESS
     /\ create_process_dispatch
  \/ /\ number \notin {ZERO_SYSCALL, CREATE_PROCESS, SHUTDOWN}
     /\ errno' = "EINVALIDSYSCALLNO"
     /\ UNCHANGED <<task_count, ringVars, tasks>>

syscall(t, number) ==
  /\ number = CREATE_PROCESS => task_count < TaskLimit
  /\ TaskAdvances(t)
  /\ syscall_dispatcher(number)
  /\ UNCHANGED <<isRunning, current_task, irq_status, timer_on, clock>>

\* A direct call of add_task, in user mode.
AddTaskDirectly(t) ==
  /\ TaskAdvances(t)
  /\ add_task("user")
  /\ UNCHANGED <<isRunning, current_task, irq_status, timer_on, clock>>

----------------------------------------------------------------------------
Init ==
  /\ task_count = 0 /\ buffer_start = 0 /\ buffer_end = 0 /\ isRunning = 0
  /\ ring_buffer = [i \in TaskIds |-> NULL]
  /\ current_task = NULL
  /\ tasks = [t \in TaskIds |-> [thread |-> NULL, pos |-> 0]]
  /\ cpu = [thread |-> Boot, pos |-> AtAddTask]
  /\ irq_status = {} /\ timer_on = 0 /\ clock = 0
  /\ errno = "none"
  /\ reached = [t \in TaskIds |-> 0]

BootNext ==
  \/ BootAddTask \/ BootTasksAdded \/ time_init
  \/ start_scheduler \/ timer_start \/ load_current_task_state

TaskNext(t) ==
  TaskStep(t) \/ AddTaskDirectly(t) \/ \E number \in SyscallNumbers : syscall(t, number)

Next ==
  \/ BootNext
  \/ irq_handler
  \/ \E line \in Irqs : RaiseIrq(line)
  \/ \E t \in TaskIds : TaskNext(t)

Spec == Init /\ [][Next]_vars

\* The CPU executes boot code, an IRQ that stays asserted is taken, and
\* TIMER1 is periodic: it asserts its line again after every acknowledge.
Fairness ==
  /\ WF_vars(BootNext)
  /\ WF_vars(irq_handler)
  /\ WF_vars(RaiseIrq("TIMER1"))

FairSpec == Spec /\ Fairness

----------------------------------------------------------------------------
(* Properties. *)

TypeOK ==
  /\ task_count \in 0..MAX_TASK_NUMBER
  /\ buffer_start \in TaskIds /\ buffer_end \in TaskIds
  /\ isRunning \in {0, 1}
  /\ ring_buffer \in [TaskIds -> TaskIds \cup {NULL}]
  /\ current_task \in TaskIds \cup {NULL}
  /\ tasks \in [TaskIds -> Context]
  /\ cpu \in Context
  /\ irq_status \subseteq Irqs
  /\ timer_on \in {0, 1}
  /\ clock \in Nat
  /\ errno \in Errno
  /\ reached \in [TaskIds -> Nat]

\* The occupied positions of ring_buffer[], from buffer_start up to buffer_end.
InRing(i) ==
  IF buffer_start <= buffer_end
    THEN buffer_start <= i /\ i < buffer_end
    ELSE buffer_start <= i \/ i < buffer_end

Created(t)  == t < task_count
Runnable(t) == t = current_task \/ \E i \in TaskIds : InRing(i) /\ ring_buffer[i] = t

\* No task is lost: every task add_task accepted (result 0) is the current
\* task or waits in the ring, whatever add_task, schedule and the tick do.
NoTaskLost == \A t \in TaskIds : Created(t) => Runnable(t)

\* The same as long as tasks[] has a free slot left.
NoTaskLostBelowCapacity == task_count < MAX_TASK_NUMBER => NoTaskLost

\* schedule and add_task never queue a task twice, nor one that is running:
\* two ring entries for one task would resume the same saved registers twice.
NeverQueuedTwice ==
  \A i, j \in TaskIds :
    InRing(i) => /\ ring_buffer[i] # current_task
                 /\ Created(ring_buffer[i])
                 /\ InRing(j) /\ ring_buffer[i] = ring_buffer[j] => i = j

\* At capacity the code loses at most one task (the ring holds one entry
\* less than tasks[]), never a second one.
AtMostOneTaskLost ==
  \A t, u \in TaskIds :
    Created(t) /\ Created(u) /\ ~Runnable(t) /\ ~Runnable(u) => t = u

\* Save and reload are exact: a task that executes is where its own code had
\* got to, and one that waits will be resumed there, in its own context.
ContextsIntact ==
  \A t \in TaskIds :
    Created(t) =>
      IF cpu.thread = t
        THEN t = current_task /\ cpu.pos = reached[t]
        ELSE tasks[t] = [thread |-> t, pos |-> reached[t]]

\* Every created task gets the CPU, unless tasks[] is full.
EveryTaskRuns ==
  \A t \in TaskIds :
    Created(t) ~> (cpu.thread = t \/ task_count = MAX_TASK_NUMBER)

\* A line with a handler is served even when other lines are asserted with it
\* in every interrupt, or one without a handler all the time: handle_interrupt
\* is no chain of alternatives.
EveryIrqServed == \A line \in ServedIrqs : line \in irq_status ~> line \notin irq_status
=============================================================================
