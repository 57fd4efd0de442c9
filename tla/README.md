# A TLA+ model of ninjastorms

ninjastorms is a small operating system kernel for one ARM core (the Lego EV3
brick and the VersatilePB board of QEMU).  It boots, creates tasks, schedules
them preemptively from a timer interrupt, takes system calls, and drives an
Intel e1000 network card with a minimal network stack (Ethernet, ARP, a stub of
IPv4).  There is no lock anywhere in it: everything depends on what an interrupt
or a task switch may do between two instructions.  That is what this
project models.

All paths are relative to the repository, `src/` being its root.

## 1. The parts of the system

| Part | State | Operations | Who runs it |
|---|---|---|---|
| Boot (`kernel/main.c`, `kernel/boot/start.S`) | none of its own | `kernel_main`: initialises PCI and card, adds tasks, starts clock and scheduler | once, supervisor mode |
| Scheduler (`kernel/scheduler.c`) | `tasks[]`, `task_count`, `ring_buffer[]` with `buffer_start`, `buffer_end`, `current_task`, `isRunning` | `add_task`, `schedule`, `start_scheduler` | boot, the tick, system calls |
| Interrupts (`kernel/interrupt.c`, `kernel/interrupt_handler.S`) | saved registers in `tasks[]` | save context, `handle_interrupt`, load context | IRQ mode, IRQs masked |
| System calls (`kernel/syscall.c`, `kernel/syscall_handler.c`) | `errno` | `create_process`, `shutdown`, dispatcher | supervisor mode, IRQs masked |
| Clock and timers (`kernel/time.c`, `kernel/drivers/timer.c`) | `clock`, timer registers | start, stop, `irq_handler_clock`, readings | IRQ; readings anywhere |
| e1000 receive (`kernel/network/e1000.c`) | `rx_descs[]`, `rx_cur`, card registers | `e1000_init`, `e1000_irq_handler`, `receive_packet` | boot, IRQ, and the card beside them |
| Network task (`kernel/network/network_task.c`) | `recv_packet_queue[]`, `recv_queue_start`, `recv_queue_end` | `insert_packet` (IRQ), `remove_packet`, main loop (task) | two contexts sharing one ring |
| e1000 transmit, Ethernet (`e1000.c`, `ethernet.c`) | `tx_descs[]`, `tx_cur`, tail register | `ethernet_send`, `e1000_send_packet` | any task, and the card |
| ARP and routing (`arp.c`, `routing.c`) | `arp_table` | find, lookup, update, add, `arp_receive` | network task and any sender |
| IPv4 (`ipv4.c`) | none | `ipv4_send`: resolve, wait, send | any task |
| Heap (`libc/stdlib/malloc.c`, `libc/unistd/sbrk.c`) | free list, break | `malloc`, `free`, `sbrk` | any context |
| PCI (`kernel/pci`, `kernel/mmio.c`) | `pci_devices[]`, IMAP, BAR and command registers | `configure_board`, enumeration, BAR allocation, writes of 1 to 8 bytes | boot; register writes also IRQ and tasks |
| Byte order (`kernel/network/network_io.c`) | none | `hton*`, `ntoh*` | any context |
| printf (`libc/stdio`), strings (`libc/string`) | none | conversions, copying | any context |
| Logger (`kernel/logger/logger.c`) | none (the text of the time is in one buffer in `time.c`) | `general_log` | any task and IRQ |
| EV3 drivers (`kernel/drivers`) | lock, multiplexing, direction and latch registers, SPI | constructors, gpio, motor, sensor, led, button, spi, adc | start-up, then any task |
| Demos (`kernel/demo`) | none | `demo_motor`, `demo_led` | a task |

How they interact: the card asserts PCI3, the IRQ path saves the running task,
`handle_interrupt` calls the handler of *every* asserted line, and the context of
whatever is then `current_task` is loaded.  The card's handler copies packets
from the card's ring into the receive queue; the network task takes them out and
calls `arp_receive`, which changes the ARP table and may send; other tasks read
the ARP table in `ipv4_send` and send too.

What is hard: the tick between any two instructions of a task (stale positions
in the ARP table, shared descriptors); the card working beside the handler (lost
wakeups, lost or doubled packets); rings at their limit (task ring, receive
queue, both descriptor rings); waiting without a timeout (`e1000_send_packet`)
and with one (`ipv4_send`); the window in which IRQs are enabled but no task
has been loaded; device registers shared by 32 pins and changed by reading and
writing back; a time kept in one buffer for tasks and handler.  The list, each at its line, is under "hazards" in
`PROJECT.json`.

## 2. Modules

| Module | Models | Role |
|---|---|---|
| `Scheduler` | scheduler, boot, IRQ path, system calls, timers | component |
| `RoundRobin` | what the scheduler promises: a queue of tasks, rotated | abstract specification |
| `SchedulerRefinement` | `Scheduler` implements `RoundRobin`; the module of the scheduler runs | refinement |
| `SchedulerProofs` | inductive invariant and theorems about `Scheduler`, `Scheduler` implements `RoundRobin` | proofs |
| `NetworkTask` | receive queue and network task | component |
| `LossyFifo` | what the receive queue promises | abstract specification |
| `E1000Rx` | driver's receive side, card, IRQ handler | component |
| `RecvPath` | `NetworkTask` and `E1000Rx` joined by `insert_packet` | composition |
| `RecvPathProofs` | inductive invariant, theorems, `RecvPath` implements `LossyFifo` | proofs |
| `ArpTable` | data of `routing.c`, and the decisions of its loops on what they have read | operators |
| `Arp` | network task and sending task around the table, clock | component |
| `MC_Arp` | hosts with fixed addresses and used memory, for the ARP runs | instance |
| `ArpProofs` | inductive invariant and theorems about `Arp` | proofs |
| `E1000Tx` | `ethernet_send`, `e1000_send_packet`, the card's transmit side | component |
| `E1000TxProofs` | inductive invariant and theorems for one sender | proofs |
| `Heap` | `malloc`, `free`, `sbrk` | component |
| `Allocator` | what the heap promises | abstract specification |
| `HeapProofs` | inductive invariant, `Heap` implements `Allocator`, no leak, no creeping growth | proofs |
| `PinInfo` | the pin table of `pininfo.c` | operators |
| `Ev3Drivers` | each driver function as its sequence of register accesses | operators |
| `Ev3` | start-up and preempting tasks executing these accesses, SPI, converter | component |
| `Ev3Proofs` | inductive invariant and theorems about `Ev3` | proofs |
| `PciMmio` | writes of every size through aligned words, with interrupts | component |
| `NetworkIo` | byte order of hardware addresses | operators |
| `Pci` | PCI start-up, `e1000_init` up to the address of the card, then `PciMmio` | composition |
| `PciProofs` | inductive invariants and theorems about `Pci` and the write functions | proofs |
| `Printf` | `vprintf`, `puts`, `putchar` as functions, and positional notation as their reference | operators |
| `Logger` | printf, puts and log lines put to the serial port | component |
| `CommonLemmas` | rings, sequences, least elements: what several proofs rest on | proofs |
| `MC_Ev3`, `MC_Pci`, `MC_Logger` | driver calls, card registers and formats for the runs | instances |

Definitions carry the names of the functions they model.  An action is a function
wherever IRQs are masked during it, and otherwise one of the pieces into which
the shared accesses of the function divide it.  Operators named `Bad_*` stand next to
the definition they vary and are what a plausible slip in that code would be;
each property is violated when its variant replaces the definition.

### Scheduler

A context `[thread, pos]` stands for the register file of `task_t`: whose code it
belongs to and how far that code has got.  `cpu` is the context being executed,
`tasks` the saved ones.  `thread` may be `Boot`, the code of `kernel_main`,
since `irq_handler` saves whatever was interrupted into `current_task`.
`reached` is a history variable: where the code of each task really is.

ARM masks IRQs on entry to IRQ and SVC mode and nothing in the kernel unmasks
them there, so `irq_handler` and `syscall` are single steps.  The boot code is
split at its calls; from `start_scheduler` on (which ends with `enable_irq`)
`irq_handler` may come in between.  `EarlyIrqs` says which devices may raise an
interrupt at that time.  With TIMER1 not yet started and TIMER3 started
a few instructions earlier with a period of a millisecond, the runs and
`ContextsSafe` take it to be empty, and `scheduler_boot_irq` shows what happens
if it is not.

When an early interrupt has put the boot context into a task, the model resumes
the boot code from there.  On hardware more is lost (the user-mode load does not
restore the banked registers of supervisor mode), so the model is the
optimistic case.

`interrupt.c` also unmasks PCI0 to PCI2, and `handle_interrupt` has no code for
them.  `UnservedIrqs` says which of them have a device: its line stays asserted, so
that after every return from the IRQ path the next interrupt is due at once, and only
the other lines are served.  `EveryTaskRuns` and `EveryIrqServed` hold beside it,
because every pass serves all other lines and the tick changes the task even if the
task has executed nothing; that a task gets to execute between two interrupts is not
claimed.

`create_process` is bounded by `TaskLimit`; the positions of a task's endless code
by `PosCount`; the clock counts modulo `CLOCK_MOD`.

### RecvPath

The card stores a packet in one step and raises the cause in a later one; the
handler is split at every access to a descriptor, to a register or to the queue.
The handler interrupts the task between any of the task's steps and runs to its
end before the task goes on.  `recv_queue_start` and `recv_queue_end` are not
volatile; the kernel is built without optimisation, so every test reads them
again, and the model does so.

The task computes the address of the slot, then releases the slot, then reads
the packet in two steps (`decode`, `handle`).  That this is safe although the
slot was released first rests on the ring keeping one slot empty.  `PacketStable` and `IsLossyFifo`
are about just that.

`e1000_init` has both of
its early returns: no memory (`pci_device` is "null", the pointer `e1000` stays NULL)
and no card ("absent").  In neither case is the card started, so it raises no
interrupt and the handler, which would follow that pointer, is not entered.

### Arp

Every access to a field of an entry is a step, in `arp_table_find` by either task (copy
of `ip` and `entry_time`, test, three stores of `ARP_NULL_ENTRY` or the new time) and
in `arp_table_add_entry` (search, one round a step, then three stores).  The clock
is read in a step of its own before a time is stored.  A task switch and any number of
seconds may fall between any two steps, so a task may clear or refresh a slot that has a
new owner since it tested it, and read an address from a slot that does.
`routing_init` publishes the table before it clears it; until then the entries are what the
memory held (`Garbage`).  Without memory there is no table.

A frame has a sender, which is 0 for a probe, and is for this machine or not.  Hosts
announce their own address (`MacOf`), as the code trusts them.  Handing a frame to the
card is a step without fairness: it may last for ever, as the wait in
`e1000_send_packet` may with two senders, and nothing that is checked here depends on its end.

### E1000Tx

A sender is split at every access to `tx_cur`, the descriptor, the tail register
and the status.  The card fetches the descriptor's address and transmits in
separate steps.  A buffer that was freed before the card transmits it counts as
garbage on the wire.

### Heap

`header` maps the address of every block made so far to its `next` and `size`
fields; the free list is threaded through it as in the code.  `malloc` walks the
list one block per step with its two locals, `block` and `head`, so that the
unlinking through `*head` is modelled as it is.  Sums are taken modulo `WORD`.
`HeapConstantsOK` says that requests are not so large that rounding or the new
break would wrap; the requests in the repository (descriptors, packet buffers,
the ARP table, frames) are far below that.  `malloc` is documented as not thread safe;
there is one caller at a time, and it frees only pointers it was given.

### Ev3

A call of a driver is translated into the sequence of register accesses it makes;
`x &= m` on a device register is a load into the task's `latch` and a store.
A task switch may fall between any two accesses.  A multiplexing register is
8 nibbles (one per pin), the direction and latch registers are sets of
pins; `PinInfo` writes the 154 rows of `pininfo.c` as runs of neighbouring pins, as each run
fills neighbouring nibbles.  The system configuration module ignores stores while
either kick register is closed, and a pin not switched to GPIO reads as anything.
`Ev3ConstantsOK` says that tasks call with values of the headers' enumerations
(`DriverCalls`): the drivers index their tables without a test.
The start-up code walks `__init_array_start` to `__init_array_end`, between which the
linker script collects the sections named `.init_array` only.  `spi_init` and
`adc_init` have priorities, hence other sections, and are never called; so the four other
constructors run in any order, and SPI and converter stay as the boot loader left them
(`SpiAtBoot`: set up as `spi_init` would, or off; nothing in between).  A call that asks
a converter with the SPI off waits for ever and is exempt from `CallsReturn`;
`ev3_spi` is the run about it.  `alone` is a history
variable: no other call was in progress during a call.  What a call is for
(`Outputs`, `High`, `Inputs`, `Switched`, `Answers`) is written down independently of
the accesses.  Overlapping calls may undo each other's multiplexing, since
the lock is closed and registers are written back under the other's feet: the model
shows that directions, levels and the final lock are not affected, and that the
next undisturbed call repairs the rest.

### Pci

Addresses are a 256 MB window and a 16 MB offset in it, which is what IMAP and the
fixed addresses of `pci_alloc_memory` tell apart.  Each slot may hold nothing, the
board's core, the card or another device, in any combination; there may be no memory for the
driver's object, whose fields start with arbitrary contents.  The card's address
registers are 8 bytes, in either byte order; the driver's test for an address
(`e1000.c:84`) shifts two of them away, which are those behind the address in
little-endian order and its first two in big-endian order.  Once the driver
runs, `PciMmio` writes bytes, half words, words and double words at every
alignment; a byte is the set of its bits, so shifts by whole bytes, masks and
merges are those of the code.  The driver itself only writes aligned words.

### Printf and Logger

A format is a sequence of characters and conversions, an argument a bit pattern or
a string.  The digit loop is translated as it is, with C's division and the
wrap of the smallest number (the kernel is built without optimisation).  Widths are
scaled, the buffers with them: `TmpInt` and `TmpLong` have just the decimal digits of their
width, as `char tmp[10]` and `char tmp[20]` have for 32 and 64 bits.  The reference
(`Numeral`) is positional notation and shares nothing with the loop.

In `Logger` a call prints, puts or logs, character by character.  What `general_log`
puts before the message (colour, severity, time, file) is one opaque character.  The
reference takes the format item by item, up to the item at which `vprintf` gives up.
`LeftOpen` names the two cases in which nothing says what should come out: the
smallest number of a width and a `%c` above 255 whose low byte is a line feed.

## 3. Runs

| Run | Checks | Bounds | Shows |
|---|---|---|---|
| `scheduler` | `TypeOK`, `NoTaskLostBelowCapacity`, `ContextsIntact`, `NeverQueuedTwice`, `AtMostOneTaskLost`, `IsRoundRobin`, `EveryTaskRuns`, `EveryIrqServed` | 4 slots, 1 boot task, up to 5 creations, 2 positions, PCI0 unserved | below capacity a round robin that starves neither tasks nor interrupt lines and resumes every task exactly; at capacity and beyond no task is doubled and one is lost at most |
| `scheduler_lost_task` | `NoTaskLost` (violated) | 3 slots, 3 tasks | the last task that fits costs a task its place for ever |
| `scheduler_boot_irq` | `ContextsIntact` (violated) | early PCI3 | an interrupt before the first task is loaded destroys that task |
| `recv_path` | `TypeOK`, `PacketStable`, `NothingSkipped`, `NoLostWakeup`, `NeverWedged`, `EachOnceInOrder`, `IsLossyFifo`, `EveryPacketEnds` | ring of 3, queue of 3, 5 packets, 1 other event | nothing lost except by a full queue or ring, nothing doubled, reordered, overwritten in use or forgotten |
| `arp` | `OneEntryPerIp`, `NoForeignMac`, `WaitEnds` | 2 slots, 2 hosts and probes, age and timeout 0, 2 s, used memory | preempted at every access to the table, no host has two entries and none the address of another; the loops of `ipv4_send` end |
| `arp_timeout` | `FailsOnlyUnresolved` (violated) | 1 slot, 1 host, timeout 1, 4 s | an answer found in the last round is thrown away |
| `e1000_tx` | `SentBeforeFreed`, `WireInOrder`, `SendReturns` | ring of 3, 10 frames, 1 sender | three rounds of the ring: in order, once, before the buffer is freed |
| `heap` | `TypeOK`, `NoLeak`, `BlocksBounded`, `IsAllocator`, `MallocReturns` | 80 bytes, blocks of 16, 32 and 48 | any sequence of calls: no overlap, no leak, no creeping growth, and the walk ends |
| `ev3` | `SharedRegistersSafe` (`LevelsKept` and `LockedAtRest`), `UndisturbedCallRight`, `DirectionsKept`, `BystandersKept`, `CallsReturn` | 2 tasks, 3 calls, the 4 constructors that are called in all orders, SPI left on or off | pins keep direction and level under preemption, an undisturbed call is right and touches nothing else, the lock ends closed, calls return unless they ask a converter that is off |
| `ev3_spi` | `SpiSetUpAtStart` (violated) | no calls, SPI left off | start-up does not set up the SPI |
| `pci` | `DriverReady` (`CardFound` and `CardReachable`), `MacOnTheWire`, `WriteExact` | 3 slots with any devices, 3 words, 1 write, 1 interrupt | the card is found and reached and its address known, if it is there; writes change exactly their bytes |
| `logger` | `BufferBounded`, `OutputRight` (`TextRight` and `CountRight`) | widths 16 and 27 bits, any sequence of the calls listed | bytes on the line, count and digit buffers are right, also where `vprintf` gives up |

Why the bounds are enough.  A ring of 3 has all the states that matter of a ring
of any size: empty, partly filled, full, and both indices before and after the
wrap.  `scheduler` has one slot more so that three tasks rotate
below capacity.  Five packets are more than card ring (2 usable) and queue
(2 usable) hold together, so both overflow and both wrap.  In `arp` the age and
the timeout are 0, so that within two seconds entries expire, also while they are being
written, and waits time out; `LastStart` and the guard of `Tick` only keep the bounded
clock from stopping inside a wait.  Both slots fill up and are then taken for probes, whose
sender 0 is not found in a full table, so slots change their owner between a read and the use
of it; second 0 is included.  Most safety properties are moreover proved for every size (section 4).  In `ev3` one task sets
an LED and the other uses a motor, a button, the light or the touch sensor (followed by
`demo_motor`), chosen to share registers; the third call comes after two that may have disturbed each
other.  In `pci` three words are what the longest unaligned write overlaps, and
every bit of a byte is treated alike, so one bit per byte is enough.  In `logger` each
conversion is given 0, 1, both sides of the base, and the numbers next to the
smallest, largest and middle of its width, and some are combined.

Fairness.  `Scheduler`: boot code executes, an asserted interrupt is taken,
TIMER1 is periodic; nothing is assumed of the tasks.  `RecvPath`: the card
announces what it stored, the handler runs, and the network task is scheduled,
which is what `EveryTaskRuns` shows of the scheduler; weak fairness is
enough as packets and other events are finite, so interrupts cannot keep the task off the CPU for
ever.  `Arp`: the sending task is
scheduled inside the loops of `ipv4_send` and the clock ticks; nothing is assumed of the network
task or of the card.  `E1000Tx`: the card
transmits what it was told and a task inside `ethernet_send` is scheduled; no
task has to start a send.  `Heap`: the loop of `malloc` is executed.  `Ev3`: a task inside a
driver call is scheduled, and an SPI that is set up transfers what is in its register; only one
task uses the converter, as two would take each other's answers.  `Pci` and `Logger` have
safety properties only.

The runs of `Scheduler`, `Arp` and `Logger` check for deadlock.  The others may stop: packets, frames
and driver calls are bounded, and the `heap` run's caller may stop calling.

## 4. Proofs

The theorems are about the specifications the runs check, for every value of the
constants that the named assumption of the module admits.  Where a theorem needs
more (an `ASSUME` in its statement), the need is real: a run or a limit in
section 5 shows what happens without it.

| Theorem | Property | Beyond the module's assumption |
|---|---|---|
| `SchedulerProofs!TypeCorrect` | `TypeOK` | |
| `SchedulerProofs!NoLossBelowCapacity` | `NoTaskLostBelowCapacity` | |
| `SchedulerProofs!AtMostOneLost` | `AtMostOneTaskLost` | |
| `SchedulerProofs!QueuedOnce` | `NeverQueuedTwice` | |
| `SchedulerProofs!ContextsSafe` | `ContextsIntact` | `EarlyIrqs = {}` (see `scheduler_boot_irq`) |
| `SchedulerProofs!RoundRobinBelowCapacity` | `IsRoundRobin` | |
| `SchedulerProofs!ImplementsRoundRobin` | (`RR!Spec`, the whole of `RoundRobin`) | boot tasks and `TaskLimit` below `MAX_TASK_NUMBER` (see `scheduler_lost_task`) |
| `RecvPathProofs!TypeCorrect` | `TypeOK` | |
| `RecvPathProofs!StablePacket` | `PacketStable` | |
| `RecvPathProofs!NoneSkipped` | `NothingSkipped` | |
| `RecvPathProofs!WakeupKept` | `NoLostWakeup` | |
| `RecvPathProofs!CardNotWedged` | `NeverWedged` | |
| `RecvPathProofs!OncePerPacketInOrder` | `EachOnceInOrder` | |
| `RecvPathProofs!ImplementsFifo` | `IsLossyFifo` | |
| `ArpProofs!NoDuplicateEntry` | `OneEntryPerIp` | none: any hosts, any size of the table, probes |
| `ArpProofs!NoMixedEntry` | `NoForeignMac` | none, likewise |
| `E1000TxProofs!InOrderOnTheWire` | `WireInOrder` | one sender |
| `E1000TxProofs!FreedAfterSent` | `SentBeforeFreed` | one sender |
| `HeapProofs!HeapTypeCorrect` | `TypeOK` | |
| `HeapProofs!HeapIsAllocator` | `IsAllocator` | |
| `HeapProofs!HeapNoLeak` | `NoLeak` | |
| `HeapProofs!HeapDoesNotCreep` | `BlocksBounded` | |
| `PciProofs!DriverIsReady` | `DriverReady` | one of the card's bars in memory space, one in I/O space |
| `PciProofs!MacIsRight` | `MacOnTheWire` | |
| `PciProofs!WritesExact` | `WriteExact` | |
| `Ev3Proofs!SharedRegistersAreSafe` | `SharedRegistersSafe` | `OwnPins`: no two tasks drive the same pin |
| `Ev3Proofs!DirectionsAreKept` | `DirectionsKept` | none, for any tasks and any calls |
| `Ev3Proofs!UndisturbedCallsAreRight` | `UndisturbedCallRight` | none, for any tasks and any calls |
| `Ev3Proofs!BystandersAreKept` | `BystandersKept` | none, for any tasks and any calls |

None of the properties is inductive alone; below is what each inductive
invariant adds and why.  Each is a conjunction of named parts, and the proof that
a step keeps it has a lemma per action or group of actions.

### Scheduler

`IInv` has five parts: `RingType` and `RestType` (types), `RingInv` (what the ring
holds are created tasks, each once, not the current one), `CountInv` and
`ThreadInv` (which thread may be on the CPU, in which phase of boot).  `CountInv`
is the heart: with `Held` the number of ring entries plus the current task,
`task_count - 1 <= Held <= task_count`, equality before `tasks[]` is full, and
equality implies that no task is missing.  A tick drops the current task only if
the ring has `MAX_TASK_NUMBER - 1` entries; then `Held` is `MAX_TASK_NUMBER`, and
after it `MAX_TASK_NUMBER - 1`, so it cannot happen a second time.  `CtxInv` adds,
for the contexts, that no saved context is boot code and that a thread on the CPU
is the current task.

`RoundRobinBelowCapacity` and `ImplementsRoundRobin` are a step simulation from this invariant.  The queue of
`RoundRobin` is the window of `ring_buffer[]` from `buffer_start` to `buffer_end`;
`add_task` appends to it, the removal of `start_scheduler` takes its head,
`schedule` (insert, then remove) is one turn, and all else leaves queue and current
task alone.

### Rings

`CommonLemmas` has the wrapping indices of all rings in one place: a window of
a ring of `N` slots from `s` to `e` in linear arithmetic (`WSize`, `WSlot`,
`WIn`), what appending at `e`, removing at `s` and writing outside do to it.
Scheduler, receive queue and receive descriptors use these lemmas.

### Receive path

`RxInv`: the descriptors with status 1 are just those from `rx_cur` up to the card's
`head`, and the tail is the one before `rx_cur` (or before `old_cur` while
that is being returned); that is why the card cannot be wedged.  `TaskInv`: the
task's packet is in the slot before `recv_queue_start`, which `insert_packet`
refuses to fill, so a packet may be read after its slot was released.
`Sorted`: what is processed, in hand and waiting, put together, is increasing and,
with what was dropped, all that was handed on.  `NoLostWakeup` and
`NothingSkipped` are inductive in their company.  `ImplementsFifo` maps the queue
to its window; `insert_packet` is `Offer`, the release of the slot `Take`, the end of handling `Finish`.

### ARP

The network task alone writes an `ip` other than 0; the sending task can only clear
fields and set times.  So all a step of it does to the table is to let it fade
(`Faded`: each `ip` and each hardware address stays or becomes 0).  `ReadInv` is what survives of
the network task's own pass while the table fades: the entry it copied still has that `ip` or
none, the slot it found belongs to the sender or to nobody, and the entries it has passed
without finding the sender are not the sender's.  `AddInv` carries the last to the store
of the new `ip`, which is why no second entry can arise, and says that the slot being written is
the sender's or has been cleared under the task's feet, which is why the address
stored next cannot become another host's.  `ClearInv` says how far `routing_init` has cleared
what the memory held; before it is done no entry counts.  `CtrlInv` ties the program
counters to the existence of the table.

### Transmit

With a single sender, `Stage` says line by line of `e1000_send_packet` how `tx_cur`,
the descriptor, the card's head and its tail stand to each other: the card is quiet
except while the sender waits, and then works on the one descriptor that was filled.
`Owned` says that the newest frame is the one in the sender's hands and not freed.

### Heap

Blocks are aligned, below the break and disjoint (`BlocksInv`); a pointer in use
is the inside of a block with room for the request (`LiveInv`); the list leads to
free blocks only, and no two of its pointers, head included, lead to the same
block (`ListInv`); `head` is the pointer that leads to `block` (`SearchInv`).
`ListInv` is what makes unlinking safe: after `*head = block->next` nothing leads
to the block handed out.

That the list reaches *every* free block and ends is `ChainInv`: there are `n` and
`s[0..n]`, each linked to the next and ending in `NULL`, that are exactly the free
blocks, and `malloc`'s walk stands at some `s[k]` with the blocks before too small.
`free` puts a block in front of the chain, unlinking takes one out, so the chain is a
witness carried along and no induction over the list is needed.
`NoLeak` is stated with a recursive function over the list; the chain solves its
equation, and a least argument where the two differ is
contradictory (`LeastExists`, which `CommonLemmas` derives from well-foundedness of `<`).
`BlocksBounded` is `CountInv` with `NoneFits`: `malloc` calls `sbrk` only at the end
of the chain, when every block large enough is in use, so a new block of a
size means that at no time before were more pointers in use.

### PCI

`BoardInv` to `ReadyInv` say, in the order of the boot code, what each call has
established and later ones keep.  `pci_get_device` returns the first card whatever
the number of slots.  For register writes, the lemmas `Write8Is` to `Write64Is` show for every
address and value that the words a write function makes satisfy `WriteSpec`: they change the
bytes asked for and keep the others as read, together reach every byte, and do
not read when word-aligned.  `ExactInv` carries this through the word writes and
interrupts: what is not yet as wanted is in a word still to be written.

### EV3

The statements are about any number of tasks with any calls, interrupted between
any two register accesses, so what is proved of a call must hold of every rest of
it.  `Sound` says of a sequence of accesses what a caller needs: every unlock of
a kick register is followed by a lock of the same register, every write of
`GPIO_DIR` directly follows its read, and only the given output pins are made outputs, set
or cleared and only the given input pins are made inputs.  `Level` says that a pin is
given the wanted level and none other after it, `Steady` that it is given no other, `MakesOut` that a pin is made an output.
These compose under concatenation (`SoundConcat`, `LevelKept`) and under the loop of
a constructor over its pins (`JoinedSound`, `MakesOutJoined`), so there is a lemma for each
function of `gpio.c` and from it one for each driver call and constructor.  `Rest` is
what of `Sound` is still true after any number of accesses (`RestTail`).

The inductive invariant `IInv` has four parts.  `CallInv`: tasks call after start-up.
`CodeInv`: what a thread has still to do is `Rest` of its call.  `LockInv`: an open kick
register will be locked by somebody; it survives that one task locks under
the feet of another, since both still have their own lock before them.  `DirInv`: inputs stay
inputs, an output that is still an input is made an output by a constructor to come, and
a thread about to write `GPIO_DIR` holds the present directions of that bank.  The last holds
although nothing is locked: during start-up there is one thread, and afterwards
the value written is the value read, because every pin of a call has its direction
already.  `LevelInv` adds, under `OwnPins`, that each pin of a call has its level or
the rest of the call ends with giving it.  Without `OwnPins` two tasks may ask for
different levels of one pin; `MC_Ev3` states it as an `ASSUME` of the run.

`UndisturbedCallRight` and `BystandersKept` need no `OwnPins`: they are about a call that is
alone, started in whatever state calls that disturbed each other left behind.  So their
invariant `AInv` has parts that hold under any preemption and one about the call.
`MuxInv`: each nibble of a multiplexing register, and of each value a thread has loaded and
not yet stored, is empty or the mode of a used pin that has this nibble.  It holds although
stores are lost, because a store either clears a nibble or sets it to the pin's mode, and no two
used pins share a nibble (`UsedApart`, from the rows of `pininfo.c`); without it `|=` could
merge two modes.  `PartInv`: what remains of a call is `Part` of its program, which switches pins
as `gpio_init_pin` does, ends with the exchanges of the channels asked, or reads
the button last; `AllPrograms` shows it for every driver call and constructor.  `FrameInv`: a frame in
the SPI is awaited by a thread inside `spi_update`, two frames by two threads, so a
call that starts alone finds none left over.  `AloneInv`: a call that is alone is the only one
in progress, and `SoFar` says how far it has come: the kick registers are
open when it stores (`Opened`), it stores what it loaded with its own nibble changed (`Loaded`),
each of its pins is switched, directed and driven already or the rest of the call does it, and
its answers are the first channels asked, the next one in the SPI while it waits
(`Told`).  At the end the rest is empty, and what is left is `DoneRight`.  `BystandersKept`
follows from `StoreAlone` (a store changes the nibble of its pin only) and `ModesApart`: a pin
that shares a nibble with a used one needs another mode, so by `MuxInv` it has not got its
function when the nibble is written.

### Only model-checked

* Liveness (`EveryTaskRuns`, `EveryIrqServed`, `EveryPacketEnds`, `MallocReturns`,
  `CallsReturn`, `WaitEnds`, `SendReturns`): fairness and `ENABLED` are beyond the prover.
* `Logger` (`BufferBounded`, `OutputRight`): what the digit loop and
  the walk over a format compute are inductions over data, and the folds that
  `Printf` takes from the community modules are recursive operators.

## 5. What the model found

Each is a run that ends in a counterexample, with the quoted line under
"findings" in `PROJECT.json`.

1. `schedule` inserts before it removes into a ring one entry smaller than
   `tasks[]`: with 16 tasks one silently stops running.
2. IRQs are enabled before the first context is loaded; an interrupt there is
   saved into the first task.
3. `ipv4_send` may time out with the address in hand.
4. `spi_init` and `adc_init`, "done automatically on startup", are never called, because
   the linker script does not collect constructors with a priority.

Beyond these runs, the properties of the passing runs hold only within the stated
use, and the limits are those of the code:

* The ARP table mixes up no hosts, but it may forget or keep an entry too long: an expiry tested earlier may clear
  an entry that was added since (`routing.c:57`, against the comment at line 36), and an entry
  made in second 0 counts as a free slot (`routing.c:145`, against line 132).
* A lookup in a table that is full may return the address of the slot's new owner
  (`routing.c:84`, against line 73).
* A send with no memory for the driver's object follows a null pointer (`e1000.c`).
* `SentBeforeFreed` with one task that sends (as shipped, only the network task
  does): two would fill the same transmit descriptor.
* `UndisturbedCallRight` for calls that do not overlap: of two that do, one may
  return with its pin's function undone.
* `CallsReturn` with one task that asks the converter: two would take each
  other's answers.
* `MacOnTheWire` for a card that has an address; without one `mac` keeps what the memory held.
* `WriteExact` under interrupts for aligned words: a shorter write puts back a word it
  read before.
* `OutputRight` not for the smallest number of a width, which has no digits after
  `x *= -1`, and not for a `%c` above 255 that ends in a line feed.
* The time of a log line is not minutes, seconds and milliseconds as `time.c:104` says: the
  seconds shown are the last two digits of all seconds.  It is not modelled.

## 6. Not modelled, and why

* The contents of frames and their padding; `htonl`, `htons`, `ntohl`, `ntohs`
  (one built-in each), `mac_to_str` and `ipv4_print` (debug output).
* `get_bar_size` (no caller), `pci_read8` to `pci_read64` other than words,
  `spi_fini` (the scheduler never returns), `demo_led` (a fixed list of `led_set`
  calls), `memcpy`, `memset`, `memcmp` (single loops).
* The wait of `putchar` for the serial port of the EV3, the linker set-up and the
  assembly start-up before the constructors: straight-line code or I/O.
* `clock_time_to_str` with its one buffer for tasks and handlers, and log lines that
  interrupt each other: text only.
* The bodies of `spi_init` and `adc_init`, which are never called.
* Torn reads of a hardware address (6 bytes): a field of an ARP entry is one access, and a
  round of the search for a slot reads the times it compares at once.
* What follows a null pointer: undefined.

## 7. Plan

In this order, the most important behaviour first.

Done: scheduler with boot, IRQ path and system calls; receive path; ARP with every access to the
table a step; transmit; heap; EV3 drivers under preemption; PCI start-up and register writes;
printf and log lines.  Proved: every safety property of every component except the logger, and the three
refinements.

Next:

* two senders in `E1000Tx`, once the code says what they may rely on;
* `clock_time_to_str` with its shared buffer.
