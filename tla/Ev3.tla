--------------------------------- MODULE Ev3 --------------------------------
(* The EV3 drivers at work.  At start-up boot/start.S runs the constructors of *)
(* .init_array one after the other; then tasks call the drivers and preempt    *)
(* each other between any two accesses of a device register.  The drivers      *)
(* take no lock.                                                               *)
(*                                                                             *)
(* The linker script collects the input sections .init_array only.  spi_init   *)
(* and adc_init have priorities, are in .init_array.01001 and .init_array.01002 *)
(* and are never called: SPI and converter stay as the boot loader left them.  *)
EXTENDS Ev3Drivers, FiniteSets

CONSTANTS
  Tasks,       \* the tasks that call drivers
  CallsOf,     \* CallsOf[t]: the calls task t may make
  MaxCalls,    \* bound: calls of all tasks together
  Pressed,     \* the buttons that are held down
  SpiAtBoot,   \* whether the boot loader may leave the SPI and the converter set up
  Sample       \* Sample[c]: what the converter measures on channel c

Threads == Tasks \cup {"boot"}
Pins == 0 .. GPIO_PIN(9, 0) - 1
Constructors == {"led_init", "button_init", "motor_init", "sensor_init"}
Call(fn, a, b) == [fn |-> fn, a |-> a, b |-> b]
NoCall == Call("none", 0, 0)
NoFrame == -1

\* What a driver may be asked for: the LEDs, colours, buttons, ports and motor
\* states that the enumerations of the headers name.
DriverCalls ==
  [fn : {"led_set"}, a : 1..3, b : 0..3] \cup [fn : {"button_get_state"}, a : 0..5, b : {0}]
    \cup [fn : {"motor_set_state"}, a : 0..3, b : 0..2]
    \cup [fn : {"sensor_touch_get_state", "sensor_light_get"}, a : 0..3, b : {0}]

ASSUME Ev3ConstantsOK ==
  /\ "boot" \notin Tasks /\ MaxCalls \in Nat /\ Pressed \subseteq 0..5
  /\ SpiAtBoot \subseteq BOOLEAN
  /\ DOMAIN CallsOf = Tasks /\ \A t \in Tasks : CallsOf[t] \subseteq DriverCalls

VARIABLES
  \* registers
  kick,        \* kick[n]: SYSCFG_KICK(n) holds its unlock value
  mux,         \* mux[r][n]: the bits set in nibble n of SYSCFG_PINMUX(r)
  dir,         \* the pins whose GPIO_DIR bit is set (inputs)
  out,         \* the pins whose output latch is set
  pull,        \* the pull-up/down groups still enabled
  spi,         \* the SPI is set up and enabled
  tx, rx,      \* frame in SPIDAT0 not yet transferred, answer in SPIBUF not yet read
  \* threads
  waiting,     \* constructors not yet run
  call, code,  \* the last call of a thread, the accesses it has still to make
  latch, data, \* the register value it loaded, the answers it read
  made,        \* calls the tasks made
  alone        \* history: no other call was in progress during the call

regs == <<kick, mux, dir, out, pull, spi, tx, rx>>
vars == <<kick, mux, dir, out, pull, spi, tx, rx, waiting, call, code, latch, data, made, alone>>

CodeOf(c) ==
  CASE c.fn = "led_init" -> led_init
    [] c.fn = "button_init" -> button_init
    [] c.fn = "motor_init" -> motor_init
    [] c.fn = "sensor_init" -> sensor_init
    [] c.fn = "led_set" -> led_set(c.a, c.b)
    [] c.fn = "button_get_state" -> button_get_state(c.a)
    [] c.fn = "motor_set_state" -> motor_set_state(c.a, c.b)
    [] c.fn = "sensor_touch_get_state" -> sensor_touch_get_state(c.a)
    [] c.fn = "sensor_light_get" -> sensor_light_get(c.a)

Idle(t) == code[t] = <<>>

-----------------------------------------------------------------------------
(* Calls                                                                      *)

Begin(t, c) ==
  /\ Idle(t)
  /\ call' = [call EXCEPT ![t] = c]
  /\ code' = [code EXCEPT ![t] = CodeOf(c)]
  /\ data' = [data EXCEPT ![t] = <<>>]
  /\ alone' = [u \in Threads |-> IF u = t THEN \A v \in Threads : Idle(v)
                                 ELSE alone[u] /\ Idle(u)]
  /\ UNCHANGED <<regs, latch>>

\* start.S calls the constructors between __init_array_start and
\* __init_array_end, in the order of the link.
init_array(f) ==
  /\ f \in waiting
  /\ Begin("boot", Call(f, 0, 0))
  /\ waiting' = waiting \ {f}
  /\ UNCHANGED made

TaskBegins(t, c) ==
  /\ waiting = {} /\ Idle("boot")
  /\ made < MaxCalls
  /\ made' = made + 1
  /\ Begin(t, c)
  /\ UNCHANGED waiting

TaskCalls(t) == \E c \in CallsOf[t] : TaskBegins(t, c)

\* The second half of demo_motor: the motor follows the touch sensor.
demo_motor(t) ==
  /\ Idle(t) /\ call[t] = Call("sensor_touch_get_state", 1, 0)
  /\ TaskBegins(t, Call("motor_set_state", 0,
                        IF TouchDown(Sample[data[t][1]], Sample[data[t][2]]) THEN 2 ELSE 1))

-----------------------------------------------------------------------------
(* Register accesses                                                          *)

Step(t, ops) ==
  /\ ~Idle(t)
  /\ Head(code[t]).op \in ops
  /\ code' = [code EXCEPT ![t] = Tail(@)]
  /\ UNCHANGED <<waiting, call, made, alone>>

Arg(t) == Head(code[t]).arg
Op(t) == Head(code[t]).op
Row(t) == pininfo[Arg(t)]

\* The pins that share the GPIO registers of a pin: GPIO_BANK(N) is by N >> 5.
GPIO_BANK(pin) == {p \in Pins : p \div 32 = pin \div 32}

Kick(t) ==
  /\ Step(t, {"unlock", "lock"})
  /\ kick' = [kick EXCEPT ![Arg(t)] = (Op(t) = "unlock")]
  /\ UNCHANGED <<mux, dir, out, pull, spi, tx, rx, latch, data>>

Load(t) ==
  /\ Step(t, {"load_mux", "load_dir"})
  /\ latch' = [latch EXCEPT ![t] = IF Op(t) = "load_mux" THEN mux[Row(t).muxreg]
                                   ELSE dir \cap GPIO_BANK(Arg(t))]
  /\ UNCHANGED <<regs, data>>

\* The system configuration module ignores writes while it is locked.
StoreMux(t) ==
  LET row == Row(t)
      new == IF Op(t) = "and_mux"
             THEN [n \in Nibbles |-> IF n \in row.muxreg_mask THEN latch[t][n] ELSE {}]
             ELSE [latch[t] EXCEPT ![row.nibble] = @ \cup row.muxreg_mode]
  IN  /\ Step(t, {"and_mux", "or_mux"})
      /\ mux' = IF kick[0] /\ kick[1] THEN [mux EXCEPT ![row.muxreg] = new] ELSE mux
      /\ latch' = [latch EXCEPT ![t] = {}]
      /\ UNCHANGED <<kick, dir, out, pull, spi, tx, rx, data>>

StoreDir(t) ==
  LET pin == Arg(t)
      new == IF Op(t) = "dir_in" THEN latch[t] \cup {pin} ELSE latch[t] \ {pin}
  IN  /\ Step(t, {"dir_in", "dir_out"})
      /\ dir' = (dir \ GPIO_BANK(pin)) \cup new
      /\ latch' = [latch EXCEPT ![t] = {}]
      /\ UNCHANGED <<kick, mux, out, pull, spi, tx, rx, data>>

\* Writing a one to GPIO_SET or GPIO_CLR changes the bits written and no other.
SetClr(t) ==
  /\ Step(t, {"set", "clr"})
  /\ out' = IF Op(t) = "set" THEN out \cup {Arg(t)} ELSE out \ {Arg(t)}
  /\ UNCHANGED <<kick, mux, dir, pull, spi, tx, rx, latch, data>>

Muxed(pin) ==
  mux[pininfo[pin].muxreg][pininfo[pin].nibble] = pininfo[pin].muxreg_mode

\* The input of a pin that is not switched to GPIO may be anything.
Get(t) ==
  /\ Step(t, {"get"})
  /\ \E level \in BOOLEAN :
       /\ Muxed(Arg(t)) => level = (\E b \in Pressed : buttons[b + 1] = Arg(t))
       /\ data' = [data EXCEPT ![t] = Append(@, level)]
  /\ UNCHANGED <<regs, latch>>

Pull(t) ==
  /\ Step(t, {"pull"})
  /\ pull' = pull \ {Arg(t)}
  /\ UNCHANGED <<kick, mux, dir, out, spi, tx, rx, latch, data>>

Tx(t) ==
  /\ Step(t, {"tx"})
  /\ tx = NoFrame
  /\ tx' = Arg(t)
  /\ UNCHANGED <<kick, mux, dir, out, pull, spi, rx, latch, data>>

Rx(t) ==
  /\ Step(t, {"rx"})
  /\ rx # NoFrame
  /\ data' = [data EXCEPT ![t] = Append(@, rx)]
  /\ rx' = NoFrame
  /\ UNCHANGED <<kick, mux, dir, out, pull, spi, tx, latch>>

\* The SPI exchanges a frame with the converter; an answer nobody read is lost.
Transfer ==
  /\ spi /\ tx # NoFrame
  /\ rx' = tx /\ tx' = NoFrame
  /\ UNCHANGED <<kick, mux, dir, out, pull, spi, waiting, call, code, latch, data, made, alone>>

Runs(t) == \/ Kick(t) \/ Load(t) \/ StoreMux(t) \/ StoreDir(t) \/ SetClr(t) \/ Get(t)
           \/ Pull(t) \/ Tx(t) \/ Rx(t)

Init ==
  /\ kick = [n \in 0..1 |-> FALSE]
  /\ mux = [r \in MuxRegs |-> [n \in Nibbles |-> {}]]
  /\ dir = Pins /\ out = {} /\ pull = {"up_group_25", "down_all"}
  /\ spi \in SpiAtBoot /\ tx = NoFrame /\ rx = NoFrame
  /\ waiting = Constructors
  /\ call = [t \in Threads |-> NoCall]
  /\ code = [t \in Threads |-> <<>>]
  /\ latch = [t \in Threads |-> {}]
  /\ data = [t \in Threads |-> <<>>]
  /\ made = 0
  /\ alone = [t \in Threads |-> TRUE]

Next == \/ \E f \in Constructors : init_array(f)
        \/ \E t \in Tasks : TaskCalls(t) \/ demo_motor(t)
        \/ \E t \in Threads : Runs(t)
        \/ Transfer

Spec == Init /\ [][Next]_vars
             /\ \A t \in Threads : WF_vars(Runs(t))
             /\ WF_vars(Transfer)

-----------------------------------------------------------------------------
(* What a call is for: the pins it drives and how, the pins it reads, the pins *)
(* it only switches to their function, and the channels it asks.               *)

Column(ports, i) == {p[i] : p \in Range(ports)}

Lit(c) == {leds[n].pin1 : n \in IF c.b \in {1, 3} THEN {1, 2} ELSE {}}
            \cup {leds[n].pin2 : n \in IF c.b \in {2, 3} THEN {1, 2} ELSE {}}

Outputs(c) ==
  CASE c.fn = "led_set" -> UNION {{leds[n].pin1, leds[n].pin2} : n \in {1, 2} \ {3 - c.a}}
    [] c.fn = "motor_set_state" -> {MotorPorts[c.a + 1][1], MotorPorts[c.a + 1][2]}
    [] c.fn = "sensor_light_get" -> {SensorPorts[c.a + 1][3]}
    [] c.fn = "led_init" -> Range(LedPins)
    [] c.fn = "motor_init" -> UNION {Range(p) : p \in Range(MotorPorts)}
    [] c.fn = "sensor_init" -> Column(SensorPorts, 3)
    [] OTHER -> {}

High(c) ==
  CASE c.fn = "led_set" -> Outputs(c) \cap Lit(c)
    [] c.fn = "motor_set_state" -> {MotorPorts[c.a + 1][i] : i \in {s \in {1, 2} : c.b = 4 - 2 * s}}
    [] c.fn = "sensor_light_get" -> Outputs(c)
    [] OTHER -> {}

Inputs(c) ==
  CASE c.fn = "button_get_state" -> {buttons[c.a + 1]}
    [] c.fn = "button_init" -> Range(buttons)
    [] c.fn = "sensor_init" -> Column(SensorPorts, 1) \cup Column(SensorPorts, 2)
    [] OTHER -> {}

Switched(c) ==
  Outputs(c) \cup Inputs(c) \cup
    CASE c.fn = "sensor_init" -> Column(SensorPorts, 4) \cup Column(SensorPorts, 5)
      [] OTHER -> {}

Answers(c) ==
  CASE c.fn = "button_get_state" -> <<c.a \in Pressed>>
    [] c.fn = "sensor_touch_get_state" -> <<SensorPorts[c.a + 1][6], SensorPorts[c.a + 1][7]>>
    [] c.fn = "sensor_light_get" -> <<SensorPorts[c.a + 1][6]>>
    [] OTHER -> <<>>

\* The calls a task may make, those of demo_motor included.
Makes(t) ==
  CallsOf[t] \cup (IF Call("sensor_touch_get_state", 1, 0) \in CallsOf[t]
                   THEN {Call("motor_set_state", 0, 1), Call("motor_set_state", 0, 2)} ELSE {})

\* Different tasks use different motors, LEDs and light sensors: without this, two
\* tasks may ask for different levels of one pin.
OwnPins ==
  \A t, u \in Tasks : t # u =>
    \A c \in Makes(t), d \in Makes(u) : Outputs(c) \cap Outputs(d) = {}

AsksConverter(c) == c.fn \in {"sensor_touch_get_state", "sensor_light_get"}

\* One task at a time asks the converter: of two, one may read the answer to the
\* other, which then waits for ever.
OneReader ==
  \A t, u \in Tasks : t # u =>
    \A c \in Makes(t), d \in Makes(u) : ~(AsksConverter(c) /\ AsksConverter(d))

-----------------------------------------------------------------------------
(* Properties                                                                 *)

\* Call c of t, as it ends, has done what it is for: its pins have their function,
\* direction and level, its answers are those of the button or channels it asked.
DoneRight(t, c) ==
  /\ \A p \in Switched(c) : Muxed(p)'
  /\ Outputs(c) \cap dir' = {} /\ Inputs(c) \subseteq dir'
  /\ out' \cap Outputs(c) = High(c)
  /\ data'[t] = Answers(c)

\* A call during which no other call was in progress does what it is for, however
\* calls that disturbed each other before have left the registers (gpio_set and
\* gpio_get switch their pin anew, and no answer of the converter is left over).
UndisturbedCallRight ==
  [][\A t \in Threads : (~Idle(t) /\ Idle(t)' /\ alone[t]) => DoneRight(t, call[t])]_vars

\* Even if calls preempt each other, after start-up no pin ever loses its
\* direction: GPIO_DIR is read, changed and written back without a lock, but
\* no driver changes a direction that a constructor has set.
DirectionsKept ==
  [][waiting = {} /\ Idle("boot") => dir' = dir]_vars

\* Even if calls preempt each other, the levels that a call asked for are those of
\* its pins until the same task asks for others: the latches are set and cleared by
\* writes that change no other bit.
LevelsKept ==
  \A t \in Tasks : Idle(t) => out \cap Outputs(call[t]) = High(call[t])

\* A call that is not disturbed changes no pin but its own, neither function nor
\* direction nor level (the masks of pininfo.c, and registers shared by many pins).
BystandersKept ==
  [][\A t \in Threads : (code[t] # code'[t] /\ ~Idle(t) /\ alone[t]) =>
       \A p \in 0 .. pininfo_size - 1 :
         (p \notin Switched(call[t]) /\ pininfo[p].muxreg_mode # {}) =>
            /\ Muxed(p) => Muxed(p)'
            /\ (p \in dir) = (p \in dir')
            /\ (p \in out) = (p \in out')]_vars

\* Whenever no call is in progress the system configuration is locked again, in
\* whatever order the unlocks and locks of several tasks were interleaved.
LockedAtRest == (\A t \in Threads : Idle(t)) => ~(kick[0] /\ kick[1])

\* What overlapping calls of gpio.c leave behind in shared registers.
SharedRegistersSafe == LevelsKept /\ LockedAtRest

\* Every constructor and every driver call returns: the loops of spi_update end,
\* unless the SPI is off, which holds up the callers of the converter only.
CallsReturn ==
  \A t \in Threads : []<>(Idle(t) \/ (~spi /\ AsksConverter(call[t])))

\* "setup spi and required gpio pins, this is done automatically on startup"
\* (spi.c): once start-up is over, the SPI and its pins are set up.
SpiSetUpAtStart ==
  waiting = {} /\ Idle("boot") => spi /\ \A p \in SpiPins : Muxed(p)
=============================================================================
