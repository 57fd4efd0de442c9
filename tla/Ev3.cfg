\* Two tasks that preempt each other between any two register accesses.
CONSTANTS
  Tasks = {"lights", "robot"}
  CallsOf <- Calls
  MaxCalls = 3
  Pressed = {0}
  SpiAtBoot = {TRUE, FALSE}
  Sample <- Samples
SPECIFICATION Spec
CHECK_DEADLOCK FALSE
INVARIANTS SharedRegistersSafe
PROPERTIES UndisturbedCallRight DirectionsKept BystandersKept CallsReturn
