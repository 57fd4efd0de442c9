\* The network card interrupts while the boot code executes.
CONSTANTS
  MAX_TASK_NUMBER = 3
  BootTasks = 1
  TaskLimit = 2
  PosCount = 2
  CLOCK_MOD = 1
  EarlyIrqs = {"PCI3"}
  UnservedIrqs = {}
SPECIFICATION Spec
INVARIANT ContextsIntact
