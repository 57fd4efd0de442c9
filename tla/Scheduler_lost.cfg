\* Every slot of tasks[] used.
CONSTANTS
  MAX_TASK_NUMBER = 3
  BootTasks = 2
  TaskLimit = 3
  PosCount = 1
  CLOCK_MOD = 1
  EarlyIrqs = {}
  UnservedIrqs = {}
SPECIFICATION Spec
INVARIANT NoTaskLost
