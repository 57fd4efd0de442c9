\* One boot task that goes on creating others after tasks[] is full, and a
\* device on a PCI line that has no handler.
CONSTANTS
  MAX_TASK_NUMBER = 4
  BootTasks = 1
  TaskLimit = 5
  PosCount = 2
  CLOCK_MOD = 1
  EarlyIrqs = {}
  UnservedIrqs = {"PCI0"}
SPECIFICATION FairSpec
INVARIANTS TypeOK NoTaskLostBelowCapacity ContextsIntact NeverQueuedTwice AtMostOneTaskLost
PROPERTIES IsRoundRobin EveryTaskRuns EveryIrqServed
