\* Three sizes of blocks in a heap that is used up by a few of them.
CONSTANTS
  WORD = 1024
  HEAP_START = 64
  HEAP_SIZE = 80
  Sizes = {0, 5, 20}
SPECIFICATION FairSpec
CHECK_DEADLOCK FALSE
INVARIANTS TypeOK NoLeak BlocksBounded
PROPERTIES IsAllocator MallocReturns
