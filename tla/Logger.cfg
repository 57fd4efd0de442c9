\* An int of 16 bits and a long long of 27, with digit buffers to match.
SPECIFICATION Spec
CONSTANTS
  IntBits = 16
  LongBits = 27
  TmpInt = 5
  TmpLong = 9
  Calls <- MCCalls
INVARIANTS
  BufferBounded
  OutputRight
