\* One task sends, as the network task of kernel_main does; the ring wraps.
CONSTANTS
  E1000_NUM_TX_DESC = 3
  Senders = {"net"}
  MaxFrames = 10
SPECIFICATION Spec
CHECK_DEADLOCK FALSE
INVARIANTS SentBeforeFreed WireInOrder
PROPERTY SendReturns
