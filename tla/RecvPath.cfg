\* A queue of two packets behind a ring of two usable descriptors: both fill up.
CONSTANTS
  MAX_PACKET_COUNT = 3
  E1000_NUM_RX_DESC = 3
  MaxPackets = 5
  Packets = {1, 2, 3, 4, 5}
  MaxOther = 1
SPECIFICATION Spec
CHECK_DEADLOCK FALSE
INVARIANTS TypeOK PacketStable NothingSkipped NoLostWakeup NeverWedged EachOnceInOrder
PROPERTIES IsLossyFifo EveryPacketEnds
