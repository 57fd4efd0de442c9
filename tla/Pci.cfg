\* Three slots with any devices, a register range of three words.
CONSTANTS
  FirstSlot = 11
  LastSlot = 13
  MAX_PCI_DEVICES = 3
  BarIsIo <- CardBars
  CardRegisters <- Mac
  BigEndian = FALSE
  Bits = {0}
  MemWords = 3
  MaxWrites = 1
  MaxIrqs = 1
SPECIFICATION Spec
CHECK_DEADLOCK FALSE
INVARIANTS DriverReady MacOnTheWire WriteExact
