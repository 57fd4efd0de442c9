\* Start-up from a boot loader that has not used the SPI.
CONSTANTS
  Tasks = {"lights", "robot"}
  CallsOf <- Calls
  MaxCalls = 0
  Pressed = {}
  SpiAtBoot = {FALSE}
  Sample <- Samples
SPECIFICATION Spec
CHECK_DEADLOCK FALSE
INVARIANT SpiSetUpAtStart
