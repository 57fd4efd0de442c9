\* A host that answers in the second after the timeout.
CONSTANTS
  MAX_ARP_TABLE_ENTRIES = 1
  MAX_ARP_TABLE_AGE = 2
  Ips = {1}
  MacOf <- MacOfHosts
  SenderIps = {1}
  Destinations = {1}
  Garbage <- ClearMemory
  WAIT_ON_ARP_TIMEOUT = 1
  MaxTime = 4
SPECIFICATION Spec
INVARIANT FailsOnlyUnresolved
