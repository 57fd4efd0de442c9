\* Two hosts that send and probe, and a task that sends to one of them.
CONSTANTS
  MAX_ARP_TABLE_ENTRIES = 2
  MAX_ARP_TABLE_AGE = 0
  Ips = {1, 2}
  MacOf <- MacOfHosts
  SenderIps = {0, 1, 2}
  Destinations = {1}
  Garbage <- UsedMemory
  WAIT_ON_ARP_TIMEOUT = 0
  MaxTime = 2
SPECIFICATION FairSpec
INVARIANTS OneEntryPerIp NoForeignMac
PROPERTY WaitEnds
