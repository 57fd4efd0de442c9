--------------------------------- MODULE Pci --------------------------------
(* The PCI bus during boot (pci/pci.c), the start of the card's driver         *)
(* (e1000_init in network/e1000.c) and, once it runs, its register writes      *)
(* (PciMmio).  An address is the number of its 256 MB window, which the IMAP   *)
(* registers map, and its offset in it in 16 MB.                               *)
EXTENDS PciMmio, NetworkIo

CONSTANTS
  FirstSlot, LastSlot,  \* 11 and 31 on the board
  MAX_PCI_DEVICES,
  BarIsIo,              \* BarIsIo[b]: bar b of the card is in the I/O space
  CardRegisters         \* the 8 bytes at the card's address registers, as they lie in memory

Slots == FirstSlot .. LastSlot
Bars == 0..1
NoAddress == <<0, 0>>
NoDevice == [config_base |-> 0, id |-> "none"]   \* static storage is zero
Unset == "not set"                               \* memory of malloc
CardMac == [i \in 0..5 |-> CardRegisters[i]]     \* the address

ASSUME PciConstantsOK ==
  /\ FirstSlot \in Nat /\ LastSlot \in Nat /\ 0 < FirstSlot /\ FirstSlot <= LastSlot
  /\ MAX_PCI_DEVICES = LastSlot - FirstSlot + 1
  /\ BarIsIo \in [Bars -> BOOLEAN] /\ BigEndian \in BOOLEAN /\ CardRegisters \in [0..7 -> 0..255]

VARIABLES
  slots,       \* what is in each slot: "empty", "core" (the board), "card", "other"
  imap,        \* imap[n]: the window in PCI_IMAP n, 0 before
  selfid,      \* PCI_SELFID
  command,     \* command[s]: bits set in PCI_COMMAND of slot s
  bar,         \* bar[s][b]: address in bar b of slot s
  pci_devices,
  e1000,       \* the driver's object: device (or NULL), mem_base, io_base, eeprom_exists, mac
  pc           \* the next call of the boot code

pciVars == <<slots, imap, selfid, command, bar, pci_devices, e1000, pc>>
vars == <<slots, imap, selfid, command, bar, pci_devices, e1000, pc, mmioVars>>

Goto(from, to) == pc = from /\ pc' = to /\ UNCHANGED mmioVars

-----------------------------------------------------------------------------
(* pci.c                                                                      *)

\* What is written into PCI_IMAP0..2: the upper 4 bits of 0x44000000 (I/O),
\* 0x50000000 (memory) and 0x60000000 (prefetchable memory).
Bad_Imaps == <<4, 6, 6>>
Imaps == <<4, 5, 6>>

\* Maps the windows, finds the board's own core and enables it as initiator.
\* Without a core it returns -1 after the windows are mapped.
configure_board ==
  /\ Goto("configure_board", "enumerate")
  /\ imap' = [n \in 0..2 |-> Imaps[n + 1]]
  /\ \/ /\ \A s \in Slots : slots[s] # "core"
        /\ UNCHANGED <<selfid, command>>
     \/ \E s \in Slots :
          /\ slots[s] = "core" /\ \A i \in FirstSlot .. s - 1 : slots[i] # "core"
          /\ selfid' = s
          /\ command' = [command EXCEPT ![s] = @ \cup {"memory", "master", "invalidate"}]
  /\ UNCHANGED <<slots, bar, pci_devices, e1000>>

\* The slots the loop visits.
ProbedSlots == FirstSlot .. LastSlot

\* pci_init does not look at the result of configure_board.
enumerate_pci_devices ==
  /\ Goto("enumerate", "e1000_init")
  /\ pci_devices' = [i \in 0 .. MAX_PCI_DEVICES - 1 |->
                       LET s == i + FirstSlot IN
                       IF s \in ProbedSlots /\ slots[s] # "empty"
                       THEN [config_base |-> s, id |-> slots[s]] ELSE pci_devices[i]]
  /\ UNCHANGED <<slots, imap, selfid, command, bar, e1000>>

\* The first device with the id, 0 for NULL.
pci_get_device(id) ==
  LET found == {i \in DOMAIN pci_devices : pci_devices[i].id = id}
  IN  IF found = {} THEN 0
      ELSE pci_devices[CHOOSE i \in found : \A j \in found : i <= j].config_base

get_bar_type(b) == BarIsIo[b]

\* 0x43000000 for the I/O space, 0x50000000 for the memory space, whatever is there.
pci_alloc_memory(b) == IF get_bar_type(b) THEN <<4, 3>> ELSE <<5, 0>>

-----------------------------------------------------------------------------
(* e1000_init                                                                 *)

\* There is no memory for the driver's object: e1000 stays NULL.
NoMemory == Goto("e1000_init", "no network")
            /\ UNCHANGED <<slots, imap, selfid, command, bar, pci_devices, e1000>>

\* The object is new memory: eeprom_exists and mac hold what was there before.
FindCard ==
  LET found == pci_get_device("card") IN
  /\ Goto("e1000_init", IF found = 0 THEN "no network" ELSE "bar 0")
  /\ \E garbage \in BOOLEAN :
       e1000' = [e1000 EXCEPT !.device = found, !.eeprom_exists = garbage]
  /\ UNCHANGED <<slots, imap, selfid, command, bar, pci_devices>>

AllocBar(b, from, to) ==
  /\ Goto(from, to)
  /\ bar' = [bar EXCEPT ![e1000.device][b] = pci_alloc_memory(b)]
  /\ e1000' = IF b = 0 THEN [e1000 EXCEPT !.mem_base = pci_alloc_memory(b)]
              ELSE [e1000 EXCEPT !.io_base = pci_alloc_memory(b)]
  /\ UNCHANGED <<slots, imap, selfid, command, pci_devices>>

AllocMemory == AllocBar(0, "bar 0", "bar 1")
AllocIo == AllocBar(1, "bar 1", "bus mastering")

pci_enable_bus_mastering ==
  /\ Goto("bus mastering", "detect_eeprom")
  /\ command' = [command EXCEPT ![e1000.device] = @ \cup {"master", "io", "memory"}]
  /\ UNCHANGED <<slots, imap, selfid, bar, pci_devices, e1000>>

\* Polls the register until the card says there is an eeprom or 1000 polls are
\* over; does not poll at all if the flag is set already.
detect_eeprom ==
  /\ Goto("detect_eeprom", "read mac")
  /\ \E answer \in BOOLEAN :
       /\ e1000.eeprom_exists => answer
       /\ e1000' = [e1000 EXCEPT !.eeprom_exists = answer]
  /\ UNCHANGED <<slots, imap, selfid, command, bar, pci_devices>>

\* The bytes that mac_data << 16 keeps of the word read.
Tested == IF BigEndian THEN 2..7 ELSE 0..5

\* If these are zero, mac is left as it was.
read_e1000_hardware_address ==
  /\ Goto("read mac", "running")
  /\ e1000' = IF \E i \in Tested : CardRegisters[i] # 0
              THEN [e1000 EXCEPT !.mac = ntoh_mac(CardMac)] ELSE e1000
  /\ UNCHANGED <<slots, imap, selfid, command, bar, pci_devices>>

\* write_command and read_command of a running driver, at offsets from mem_base.
Registers == /\ pc = "running"
             /\ MmioNext
             /\ UNCHANGED pciVars

Init ==
  /\ slots \in [Slots -> {"empty", "core", "card", "other"}]
  /\ imap = [n \in 0..2 |-> 0] /\ selfid = 0
  /\ command = [s \in Slots |-> {}]
  /\ bar = [s \in Slots |-> [b \in Bars |-> NoAddress]]
  /\ pci_devices = [i \in 0 .. MAX_PCI_DEVICES - 1 |-> NoDevice]
  /\ e1000 = [device |-> 0, mem_base |-> NoAddress, io_base |-> NoAddress,
              eeprom_exists |-> FALSE, mac |-> Unset]
  /\ pc = "configure_board"
  /\ MmioInit

Next == \/ configure_board \/ enumerate_pci_devices \/ NoMemory \/ FindCard \/ AllocMemory
        \/ AllocIo \/ pci_enable_bus_mastering \/ detect_eeprom \/ read_e1000_hardware_address
        \/ Registers

Spec == Init /\ [][Next]_vars

-----------------------------------------------------------------------------
(* Properties                                                                 *)

Started == pc \in {"detect_eeprom", "read mac", "running"}

\* From the first register access of the driver on, its card answers where the driver
\* looks for it: the bases are those in the card's bars, in a window that the board
\* maps, different from every other address given out, and the card is enabled for
\* both spaces and as bus master.  If the board has a core, it was enabled as well.
CardReachable ==
  Started =>
    LET d == e1000.device IN
    /\ slots[d] = "card" /\ {"io", "memory", "master"} \subseteq command[d]
    /\ bar[d] = [b \in Bars |-> IF b = 0 THEN e1000.mem_base ELSE e1000.io_base]
    /\ \A b \in Bars : \E n \in 0..2 : imap[n] = bar[d][b][1]
    /\ \A s \in Slots, b, c \in Bars :
         (bar[s][b] = bar[d][c] /\ bar[s][b] # NoAddress) => (s = d /\ b = c)
    /\ (\E s \in Slots : slots[s] = "core") =>
         (selfid \in Slots /\ {"memory", "master"} \subseteq command[selfid])

\* A card in any slot is found, the one in the lowest slot if there are several, and
\* no address is written into any other device.
CardFound ==
  /\ pc \notin {"configure_board", "enumerate", "e1000_init", "no network"} =>
       /\ slots[e1000.device] = "card"
       /\ \A s \in FirstSlot .. e1000.device - 1 : slots[s] # "card"
  /\ \A s \in Slots : s # e1000.device => \A b \in Bars : bar[s][b] = NoAddress
  /\ (pc = "e1000_init" /\ \E s \in Slots : slots[s] = "card") => pci_get_device("card") # 0

\* pci_init and e1000_init end with a driver that talks to its card and to nothing else.
DriverReady == CardFound /\ CardReachable

\* What ethernet_send puts into a frame, hton_mac(e1000_get_mac()), is the card's
\* address byte by byte as the card holds it, if the card has one.
MacOnTheWire ==
  pc = "running" /\ (\E i \in Tested : CardRegisters[i] # 0) => hton_mac(e1000.mac) = CardMac
=============================================================================
