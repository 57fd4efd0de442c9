------------------------------ MODULE PciProofs ------------------------------
(***************************************************************************)
(* Proofs about Pci, for every range of slots, every population of them    *)
(* and every size of the register range.                                   *)
(***************************************************************************)
EXTENDS Pci, CommonLemmas

----------------------------------------------------------------------------
(* The boot code: the inductive invariant. *)

Early == {"configure_board", "enumerate", "e1000_init", "no network"}
Late  == {"bar 0", "bar 1", "bus mastering", "detect_eeprom", "read mac", "running"}

PciType ==
  /\ pc \in Early \cup Late
  /\ slots \in [Slots -> {"empty", "core", "card", "other"}]
  /\ command \in [Slots -> SUBSET {"io", "memory", "master", "invalidate"}]
  /\ bar \in [Slots -> [Bars -> {NoAddress, pci_alloc_memory(0), pci_alloc_memory(1)}]]
  /\ DOMAIN e1000 = {"device", "mem_base", "io_base", "eeprom_exists", "mac"}

\* What configure_board has done.
BoardInv ==
  pc # "configure_board" =>
    /\ imap = [n \in 0..2 |-> Imaps[n + 1]]
    /\ (\E s \in Slots : slots[s] = "core") =>
         selfid \in Slots /\ {"memory", "master"} \subseteq command[selfid]

\* What enumerate_pci_devices has found.
DevicesInv ==
  /\ DOMAIN pci_devices = 0..(MAX_PCI_DEVICES - 1)
  /\ \A i \in 0..(MAX_PCI_DEVICES - 1) :
       pci_devices[i] = IF pc \in {"configure_board", "enumerate"} \/ slots[i + FirstSlot] = "empty"
                        THEN NoDevice
                        ELSE [config_base |-> i + FirstSlot, id |-> slots[i + FirstSlot]]

\* The device of the driver is the first card, ...
DeviceInv ==
  /\ pc \in Early => e1000.device = 0
  /\ pc \in Late =>
       /\ e1000.device \in Slots /\ slots[e1000.device] = "card"
       /\ \A s \in FirstSlot .. e1000.device - 1 : slots[s] # "card"

\* ... its bars are given addresses one after the other, nobody else's are, ...
BarInv ==
  /\ \A s \in Slots : s # e1000.device => \A b \in Bars : bar[s][b] = NoAddress
  /\ pc \in Late \ {"bar 0"} =>
       e1000.mem_base = pci_alloc_memory(0) /\ bar[e1000.device][0] = pci_alloc_memory(0)
  /\ pc \in Late \ {"bar 0", "bar 1"} =>
       e1000.io_base = pci_alloc_memory(1) /\ bar[e1000.device][1] = pci_alloc_memory(1)

\* ... it is enabled before it is used, and its hardware address is read last.
ReadyInv ==
  /\ Started => {"io", "memory", "master"} \subseteq command[e1000.device]
  /\ pc = "running" /\ (\E i \in Tested : CardRegisters[i] # 0) => e1000.mac = ntoh_mac(CardMac)

IInv == PciType /\ BoardInv /\ DevicesInv /\ DeviceInv /\ BarInv /\ ReadyInv

\* The invariant holds before pci_init.
LEMMA InitInv == Init => IInv
<1> SUFFICES ASSUME Init PROVE IInv
  OBVIOUS
<1>1. PciType
  BY DEF Init, PciType, Early
<1>2. DevicesInv
  BY DEF Init, DevicesInv
<1>3. BoardInv /\ DeviceInv /\ BarInv /\ ReadyInv
  BY DEF Init, BoardInv, DeviceInv, BarInv, ReadyInv, Early, Late, Started
<1> QED  BY <1>1, <1>2, <1>3 DEF IInv

\* pci_get_device returns the lowest slot with the id, and 0 if there is none.
LEMMA GetDeviceIs ==
  ASSUME IInv, pc = "e1000_init"
  PROVE  LET d == pci_get_device("card")
         IN  IF \E s \in Slots : slots[s] = "card"
             THEN d \in Slots /\ slots[d] = "card" /\ \A s \in FirstSlot .. d - 1 : slots[s] # "card"
             ELSE d = 0
<1> USE PciConstantsOK
<1> DEFINE found == {i \in DOMAIN pci_devices : pci_devices[i].id = "card"}
           least == CHOOSE i \in found : \A j \in found : i <= j
<1>1. found = {i \in 0..(MAX_PCI_DEVICES - 1) : slots[i + FirstSlot] = "card"}
  <2>1. DOMAIN pci_devices = 0..(MAX_PCI_DEVICES - 1)
    BY DEF IInv, DevicesInv
  <2>2. ASSUME NEW i \in 0..(MAX_PCI_DEVICES - 1)
        PROVE  pci_devices[i].id = "card" <=> slots[i + FirstSlot] = "card"
    <3>1. CASE slots[i + FirstSlot] = "empty"
      <4>1. pci_devices[i] = NoDevice
        BY <3>1 DEF IInv, DevicesInv
      <4> QED  BY <3>1, <4>1 DEF NoDevice
    <3>2. CASE slots[i + FirstSlot] # "empty"
      <4>1. pci_devices[i] = [config_base |-> i + FirstSlot, id |-> slots[i + FirstSlot]]
        BY <3>2 DEF IInv, DevicesInv
      <4> QED  BY <4>1
    <3> QED  BY <3>1, <3>2
  <2> QED  BY <2>1, <2>2
<1>2. ASSUME NEW i \in found PROVE pci_devices[i].config_base = i + FirstSlot
  <2>1. i \in 0..(MAX_PCI_DEVICES - 1) /\ slots[i + FirstSlot] = "card"
    BY <1>1
  <2>2. pci_devices[i] = [config_base |-> i + FirstSlot, id |-> slots[i + FirstSlot]]
    BY <2>1 DEF IInv, DevicesInv
  <2> QED  BY <2>2
<1>3. pci_get_device("card") = IF found = {} THEN 0 ELSE pci_devices[least].config_base
  BY DEF pci_get_device
<1>4. \A s \in Slots : slots[s] = "card" <=> s - FirstSlot \in found
  BY <1>1 DEF Slots
<1>5. found \subseteq Nat
  BY <1>1
<1> HIDE DEF found
<1>6. found # {} => least \in found /\ \A j \in found : least <= j
  BY <1>5, LeastExists
<1> HIDE DEF least
<1>7. CASE found = {}
  BY <1>3, <1>4, <1>7
<1>8. CASE found # {}
  <2>1. pci_get_device("card") = least + FirstSlot /\ least \in found
    BY <1>2, <1>3, <1>6, <1>8
  <2>2. least + FirstSlot \in Slots /\ slots[least + FirstSlot] = "card"
    BY <1>1, <2>1 DEF Slots
  <2>3. ASSUME NEW s \in FirstSlot .. (least + FirstSlot - 1) PROVE slots[s] # "card"
    <3>1. s \in Slots /\ ~(least <= s - FirstSlot)
      BY <1>5, <2>1, <2>2, <2>3 DEF Slots
    <3> QED  BY <1>4, <1>6, <1>8, <3>1
  <2> DEFINE d == pci_get_device("card")
  <2>d. d = least + FirstSlot /\ least \in Nat
    BY <1>5, <2>1
  <2> HIDE DEF d
  <2>4. \A s \in FirstSlot .. d - 1 : slots[s] # "card"
    BY <2>d, <2>3
  <2>5. d \in Slots /\ slots[d] = "card"
    BY <2>d, <2>2
  <2>6. \E s \in Slots : slots[s] = "card"
    BY <2>5
  <2> QED  BY <2>4, <2>5, <2>6 DEF d
<1> QED  BY <1>7, <1>8

----------------------------------------------------------------------------
(* Every step of the boot code keeps it. *)

\* configure_board maps the windows and enables the core, if there is one.
LEMMA ConfigureBoardInv == IInv /\ configure_board => IInv'
<1> SUFFICES ASSUME IInv, configure_board PROVE IInv'
  OBVIOUS
<1> USE PciConstantsOK
<1>1. /\ pc = "configure_board" /\ pc' = "enumerate"
      /\ imap' = [n \in 0..2 |-> Imaps[n + 1]]
      /\ UNCHANGED <<slots, bar, pci_devices, e1000>>
  BY DEF configure_board, Goto
<1>2. \/ (\A s \in Slots : slots[s] # "core") /\ UNCHANGED <<selfid, command>>
      \/ \E s \in Slots :
           /\ selfid' = s
           /\ command' = [command EXCEPT ![s] = command[s] \cup {"memory", "master", "invalidate"}]
  BY DEF configure_board
<1>3. PciType'
  BY <1>1, <1>2 DEF IInv, PciType, Early
<1>4. BoardInv'
  BY <1>1, <1>2 DEF IInv, PciType, BoardInv
<1>5. DevicesInv'
  BY <1>1 DEF IInv, DevicesInv
<1>6. DeviceInv' /\ BarInv' /\ ReadyInv'
  BY <1>1 DEF IInv, DeviceInv, BarInv, ReadyInv, Early, Late, Started
<1> QED  BY <1>3, <1>4, <1>5, <1>6 DEF IInv

\* enumerate_pci_devices fills the table.
LEMMA EnumerateInv == IInv /\ enumerate_pci_devices => IInv'
<1> SUFFICES ASSUME IInv, enumerate_pci_devices PROVE IInv'
  OBVIOUS
<1> USE PciConstantsOK
<1>1. /\ pc = "enumerate" /\ pc' = "e1000_init"
      /\ UNCHANGED <<slots, imap, selfid, command, bar, e1000>>
  BY DEF enumerate_pci_devices, Goto
<1>2. DevicesInv'
  <2>1. \A i \in 0..(MAX_PCI_DEVICES - 1) : i + FirstSlot \in ProbedSlots /\ pci_devices[i] = NoDevice
    BY <1>1 DEF IInv, DevicesInv, ProbedSlots
  <2> QED  BY <1>1, <2>1 DEF enumerate_pci_devices, DevicesInv
<1>3. PciType'
  BY <1>1 DEF IInv, PciType, Early
<1>4. BoardInv' /\ DeviceInv' /\ BarInv' /\ ReadyInv'
  BY <1>1 DEF IInv, BoardInv, DeviceInv, BarInv, ReadyInv, Early, Late, Started
<1> QED  BY <1>2, <1>3, <1>4 DEF IInv

\* e1000_init gives up, or has the first card.
LEMMA FindCardInv == IInv /\ (NoMemory \/ FindCard) => IInv'
<1> SUFFICES ASSUME IInv, NoMemory \/ FindCard PROVE IInv'
  OBVIOUS
<1> USE PciConstantsOK
<1>1. /\ pc = "e1000_init"
      /\ UNCHANGED <<slots, imap, selfid, command, bar, pci_devices>>
  BY DEF NoMemory, FindCard, Goto
<1>2. DevicesInv'
  <2>1. pc' \notin {"configure_board", "enumerate"}
    BY DEF NoMemory, FindCard, Goto
  <2> QED  BY <1>1, <2>1 DEF IInv, DevicesInv
<1>3. CASE NoMemory
  <2>1. pc' = "no network" /\ e1000' = e1000
    BY <1>3 DEF NoMemory, Goto
  <2>2. PciType'
    BY <1>1, <2>1 DEF IInv, PciType, Early
  <2>3. BoardInv' /\ DeviceInv' /\ BarInv' /\ ReadyInv'
    BY <1>1, <2>1 DEF IInv, BoardInv, DeviceInv, BarInv, ReadyInv, Early, Late, Started
  <2> QED  BY <1>2, <2>2, <2>3 DEF IInv
<1>4. CASE FindCard
  <2> DEFINE d == pci_get_device("card")
  <2>1. pc' = IF d = 0 THEN "no network" ELSE "bar 0"
    BY <1>4 DEF FindCard, Goto
  <2>2. DOMAIN e1000' = DOMAIN e1000 /\ e1000'.device = d
    BY <1>4 DEF FindCard, IInv, PciType
  <2>3. d # 0 => /\ d \in Slots /\ slots[d] = "card"
                 /\ \A s \in FirstSlot .. d - 1 : slots[s] # "card"
    BY <1>1, GetDeviceIs
  <2>4. e1000.device = 0 /\ \A s \in Slots : s # 0
    BY <1>1 DEF IInv, DeviceInv, Early, Slots
  <2> HIDE DEF d
  <2>5. PciType'
    BY <1>1, <2>1, <2>2 DEF IInv, PciType, Early, Late
  <2>6. BoardInv'
    BY <1>1, <2>1 DEF IInv, BoardInv
  <2>7. DeviceInv'
    BY <1>1, <2>1, <2>2, <2>3 DEF DeviceInv, Early, Late
  <2>8. BarInv' /\ ReadyInv'
    BY <1>1, <2>1, <2>4 DEF IInv, BarInv, ReadyInv, Late, Started
  <2> QED  BY <1>2, <2>5, <2>6, <2>7, <2>8 DEF IInv
<1> QED  BY <1>3, <1>4

\* The first bar is given an address.
LEMMA AllocMemoryInv == IInv /\ AllocMemory => IInv'
<1> SUFFICES ASSUME IInv, AllocMemory PROVE IInv'
  OBVIOUS
<1> DEFINE d == e1000.device
<1>1. /\ pc = "bar 0" /\ pc' = "bar 1"
      /\ bar' = [bar EXCEPT ![d][0] = pci_alloc_memory(0)]
      /\ e1000' = [e1000 EXCEPT !.mem_base = pci_alloc_memory(0)]
      /\ UNCHANGED <<slots, imap, selfid, command, pci_devices>>
  BY DEF AllocMemory, AllocBar, Goto
<1>2. d \in Slots
  BY <1>1 DEF IInv, DeviceInv, Late
<1>3. /\ DOMAIN e1000' = DOMAIN e1000 /\ e1000'.device = d
      /\ e1000'.mem_base = pci_alloc_memory(0)
  BY <1>1 DEF IInv, PciType
<1>4. /\ bar' \in [Slots -> [Bars -> {NoAddress, pci_alloc_memory(0), pci_alloc_memory(1)}]]
      /\ \A s \in Slots : s # d => bar'[s] = bar[s]
      /\ bar'[d][0] = pci_alloc_memory(0)
  <2> DEFINE V == {NoAddress, pci_alloc_memory(0), pci_alloc_memory(1)}
  <2>1. bar \in [Slots -> [Bars -> V]] /\ pci_alloc_memory(0) \in V /\ pci_alloc_memory(1) \in V
    BY DEF IInv, PciType
  <2>2. 0 \in Bars /\ 1 \in Bars
    BY DEF Bars
  <2> HIDE DEF d, V
  <2>3. /\ bar' \in [Slots -> [Bars -> V]]
        /\ \A s \in Slots : s # d => bar'[s] = bar[s]
        /\ bar'[d][0] = pci_alloc_memory(0) /\ \A c \in Bars : c # 0 => bar'[d][c] = bar[d][c]
    BY <1>1, <1>2, <2>1, <2>2
  <2> QED  BY <2>2, <2>3 DEF V
<1>5. PciType'
  BY <1>1, <1>3, <1>4 DEF IInv, PciType, Late
<1>6. BoardInv' /\ DevicesInv'
  BY <1>1 DEF IInv, BoardInv, DevicesInv
<1>7. DeviceInv'
  BY <1>1, <1>3 DEF IInv, DeviceInv, Early, Late
<1>8. BarInv' /\ ReadyInv'
  BY <1>1, <1>3, <1>4 DEF IInv, BarInv, ReadyInv, Started, Late
<1> QED  BY <1>5, <1>6, <1>7, <1>8 DEF IInv

\* The second bar is given an address.
LEMMA AllocIoInv == IInv /\ AllocIo => IInv'
<1> SUFFICES ASSUME IInv, AllocIo PROVE IInv'
  OBVIOUS
<1> DEFINE d == e1000.device
<1>1. /\ pc = "bar 1" /\ pc' = "bus mastering"
      /\ bar' = [bar EXCEPT ![d][1] = pci_alloc_memory(1)]
      /\ e1000' = [e1000 EXCEPT !.io_base = pci_alloc_memory(1)]
      /\ UNCHANGED <<slots, imap, selfid, command, pci_devices>>
  <2>1. AllocBar(1, "bar 1", "bus mastering")
    BY DEF AllocIo
  <2>2. e1000' = IF 1 = 0 THEN [e1000 EXCEPT !.mem_base = pci_alloc_memory(1)]
                 ELSE [e1000 EXCEPT !.io_base = pci_alloc_memory(1)]
    BY <2>1 DEF AllocBar
  <2>3. e1000' = [e1000 EXCEPT !.io_base = pci_alloc_memory(1)]
    BY <2>2
  <2> QED  BY <2>1, <2>3 DEF AllocBar, Goto
<1>2. d \in Slots
  BY <1>1 DEF IInv, DeviceInv, Late
<1>3. /\ DOMAIN e1000' = DOMAIN e1000 /\ e1000'.device = d
      /\ e1000'.io_base = pci_alloc_memory(1) /\ e1000'.mem_base = e1000.mem_base
  BY <1>1 DEF IInv, PciType
<1>4. /\ bar' \in [Slots -> [Bars -> {NoAddress, pci_alloc_memory(0), pci_alloc_memory(1)}]]
      /\ \A s \in Slots : s # d => bar'[s] = bar[s]
      /\ bar'[d][1] = pci_alloc_memory(1) /\ bar'[d][0] = bar[d][0]
  <2> DEFINE V == {NoAddress, pci_alloc_memory(0), pci_alloc_memory(1)}
  <2>1. bar \in [Slots -> [Bars -> V]] /\ pci_alloc_memory(0) \in V /\ pci_alloc_memory(1) \in V
    BY DEF IInv, PciType
  <2>2. 0 \in Bars /\ 1 \in Bars
    BY DEF Bars
  <2> HIDE DEF d, V
  <2>3. /\ bar' \in [Slots -> [Bars -> V]]
        /\ \A s \in Slots : s # d => bar'[s] = bar[s]
        /\ bar'[d][1] = pci_alloc_memory(1) /\ \A c \in Bars : c # 1 => bar'[d][c] = bar[d][c]
    BY <1>1, <1>2, <2>1, <2>2
  <2> QED  BY <2>2, <2>3 DEF V
<1>5. PciType'
  BY <1>1, <1>3, <1>4 DEF IInv, PciType, Late
<1>6. BoardInv' /\ DevicesInv'
  BY <1>1 DEF IInv, BoardInv, DevicesInv
<1>7. DeviceInv'
  BY <1>1, <1>3 DEF IInv, DeviceInv, Early, Late
<1>8. BarInv' /\ ReadyInv'
  BY <1>1, <1>3, <1>4 DEF IInv, BarInv, ReadyInv, Started, Late
<1> QED  BY <1>5, <1>6, <1>7, <1>8 DEF IInv

\* pci_enable_bus_mastering adds to the command bits of the card.
LEMMA EnableInv == IInv /\ pci_enable_bus_mastering => IInv'
<1> SUFFICES ASSUME IInv, pci_enable_bus_mastering PROVE IInv'
  OBVIOUS
<1> DEFINE d == e1000.device
<1>1. /\ pc = "bus mastering" /\ pc' = "detect_eeprom"
      /\ command' = [command EXCEPT ![d] = command[d] \cup {"master", "io", "memory"}]
      /\ UNCHANGED <<slots, imap, selfid, bar, pci_devices, e1000>>
  BY DEF pci_enable_bus_mastering, Goto
<1>2. d \in Slots
  BY <1>1 DEF IInv, DeviceInv, Late
<1>3. PciType' /\ \A s \in Slots : command[s] \subseteq command'[s]
  BY <1>1, <1>2 DEF IInv, PciType, Late
<1>4. BoardInv' /\ DevicesInv'
  BY <1>1, <1>3 DEF IInv, BoardInv, DevicesInv
<1>5. DeviceInv' /\ BarInv'
  BY <1>1 DEF IInv, DeviceInv, BarInv, Early, Late
<1>6. ReadyInv'
  BY <1>1, <1>2 DEF IInv, PciType, ReadyInv
<1> QED  BY <1>3, <1>4, <1>5, <1>6 DEF IInv

\* The reads of the card change the driver's object only.
LEMMA CardAnswersInv == IInv /\ (detect_eeprom \/ read_e1000_hardware_address) => IInv'
<1> SUFFICES ASSUME IInv, detect_eeprom \/ read_e1000_hardware_address PROVE IInv'
  OBVIOUS
<1>1. /\ \/ pc = "detect_eeprom" /\ pc' = "read mac"
         \/ pc = "read mac" /\ pc' = "running"
      /\ UNCHANGED <<slots, imap, selfid, command, bar, pci_devices>>
  BY DEF detect_eeprom, read_e1000_hardware_address, Goto
<1>2. /\ DOMAIN e1000' = DOMAIN e1000 /\ e1000'.device = e1000.device
      /\ e1000'.mem_base = e1000.mem_base /\ e1000'.io_base = e1000.io_base
      /\ pc' = "running" /\ (\E i \in Tested : CardRegisters[i] # 0) => e1000'.mac = ntoh_mac(CardMac)
  BY DEF IInv, PciType, detect_eeprom, read_e1000_hardware_address, Goto
<1>3. PciType' /\ BoardInv' /\ DevicesInv'
  BY <1>1, <1>2 DEF IInv, PciType, BoardInv, DevicesInv, Late
<1>4. DeviceInv' /\ BarInv' /\ ReadyInv'
  BY <1>1, <1>2 DEF IInv, DeviceInv, BarInv, ReadyInv, Started, Early, Late
<1> QED  BY <1>3, <1>4 DEF IInv

\* Register writes of the running driver change nothing of the bus.
LEMMA PciStutter == ASSUME IInv, UNCHANGED pciVars PROVE IInv'
BY DEF IInv, pciVars, PciType, BoardInv, DevicesInv, DeviceInv, BarInv, ReadyInv, Started

\* The invariant holds of every behaviour.
THEOREM Invariant == Spec => []IInv
<1>1. IInv /\ [Next]_vars => IInv'
  BY ConfigureBoardInv, EnumerateInv, FindCardInv, AllocMemoryInv, AllocIoInv, EnableInv, CardAnswersInv, PciStutter
     DEF Next, Registers, vars, pciVars
<1> QED  BY <1>1, InitInv, PTL DEF Spec

----------------------------------------------------------------------------
(* What it implies. *)

\* pci_init and e1000_init find the first card wherever it is plugged in, give
\* its two bars addresses in windows the board maps and that nobody else has,
\* and enable it before its first register access; the card needs one bar in
\* the memory space and one in the I/O space, as pci_alloc_memory has a single
\* address for each.
THEOREM DriverIsReady ==
  ASSUME BarIsIo[0] # BarIsIo[1]
  PROVE  Spec => []DriverReady
<1>1. IInv => DriverReady
  <2> SUFFICES ASSUME IInv PROVE DriverReady
    OBVIOUS
  <2> USE PciConstantsOK
  <2>1. CardFound
    <3>1. (pc = "e1000_init" /\ \E s \in Slots : slots[s] = "card") => pci_get_device("card") # 0
      BY GetDeviceIs DEF Slots
    <3> QED  BY <3>1 DEF IInv, CardFound, DeviceInv, BarInv, PciType, Early, Late
  <2>2. CardReachable
    <3> SUFFICES ASSUME Started PROVE CardReachable
      BY DEF CardReachable
    <3> DEFINE d == e1000.device
    <3>1. /\ pc \in Late \ {"bar 0", "bar 1"} /\ pc # "configure_board"
          /\ d \in Slots /\ slots[d] = "card" /\ {"io", "memory", "master"} \subseteq command[d]
      BY DEF IInv, Started, DeviceInv, ReadyInv, Late
    <3>2. /\ bar[d] \in [Bars -> {NoAddress, pci_alloc_memory(0), pci_alloc_memory(1)}]
          /\ bar[d][0] = pci_alloc_memory(0) /\ bar[d][1] = pci_alloc_memory(1)
          /\ e1000.mem_base = bar[d][0] /\ e1000.io_base = bar[d][1]
      BY <3>1 DEF IInv, PciType, BarInv
    <3>3. bar[d] = [b \in Bars |-> IF b = 0 THEN e1000.mem_base ELSE e1000.io_base]
      BY <3>2 DEF Bars
    <3>4. imap[0] = 4 /\ imap[1] = 5
      <4>1. imap = [n \in 0..2 |-> Imaps[n + 1]]
        BY <3>1 DEF IInv, BoardInv
      <4>2. imap[0] = Imaps[1] /\ imap[1] = Imaps[2]
        BY <4>1
      <4> QED  BY <4>2 DEF Imaps
    <3>5. \A b \in Bars : \E n \in 0..2 : imap[n] = bar[d][b][1]
      BY <3>2, <3>4 DEF Bars, pci_alloc_memory
    <3>6. bar[d][0] # bar[d][1]
      BY <3>2 DEF pci_alloc_memory, get_bar_type, Bars
    <3>7. \A s \in Slots : s # d => \A b \in Bars : bar[s][b] = NoAddress
      BY DEF IInv, BarInv
    <3>8. \A s \in Slots, b, c \in Bars :
            (bar[s][b] = bar[d][c] /\ bar[s][b] # NoAddress) => (s = d /\ b = c)
      BY <3>6, <3>7 DEF Bars
    <3>9. (\E s \in Slots : slots[s] = "core") =>
            (selfid \in Slots /\ {"memory", "master"} \subseteq command[selfid])
      BY <3>1 DEF IInv, BoardInv
    <3> QED  BY <3>1, <3>3, <3>5, <3>8, <3>9 DEF CardReachable
  <2> QED  BY <2>1, <2>2 DEF DriverReady
<1> QED  BY <1>1, Invariant, PTL

\* A frame carries the card's hardware address as the card holds it, in either
\* byte order, if the card has one: in big-endian order the test of the driver
\* (e1000.c:84) looks at the last four bytes of the address and the two behind it.
THEOREM MacIsRight == Spec => []MacOnTheWire
<1>1. hton_mac(ntoh_mac(CardMac)) = CardMac
  BY PciConstantsOK DEF hton_mac, ntoh_mac, Swap, CardMac
<1>2. IInv => MacOnTheWire
  BY <1>1 DEF IInv, ReadyInv, MacOnTheWire
<1> QED  BY <1>2, Invariant, PTL

----------------------------------------------------------------------------
(* The write functions of pci_mmio.c. *)

Byte      == SUBSET Bits
Word      == [0..3 -> Byte]
WordWrite == [at : Int, read : BOOLEAN, keep : Word, bits : Word]

\* A write of one word that changes the bytes of the n asked for at address,
\* to those of value, and keeps the others as read.
WordSpec(w, address, n, value) ==
  /\ w \in WordWrite
  /\ \A i \in 0..3 :
       IF w.at + i - address \in 0 .. n - 1
         THEN w.keep[i] = {} /\ w.bits[i] = value[w.at + i - address]
         ELSE w.read /\ w.keep[i] = Bits /\ w.bits[i] = {}
  /\ n \in {4, 8} /\ address % 4 = 0 => ~w.read

\* Byte j of the value is in the word.
InWord(w, address, j) == address + j - w.at \in 0..3

\* Such writes, and together they reach every byte of the value.
WriteSpec(ws, address, n, value) ==
  /\ ws \in Seq(WordWrite)
  /\ \A k \in 1..Len(ws) : WordSpec(ws[k], address, n, value)
  /\ \A j \in 0 .. n - 1 : \E k \in 1..Len(ws) : InWord(ws[k], address, j)

\* The mask of one or two bytes moved to an offset, inverted.
LEMMA MaskIs ==
  ASSUME NEW n \in 1..2, NEW off \in 0..3
  PROVE  Not(Shl(Widen(Ones(n), 4), off)) = [i \in 0..3 |-> IF i - off \in 0 .. n - 1 THEN {} ELSE Bits]
<1> DEFINE A == Widen(Ones(n), 4)
           B == Shl(A, off)
<1>1. A = [i \in 0..3 |-> IF i \in 0 .. n - 1 THEN Bits ELSE {}]
  BY DEF Widen, Ones
<1> HIDE DEF A
<1>2. B = [i \in 0..3 |-> IF i - off \in 0 .. n - 1 THEN Bits ELSE {}]
  BY <1>1 DEF Shl
<1>3. Not(B) = [i \in 0..3 |-> IF i - off \in 0 .. n - 1 THEN {} ELSE Bits]
  BY <1>2 DEF Not
<1> QED BY <1>3 DEF A

\* The masks of a shift forth and back, and of a whole word.
LEMMA PartsAre ==
  ASSUME NEW k \in 1..3
  PROVE  /\ LowerPart(k) = [i \in 0..3 |-> IF i + k <= 3 THEN Bits ELSE {}]
         /\ UpperPart(k) = [i \in 0..3 |-> IF k <= i THEN Bits ELSE {}]
         /\ Not(Ones(4)) = [i \in 0..3 |-> {}]
<1>1. Ones(4) = [i \in 0..3 |-> Bits]
  BY DEF Ones
<1>2. Shl(Ones(4), k) = [i \in 0..3 |-> IF k <= i THEN Bits ELSE {}]
  BY <1>1 DEF Shl
<1>3. Shr(Ones(4), k) = [i \in 0..3 |-> IF i + k <= 3 THEN Bits ELSE {}]
  BY <1>1 DEF Shr
<1>4. LowerPart(k) = [i \in 0..3 |-> IF i + k <= 3 THEN Bits ELSE {}]
  BY <1>2 DEF LowerPart, Shr
<1>5. UpperPart(k) = [i \in 0..3 |-> IF k <= i THEN Bits ELSE {}]
  BY <1>3 DEF UpperPart, Shl
<1>6. Not(Ones(4)) = [i \in 0..3 |-> {}]
  BY <1>1 DEF Not
<1> QED BY <1>4, <1>5, <1>6

\* A value written in one word, in two and in three.
LEMMA OneWord ==
  ASSUME NEW address \in Nat, NEW n, NEW value, NEW w, WordSpec(w, address, n, value),
         \A j \in 0 .. n - 1 : InWord(w, address, j)
  PROVE  WriteSpec(<<w>>, address, n, value)
BY DEF WriteSpec, WordSpec

\* As OneWord, for a value that reaches into a second word.
LEMMA TwoWords ==
  ASSUME NEW address \in Nat, NEW n, NEW value, NEW w, NEW x,
         WordSpec(w, address, n, value), WordSpec(x, address, n, value),
         \A j \in 0 .. n - 1 : InWord(w, address, j) \/ InWord(x, address, j)
  PROVE  WriteSpec(<<w, x>>, address, n, value)
<1>1. <<w, x>> \in Seq(WordWrite) /\ Len(<<w, x>>) = 2
  BY DEF WordSpec
<1> QED BY <1>1 DEF WriteSpec

\* As OneWord, for a value that reaches into a third word.
LEMMA ThreeWords ==
  ASSUME NEW address \in Nat, NEW n, NEW value, NEW w, NEW x, NEW y,
         WordSpec(w, address, n, value), WordSpec(x, address, n, value), WordSpec(y, address, n, value),
         \A j \in 0 .. n - 1 : InWord(w, address, j) \/ InWord(x, address, j) \/ InWord(y, address, j)
  PROVE  WriteSpec(<<w, x, y>>, address, n, value)
<1>1. <<w, x, y>> \in Seq(WordWrite) /\ Len(<<w, x, y>>) = 3
  BY DEF WordSpec
<1> QED BY <1>1 DEF WriteSpec

\* The word of v's bytes from r on, and the mask of the bytes that are not
\* among the n from there.
Moved(v, r) == [i \in 0..3 |-> IF i + r \in DOMAIN v THEN v[i + r] ELSE {}]
Kept(n, r)  == [i \in 0..3 |-> IF i + r \in 0 .. n - 1 THEN {} ELSE Bits]

\* What is moved into a word is a word.
LEMMA MovedIs ==
  ASSUME NEW v, NEW r \in Int, \A j \in DOMAIN v : v[j] \in Byte
  PROVE  Moved(v, r) \in Word
BY DEF Moved, Word, Byte

\* A mask is a word.
LEMMA KeptIs ==
  ASSUME NEW n, NEW r \in Int
  PROVE  Kept(n, r) \in Word
BY DEF Kept, Word, Byte

\* A word that is read, masked and or-ed with the moved bytes of the value is
\* written right.
LEMMA MergeIs ==
  ASSUME NEW address \in Nat, NEW n \in {1, 2, 4, 8}, NEW value \in [0 .. n - 1 -> Byte],
         NEW r \in Int, n \in {4, 8} => address % 4 # 0
  PROVE  WordSpec(Merge(address + r, Kept(n, r), Moved(value, r)), address, n, value)
<1> DEFINE at   == address + r
           keep == Kept(n, r)
           bits == Moved(value, r)
           w    == Merge(at, keep, bits)
<1>1. at \in Int /\ keep \in Word /\ bits \in Word
  BY MovedIs, KeptIs
<1>2. ASSUME NEW i \in 0..3
      PROVE  IF at + i - address \in 0 .. n - 1
               THEN keep[i] = {} /\ bits[i] = value[at + i - address]
               ELSE keep[i] = Bits /\ bits[i] = {}
  <2> DEFINE j == i + r
  <2>1. at + i - address = j
    OBVIOUS
  <2>2. keep[i] = IF j \in 0 .. n - 1 THEN {} ELSE Bits
    BY DEF Kept
  <2>3. bits[i] = IF j \in 0 .. n - 1 THEN value[j] ELSE {}
    BY DEF Moved
  <2> HIDE DEF at, keep, bits, j
  <2> QED  BY <2>1, <2>2, <2>3
<1> HIDE DEF at, keep, bits
<1>3. w \in WordWrite /\ w.at = at /\ w.read = TRUE /\ w.keep = keep /\ w.bits = bits
  BY <1>1 DEF Merge, WordWrite
<1> HIDE DEF w
<1>4. WordSpec(w, address, n, value)
  BY <1>2, <1>3 DEF WordSpec
<1> QED  BY <1>4 DEF w, at, keep, bits

\* So is a word that lies within the value and is not read.
LEMMA WholeIs ==
  ASSUME NEW address \in Nat, NEW n \in {4, 8}, NEW value \in [0 .. n - 1 -> Byte],
         NEW r \in 0 .. n - 4
  PROVE  WordSpec(Whole(address + r, Moved(value, r)), address, n, value)
<1> DEFINE at   == address + r
           keep == Not(Ones(4))
           bits == Moved(value, r)
           w    == Whole(at, bits)
<1>1. at \in Int /\ bits \in Word
  BY MovedIs
<1>2. keep = [i \in 0..3 |-> {}]
  BY PartsAre
<1>3. keep \in Word
  BY <1>2 DEF Word, Byte
<1>4. ASSUME NEW i \in 0..3
      PROVE  /\ at + i - address \in 0 .. n - 1
             /\ keep[i] = {} /\ bits[i] = value[at + i - address]
  <2> DEFINE j == i + r
  <2>1. at + i - address = j /\ j \in 0 .. n - 1
    OBVIOUS
  <2>2. bits[i] = value[j]
    BY <2>1 DEF Moved
  <2> HIDE DEF at, keep, bits, j
  <2> QED  BY <1>2, <2>1, <2>2
<1> HIDE DEF at, keep, bits
<1>5. w \in WordWrite /\ w.at = at /\ w.read = FALSE /\ w.keep = keep /\ w.bits = bits
  BY <1>1, <1>3 DEF Whole, WordWrite, keep
<1> HIDE DEF w
<1>6. WordSpec(w, address, n, value)
  BY <1>4, <1>5 DEF WordSpec
<1> QED  BY <1>6 DEF w, at, bits

\* The masks that the write functions compute are those of the bytes they write.
LEMMA MasksAre ==
  /\ \A n \in 1..2, k \in 0..3 : Not(Shl(Widen(Ones(n), 4), k)) = Kept(n, 0 - k)
  /\ LowerPart(1) = Kept(2, 0 - 3) /\ UpperPart(1) = Kept(2, 1)
  /\ \A k \in 1..3 : /\ LowerPart(4 - k) = Kept(4, 0 - k) /\ UpperPart(k) = Kept(4, 4 - k)
                     /\ LowerPart(4 - k) = Kept(8, 0 - k) /\ UpperPart(k) = Kept(8, 8 - k)
<1>1. ASSUME NEW n \in 1..2, NEW k \in 0..3
      PROVE  Not(Shl(Widen(Ones(n), 4), k)) = Kept(n, 0 - k)
  BY MaskIs DEF Kept
<1>2. LowerPart(1) = Kept(2, 0 - 3) /\ UpperPart(1) = Kept(2, 1)
  BY PartsAre DEF Kept
<1>3. ASSUME NEW k \in 1..3
      PROVE  /\ LowerPart(4 - k) = Kept(4, 0 - k) /\ UpperPart(k) = Kept(4, 4 - k)
             /\ LowerPart(4 - k) = Kept(8, 0 - k) /\ UpperPart(k) = Kept(8, 8 - k)
  <2>1. LowerPart(4 - k) = [i \in 0..3 |-> IF i + (4 - k) <= 3 THEN Bits ELSE {}]
    BY PartsAre
  <2>2. UpperPart(k) = [i \in 0..3 |-> IF k <= i THEN Bits ELSE {}]
    BY PartsAre
  <2>3. \A i \in 0..3 : /\ i + (0 - k) \in 0 .. 4 - 1 <=> ~(i + (4 - k) <= 3)
                        /\ i + (0 - k) \in 0 .. 8 - 1 <=> ~(i + (4 - k) <= 3)
                        /\ i + (4 - k) \in 0 .. 4 - 1 <=> ~(k <= i)
                        /\ i + (8 - k) \in 0 .. 8 - 1 <=> ~(k <= i)
    OBVIOUS
  <2>4. LowerPart(4 - k) = Kept(4, 0 - k) /\ LowerPart(4 - k) = Kept(8, 0 - k)
    BY <2>1, <2>3 DEF Kept
  <2>5. UpperPart(k) = Kept(4, 4 - k) /\ UpperPart(k) = Kept(8, 8 - k)
    BY <2>2, <2>3 DEF Kept
  <2> QED  BY <2>4, <2>5
<1> QED  BY <1>1, <1>2, <1>3

\* Shifting a value of four or eight bytes and taking its lowest word.
LEMMA ShiftsAre ==
  ASSUME NEW m \in {4, 8}, NEW v, DOMAIN v = 0 .. m - 1, NEW k \in 0..7
  PROVE  /\ Widen(Shl(v, k), 4) = Moved(v, 0 - k)
         /\ Widen(Shr(v, k), 4) = Moved(v, k)
         /\ m = 4 => Shl(v, k) = Moved(v, 0 - k) /\ Shr(v, k) = Moved(v, k)
<1> DEFINE L == Shl(v, k)
           R == Shr(v, k)
<1>1. ASSUME NEW i \in 0..3 PROVE i + (0 - k) = i - k
  OBVIOUS
<1>2. Moved(v, 0 - k) = [i \in 0..3 |-> IF i - k \in DOMAIN v THEN v[i - k] ELSE {}]
  BY <1>1 DEF Moved
<1>3. L = [i \in 0 .. m - 1 |-> IF i - k \in DOMAIN v THEN v[i - k] ELSE {}]
  BY DEF Shl
<1>4. R = [i \in 0 .. m - 1 |-> IF i + k \in DOMAIN v THEN v[i + k] ELSE {}]
  BY DEF Shr
<1> HIDE DEF L, R
<1>5. Widen(L, 4) = [i \in 0..3 |-> IF i - k \in DOMAIN v THEN v[i - k] ELSE {}]
  BY <1>3 DEF Widen
<1>6. Widen(R, 4) = [i \in 0..3 |-> IF i + k \in DOMAIN v THEN v[i + k] ELSE {}]
  BY <1>4 DEF Widen
<1>7. m = 4 => L = Moved(v, 0 - k) /\ R = Moved(v, k)
  BY <1>2, <1>3, <1>4 DEF Moved
<1> QED  BY <1>2, <1>5, <1>6, <1>7 DEF L, R, Moved

\* Widening first makes no difference to a shift of one or two bytes.
LEMMA WidenedShifts ==
  ASSUME NEW n \in 1..2, NEW v, DOMAIN v = 0 .. n - 1, NEW k \in 0..3
  PROVE  Shl(Widen(v, 4), k) = Moved(v, 0 - k) /\ Shr(Widen(v, 4), k) = Moved(v, k)
<1> DEFINE u == Widen(v, 4)
<1>1. u = [i \in 0..3 |-> IF i \in 0 .. n - 1 THEN v[i] ELSE {}]
  BY DEF Widen
<1> HIDE DEF u
<1>2. ASSUME NEW i \in 0..3 PROVE i + (0 - k) = i - k
  OBVIOUS
<1>3. Shl(u, k) = [i \in 0..3 |-> IF i - k \in 0 .. n - 1 THEN v[i - k] ELSE {}]
  BY <1>1 DEF Shl
<1>4. Shr(u, k) = [i \in 0..3 |-> IF i + k \in 0 .. n - 1 THEN v[i + k] ELSE {}]
  BY <1>1 DEF Shr
<1>5. Moved(v, 0 - k) = [i \in 0..3 |-> IF i - k \in 0 .. n - 1 THEN v[i - k] ELSE {}]
  BY <1>2 DEF Moved
<1>6. Moved(v, k) = [i \in 0..3 |-> IF i + k \in 0 .. n - 1 THEN v[i + k] ELSE {}]
  BY DEF Moved
<1> QED  BY <1>3, <1>4, <1>5, <1>6 DEF u

\* pci_write8 changes the byte it is asked to write, and no other.
LEMMA Write8Is ==
  ASSUME NEW address \in Nat, NEW value \in [0 .. 1 - 1 -> Byte]
  PROVE  WriteSpec(pci_write8(address, value), address, 1, value)
<1> DEFINE off == address % 4
           r   == 0 - off
           w   == Merge(address + r, Kept(1, r), Moved(value, r))
<1>1. off \in 0..3
  OBVIOUS
<1>2. pci_write8(address, value) = <<w>>
  <2> HIDE DEF off
  <2>1. address - off = address + r
    BY <1>1
  <2>2. Not(Shl(Widen(Ones(1), 4), off)) = Kept(1, r)
    BY <1>1, MasksAre
  <2>3. Shl(Widen(value, 4), off) = Moved(value, r)
    BY <1>1, WidenedShifts
  <2> HIDE DEF r
  <2> QED  BY <2>1, <2>2, <2>3 DEF pci_write8, off
<1>3. r \in -3..0
  BY <1>1
<1> HIDE DEF r
<1>4. WordSpec(w, address, 1, value)
  BY <1>3, MergeIs
<1>5. \A j \in 0 .. 1 - 1 : InWord(w, address, j)
  BY <1>3 DEF InWord, Merge
<1> HIDE DEF w
<1> QED  BY <1>2, <1>4, <1>5, OneWord

\* pci_write16: within a word, or one byte in each of two words.
LEMMA Write16Is ==
  ASSUME NEW address \in Nat, NEW value \in [0 .. 2 - 1 -> Byte]
  PROVE  WriteSpec(pci_write16(address, value), address, 2, value)
<1> DEFINE off == address % 4
<1>1. off \in 0..3
  OBVIOUS
<1>2. CASE off # 3
  <2> DEFINE r == 0 - off
             w == Merge(address + r, Kept(2, r), Moved(value, r))
  <2>1. pci_write16(address, value) = <<w>>
    <3> HIDE DEF off
    <3>1. address - off = address + r
      BY <1>1
    <3>2. Not(Shl(Widen(Ones(2), 4), off)) = Kept(2, r)
      BY <1>1, MasksAre
    <3>3. Shl(Widen(value, 4), off) = Moved(value, r)
      BY <1>1, WidenedShifts
    <3> HIDE DEF r
    <3> QED  BY <1>2, <3>1, <3>2, <3>3 DEF pci_write16, off
  <2>2. r \in -2..0
    BY <1>1, <1>2
  <2> HIDE DEF r
  <2>3. WordSpec(w, address, 2, value)
    BY <2>2, MergeIs
  <2>4. \A j \in 0 .. 2 - 1 : InWord(w, address, j)
    BY <2>2 DEF InWord, Merge
  <2> HIDE DEF w
  <2> QED  BY <2>1, <2>3, <2>4, OneWord
<1>3. CASE off = 3
  <2> DEFINE r == 0 - 3
             w == Merge(address + r, Kept(2, r), Moved(value, r))
             x == Merge(address + 1, Kept(2, 1), Moved(value, 1))
  <2>1. pci_write16(address, value) = <<w, x>>
    <3>1. address - 3 = address + r
      OBVIOUS
    <3>2. LowerPart(1) = Kept(2, r) /\ UpperPart(1) = Kept(2, 1)
      BY MasksAre
    <3>3. Shl(Widen(value, 4), 3) = Moved(value, r) /\ Shr(Widen(value, 4), 1) = Moved(value, 1)
      BY WidenedShifts
    <3> HIDE DEF r
    <3> QED  BY <1>3, <3>1, <3>2, <3>3 DEF pci_write16
  <2>2. r \in Int /\ r = -3
    OBVIOUS
  <2> HIDE DEF r
  <2>3. WordSpec(w, address, 2, value) /\ WordSpec(x, address, 2, value)
    BY <2>2, MergeIs
  <2>4. \A j \in 0 .. 2 - 1 : InWord(w, address, j) \/ InWord(x, address, j)
    BY <2>2 DEF InWord, Merge
  <2> HIDE DEF w, x
  <2> QED  BY <2>1, <2>3, <2>4, TwoWords
<1> QED  BY <1>2, <1>3

\* pci_write32: a whole word, or parts of two words.
LEMMA Write32Is ==
  ASSUME NEW address \in Nat, NEW value \in [0 .. 4 - 1 -> Byte]
  PROVE  WriteSpec(pci_write32(address, value), address, 4, value)
<1> DEFINE lower == address % 4
<1>1. lower \in 0..3
  OBVIOUS
<1>2. CASE lower = 0
  <2> DEFINE w == Whole(address + 0, Moved(value, 0))
  <2>1. pci_write32(address, value) = <<w>>
    <3>1. address + 0 = address /\ Moved(value, 0) = value
      BY DEF Moved
    <3> QED  BY <1>2, <3>1 DEF pci_write32
  <2>2. WordSpec(w, address, 4, value)
    BY WholeIs
  <2>3. \A j \in 0 .. 4 - 1 : InWord(w, address, j)
    BY DEF InWord, Whole
  <2> HIDE DEF w
  <2> QED  BY <2>1, <2>2, <2>3, OneWord
<1>3. CASE lower # 0
  <2> DEFINE r == 0 - lower
             u == 4 - lower
             w == Merge(address + r, Kept(4, r), Moved(value, r))
             x == Merge(address + u, Kept(4, u), Moved(value, u))
  <2>0. address % 4 # 0
    BY <1>3
  <2>1. pci_write32(address, value) = <<w, x>>
    <3> HIDE DEF lower
    <3>1. address - lower = address + r /\ u \in 0..7 /\ lower \in 0..7
      BY <1>1
    <3>2. LowerPart(u) = Kept(4, r) /\ UpperPart(lower) = Kept(4, u)
      BY <1>1, <1>3, MasksAre
    <3>3. Shl(value, lower) = Moved(value, r) /\ Shr(value, u) = Moved(value, u)
      BY <3>1, ShiftsAre
    <3> HIDE DEF r
    <3> QED  BY <1>3, <3>1, <3>2, <3>3 DEF pci_write32, lower
  <2>2. r \in -3 .. -1 /\ u = r + 4
    BY <1>1, <1>3
  <2> HIDE DEF r, u
  <2>3. WordSpec(w, address, 4, value) /\ WordSpec(x, address, 4, value)
    BY <2>0, <2>2, MergeIs
  <2>4. \A j \in 0 .. 4 - 1 : InWord(w, address, j) \/ InWord(x, address, j)
    BY <2>2 DEF InWord, Merge
  <2> HIDE DEF w, x
  <2> QED  BY <2>1, <2>3, <2>4, TwoWords
<1> QED  BY <1>2, <1>3

\* pci_write64: two whole words, or a whole word between parts of two.
LEMMA Write64Is ==
  ASSUME NEW address \in Nat, NEW value \in [0 .. 8 - 1 -> Byte]
  PROVE  WriteSpec(pci_write64(address, value), address, 8, value)
<1> DEFINE lower == address % 4
<1>1. lower \in 0..3
  OBVIOUS
<1>2. CASE lower = 0
  <2> DEFINE w == Whole(address + 0, Moved(value, 0))
             x == Whole(address + 4, Moved(value, 4))
  <2>1. pci_write64(address, value) = <<w, x>>
    <3>1. address + 0 = address /\ Moved(value, 0) = Widen(value, 4)
      BY DEF Moved, Widen
    <3>2. Widen(Shr(value, 4), 4) = Moved(value, 4)
      BY ShiftsAre
    <3> QED  BY <1>2, <3>1, <3>2 DEF pci_write64
  <2>2. WordSpec(w, address, 8, value) /\ WordSpec(x, address, 8, value)
    BY WholeIs
  <2>3. \A j \in 0 .. 8 - 1 : InWord(w, address, j) \/ InWord(x, address, j)
    BY DEF InWord, Whole
  <2> HIDE DEF w, x
  <2> QED  BY <2>1, <2>2, <2>3, TwoWords
<1>3. CASE lower # 0
  <2> DEFINE r == 0 - lower
             u == 4 - lower
             t == 8 - lower
             w == Merge(address + r, Kept(8, r), Moved(value, r))
             x == Whole(address + u, Moved(value, u))
             y == Merge(address + t, Kept(8, t), Moved(value, t))
  <2>0. address % 4 # 0
    BY <1>3
  <2>1. pci_write64(address, value) = <<w, x, y>>
    <3> HIDE DEF lower
    <3>1. /\ address - lower = address + r /\ u \in 0..7 /\ lower \in 0..7 /\ t \in 0..7
          /\ u + 4 = t /\ address + 4 + u = address + t
      BY <1>1, <1>3
    <3>2. LowerPart(u) = Kept(8, r) /\ UpperPart(lower) = Kept(8, t)
      BY <1>1, <1>3, MasksAre
    <3>3. /\ Widen(Shl(value, lower), 4) = Moved(value, r)
          /\ Widen(Shr(value, u), 4) = Moved(value, u)
          /\ Widen(Shr(value, t), 4) = Moved(value, t)
      BY <3>1, ShiftsAre
    <3>4. pci_write64(address, value) =
            <<Merge(address - lower, LowerPart(u), Widen(Shl(value, lower), 4)),
              Whole(address + u, Widen(Shr(value, u), 4)),
              Merge(address + 4 + u, UpperPart(lower), Widen(Shr(value, u + 4), 4))>>
      BY <1>3 DEF pci_write64, lower
    <3> HIDE DEF r, u, t
    <3> QED  BY <3>1, <3>2, <3>3, <3>4
  <2>2. r \in -3 .. -1 /\ u = r + 4 /\ t = r + 8
    BY <1>1, <1>3
  <2> HIDE DEF r, u, t
  <2>3. WordSpec(w, address, 8, value) /\ WordSpec(x, address, 8, value) /\ WordSpec(y, address, 8, value)
    <3>1. r \in Int /\ u \in 0 .. 8 - 4 /\ t \in Int
      BY <2>2
    <3> QED  BY <2>0, <3>1, MergeIs, WholeIs
  <2>4. \A j \in 0 .. 8 - 1 : InWord(w, address, j) \/ InWord(x, address, j) \/ InWord(y, address, j)
    BY <2>2 DEF InWord, Merge, Whole
  <2> HIDE DEF w, x, y
  <2> QED  BY <2>1, <2>3, <2>4, ThreeWords
<1> QED  BY <1>2, <1>3

----------------------------------------------------------------------------
(* Register writes: the inductive invariant. *)

MmioType ==
  /\ mem \in [Addresses -> Byte] /\ wanted \in [Addresses -> Byte]
  /\ todo \in Seq(WordWrite)
  /\ target \subseteq Addresses
  /\ loaded # <<>> => todo # <<>> /\ Head(todo).read

\* A word to be written changes the bytes in target to the wanted ones and
\* keeps the others as read; whole aligned words are written without a read.
WordRight(w) ==
  /\ \A i \in 0..3 :
       IF w.at + i \in target
         THEN w.keep[i] = {} /\ w.bits[i] = wanted[w.at + i]
         ELSE w.read /\ w.keep[i] = Bits /\ w.bits[i] = {}
  /\ plain => ~w.read

\* Unless an interrupt disturbed a write that reads: the words to be written are
\* right, a byte that is not yet as wanted is in one of them, and the word that
\* was read is still what is in memory.
ExactInv ==
  (disturbed => plain) =>
    /\ \A k \in 1..Len(todo) : WordRight(todo[k])
    /\ \A a \in Addresses :
         mem[a] # wanted[a] => a \in target /\ \E k \in 1..Len(todo) : a - todo[k].at \in 0..3
    /\ loaded # <<>> =>
         \A i \in 0..3 : Head(todo).at + i \in Addresses => loaded[i] = mem[Head(todo).at + i]

MmioInv == MmioType /\ ExactInv

\* The invariant holds before the first write.
LEMMA MmioInitInv == MmioInit => MmioInv
<1> SUFFICES ASSUME MmioInit PROVE MmioInv
  OBVIOUS
<1>1. MmioType
  BY DEF MmioInit, MmioType, Byte
<1>2. ExactInv
  BY DEF MmioInit, ExactInv
<1> QED  BY <1>1, <1>2 DEF MmioInv

\* The values the model writes are bytes.
LEMMA ValuesAre ==
  ASSUME NEW n \in {1, 2, 4, 8}, NEW value \in Values(n)
  PROVE  value \in [0 .. n - 1 -> Byte]
<1>1. PICK k \in 0 .. n - 1 : \/ value = [i \in 0 .. n - 1 |-> IF i = k THEN Bits ELSE {}]
                              \/ value = [i \in 0 .. n - 1 |-> IF i = k THEN {} ELSE Bits]
  BY DEF Values
<1> QED  BY <1>1 DEF Byte

\* Writing bytes over a memory of bytes.
LEMMA OverwriteIs ==
  ASSUME NEW m \in [Addresses -> Byte], NEW address, NEW value,
         \A j \in DOMAIN value : value[j] \in Byte
  PROVE  /\ Overwrite(m, address, value) \in [Addresses -> Byte]
         /\ \A a \in Addresses : Overwrite(m, address, value)[a] =
              IF a - address \in DOMAIN value THEN value[a - address] ELSE m[a]
BY DEF Overwrite

\* Every write function starts a call with the right words.
LEMMA BeginWords ==
  ASSUME NEW n \in {1, 2, 4, 8}, NEW address \in Nat, NEW value \in [0 .. n - 1 -> Byte],
         Begin(n, address, value)
  PROVE  WriteSpec(todo', address, n, value)
<1>1. CASE n = 1
  <2>1. todo' = pci_write8(address, value)
    BY <1>1 DEF Begin
  <2> QED  BY <1>1, <2>1, Write8Is
<1>2. CASE n = 2
  <2>1. todo' = pci_write16(address, value)
    BY <1>2 DEF Begin
  <2> QED  BY <1>2, <2>1, Write16Is
<1>3. CASE n = 4
  <2>1. todo' = pci_write32(address, value)
    BY <1>3 DEF Begin
  <2> QED  BY <1>3, <2>1, Write32Is
<1>4. CASE n = 8
  <2>1. todo' = pci_write64(address, value)
    BY <1>4 DEF Begin
  <2> QED  BY <1>4, <2>1, Write64Is
<1> QED  BY <1>1, <1>2, <1>3, <1>4

\* The call of a write function keeps it.
LEMMA WriteInv == MmioInv /\ Write => MmioInv'
<1> SUFFICES ASSUME MmioInv, Write PROVE MmioInv'
  OBVIOUS
<1>1. PICK n \in {1, 2, 4, 8} : \E address \in Addresses, value \in Values(n) :
           address + n - 1 \in Addresses /\ Begin(n, address, value)
  BY DEF Write
<1>2. PICK address \in Addresses, value \in Values(n) :
           address + n - 1 \in Addresses /\ Begin(n, address, value)
  BY <1>1
<1>3. value \in [0 .. n - 1 -> Byte] /\ address \in Nat
  <2>1. value \in [0 .. n - 1 -> Byte]
    BY ValuesAre
  <2>2. address \in Nat
    BY MmioConstantsOK DEF Addresses
  <2> QED  BY <2>1, <2>2
<1>4. WriteSpec(todo', address, n, value)
  BY <1>2, <1>3, BeginWords
<1>5. /\ todo = <<>> /\ mem' = mem /\ loaded' = loaded /\ target' = address .. address + n - 1
      /\ wanted' = Overwrite(mem, address, value)
      /\ plain' = (n \in {4, 8} /\ address % 4 = 0)
  BY <1>2 DEF Begin
<1>6. loaded' = <<>> /\ mem \in [Addresses -> Byte]
  BY <1>5 DEF MmioInv, MmioType
<1>7. target' \subseteq Addresses
  BY <1>2, <1>3, <1>5, MmioConstantsOK DEF Addresses
<1>8. /\ wanted' \in [Addresses -> Byte]
      /\ \A a \in Addresses : wanted'[a] = IF a - address \in 0 .. n - 1 THEN value[a - address] ELSE mem[a]
  BY <1>3, <1>5, <1>6, OverwriteIs
<1>9. \A a \in Int : a \in target' <=> a - address \in 0 .. n - 1
  BY <1>3, <1>5
<1>10. MmioType'
  BY <1>4, <1>5, <1>6, <1>7, <1>8 DEF MmioType, WriteSpec
<1>11. ASSUME NEW k \in 1..Len(todo') PROVE WordRight(todo[k])'
  <2> DEFINE w == todo'[k]
  <2>1. WordSpec(w, address, n, value)
    BY <1>4 DEF WriteSpec
  <2>2. w \in WordWrite /\ w.at \in Int
    BY <2>1 DEF WordSpec, WordWrite
  <2> HIDE DEF w
  <2>3. plain' => ~w.read
    BY <1>5, <2>1 DEF WordSpec
  <2>4. ASSUME NEW i \in 0..3
        PROVE  IF w.at + i \in target'
                 THEN w.keep[i] = {} /\ w.bits[i] = wanted'[w.at + i]
                 ELSE w.read /\ w.keep[i] = Bits /\ w.bits[i] = {}
    <3> DEFINE a == w.at + i
               j == w.at + i - address
    <3>1. a \in Int /\ j = a - address
      BY <1>3, <2>2
    <3>2. IF j \in 0 .. n - 1
            THEN w.keep[i] = {} /\ w.bits[i] = value[j]
            ELSE w.read /\ w.keep[i] = Bits /\ w.bits[i] = {}
      BY <2>1 DEF WordSpec
    <3> HIDE DEF a, j
    <3>3. a \in target' => wanted'[a] = value[j]
      BY <1>7, <1>8, <1>9, <3>1
    <3>4. IF a \in target'
                 THEN w.keep[i] = {} /\ w.bits[i] = wanted'[a]
                 ELSE w.read /\ w.keep[i] = Bits /\ w.bits[i] = {}
      BY <1>9, <3>1, <3>2, <3>3
    <3> QED  BY <3>4 DEF a
  <2> QED  BY <2>3, <2>4 DEF WordRight, w
<1>12. ASSUME NEW a \in Addresses, mem'[a] # wanted'[a]
       PROVE  a \in target' /\ \E k \in 1..Len(todo') : a - todo'[k].at \in 0..3
  <2> DEFINE j == a - address
  <2>1. a \in Int /\ a = address + j
    BY <1>3 DEF Addresses
  <2>2. j \in 0 .. n - 1
    BY <1>5, <1>8, <1>12
  <2>3. a \in target'
    BY <1>9, <2>1, <2>2
  <2> HIDE DEF j
  <2>4. PICK k \in 1..Len(todo') : InWord(todo'[k], address, j)
    BY <1>4, <2>2 DEF WriteSpec
  <2>5. a - todo'[k].at \in 0..3
    <3>1. WordSpec(todo'[k], address, n, value)
      BY <1>4 DEF WriteSpec
    <3>2. todo'[k].at \in Int
      BY <3>1 DEF WordSpec, WordWrite
    <3> QED  BY <1>3, <2>1, <2>2, <2>4, <3>2 DEF InWord
  <2> QED  BY <2>3, <2>5
<1>13. ExactInv'
  BY <1>6, <1>11, <1>12 DEF ExactInv
<1> QED  BY <1>10, <1>13 DEF MmioInv

\* Reading a word keeps it.
LEMMA ReadWordInv == MmioInv /\ ReadWord => MmioInv'
<1> SUFFICES ASSUME MmioInv, ReadWord PROVE MmioInv'
  OBVIOUS
<1>1. /\ todo # <<>> /\ Head(todo).read
      /\ loaded' = [i \in 0..3 |-> mem[Head(todo).at + i]]
      /\ UNCHANGED <<mem, todo, target, plain, wanted, disturbed>>
  BY DEF ReadWord, pci_read32
<1>2. MmioType'
  BY <1>1 DEF MmioInv, MmioType
<1>3. ExactInv'
  BY <1>1 DEF MmioInv, ExactInv, WordRight
<1> QED  BY <1>2, <1>3 DEF MmioInv

\* Writing a word back keeps it.
LEMMA WriteWordInv == MmioInv /\ write_word => MmioInv'
<1> SUFFICES ASSUME MmioInv, write_word PROVE MmioInv'
  OBVIOUS
<1> DEFINE w   == Head(todo)
           old == IF w.read THEN loaded ELSE Ones(4)
           new == Or(And(old, w.keep), w.bits)
<1>1. /\ todo # <<>> /\ (w.read => loaded # <<>>)
      /\ mem' = Overwrite(mem, w.at, new)
      /\ todo' = Tail(todo) /\ loaded' = <<>>
      /\ UNCHANGED <<target, plain, wanted, disturbed>>
  BY DEF write_word
<1>2. /\ mem \in [Addresses -> Byte] /\ todo \in Seq(WordWrite) /\ w \in WordWrite
      /\ wanted \in [Addresses -> Byte] /\ target \subseteq Addresses
  BY <1>1 DEF MmioInv, MmioType
<1>3. DOMAIN new = 0..3 /\ \A i \in 0..3 : new[i] = (old[i] \cap w.keep[i]) \cup w.bits[i]
  BY DEF Or, And
<1>4. w.at \in Int /\ w.keep \in Word /\ w.bits \in Word /\ w.read \in BOOLEAN
  BY <1>2 DEF WordWrite
<1>5. \A i \in 0..3 : new[i] \in Byte
  <2> HIDE DEF w, old, new
  <2> QED  BY <1>3, <1>4 DEF Word, Byte
<1>6. /\ mem' \in [Addresses -> Byte]
      /\ \A a \in Addresses : mem'[a] = IF a - w.at \in 0..3 THEN new[a - w.at] ELSE mem[a]
  <2> HIDE DEF w, old, new
  <2> QED  BY <1>1, <1>2, <1>3, <1>5, OverwriteIs
<1>7. /\ todo' \in Seq(WordWrite) /\ Len(todo') = Len(todo) - 1 /\ Len(todo) \in Nat
      /\ \A k \in 1..Len(todo') : todo'[k] = todo[k + 1]
      /\ w = todo[1] /\ 1 \in 1..Len(todo)
  BY <1>1, <1>2
<1>8. MmioType'
  BY <1>1, <1>2, <1>6, <1>7 DEF MmioType
<1>9. ExactInv'
  <2> SUFFICES ASSUME disturbed => plain PROVE ExactInv'
    BY <1>1 DEF ExactInv
  <2>1. /\ \A k \in 1..Len(todo) : WordRight(todo[k])
        /\ \A a \in Addresses :
             mem[a] # wanted[a] => a \in target /\ \E k \in 1..Len(todo) : a - todo[k].at \in 0..3
        /\ loaded # <<>> => \A i \in 0..3 : w.at + i \in Addresses => loaded[i] = mem[w.at + i]
    BY DEF MmioInv, ExactInv
  <2>2. ASSUME NEW k \in 1..Len(todo') PROVE WordRight(todo[k])'
    <3>1. k + 1 \in 1..Len(todo) /\ todo'[k] = todo[k + 1]
      BY <1>7
    <3>2. WordRight(todo[k + 1])
      BY <2>1, <3>1
    <3> QED  BY <1>1, <3>1, <3>2 DEF WordRight
  <2>3. WordRight(w)
    BY <1>7, <2>1
  \* The written word is as wanted, in its bytes of target and in the others.
  <2>4. ASSUME NEW a \in Addresses, a - w.at \in 0..3
        PROVE  mem'[a] = wanted[a] \/ (mem'[a] = mem[a] /\ a \notin target)
    <3> DEFINE i == a - w.at
    <3>1. i \in 0..3 /\ a = w.at + i
      BY <1>4, <2>4 DEF Addresses
    <3>2. mem'[a] = (old[i] \cap w.keep[i]) \cup w.bits[i]
      <4> HIDE DEF w, old, new
      <4> QED  BY <1>3, <1>6, <2>4
    <3>3. CASE a \in target
      <4>1. w.keep[i] = {} /\ w.bits[i] = wanted[a]
        <5> HIDE DEF w, i
        <5> QED  BY <2>3, <3>1, <3>3 DEF WordRight
      <4> HIDE DEF w, old, i
      <4>2. mem'[a] = wanted[a]
        BY <3>2, <4>1
      <4> QED  BY <4>2
    <3>4. CASE a \notin target
      <4>1. w.read /\ w.keep[i] = Bits /\ w.bits[i] = {}
        <5> HIDE DEF w, i
        <5> QED  BY <2>3, <3>1, <3>4 DEF WordRight
      <4>2. old[i] = mem[a]
        <5>1. old = loaded /\ loaded # <<>>
          BY <1>1, <4>1
        <5> HIDE DEF w, old, i
        <5> QED  BY <2>1, <3>1, <5>1
      <4>3. mem[a] \in Byte
        BY <1>2
      <4>4. mem'[a] = mem[a]
        <5> HIDE DEF w, old, i
        <5> QED  BY <3>2, <4>1, <4>2, <4>3 DEF Byte
      <4> QED  BY <3>4, <4>4
    <3> QED  BY <3>3, <3>4
  <2>5. ASSUME NEW a \in Addresses, mem'[a] # wanted[a]
        PROVE  a \in target /\ \E k \in 1..Len(todo') : a - todo'[k].at \in 0..3
    <3>1. a - w.at \notin 0..3
      BY <2>1, <2>4, <2>5
    <3>2. mem[a] # wanted[a]
      <4> HIDE DEF w, new
      <4> QED  BY <1>6, <2>5, <3>1
    <3>3. PICK k \in 1..Len(todo) : a - todo[k].at \in 0..3
      BY <2>1, <3>2
    <3>4. k # 1
      BY <1>7, <3>1, <3>3
    <3>5. k - 1 \in 1..Len(todo') /\ todo'[k - 1] = todo[k]
      <4>1. k - 1 \in 1..Len(todo') /\ (k - 1) + 1 = k
        BY <1>7, <3>4
      <4> QED  BY <1>7, <4>1
    <3>6. a - todo'[k - 1].at \in 0..3
      BY <3>3, <3>5
    <3> QED  BY <2>1, <3>2, <3>5, <3>6
  <2> QED  BY <1>1, <2>2, <2>5 DEF ExactInv
<1> QED  BY <1>8, <1>9 DEF MmioInv

\* A register write of the interrupt handler keeps it.
LEMMA InterruptInv == MmioInv /\ Interrupt => MmioInv'
<1> SUFFICES ASSUME MmioInv, Interrupt PROVE MmioInv'
  OBVIOUS
<1>1. PICK address \in Addresses, b \in {{}, Bits} :
        LET value == [i \in 0..3 |-> b] IN
        /\ address .. address + 3 \cap target = {}
        /\ mem' = Overwrite(mem, address, value)
        /\ wanted' = Overwrite(wanted, address, value)
  BY DEF Interrupt
<1> DEFINE value == [i \in 0..3 |-> b]
<1>2. /\ address .. address + 3 \cap target = {}
      /\ mem' = Overwrite(mem, address, value)
      /\ wanted' = Overwrite(wanted, address, value)
      /\ disturbed' = TRUE /\ UNCHANGED <<todo, loaded, target, plain>>
  BY <1>1 DEF Interrupt
<1>3. DOMAIN value = 0..3 /\ \A j \in DOMAIN value : value[j] \in Byte
  BY DEF Byte
<1>4. /\ mem \in [Addresses -> Byte] /\ wanted \in [Addresses -> Byte] /\ target \subseteq Addresses
      /\ todo \in Seq(WordWrite)
  BY DEF MmioInv, MmioType
<1> HIDE DEF value
<1>5. /\ mem' \in [Addresses -> Byte] /\ wanted' \in [Addresses -> Byte]
      /\ \A a \in Addresses :
           IF a - address \in 0..3 THEN mem'[a] = value[a - address] /\ wanted'[a] = value[a - address]
           ELSE mem'[a] = mem[a] /\ wanted'[a] = wanted[a]
  BY <1>2, <1>3, <1>4, OverwriteIs
<1>6. MmioType'
  BY <1>2, <1>5 DEF MmioInv, MmioType
<1>7. ExactInv'
  <2> SUFFICES ASSUME plain PROVE ExactInv'
    BY <1>2 DEF ExactInv
  <2>1. /\ \A k \in 1..Len(todo) : WordRight(todo[k])
        /\ \A a \in Addresses :
             mem[a] # wanted[a] => a \in target /\ \E k \in 1..Len(todo) : a - todo[k].at \in 0..3
    BY DEF MmioInv, ExactInv
  <2>2. \A a \in target : a - address \notin 0..3 /\ wanted'[a] = wanted[a]
    <3>1. \A a \in target : a \in Addresses /\ a - address \notin 0..3
      BY <1>2, <1>4 DEF Addresses
    <3> QED  BY <1>5, <3>1
  <2>3. ASSUME NEW k \in 1..Len(todo') PROVE WordRight(todo[k])' /\ ~todo[k].read
    <3>1. WordRight(todo[k])
      BY <1>2, <2>1
    <3> QED  BY <1>2, <2>2, <3>1 DEF WordRight
  <2>4. loaded' = <<>>
    <3>1. ASSUME todo # <<>> PROVE 1 \in 1..Len(todo') /\ Head(todo) = todo[1]
      BY <1>2, <1>4, <3>1
    <3> QED  BY <1>2, <2>3, <3>1 DEF MmioInv, MmioType
  <2>5. ASSUME NEW a \in Addresses, mem'[a] # wanted'[a]
        PROVE  a \in target' /\ \E k \in 1..Len(todo') : a - todo'[k].at \in 0..3
    BY <1>2, <1>5, <2>1, <2>5
  <2> QED  BY <2>3, <2>4, <2>5 DEF ExactInv
<1> QED  BY <1>6, <1>7 DEF MmioInv

\* So does any step that leaves the registers alone.
LEMMA MmioStutter == ASSUME MmioInv, UNCHANGED mmioVars PROVE MmioInv'
BY DEF MmioInv, mmioVars, MmioType, ExactInv, WordRight

\* The invariant implies the property.
LEMMA MmioExact == MmioInv => WriteExact
<1> SUFFICES ASSUME MmioInv, todo = <<>>, disturbed => plain PROVE mem = wanted
  BY DEF WriteExact
<1>1. \A a \in Addresses : mem[a] = wanted[a]
  BY DEF MmioInv, ExactInv
<1> QED  BY <1>1 DEF MmioInv, MmioType

\* Every write of the driver to its registers changes exactly the bytes it is
\* asked to write, whatever its size and alignment; writes of whole aligned words
\* do so even if the interrupt handler writes other registers in between.
THEOREM WritesExact == Spec => []WriteExact
<1>1. Init => MmioInv
  BY MmioInitInv DEF Init
<1>2. MmioInv /\ [Next]_vars => MmioInv'
  <2> SUFFICES ASSUME MmioInv, [Next]_vars PROVE MmioInv'
    OBVIOUS
  <2>1. CASE Registers
    BY <2>1, WriteInv, ReadWordInv, WriteWordInv, InterruptInv DEF Registers, MmioNext
  <2>2. CASE UNCHANGED mmioVars
    BY <2>2, MmioStutter
  <2> QED
    BY <2>1, <2>2
       DEF Next, vars, Goto, configure_board, enumerate_pci_devices, NoMemory, FindCard,
           AllocMemory, AllocIo, AllocBar, pci_enable_bus_mastering, detect_eeprom,
           read_e1000_hardware_address
<1> QED  BY <1>1, <1>2, MmioExact, PTL DEF Spec
=============================================================================
