------------------------------- MODULE E1000Rx -------------------------------
(***************************************************************************)
(* The receive side of the e1000 driver and the card it drives.            *)
(*                                                                         *)
(* The card fills the descriptors from REG_RXDESCHEAD up to, not           *)
(* including, REG_RXDESCTAIL, sets their "descriptor done" status and      *)
(* after that the interrupt cause RXT0; it asserts its interrupt line      *)
(* while an unmasked cause is set.  Reading REG_INT_CAUSE clears every     *)
(* cause.  REG_IMASK only ever adds to the mask.  The card goes on between *)
(* any two steps of the handler, which itself runs with IRQs disabled.     *)
(*                                                                         *)
(* A packet is a number, given in the order of arrival at the card.        *)
(***************************************************************************)
EXTENDS Integers, Sequences

CONSTANTS
  E1000_NUM_RX_DESC,  \* descriptors of the receive ring
  MaxPackets,         \* bound: packets that arrive at the card
  MaxOther            \* bound: other events (link changes, transmissions done)

ASSUME RxConstantsOK ==
  /\ E1000_NUM_RX_DESC \in Nat /\ E1000_NUM_RX_DESC >= 2
  /\ MaxPackets \in Nat /\ MaxOther \in Nat

VARIABLES
  pci_device,           \* the card e1000 refers to, or why there is none:
                        \* "unknown", "null", "absent" or "found"
  rx_descs,             \* status (descriptor done) and packet of each descriptor
  rx_cur,
  head, tail,           \* REG_RXDESCHEAD, REG_RXDESCTAIL
  link,                 \* the set-link-up flag of REG_CTRL
  mask, causes,         \* unmasked causes; REG_INT_CAUSE
  unsignalled,          \* a written descriptor whose RXT0 is still to come
  hpc, cause, old_cur,  \* the interrupt handler and its locals
  arrived, others,      \* packets and other events so far
  stored,               \* history: packets the card has stored, in order
  handed                \* history: packets passed to insert_packet, in order

cardVars == <<head, tail, causes, unsignalled, arrived, others, stored>>
drvVars  == <<pci_device, rx_cur, link, mask, hpc, cause, old_cur, handed>>
rxVars   == <<cardVars, drvVars, rx_descs>>

Descs  == 0..(E1000_NUM_RX_DESC - 1)
Causes == {"LSC", "RXDMT0", "RXO", "RXT0", "TXDW"}
NoPkt  == 0

NextDesc(i) == (i + 1) % E1000_NUM_RX_DESC

----------------------------------------------------------------------------
(* Initialisation, by the boot code with IRQs disabled. *)

start_link == link' = 1

\* The causes among those of the mask 0x1F2D4 that the card raises here.
enable_interrupt == mask' = {"LSC", "RXDMT0", "RXO", "RXT0"}

\* The receiver is enabled by its last write: nothing is stored before.
init_receive_descriptors ==
  /\ rx_descs' = [i \in Descs |-> [status |-> 0, pkt |-> NoPkt]]
  /\ head' = 0 /\ tail' = E1000_NUM_RX_DESC - 1
  /\ rx_cur' = 0

start_e1000 == start_link /\ enable_interrupt /\ init_receive_descriptors

\* Two early returns: malloc fails and e1000 stays NULL ("null"), or there
\* is an object and no card ("absent").  After either the card is not started.
e1000_init ==
  /\ pci_device = "unknown"
  /\ \/ pci_device' = "found" /\ start_e1000
     \/ /\ pci_device' \in {"null", "absent"}
        /\ UNCHANGED <<link, mask, rx_descs, head, tail, rx_cur>>
  /\ UNCHANGED <<causes, unsignalled, arrived, others, stored, hpc, cause, old_cur, handed>>

\* Undefined with e1000 = NULL, which it dereferences, as the handler does.  The
\* handler is entered only when a started card asks for it (in RecvPathProofs,
\* Silent: "idle" otherwise), so that no step here meets that case.
e1000_is_available == pci_device = "found"

----------------------------------------------------------------------------
(* The card. *)

\* Descriptors the card owns.
Free == (tail - head) % E1000_NUM_RX_DESC

StorePacket ==
  /\ e1000_is_available
  /\ arrived < MaxPackets
  /\ head # tail
  /\ rx_descs' = [rx_descs EXCEPT ![head] = [status |-> 1, pkt |-> arrived + 1]]
  /\ head' = NextDesc(head)
  /\ unsignalled' = 1
  /\ arrived' = arrived + 1
  /\ stored' = Append(stored, arrived + 1)
  /\ UNCHANGED <<tail, causes, others, drvVars>>

SignalPacket ==
  /\ unsignalled = 1
  /\ unsignalled' = 0
  /\ causes' = causes \cup {"RXT0"} \cup
                 (IF 2 * Free <= E1000_NUM_RX_DESC THEN {"RXDMT0"} ELSE {})
  /\ UNCHANGED <<head, tail, arrived, others, stored, drvVars, rx_descs>>

\* No descriptor left: the packet is gone.
MissPacket ==
  /\ e1000_is_available
  /\ arrived < MaxPackets
  /\ head = tail
  /\ arrived' = arrived + 1
  /\ causes' = causes \cup {"RXO"}
  /\ UNCHANGED <<head, tail, unsignalled, others, stored, drvVars, rx_descs>>

\* The link changes, or a transmission is done.
OtherEvent(c) ==
  /\ e1000_is_available
  /\ others < MaxOther
  /\ others' = others + 1
  /\ causes' = causes \cup {c}
  /\ UNCHANGED <<head, tail, unsignalled, arrived, stored, drvVars, rx_descs>>

Card == StorePacket \/ SignalPacket \/ MissPacket \/ \E c \in {"LSC", "TXDW"} : OtherEvent(c)

IrqLine == causes \cap mask # {}

----------------------------------------------------------------------------
(* The interrupt handler: e1000_irq_handler and receive_packet. *)

e1000_irq_handler ==
  /\ hpc = "idle" /\ IrqLine
  /\ mask' = mask \cup {"TXDW"}
  /\ hpc' = "cause"
  /\ UNCHANGED <<cardVars, rx_descs, pci_device, rx_cur, link, cause, old_cur, handed>>

\* Faulty variant: the causes are tested in a chain of alternatives.
Bad_one_cause ==
  /\ hpc = "cause"
  /\ cause' = causes
  /\ causes' = {}
  /\ IF "LSC" \in causes THEN start_link ELSE UNCHANGED link
  /\ hpc' = IF "RXT0" \in causes /\ causes \cap {"LSC", "RXDMT0"} = {} /\ e1000_is_available
              THEN "loop" ELSE "idle"
  /\ UNCHANGED <<head, tail, unsignalled, arrived, others, stored, rx_descs,
                 pci_device, rx_cur, mask, old_cur, handed>>

\* Reads and clears the causes, then acts on the value read.
read_cause ==
  /\ hpc = "cause"
  /\ cause' = causes
  /\ causes' = {}
  /\ IF "LSC" \in causes THEN start_link ELSE UNCHANGED link
  /\ hpc' = IF "RXT0" \in causes /\ e1000_is_available THEN "loop" ELSE "idle"
  /\ UNCHANGED <<head, tail, unsignalled, arrived, others, stored, rx_descs,
                 pci_device, rx_cur, mask, old_cur, handed>>

receive_test ==
  /\ hpc = "loop"
  /\ hpc' = IF rx_descs[rx_cur].status = 1 THEN "insert" ELSE "idle"
  /\ UNCHANGED <<cardVars, rx_descs, pci_device, rx_cur, link, mask, cause, old_cur, handed>>

\* The packet is copied by insert_packet, in the module NetworkTask.
receive_insert ==
  /\ hpc = "insert"
  /\ handed' = Append(handed, rx_descs[rx_cur].pkt)
  /\ hpc' = "clear"
  /\ UNCHANGED <<cardVars, rx_descs, pci_device, rx_cur, link, mask, cause, old_cur>>

\* Faulty variant: the status of the descriptor is not cleared.
Bad_keep_status ==
  /\ hpc = "clear"
  /\ old_cur' = rx_cur
  /\ rx_cur' = NextDesc(rx_cur)
  /\ hpc' = "tail"
  /\ UNCHANGED <<cardVars, rx_descs, pci_device, link, mask, cause, handed>>

receive_clear ==
  /\ hpc = "clear"
  /\ rx_descs' = [rx_descs EXCEPT ![rx_cur].status = 0]
  /\ old_cur' = rx_cur
  /\ rx_cur' = NextDesc(rx_cur)
  /\ hpc' = "tail"
  /\ UNCHANGED <<cardVars, pci_device, link, mask, cause, handed>>

\* Faulty variant: the descriptor is not returned to the card.
Bad_no_tail ==
  /\ hpc = "tail"
  /\ hpc' = "loop"
  /\ UNCHANGED <<cardVars, rx_descs, pci_device, rx_cur, link, mask, cause, old_cur, handed>>

receive_tail ==
  /\ hpc = "tail"
  /\ tail' = old_cur
  /\ hpc' = "loop"
  /\ UNCHANGED <<head, causes, unsignalled, arrived, others, stored, rx_descs,
                 pci_device, rx_cur, link, mask, cause, old_cur, handed>>

\* The handler's steps that stay within the driver.
Handler ==
  e1000_irq_handler \/ read_cause \/ receive_test \/ receive_clear \/ receive_tail

----------------------------------------------------------------------------
RxInit ==
  /\ pci_device = "unknown"
  /\ rx_descs = [i \in Descs |-> [status |-> 0, pkt |-> NoPkt]]
  /\ rx_cur = 0 /\ head = 0 /\ tail = 0 /\ link = 0
  /\ mask = {} /\ causes = {} /\ unsignalled = 0
  /\ hpc = "idle" /\ cause = {} /\ old_cur = 0
  /\ arrived = 0 /\ others = 0 /\ stored = <<>> /\ handed = <<>>

RxType ==
  /\ pci_device \in {"unknown", "null", "absent", "found"}
  /\ rx_descs \in [Descs -> [status : {0, 1}, pkt : 0..MaxPackets]]
  /\ rx_cur \in Descs /\ head \in Descs /\ tail \in Descs /\ old_cur \in Descs
  /\ link \in {0, 1} /\ unsignalled \in {0, 1}
  /\ mask \subseteq Causes /\ causes \subseteq Causes /\ cause \subseteq Causes
  /\ hpc \in {"idle", "cause", "loop", "insert", "clear", "tail"}
  /\ arrived \in 0..MaxPackets /\ others \in 0..MaxOther
  /\ stored \in Seq(1..MaxPackets) /\ handed \in Seq(1..MaxPackets)

----------------------------------------------------------------------------
(* Properties. *)

\* Packets in the ring the driver has not copied yet, oldest first: from the
\* first descriptor receive_packet will look at up to head.
InRxRing ==
  LET first == IF hpc = "clear" THEN NextDesc(rx_cur) ELSE rx_cur
      n     == (head - first) % E1000_NUM_RX_DESC
  IN  [k \in 1..n |-> rx_descs[(first + k - 1) % E1000_NUM_RX_DESC].pkt]

\* The driver takes every packet the card stored, once and in order: rx_cur,
\* the status bits and the tail register never get out of step with head,
\* whatever the card does between two steps of receive_packet.
NothingSkipped == stored = handed \o InRxRing

\* No lost wakeup: a stored packet the handler has not taken is announced,
\* by a cause that is pending or about to be, or by a handler that will
\* still test rx_cur.  (The causes are read before the ring is drained.)
NoLostWakeup ==
  rx_descs[rx_cur].status = 1 /\ e1000_is_available =>
    \/ unsignalled = 1
    \/ "RXT0" \in causes \cap mask
    \/ hpc \notin {"idle", "cause"}

\* The card never starves: it runs out of descriptors only while one waits
\* at rx_cur to be taken or the handler is about to return one.
NeverWedged ==
  e1000_is_available /\ head = tail => rx_descs[rx_cur].status = 1 \/ hpc = "tail"
=============================================================================
