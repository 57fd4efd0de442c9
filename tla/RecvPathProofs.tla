---------------------------- MODULE RecvPathProofs ----------------------------
(***************************************************************************)
(* Proofs about RecvPath: the receive descriptors, the interrupt handler,  *)
(* the receive queue and the network task, for every size of the two rings *)
(* and every number of packets.                                            *)
(***************************************************************************)
EXTENDS RecvPath, CommonLemmas

----------------------------------------------------------------------------
(* The inductive invariant, in four parts. *)

\* Before e1000_init, or without a card, nothing has happened.
Silent ==
  /\ hpc = "idle" /\ causes = {} /\ unsignalled = 0
  /\ head = rx_cur /\ stored = << >> /\ handed = << >>
  /\ \A i \in Descs : rx_descs[i].status = 0

\* The descriptors from rx_cur up to head are the ones done, and the tail is
\* the one before rx_cur, or before old_cur while that is to be returned.
RingInStep ==
  /\ "RXT0" \in mask
  /\ IF hpc = "tail"
       THEN NextDesc(tail) = old_cur /\ NextDesc(old_cur) = rx_cur /\ head # old_cur
       ELSE NextDesc(tail) = rx_cur
  /\ hpc \in {"insert", "clear"} => head # rx_cur
  /\ \A i \in Descs : rx_descs[i].status = 1 <=> WIn(rx_cur, head, i)
  /\ \A i \in Descs : rx_descs[i].status = 1 => rx_descs[i].pkt # NoPkt

RxInv == IF e1000_is_available THEN RingInStep ELSE Silent

\* The task holds the slot just before recv_queue_start, or is about to take
\* the one at it; every slot in use holds a packet.
TaskInv ==
  /\ pc \in {"take", "release"} => recv_queue_start # recv_queue_end
  /\ pc = "release" => packet = recv_queue_start
  /\ pc \in {"decode", "handle"} =>
       /\ packet \in Slots /\ NextSlot(packet) = recv_queue_start
       /\ recv_packet_queue[packet] \in Packets
  /\ pc = "handle" => recv_packet_queue[packet] = seen
  /\ \A i \in Slots : WIn(recv_queue_start, recv_queue_end, i) => recv_packet_queue[i] \in Packets

\* Packets are stored in the order of arrival ...
Increasing(s) == \A i, j \in DOMAIN s : i < j => s[i] < s[j]

Arrivals == Increasing(stored) /\ \A i \in DOMAIN stored : stored[i] <= arrived

\* ... and so are the ones insert_packet did not throw away.
Hand == IF pc \in {"decode", "handle"} THEN <<recv_packet_queue[packet]>> ELSE << >>

Kept == processed \o (Hand \o Waiting)

Sorted ==
  /\ Increasing(Kept)
  /\ Elements(handed) = Elements(Kept) \cup dropped
  /\ Elements(Kept) \cap dropped = {}

IInv == TypeOK /\ RxInv /\ TaskInv /\ NoLostWakeup /\ NothingSkipped /\ Arrivals /\ Sorted

----------------------------------------------------------------------------
(* The indices. *)

\* The successors of a slot and of a descriptor, and when two are the same.
LEMMA SlotsAndDescs ==
  /\ Slots = 0..(MAX_PACKET_COUNT - 1) /\ MAX_PACKET_COUNT \in Nat /\ MAX_PACKET_COUNT >= 2
  /\ Descs = 0..(E1000_NUM_RX_DESC - 1) /\ E1000_NUM_RX_DESC \in Nat /\ E1000_NUM_RX_DESC >= 2
  /\ \A i \in Slots : NextSlot(i) \in Slots /\ NextSlot(i) = (i + 1) % MAX_PACKET_COUNT
  /\ \A i, j \in Slots : NextSlot(i) = NextSlot(j) => i = j
  /\ \A i \in Descs : NextDesc(i) \in Descs /\ NextDesc(i) = (i + 1) % E1000_NUM_RX_DESC
  /\ \A i, j \in Descs : NextDesc(i) = NextDesc(j) => i = j
<1>1. /\ Slots = 0..(MAX_PACKET_COUNT - 1) /\ MAX_PACKET_COUNT \in Nat /\ MAX_PACKET_COUNT >= 2
      /\ Descs = 0..(E1000_NUM_RX_DESC - 1) /\ E1000_NUM_RX_DESC \in Nat
      /\ E1000_NUM_RX_DESC >= 2
  BY QueueConstantsOK, RxConstantsOK DEF Slots, Descs
<1>2. \A i \in Slots : NextSlot(i) \in Slots /\ NextSlot(i) = (i + 1) % MAX_PACKET_COUNT
  BY <1>1, NextIs DEF NextSlot
<1>3. \A i, j \in Slots : NextSlot(i) = NextSlot(j) => i = j
  BY <1>1, NextInjective DEF NextSlot
<1>4. \A i \in Descs : NextDesc(i) \in Descs /\ NextDesc(i) = (i + 1) % E1000_NUM_RX_DESC
  BY <1>1, NextIs DEF NextDesc
<1>5. \A i, j \in Descs : NextDesc(i) = NextDesc(j) => i = j
  BY <1>1, NextInjective DEF NextDesc
<1> QED  BY <1>1, <1>2, <1>3, <1>4, <1>5

\* What the ring of descriptors and the queue hold, as windows.
Pkts == [i \in Descs |-> rx_descs[i].pkt]

First == IF hpc = "clear" THEN NextDesc(rx_cur) ELSE rx_cur

RingView ==
  /\ InRxRing = Window(Pkts, E1000_NUM_RX_DESC, First, head)
  /\ First \in Descs
  /\ Pkts \in [Descs -> 0..MaxPackets]
  /\ InRxRing \in Seq(0..MaxPackets)

\* The packets in the ring of descriptors, of a state and of the next one.
LEMMA RxRingView == RxType => RingView
<1> SUFFICES ASSUME RxType PROVE RingView
  OBVIOUS
<1>1. First \in Descs /\ head \in Descs
  BY SlotsAndDescs DEF First, RxType
<1>2. Pkts \in [Descs -> 0..MaxPackets]
  BY DEF Pkts, RxType
<1>3. \A k \in Nat : (First + k - 1) % E1000_NUM_RX_DESC \in Descs
  BY <1>1, SlotsAndDescs
<1>4. \A k \in 1..((head - First) % E1000_NUM_RX_DESC) :
        rx_descs[(First + k - 1) % E1000_NUM_RX_DESC].pkt
          = Pkts[(First + k - 1) % E1000_NUM_RX_DESC]
  <2> SUFFICES ASSUME NEW k \in 1..((head - First) % E1000_NUM_RX_DESC)
               PROVE  (First + k - 1) % E1000_NUM_RX_DESC \in Descs
    BY DEF Pkts
  <2>1. k \in Nat
    BY <1>1, SlotsAndDescs
  <2> QED  BY <1>3, <2>1
<1>5. InRxRing = Window(Pkts, E1000_NUM_RX_DESC, First, head)
  BY <1>4 DEF InRxRing, First, Window
<1>6. InRxRing \in Seq(0..MaxPackets)
  BY <1>1, <1>2, <1>5, SlotsAndDescs, WindowSeq
<1> QED  BY <1>1, <1>2, <1>5, <1>6 DEF RingView

\* The same for the next state.
LEMMA RxRingViewNext == RxType' => RingView'
BY RxRingView, PTL

\* The facts about windows, for the descriptors: the card fills the one at h.
LEMMA DescInsert ==
  ASSUME NEW f \in Descs, NEW h \in Descs, NextDesc(h) # f,
         NEW F, NEW G, SameBut(F, G, Descs, h)
  PROVE  /\ Window(G, E1000_NUM_RX_DESC, f, NextDesc(h))
              = Append(Window(F, E1000_NUM_RX_DESC, f, h), G[h])
         /\ \A i \in Descs : WIn(f, NextDesc(h), i) <=> WIn(f, h, i) \/ i = h
<1>1. /\ E1000_NUM_RX_DESC \in Nat /\ E1000_NUM_RX_DESC >= 2
      /\ f \in 0..(E1000_NUM_RX_DESC - 1) /\ h \in 0..(E1000_NUM_RX_DESC - 1)
      /\ (h + 1) % E1000_NUM_RX_DESC # f
      /\ SameBut(F, G, 0..(E1000_NUM_RX_DESC - 1), h)
  BY RxConstantsOK DEF Descs, NextDesc
<1>2. Window(G, E1000_NUM_RX_DESC, f, (h + 1) % E1000_NUM_RX_DESC)
        = Append(Window(F, E1000_NUM_RX_DESC, f, h), G[h])
  BY <1>1, WindowInsert
<1>3. \A i \in Descs : WIn(f, NextDesc(h), i) <=> WIn(f, h, i) \/ i = h
  BY RxConstantsOK, AdvanceEnd DEF Descs, NextDesc
<1> QED  BY <1>2, <1>3 DEF NextDesc

\* The driver empties the one at f.
LEMMA DescRemove ==
  ASSUME NEW f \in Descs, NEW h \in Descs, NEW F
  PROVE  /\ f = h => Window(F, E1000_NUM_RX_DESC, f, h) = << >>
         /\ f # h =>
              /\ Window(F, E1000_NUM_RX_DESC, f, h) # << >>
              /\ Head(Window(F, E1000_NUM_RX_DESC, f, h)) = F[f]
              /\ Tail(Window(F, E1000_NUM_RX_DESC, f, h))
                   = Window(F, E1000_NUM_RX_DESC, NextDesc(f), h)
              /\ WIn(f, h, f)
              /\ \A i \in Descs : WIn(NextDesc(f), h, i) <=> WIn(f, h, i) /\ i # f
<1> USE RxConstantsOK DEF Descs, NextDesc
<1>1. f = h => Window(F, E1000_NUM_RX_DESC, f, h) = << >>
  BY WindowBounds
<1>2. ASSUME f # h
      PROVE  /\ Window(F, E1000_NUM_RX_DESC, f, h) # << >>
             /\ Head(Window(F, E1000_NUM_RX_DESC, f, h)) = F[f]
             /\ Tail(Window(F, E1000_NUM_RX_DESC, f, h))
                  = Window(F, E1000_NUM_RX_DESC, NextDesc(f), h)
  BY <1>2, WindowRemove
<1>3. ASSUME f # h
      PROVE  /\ WIn(f, h, f)
             /\ \A i \in Descs : WIn(NextDesc(f), h, i) <=> WIn(f, h, i) /\ i # f
  BY <1>3, AdvanceStart
<1> QED  BY <1>1, <1>2, <1>3

----------------------------------------------------------------------------
(* The driver and the card. *)

RxIInv == RxType /\ RxInv /\ NoLostWakeup /\ NothingSkipped /\ Arrivals

\* Increasing sequences: one more and greater element.
LEMMA IncreasingAppend ==
  ASSUME NEW V \in SUBSET Int, NEW a \in Seq(V), NEW x \in V,
         Increasing(a), \A i \in DOMAIN a : a[i] < x
  PROVE  Increasing(Append(a, x))
BY DEF Increasing

\* A step that moves neither the packets nor the indices of the ring keeps
\* the sequence of packets.
LEMMA RingUntouched ==
  ASSUME RxType, RxType', NothingSkipped,
         Pkts' = Pkts, First' = First, head' = head, stored' = stored, handed' = handed
  PROVE  NothingSkipped'
<1>1. InRxRing = Window(Pkts, E1000_NUM_RX_DESC, First, head)
  BY RxRingView DEF RingView
<1>2. InRxRing' = Window(Pkts', E1000_NUM_RX_DESC, First', head')
  BY RxRingViewNext DEF RingView
<1> QED  BY <1>1, <1>2 DEF NothingSkipped

\* e1000_init: the ring is empty and the tail is the descriptor before head.
LEMMA InitStep ==
  ASSUME RxIInv, e1000_init
  PROVE  RxIInv' /\ handed' = handed
<1>1. Silent /\ handed' = handed /\ stored' = stored
  BY DEF e1000_init, RxIInv, RxInv, e1000_is_available
<1>2. 0 \in Descs /\ E1000_NUM_RX_DESC - 1 \in Descs /\ NextDesc(E1000_NUM_RX_DESC - 1) = 0
  BY SlotsAndDescs
<1>3. RxType'
  <2>1. CASE start_e1000 /\ pci_device' = "found"
    <3>1. rx_descs' \in [Descs -> [status : {0, 1}, pkt : 0..MaxPackets]]
      BY <2>1, RxConstantsOK DEF start_e1000, init_receive_descriptors, NoPkt
    <3> QED  BY <1>2, <2>1, <3>1 DEF e1000_init, start_e1000, start_link, enable_interrupt,
                init_receive_descriptors, RxIInv, RxType, Causes
  <2>2. CASE /\ pci_device' \in {"null", "absent"}
              /\ UNCHANGED <<link, mask, rx_descs, head, tail, rx_cur>>
    BY <2>2 DEF e1000_init, RxIInv, RxType
  <2> QED  BY <2>1, <2>2 DEF e1000_init
<1>4. \A i \in Descs : ~WIn(0, 0, i)
  BY SlotsAndDescs DEF WIn
<1>5. RxInv'
  BY <1>1, <1>2, <1>4 DEF e1000_init, start_e1000, enable_interrupt, init_receive_descriptors,
       RxIInv, RxType, RxInv, Silent, RingInStep, e1000_is_available
<1>6. NoLostWakeup'
  BY <1>2 DEF e1000_init, start_e1000, init_receive_descriptors, NoLostWakeup, e1000_is_available
<1>7. NothingSkipped'
  <2>1. head' = rx_cur' /\ hpc' = "idle" /\ rx_cur' \in Descs
    BY <1>1, <1>3 DEF e1000_init, start_e1000, init_receive_descriptors, Silent, RxType
  <2>2. InRxRing' = << >>
    BY <1>3, <2>1, RxRingViewNext, DescRemove DEF RingView, First
  <2> QED  BY <1>1, <2>2 DEF NothingSkipped, Silent
<1>8. Arrivals'
  BY <1>1 DEF Arrivals, Silent, Increasing
<1> QED  BY <1>1, <1>3, <1>5, <1>6, <1>7, <1>8 DEF RxIInv

\* The card stores a packet at head: the ring gains exactly that one.
LEMMA StoreStep ==
  ASSUME RxIInv, StorePacket
  PROVE  RxIInv' /\ handed' = handed
<1> DEFINE x == arrived + 1
<1>1. /\ RxType /\ RingInStep /\ head # tail /\ head \in Descs /\ x \in 1..MaxPackets
      /\ rx_descs' = [rx_descs EXCEPT ![head] = [status |-> 1, pkt |-> x]]
      /\ head' = NextDesc(head) /\ stored' = Append(stored, x) /\ arrived' = x
      /\ unsignalled' = 1
  BY RxConstantsOK DEF StorePacket, RxIInv, RxInv, RxType
<1>2. UNCHANGED <<tail, causes, others, pci_device, rx_cur, link, mask, hpc, cause, old_cur, handed>>
  BY DEF StorePacket, drvVars
<1>3. RxType'
  <2>1. rx_descs' \in [Descs -> [status : {0, 1}, pkt : 0..MaxPackets]]
    BY <1>1, RxConstantsOK DEF RxType
  <2>2. stored' \in Seq(1..MaxPackets) /\ arrived' \in 0..MaxPackets /\ head' \in Descs
    BY <1>1, RxConstantsOK, SlotsAndDescs DEF RxType
  <2> QED  BY <1>1, <1>2, <2>1, <2>2 DEF RxType
<1>4. head' # rx_cur /\ (hpc = "tail" => head' # old_cur) /\ (hpc = "clear" => head # rx_cur)
  BY <1>1, SlotsAndDescs DEF RxType, RingInStep
<1>5. \A i \in Descs : WIn(rx_cur, head', i) <=> WIn(rx_cur, head, i) \/ i = head
  <2>1. rx_cur \in Descs
    BY <1>1 DEF RxType
  <2>2. SameBut(rx_descs, rx_descs, Descs, head)
    BY DEF SameBut
  <2> QED  BY <1>1, <1>4, <2>1, <2>2, DescInsert
<1>6. \A i \in Descs : /\ rx_descs'[i].status = 1 <=> rx_descs[i].status = 1 \/ i = head
                       /\ i # head => rx_descs'[i].pkt = rx_descs[i].pkt
                       /\ i = head => rx_descs'[i].pkt = x
  BY <1>1 DEF RxType
<1>7. hpc \in {"insert", "clear"} => head' # rx_cur'
  BY <1>2, <1>4
<1>8. RxInv'
  BY <1>1, <1>2, <1>4, <1>5, <1>6, <1>7 DEF RxInv, RingInStep, e1000_is_available, StorePacket, NoPkt
<1>9. NoLostWakeup'
  BY <1>1 DEF NoLostWakeup
<1>10. NothingSkipped'
  <2>1. InRxRing = Window(Pkts, E1000_NUM_RX_DESC, First, head)
        /\ First \in Descs /\ Pkts \in [Descs -> 0..MaxPackets] /\ InRxRing \in Seq(0..MaxPackets)
    BY <1>1, RxRingView DEF RingView
  <2>2. InRxRing' = Window(Pkts', E1000_NUM_RX_DESC, First', head')
        /\ Pkts' \in [Descs -> 0..MaxPackets]
    BY <1>3, RxRingViewNext DEF RingView
  <2>3. First' = First
    BY <1>2 DEF First
  <2>4. head' # First
    BY <1>1, <1>4, SlotsAndDescs DEF First, RxType
  <2>5. Pkts'[head] = x /\ SameBut(Pkts, Pkts', Descs, head)
    BY <1>1, <1>6 DEF Pkts, SameBut
  <2>6. InRxRing' = Append(InRxRing, x)
    BY <1>1, <2>1, <2>2, <2>3, <2>4, <2>5, DescInsert
  <2>7. handed \in Seq(0..MaxPackets) /\ x \in 0..MaxPackets
    BY <1>1, RxConstantsOK DEF RxType
  <2>8. handed \o Append(InRxRing, x) = Append(handed \o InRxRing, x)
    BY <2>1, <2>7, ConcatAppend
  <2> QED  BY <1>1, <1>2, <2>6, <2>8 DEF RxIInv, NothingSkipped
<1>11. Arrivals'
  <2>1. /\ stored \in Seq(1..MaxPackets) /\ 1..MaxPackets \subseteq Int /\ arrived \in Int
        /\ Increasing(stored) /\ \A i \in DOMAIN stored : stored[i] <= arrived
    BY RxConstantsOK DEF RxIInv, Arrivals, RxType
  <2>2. \A i \in DOMAIN stored : stored[i] < x
    <3> TAKE i \in DOMAIN stored
    <3>1. stored[i] \in 1..MaxPackets
      BY <2>1, SeqElement
    <3> QED  BY <2>1, <3>1
  <2>3. Increasing(Append(stored, x))
    BY <1>1, <2>1, <2>2, IncreasingAppend
  <2>4. \A i \in DOMAIN Append(stored, x) : Append(stored, x)[i] <= x
    <3> TAKE i \in DOMAIN Append(stored, x)
    <3>1. \/ i \in DOMAIN stored /\ Append(stored, x)[i] = stored[i]
          \/ Append(stored, x)[i] = x
      BY <1>1, <2>1
    <3>2. x \in Int /\ \A j \in DOMAIN stored : stored[j] \in 1..MaxPackets
      BY <1>1, <2>1, SeqElement
    <3> QED  BY <2>2, <3>1, <3>2
  <2> QED  BY <1>1, <2>3, <2>4 DEF Arrivals
<1> QED  BY <1>2, <1>3, <1>8, <1>9, <1>10, <1>11 DEF RxIInv
\* The card's other steps announce something and leave the ring alone.
LEMMA AnnounceStep ==
  ASSUME RxIInv, SignalPacket \/ MissPacket \/ (\E c \in {"LSC", "TXDW"} : OtherEvent(c))
  PROVE  RxIInv' /\ handed' = handed
<1>1. /\ UNCHANGED <<head, tail, stored, rx_descs, drvVars>>
      /\ causes \subseteq causes' /\ causes' \subseteq Causes
      /\ arrived' \in {arrived, arrived + 1} /\ arrived' \in 0..MaxPackets
      /\ others' \in 0..MaxOther
      /\ (unsignalled' # unsignalled => "RXT0" \in causes')
      /\ unsignalled' \in {0, 1}
  <2> USE RxConstantsOK DEF RxIInv, RxType, Causes
  <2>1. CASE SignalPacket
    BY <2>1 DEF SignalPacket
  <2>2. CASE MissPacket
    BY <2>2 DEF MissPacket
  <2>3. CASE \E c \in {"LSC", "TXDW"} : OtherEvent(c)
    BY <2>3 DEF OtherEvent
  <2> QED  BY <2>1, <2>2, <2>3
<1>2. UNCHANGED <<pci_device, rx_cur, link, mask, hpc, cause, old_cur, handed>>
  BY <1>1 DEF drvVars
<1>3. RxType'
  BY <1>1, <1>2 DEF RxIInv, RxType
<1>4. RxInv' /\ e1000_is_available
  <2>1. e1000_is_available
    BY DEF SignalPacket, MissPacket, OtherEvent, RxIInv, RxInv, Silent
  <2> QED  BY <1>1, <1>2, <2>1 DEF RxIInv, RxInv, RingInStep, e1000_is_available
<1>5. NoLostWakeup'
  BY <1>1, <1>2, <1>4 DEF RxIInv, RxInv, RingInStep, NoLostWakeup, e1000_is_available
<1>6. NothingSkipped'
  <2>1. Pkts' = Pkts /\ First' = First
    BY <1>1, <1>2 DEF Pkts, First
  <2> QED  BY <1>1, <1>2, <1>3, <2>1, RingUntouched DEF RxIInv
<1>7. Arrivals'
  <2>1. stored \in Seq(1..MaxPackets) /\ arrived \in Int /\ MaxPackets \in Int
    BY RxConstantsOK DEF RxIInv, RxType
  <2>2. \A i \in DOMAIN stored : stored[i] \in 1..MaxPackets /\ stored[i] <= arrived
    BY <2>1, SeqElement DEF RxIInv, Arrivals
  <2>3. \A i \in DOMAIN stored : stored[i] <= arrived'
    BY <1>1, <2>1, <2>2
  <2> QED  BY <1>1, <2>3 DEF RxIInv, Arrivals
<1> QED  BY <1>2, <1>3, <1>4, <1>5, <1>6, <1>7 DEF RxIInv

\* The handler enters, reads the causes, tests the status and returns a
\* descriptor without moving a packet.
LEMMA HandlerStep ==
  ASSUME RxIInv, e1000_irq_handler \/ read_cause \/ receive_test \/ receive_tail
  PROVE  RxIInv' /\ handed' = handed
<1>1. /\ UNCHANGED <<head, rx_descs, rx_cur, old_cur, stored, handed, arrived, others,
                     unsignalled, pci_device>>
      /\ hpc # "clear" /\ hpc' # "clear"
  BY DEF e1000_irq_handler, read_cause, receive_test, receive_tail, cardVars
<1>2. RxType'
  BY <1>1 DEF e1000_irq_handler, read_cause, receive_test, receive_tail, cardVars, start_link,
              RxIInv, RxType, Causes
<1>3. e1000_is_available
  BY DEF e1000_irq_handler, read_cause, receive_test, receive_tail, RxIInv, RxInv, Silent, IrqLine
<1>4. RingInStep /\ rx_cur \in Descs /\ head \in Descs
  BY <1>3 DEF RxIInv, RxInv, RxType
<1>5. RingInStep'
  <2>1. "RXT0" \in mask'
    BY <1>4 DEF e1000_irq_handler, read_cause, receive_test, receive_tail, RingInStep
  <2>2. hpc' # "tail" /\ NextDesc(tail') = rx_cur'
    BY <1>1, <1>4 DEF e1000_irq_handler, read_cause, receive_test, receive_tail, cardVars, RingInStep
  <2>3. hpc' = "insert" => head' # rx_cur'
    <3>1. hpc' = "insert" => rx_descs[rx_cur].status = 1
      BY DEF e1000_irq_handler, read_cause, receive_test, receive_tail
    <3>2. ~WIn(rx_cur, rx_cur, rx_cur)
      BY <1>4, SlotsAndDescs DEF WIn
    <3> QED  BY <1>1, <1>4, <3>1, <3>2 DEF RingInStep
  <2> QED  BY <1>1, <1>4, <2>1, <2>2, <2>3 DEF RingInStep
<1>6. NoLostWakeup'
  BY <1>1, <1>4 DEF e1000_irq_handler, read_cause, receive_test, receive_tail, cardVars, RxIInv,
     NoLostWakeup, e1000_is_available, RxType, RingInStep
<1>7. NothingSkipped'
  <2>1. Pkts' = Pkts /\ First' = First
    BY <1>1 DEF Pkts, First
  <2> QED  BY <1>1, <1>2, <2>1, RingUntouched DEF RxIInv
<1>8. Arrivals'
  BY <1>1 DEF RxIInv, Arrivals
<1> QED  BY <1>1, <1>2, <1>3, <1>5, <1>6, <1>7, <1>8 DEF RxIInv, RxInv, e1000_is_available

\* receive_packet hands the packet of the descriptor at rx_cur on; it arrived
\* after all the packets handed on before.
LEMMA HandOnStep ==
  ASSUME RxIInv, receive_insert
  PROVE  /\ RxIInv'
         /\ rx_descs[rx_cur].pkt \in 1..MaxPackets
         /\ \A i \in DOMAIN handed : handed[i] < rx_descs[rx_cur].pkt
<1> DEFINE x == rx_descs[rx_cur].pkt
<1>1. /\ UNCHANGED <<cardVars, rx_descs, pci_device, rx_cur, link, mask, cause, old_cur>>
      /\ handed' = Append(handed, x) /\ hpc = "insert" /\ hpc' = "clear"
  BY DEF receive_insert
<1>2. RxType /\ RingInStep /\ e1000_is_available
  BY <1>1 DEF RxIInv, RxInv, Silent
<1>3. rx_cur \in Descs /\ head \in Descs /\ rx_cur # head
  BY <1>1, <1>2 DEF RxType, RingInStep
<1>4. rx_descs[rx_cur].status = 1
  BY <1>2, <1>3, DescRemove DEF RingInStep
<1>5. x \in 1..MaxPackets
  BY <1>2, <1>3, <1>4, RxConstantsOK DEF RingInStep, RxType, NoPkt
<1>6. handed' \in Seq(1..MaxPackets)
  BY <1>1, <1>2, <1>5 DEF RxType
<1>7. RxType'
  BY <1>1, <1>2, <1>6 DEF RxType, cardVars
<1>8. RxInv' /\ NoLostWakeup' /\ Arrivals'
  BY <1>1, <1>2, <1>3 DEF cardVars, RxIInv, RxInv, RingInStep, NoLostWakeup, Arrivals,
                          e1000_is_available
<1>9. InRxRing # << >> /\ Head(InRxRing) = x /\ Tail(InRxRing) = InRxRing'
      /\ InRxRing \in Seq(0..MaxPackets)
  <2>1. /\ InRxRing = Window(Pkts, E1000_NUM_RX_DESC, rx_cur, head) /\ Pkts[rx_cur] = x
        /\ InRxRing \in Seq(0..MaxPackets)
    BY <1>1, <1>2, <1>3, RxRingView DEF RingView, First, Pkts
  <2>2. InRxRing' = Window(Pkts, E1000_NUM_RX_DESC, NextDesc(rx_cur), head)
    BY <1>1, <1>7, RxRingViewNext DEF RingView, First, Pkts, cardVars
  <2> QED  BY <1>3, <2>1, <2>2, DescRemove
<1>10. handed \in Seq(0..MaxPackets) /\ stored = handed \o InRxRing /\ stored' = stored
  BY <1>1, <1>2, RxConstantsOK DEF RxType, RxIInv, NothingSkipped, cardVars
<1>11. NothingSkipped'
  <2>1. Append(handed, Head(InRxRing)) \o Tail(InRxRing) = handed \o InRxRing
    BY <1>9, <1>10, ConcatMove
  <2> QED  BY <1>1, <1>9, <1>10, <2>1 DEF NothingSkipped
<1>12. \A i \in DOMAIN handed : handed[i] < x
  <2> TAKE i \in DOMAIN handed
  <2> DEFINE n == Len(handed) + 1
  <2>1. n \in DOMAIN stored /\ stored[n] = x
    BY <1>9, <1>10
  <2>2. i \in DOMAIN stored /\ i < n /\ stored[i] = handed[i]
    BY <1>9, <1>10
  <2> QED  BY <2>1, <2>2 DEF RxIInv, Arrivals, Increasing
<1> QED  BY <1>5, <1>7, <1>8, <1>11, <1>12 DEF RxIInv

\* The status is cleared and rx_cur advanced: the descriptor leaves the ring,
\* its packet had left before.
LEMMA ClearStep ==
  ASSUME RxIInv, receive_clear
  PROVE  RxIInv' /\ handed' = handed
<1>1. /\ UNCHANGED <<cardVars, pci_device, link, mask, cause, handed>>
      /\ rx_descs' = [rx_descs EXCEPT ![rx_cur].status = 0]
      /\ old_cur' = rx_cur /\ rx_cur' = NextDesc(rx_cur) /\ hpc = "clear" /\ hpc' = "tail"
  BY DEF receive_clear
<1>2. RxType /\ RingInStep /\ e1000_is_available
  BY <1>1 DEF RxIInv, RxInv, Silent
<1>3. rx_cur \in Descs /\ head \in Descs /\ rx_cur # head
  BY <1>1, <1>2 DEF RxType, RingInStep
<1>4. \A i \in Descs : /\ rx_descs'[i].pkt = rx_descs[i].pkt
                       /\ rx_descs'[i].status = IF i = rx_cur THEN 0 ELSE rx_descs[i].status
  BY <1>1, <1>2, <1>3 DEF RxType
<1>5. RxType'
  <2>1. rx_descs' \in [Descs -> [status : {0, 1}, pkt : 0..MaxPackets]]
    BY <1>1, <1>2, <1>3 DEF RxType
  <2> QED  BY <1>1, <1>2, <1>3, <2>1, SlotsAndDescs DEF RxType, cardVars
<1>6. \A i \in Descs : WIn(rx_cur', head, i) <=> WIn(rx_cur, head, i) /\ i # rx_cur
  BY <1>1, <1>3, DescRemove
<1>7. RxInv'
  BY <1>1, <1>2, <1>3, <1>4, <1>6 DEF cardVars, RxInv, RingInStep, e1000_is_available
<1>8. NoLostWakeup' /\ Arrivals'
  BY <1>1 DEF cardVars, RxIInv, NoLostWakeup, Arrivals
<1>9. NothingSkipped'
  <2>1. Pkts' = Pkts /\ First' = First
    BY <1>1, <1>4 DEF Pkts, First
  <2> QED  BY <1>1, <1>2, <1>5, <2>1, RingUntouched DEF RxIInv, cardVars
<1> QED  BY <1>1, <1>5, <1>7, <1>8, <1>9 DEF RxIInv
----------------------------------------------------------------------------
(* The queue and the task. *)

P0 == Packets \cup {NoPacket}

\* The packets waiting are a window, in which every element is a packet.
LEMMA WaitingIs ==
  ASSUME TaskType
  PROVE  /\ Waiting = Window(recv_packet_queue, MAX_PACKET_COUNT, recv_queue_start, recv_queue_end)
         /\ Waiting \in Seq(P0)
         /\ Len(Waiting) \in 0..(MAX_PACKET_COUNT - 1)
         /\ recv_queue_start = recv_queue_end <=> Waiting = << >>
         /\ NextSlot(recv_queue_end) = recv_queue_start <=> Len(Waiting) = MAX_PACKET_COUNT - 1
<1>1. Waiting = Window(recv_packet_queue, MAX_PACKET_COUNT, recv_queue_start, recv_queue_end)
  BY DEF Waiting, Window
<1>2. /\ recv_queue_start \in 0..(MAX_PACKET_COUNT - 1) /\ recv_queue_end \in 0..(MAX_PACKET_COUNT - 1)
      /\ \A i \in 0..(MAX_PACKET_COUNT - 1) : recv_packet_queue[i] \in P0
      /\ NextSlot(recv_queue_end) = (recv_queue_end + 1) % MAX_PACKET_COUNT
      /\ MAX_PACKET_COUNT \in Nat /\ MAX_PACKET_COUNT >= 2
  BY SlotsAndDescs DEF TaskType, P0
<1>3. Waiting \in Seq(P0)
  BY <1>1, <1>2, WindowSeq
<1> QED  BY <1>1, <1>2, <1>3, WindowBounds

\* The facts about windows, for the slots: the producer fills the one at e.
LEMMA SlotInsert ==
  ASSUME NEW f \in Slots, NEW e \in Slots, NextSlot(e) # f,
         NEW F, NEW G, SameBut(F, G, Slots, e)
  PROVE  /\ Window(G, MAX_PACKET_COUNT, f, NextSlot(e))
              = Append(Window(F, MAX_PACKET_COUNT, f, e), G[e])
         /\ \A i \in Slots : WIn(f, NextSlot(e), i) <=> WIn(f, e, i) \/ i = e
<1>1. /\ MAX_PACKET_COUNT \in Nat /\ MAX_PACKET_COUNT >= 2
      /\ f \in 0..(MAX_PACKET_COUNT - 1) /\ e \in 0..(MAX_PACKET_COUNT - 1)
      /\ (e + 1) % MAX_PACKET_COUNT # f
      /\ SameBut(F, G, 0..(MAX_PACKET_COUNT - 1), e)
  BY QueueConstantsOK DEF Slots, NextSlot
<1>2. Window(G, MAX_PACKET_COUNT, f, (e + 1) % MAX_PACKET_COUNT)
        = Append(Window(F, MAX_PACKET_COUNT, f, e), G[e])
  BY <1>1, WindowInsert
<1>3. \A i \in Slots : WIn(f, NextSlot(e), i) <=> WIn(f, e, i) \/ i = e
  BY QueueConstantsOK, AdvanceEnd DEF Slots, NextSlot
<1> QED  BY <1>2, <1>3 DEF NextSlot

\* The task frees the one at f.
LEMMA SlotRemove ==
  ASSUME NEW f \in Slots, NEW e \in Slots, f # e, NEW F
  PROVE  /\ Window(F, MAX_PACKET_COUNT, f, e) # << >>
         /\ Head(Window(F, MAX_PACKET_COUNT, f, e)) = F[f]
         /\ Tail(Window(F, MAX_PACKET_COUNT, f, e)) = Window(F, MAX_PACKET_COUNT, NextSlot(f), e)
         /\ WIn(f, e, f)
         /\ \A i \in Slots : WIn(NextSlot(f), e, i) <=> WIn(f, e, i) /\ i # f
<1> USE QueueConstantsOK DEF Slots, NextSlot
<1>1. /\ Window(F, MAX_PACKET_COUNT, f, e) # << >>
      /\ Head(Window(F, MAX_PACKET_COUNT, f, e)) = F[f]
      /\ Tail(Window(F, MAX_PACKET_COUNT, f, e)) = Window(F, MAX_PACKET_COUNT, NextSlot(f), e)
  BY WindowRemove
<1>2. WIn(f, e, f) /\ \A i \in Slots : WIn(NextSlot(f), e, i) <=> WIn(f, e, i) /\ i # f
  BY AdvanceStart
<1> QED  BY <1>1, <1>2

\* insert_packet appends to the waiting packets, or throws the new one away;
\* the slot of the packet in the task's hand is not the one it writes.
LEMMA QueueInsert ==
  ASSUME TaskType, TaskInv, NEW x \in Packets, insert_packet(x)
  PROVE  /\ TaskType' /\ TaskInv'
         /\ Hand' = Hand /\ InHand' = InHand /\ processed' = processed
         /\ \/ /\ Len(Waiting) < MAX_PACKET_COUNT - 1
               /\ Waiting' = Append(Waiting, x) /\ dropped' = dropped
            \/ /\ Len(Waiting) = MAX_PACKET_COUNT - 1
               /\ Waiting' = Waiting /\ dropped' = dropped \cup {x}
<1>1. CASE NextSlot(recv_queue_end) # recv_queue_start
  <2>1. /\ recv_packet_queue' = [recv_packet_queue EXCEPT ![recv_queue_end] = x]
        /\ recv_queue_end' = NextSlot(recv_queue_end)
        /\ UNCHANGED <<recv_queue_start, pc, packet, seen, dropped, processed>>
    BY <1>1 DEF insert_packet
  <2>2. TaskType'
    BY <2>1, SlotsAndDescs DEF TaskType
  <2>3. pc \in {"decode", "handle"} => packet # recv_queue_end
    BY <1>1 DEF TaskInv
  <2>4. /\ recv_queue_end \in Slots /\ recv_packet_queue'[recv_queue_end] = x
        /\ \A i \in Slots : i # recv_queue_end => recv_packet_queue'[i] = recv_packet_queue[i]
    BY <2>1 DEF TaskType
  <2>5. \A i \in Slots : WIn(recv_queue_start, recv_queue_end', i)
                            <=> WIn(recv_queue_start, recv_queue_end, i) \/ i = recv_queue_end
    <3>1. SameBut(recv_packet_queue, recv_packet_queue, Slots, recv_queue_end)
      BY DEF SameBut
    <3> QED  BY <1>1, <2>1, <3>1, SlotInsert DEF TaskType
  <2>6. recv_queue_start # recv_queue_end'
    BY <1>1, <2>1
  <2>7. TaskInv'
    BY <2>1, <2>3, <2>4, <2>5, <2>6 DEF TaskInv
  <2>8. Hand' = Hand /\ InHand' = InHand
    BY <2>1, <2>3, <2>4 DEF Hand, InHand, TaskInv
  <2>9. Waiting' = Append(Waiting, x)
    <3>1. Waiting' = Window(recv_packet_queue', MAX_PACKET_COUNT, recv_queue_start, recv_queue_end')
      BY <2>1 DEF Waiting, Window
    <3>2. recv_queue_start \in Slots /\ recv_queue_end \in Slots
      BY DEF TaskType
    <3>3. SameBut(recv_packet_queue, recv_packet_queue', Slots, recv_queue_end)
      BY <2>4 DEF SameBut
    <3>4. Window(recv_packet_queue', MAX_PACKET_COUNT, recv_queue_start, NextSlot(recv_queue_end))
            = Append(Window(recv_packet_queue, MAX_PACKET_COUNT, recv_queue_start, recv_queue_end),
                     recv_packet_queue'[recv_queue_end])
      BY <1>1, <3>2, <3>3, SlotInsert
    <3> QED  BY <2>1, <2>4, <3>1, <3>4, WaitingIs
  <2>10. Len(Waiting) < MAX_PACKET_COUNT - 1
    <3>1. Len(Waiting) # MAX_PACKET_COUNT - 1 /\ Len(Waiting) \in 0..(MAX_PACKET_COUNT - 1)
      BY <1>1, WaitingIs
    <3> QED  BY <3>1, QueueConstantsOK
  <2> QED  BY <2>1, <2>2, <2>7, <2>8, <2>9, <2>10
<1>2. CASE NextSlot(recv_queue_end) = recv_queue_start
  <2>1. dropped' = dropped \cup {x} /\ UNCHANGED <<queueVars, pc, packet, seen, processed>>
    BY <1>2 DEF insert_packet
  <2>2. TaskType' /\ TaskInv'
    BY <2>1 DEF queueVars, TaskType, TaskInv
  <2>3. UNCHANGED <<Hand, InHand, Waiting>>
    BY <2>1 DEF queueVars, Hand, InHand, Waiting
  <2> QED  BY <1>2, <2>1, <2>2, <2>3, WaitingIs
<1> QED  BY <1>1, <1>2

\* remove_packet takes the oldest of the waiting packets into the hand.
LEMMA TaskTakes ==
  ASSUME TaskType, TaskInv, release_slot
  PROVE  /\ TaskType' /\ TaskInv'
         /\ Waiting # << >> /\ Waiting' = Tail(Waiting)
         /\ Hand = << >> /\ Hand' = <<Head(Waiting)>>
         /\ InHand = NoPacket /\ InHand' = Head(Waiting)
         /\ UNCHANGED <<dropped, processed>>
<1>1. /\ pc = "release" /\ pc' = "decode" /\ packet = recv_queue_start
      /\ recv_queue_start # recv_queue_end
      /\ recv_queue_start' = NextSlot(recv_queue_start)
      /\ UNCHANGED <<recv_queue_end, recv_packet_queue, packet, seen, dropped, processed>>
  BY DEF release_slot, TaskInv
<1>2. TaskType'
  BY <1>1, SlotsAndDescs DEF TaskType
<1>3. /\ WIn(recv_queue_start, recv_queue_end, recv_queue_start)
      /\ \A i \in Slots : WIn(recv_queue_start', recv_queue_end, i)
                            <=> WIn(recv_queue_start, recv_queue_end, i) /\ i # recv_queue_start
  BY <1>1, SlotRemove DEF TaskType
<1>4. TaskInv'
  BY <1>1, <1>3 DEF TaskInv, TaskType
<1>5. Waiting # << >> /\ Head(Waiting) = recv_packet_queue[recv_queue_start]
      /\ Waiting' = Tail(Waiting)
  <2>1. Waiting' = Window(recv_packet_queue, MAX_PACKET_COUNT, recv_queue_start', recv_queue_end)
    BY <1>1 DEF Waiting, Window
  <2>2. recv_queue_start \in Slots /\ recv_queue_end \in Slots
    BY DEF TaskType
  <2> QED  BY <1>1, <2>1, <2>2, WaitingIs, SlotRemove
<1>6. Hand = << >> /\ Hand' = <<Head(Waiting)>> /\ InHand = NoPacket /\ InHand' = Head(Waiting)
  BY <1>1, <1>5 DEF Hand, InHand
<1> QED  BY <1>1, <1>2, <1>4, <1>5, <1>6

\* The packet in hand is handled: the one that was taken.
LEMMA TaskFinishes ==
  ASSUME TaskType, TaskInv, handle
  PROVE  /\ TaskType' /\ TaskInv'
         /\ InHand \in Packets /\ InHand' = NoPacket
         /\ Hand = <<InHand>> /\ Hand' = << >>
         /\ processed' = Append(processed, InHand)
         /\ UNCHANGED <<Waiting, dropped>>
<1>1. /\ pc = "handle" /\ pc' = "check" /\ recv_packet_queue[packet] \in Packets
      /\ processed' = Append(processed, recv_packet_queue[packet])
      /\ packet' = NULL /\ seen' = NoPacket
      /\ UNCHANGED <<queueVars, dropped>>
  BY DEF handle, TaskInv
<1>2. processed' \in Seq(Packets)
  BY <1>1 DEF TaskType
<1>3. TaskType' /\ TaskInv'
  BY <1>1, <1>2 DEF queueVars, TaskType, TaskInv
<1> QED  BY <1>1, <1>3 DEF queueVars, Hand, InHand, Waiting

\* The task's other steps move no packet.
LEMMA TaskElse ==
  ASSUME TaskType, TaskInv, routing_init \/ new_packet_available \/ remove_packet \/ decode
  PROVE  /\ TaskType' /\ TaskInv'
         /\ UNCHANGED <<Waiting, Hand, InHand, dropped, processed>>
<1>1. /\ UNCHANGED <<queueVars, dropped, processed>>
      /\ (pc \in {"decode", "handle"}) <=> (pc' \in {"decode", "handle"})
      /\ pc \in {"decode", "handle"} => packet' = packet
  BY DEF routing_init, new_packet_available, remove_packet, decode, TaskInv
<1>2. TaskType'
  BY DEF routing_init, new_packet_available, remove_packet, decode, TaskType, TaskInv, queueVars
<1>3. TaskInv'
  BY DEF routing_init, new_packet_available, remove_packet, decode, TaskType, TaskInv, queueVars
<1> QED  BY <1>1, <1>2, <1>3 DEF queueVars, Waiting, Hand, InHand
----------------------------------------------------------------------------
(* The order of the packets. *)

\* The elements of a sequence with one more ...
LEMMA ElementsAppend ==
  ASSUME NEW V, NEW a \in Seq(V), NEW x \in V
  PROVE  Elements(Append(a, x)) = Elements(a) \cup {x}
<1>1. ASSUME NEW y \in Elements(a) \cup {x}
      PROVE  y \in Elements(Append(a, x))
  <2>1. CASE y = x
    <3>1. Len(a) + 1 \in DOMAIN Append(a, x) /\ Append(a, x)[Len(a) + 1] = x
      OBVIOUS
    <3> QED  BY <2>1, <3>1 DEF Elements
  <2>2. CASE y \in Elements(a)
    <3>1. PICK i \in DOMAIN a : y = a[i]
      BY <2>2 DEF Elements
    <3>2. i \in DOMAIN Append(a, x) /\ Append(a, x)[i] = a[i]
      OBVIOUS
    <3> QED  BY <3>1, <3>2 DEF Elements
  <2> QED  BY <1>1, <2>1, <2>2
<1>2. \A i \in DOMAIN Append(a, x) : (i \in DOMAIN a /\ Append(a, x)[i] = a[i])
                                     \/ Append(a, x)[i] = x
  OBVIOUS
<1> QED  BY <1>1, <1>2 DEF Elements

\* ... and of two put together.
LEMMA ElementsConcat ==
  ASSUME NEW V, NEW a \in Seq(V), NEW b \in Seq(V)
  PROVE  Elements(a \o b) = Elements(a) \cup Elements(b)
<1>1. ASSUME NEW y \in Elements(a)
      PROVE  y \in Elements(a \o b)
  <2>1. PICK i \in DOMAIN a : y = a[i]
    BY <1>1 DEF Elements
  <2>2. i \in DOMAIN (a \o b) /\ (a \o b)[i] = a[i]
    OBVIOUS
  <2> QED  BY <2>1, <2>2 DEF Elements
<1>2. ASSUME NEW y \in Elements(b)
      PROVE  y \in Elements(a \o b)
  <2>1. PICK i \in DOMAIN b : y = b[i]
    BY <1>2 DEF Elements
  <2>2. Len(a) + i \in DOMAIN (a \o b) /\ (a \o b)[Len(a) + i] = b[i]
    OBVIOUS
  <2> QED  BY <2>1, <2>2 DEF Elements
<1>3. ASSUME NEW i \in DOMAIN (a \o b)
      PROVE  (a \o b)[i] \in Elements(a) \cup Elements(b)
  <2>1. CASE i <= Len(a)
    <3>1. i \in DOMAIN a /\ (a \o b)[i] = a[i]
      BY <2>1
    <3> QED  BY <3>1 DEF Elements
  <2>2. CASE ~(i <= Len(a))
    <3>1. i - Len(a) \in DOMAIN b /\ (a \o b)[i] = b[i - Len(a)]
      BY <2>2
    <3> QED  BY <3>1 DEF Elements
  <2> QED  BY <2>1, <2>2
<1> QED  BY <1>1, <1>2, <1>3 DEF Elements

\* Of two sequences that are increasing when put together, the elements of the
\* first are smaller than those of the second.
LEMMA IncreasingParts ==
  ASSUME NEW V \in SUBSET Int, NEW a \in Seq(V), NEW b \in Seq(V), Increasing(a \o b)
  PROVE  /\ Increasing(a) /\ Increasing(b)
         /\ Elements(a) \cap Elements(b) = {}
<1>1. \A i \in DOMAIN a : i \in DOMAIN (a \o b) /\ (a \o b)[i] = a[i]
  OBVIOUS
<1>2. \A i \in DOMAIN b : Len(a) + i \in DOMAIN (a \o b) /\ (a \o b)[Len(a) + i] = b[i]
  OBVIOUS
<1>3. \A i \in DOMAIN a : i \in Int /\ i <= Len(a)
  OBVIOUS
<1>4. \A i \in DOMAIN b : i \in Int /\ i >= 1
  OBVIOUS
<1>5. Len(a) \in Int /\ (\A i \in DOMAIN a : a[i] \in Int) /\ (\A i \in DOMAIN b : b[i] \in Int)
  <2>1. Len(a) \in Int
    OBVIOUS
  <2>2. (\A i \in DOMAIN a : a[i] \in V) /\ (\A i \in DOMAIN b : b[i] \in V)
    BY SeqElement
  <2> QED  BY <2>1, <2>2
<1>6. Increasing(a)
  BY <1>1 DEF Increasing
<1>7. Increasing(b)
  <2> SUFFICES ASSUME NEW i \in DOMAIN b, NEW j \in DOMAIN b, i < j
               PROVE  b[i] < b[j]
    BY DEF Increasing
  <2>1. Len(a) + i < Len(a) + j
    BY <1>4, <1>5
  <2> QED  BY <1>2, <2>1 DEF Increasing
<1>8. ASSUME NEW i \in DOMAIN a, NEW j \in DOMAIN b
      PROVE  a[i] # b[j]
  <2>1. i < Len(a) + j
    BY <1>3, <1>4, <1>5
  <2>2. a[i] < b[j]
    BY <1>1, <1>2, <2>1 DEF Increasing
  <2> QED  BY <1>5, <2>2
<1> QED  BY <1>6, <1>7, <1>8 DEF Elements
\* The kept packets, taken apart.
LEMMA KeptParts ==
  ASSUME TaskType, TaskInv
  PROVE  /\ P0 \in SUBSET Int
         /\ processed \in Seq(P0) /\ Hand \in Seq(P0) /\ Waiting \in Seq(P0)
         /\ Hand \o Waiting \in Seq(P0) /\ Kept \in Seq(P0)
         /\ Elements(Kept) = Elements(processed) \cup Elements(Hand) \cup Elements(Waiting)
         /\ Elements(Hand) = {InHand} \ {NoPacket}
<1>1. P0 \in SUBSET Int /\ NoPacket \in P0 /\ NoPacket \notin Packets
  BY QueueConstantsOK DEF P0, NoPacket
<1>2. processed \in Seq(P0)
  BY DEF TaskType, P0
<1>3. Hand \in Seq(P0)
  <2>1. << >> \in Seq(P0) /\ \A x \in P0 : <<x>> \in Seq(P0)
    OBVIOUS
  <2>2. Hand = << >> \/ \E x \in P0 : Hand = <<x>>
    BY DEF Hand, TaskInv, P0
  <2> QED  BY <2>1, <2>2
<1>4. Waiting \in Seq(P0)
  BY WaitingIs
<1>5. Hand \o Waiting \in Seq(P0) /\ Kept \in Seq(P0)
  BY <1>2, <1>3, <1>4 DEF Kept
<1>6. Elements(Hand \o Waiting) = Elements(Hand) \cup Elements(Waiting)
  BY <1>3, <1>4, ElementsConcat
<1>7. Elements(Kept) = Elements(processed) \cup Elements(Hand \o Waiting)
  <2> DEFINE rest == Hand \o Waiting
  <2>1. rest \in Seq(P0)
    BY <1>5
  <2> HIDE DEF rest
  <2>2. Elements(processed \o rest) = Elements(processed) \cup Elements(rest)
    BY <1>2, <2>1, ElementsConcat
  <2> QED  BY <2>2 DEF Kept, rest
<1>8. Elements(Hand) = {InHand} \ {NoPacket}
  <2>1. CASE pc \in {"decode", "handle"}
    <3>1. Hand = <<InHand>> /\ InHand \in Packets
      BY <2>1 DEF Hand, InHand, TaskInv
    <3> QED  BY <1>1, <3>1 DEF Elements
  <2>2. CASE pc \notin {"decode", "handle"}
    BY <2>2 DEF Hand, InHand, Elements
  <2> QED  BY <2>1, <2>2
<1> QED  BY <1>1, <1>2, <1>3, <1>4, <1>5, <1>6, <1>7, <1>8

\* The packet handed on is newer than all before: kept, it goes to the end;
\* thrown away, it is none of the kept ones.
LEMMA SortedInsert ==
  ASSUME TaskType, TaskInv, Sorted, NEW x \in Packets, insert_packet(x),
         handed \in Seq(1..MaxPackets), handed' = Append(handed, x), x \in 1..MaxPackets,
         \A i \in DOMAIN handed : handed[i] < x
  PROVE  Sorted'
<1>1. /\ Hand' = Hand /\ processed' = processed
      /\ \/ Waiting' = Append(Waiting, x) /\ dropped' = dropped
         \/ Waiting' = Waiting /\ dropped' = dropped \cup {x}
  BY QueueInsert
<1>2. Elements(handed') = Elements(handed) \cup {x}
  <2> DEFINE V == 1..MaxPackets
  <2>1. handed \in Seq(V) /\ x \in V
    OBVIOUS
  <2> HIDE DEF V
  <2>2. Elements(Append(handed, x)) = Elements(handed) \cup {x}
    BY <2>1, ElementsAppend
  <2> QED  BY <2>2
<1>3. \A y \in Elements(handed) : y < x /\ y # x
  <2>1. \A i \in DOMAIN handed : handed[i] \in 1..MaxPackets
    BY SeqElement
  <2>2. \A i \in DOMAIN handed : handed[i] # x
    BY <2>1
  <2> QED  BY <2>2 DEF Elements
<1>4. \A y \in Elements(Kept) \cup dropped : y < x /\ y # x
  BY <1>3 DEF Sorted
<1>5. x \in P0 /\ P0 \in SUBSET Int /\ Kept \in Seq(P0) /\ processed \in Seq(P0)
      /\ Hand \in Seq(P0) /\ Waiting \in Seq(P0) /\ Hand \o Waiting \in Seq(P0)
  BY KeptParts DEF P0
<1>6. CASE Waiting' = Append(Waiting, x) /\ dropped' = dropped
  <2>1. Hand \o Append(Waiting, x) = Append(Hand \o Waiting, x)
    BY <1>5, ConcatAppend
  <2>2. Kept' = processed \o Append(Hand \o Waiting, x)
    BY <1>1, <1>6, <2>1 DEF Kept
  <2>3. Kept' = Append(Kept, x)
    BY <1>5, <2>2, ConcatAppend DEF Kept
  <2>4. \A i \in DOMAIN Kept : Kept[i] < x
    BY <1>4 DEF Elements
  <2>5. Increasing(Kept')
    BY <1>5, <2>3, <2>4, IncreasingAppend DEF Sorted
  <2>6. Elements(Kept') = Elements(Kept) \cup {x}
    BY <1>5, <2>3, ElementsAppend
  <2> QED  BY <1>2, <1>4, <1>6, <2>5, <2>6 DEF Sorted, Increasing, Elements
<1>7. CASE Waiting' = Waiting /\ dropped' = dropped \cup {x}
  <2>1. Kept' = Kept
    BY <1>1, <1>7 DEF Kept
  <2> QED  BY <1>2, <1>4, <1>7, <2>1 DEF Sorted, Increasing, Elements
<1> QED  BY <1>1, <1>6, <1>7

\* The task moves packets along the kept sequence and never within it.
LEMMA SortedTask ==
  ASSUME TaskType, TaskInv, Sorted, network_task_recv, handed' = handed
  PROVE  TaskType' /\ TaskInv' /\ Sorted'
<1>1. TaskType' /\ TaskInv' /\ dropped' = dropped /\ Kept' = Kept
  <2>1. CASE release_slot
    <3>1. /\ TaskType' /\ TaskInv' /\ UNCHANGED <<dropped, processed>>
          /\ Hand = << >> /\ Hand' = <<Head(Waiting)>> /\ Waiting # << >> /\ Waiting' = Tail(Waiting)
      BY <2>1, TaskTakes
    <3>2. processed \o (<<Head(Waiting)>> \o Tail(Waiting)) = processed \o (<< >> \o Waiting)
      BY <3>1, KeptParts, ConcatTake
    <3> QED  BY <3>1, <3>2 DEF Kept
  <2>2. CASE handle
    <3>1. /\ TaskType' /\ TaskInv' /\ UNCHANGED <<Waiting, dropped>>
          /\ Hand = <<InHand>> /\ Hand' = << >> /\ InHand \in Packets
          /\ processed' = Append(processed, InHand)
      BY <2>2, TaskFinishes
    <3>2. InHand \in P0 /\ processed \in Seq(P0) /\ Waiting \in Seq(P0)
      BY <3>1, KeptParts DEF P0
    <3>3. Append(processed, InHand) \o (<< >> \o Waiting) = processed \o (<<InHand>> \o Waiting)
      BY <3>2, ConcatFinish
    <3> QED  BY <3>1, <3>3 DEF Kept
  <2>3. CASE routing_init \/ new_packet_available \/ remove_packet \/ decode
    BY <2>3, TaskElse DEF Kept
  <2> QED  BY <2>1, <2>2, <2>3 DEF network_task_recv
<1> QED  BY <1>1 DEF Sorted, Increasing, Elements

----------------------------------------------------------------------------
(* The whole path. *)

\* The invariant holds at the start.
LEMMA InitIInv == Init => IInv
<1> SUFFICES ASSUME Init PROVE IInv
  OBVIOUS
<1>1. 0 \in Descs /\ 0 \in Slots /\ 0 \in 0..MaxPackets
  BY SlotsAndDescs, RxConstantsOK
<1>2. TypeOK
  <2>1. TaskType
    BY <1>1 DEF Init, TaskInit, TaskType, NoPacket, NULL
  <2>2. RxType
    BY <1>1, RxConstantsOK DEF Init, RxInit, RxType, NoPkt, Causes
  <2> QED  BY <2>1, <2>2 DEF TypeOK
<1>3. RxInv /\ NoLostWakeup
  BY DEF Init, RxInit, RxInv, Silent, e1000_is_available, NoLostWakeup
<1>4. TaskInv
  BY <1>1, SlotsAndDescs DEF Init, TaskInit, TaskInv, WIn
<1>5. NothingSkipped
  <2>1. InRxRing = << >>
    BY <1>1, <1>2, RxRingView, DescRemove DEF RingView, First, Init, RxInit, TypeOK
  <2> QED  BY <2>1 DEF NothingSkipped, Init, RxInit
<1>6. Arrivals
  BY DEF Arrivals, Increasing, Init, RxInit
<1>7. Sorted
  <2>1. Waiting = << >>
    BY <1>2, WaitingIs DEF Init, TaskInit, TypeOK
  <2>2. Kept = << >>
    BY <2>1 DEF Kept, Hand, Init, TaskInit
  <2> QED  BY <2>2 DEF Sorted, Increasing, Elements, Init, TaskInit, RxInit
<1> QED  BY <1>2, <1>3, <1>4, <1>5, <1>6, <1>7 DEF IInv

\* Every step keeps it.
LEMMA NextIInv == IInv /\ [Next]_vars => IInv'
<1> SUFFICES ASSUME IInv, [Next]_vars PROVE IInv'
  OBVIOUS
<1>1. RxIInv /\ TaskType /\ TaskInv /\ Sorted
  BY DEF IInv, RxIInv, TypeOK
<1>2. ASSUME RxIInv', UNCHANGED taskVars, handed' = handed
      PROVE  IInv'
  <2>1. TaskType' /\ TaskInv'
    BY <1>1, <1>2 DEF taskVars, queueVars, TaskType, TaskInv
  <2>2. Kept' = Kept /\ dropped' = dropped
    BY <1>2 DEF taskVars, queueVars, Kept, Hand, Waiting
  <2>3. Sorted'
    BY <1>1, <1>2, <2>2 DEF Sorted, Increasing, Elements
  <2> QED  BY <1>2, <2>1, <2>3 DEF IInv, RxIInv, TypeOK
<1>3. CASE e1000_init /\ UNCHANGED taskVars
  BY <1>1, <1>2, <1>3, InitStep
<1>4. CASE Card /\ UNCHANGED taskVars
  BY <1>1, <1>2, <1>4, StoreStep, AnnounceStep DEF Card
<1>5. CASE Driver
  BY <1>1, <1>2, <1>5, HandlerStep, ClearStep DEF Driver, Handler
<1>6. CASE Insert
  <2>1. receive_insert /\ insert_packet(rx_descs[rx_cur].pkt)
        /\ handed' = Append(handed, rx_descs[rx_cur].pkt)
    BY <1>6 DEF Insert, receive_insert
  <2>2. /\ RxIInv' /\ rx_descs[rx_cur].pkt \in 1..MaxPackets
        /\ \A i \in DOMAIN handed : handed[i] < rx_descs[rx_cur].pkt
    BY <1>1, <2>1, HandOnStep
  <2>3. rx_descs[rx_cur].pkt \in Packets
    BY <2>2, PacketsAgree
  <2>4. TaskType' /\ TaskInv'
    BY <1>1, <2>1, <2>3, QueueInsert
  <2>5. handed \in Seq(1..MaxPackets)
    BY <1>1 DEF RxIInv, RxType
  <2>6. Sorted'
    BY <1>1, <2>1, <2>2, <2>3, <2>5, SortedInsert
  <2> QED  BY <2>2, <2>4, <2>6 DEF IInv, RxIInv, TypeOK
<1>7. CASE Task \/ UNCHANGED vars
  <2>1. UNCHANGED rxVars
    BY <1>7 DEF Task, vars
  <2>2. RxIInv' /\ handed' = handed
    BY <1>1, <2>1 DEF rxVars, cardVars, drvVars, RxIInv, RxType, RxInv, Silent, RingInStep,
         e1000_is_available, NoLostWakeup, NothingSkipped, InRxRing, Arrivals, Increasing
  <2>3. CASE Task
    <3>1. TaskType' /\ TaskInv' /\ Sorted'
      BY <1>1, <2>2, <2>3, SortedTask DEF Task
    <3> QED  BY <2>2, <3>1 DEF IInv, RxIInv, TypeOK
  <2>4. CASE UNCHANGED vars
    BY <1>2, <2>2, <2>4 DEF vars
  <2> QED  BY <1>7, <2>3, <2>4
<1> QED  BY <1>3, <1>4, <1>5, <1>6, <1>7 DEF Next
\* The invariant of the whole path.
THEOREM Invariant == Spec => []IInv
BY InitIInv, NextIInv, PTL DEF Spec

\* Every variable keeps its type.
THEOREM TypeCorrect == Spec => []TypeOK
<1>1. IInv => TypeOK
  BY DEF IInv
<1> QED  BY <1>1, Invariant, PTL

\* The task reads a slot it has released, and the producer, interrupting it
\* at any point, cannot have changed it: insert_packet refuses to fill the
\* slot before recv_queue_start.
THEOREM StablePacket == Spec => []PacketStable
<1>1. IInv => PacketStable
  BY SlotsAndDescs DEF IInv, TaskInv, PacketStable, NULL
<1> QED  BY <1>1, Invariant, PTL

\* receive_packet takes every packet the card stored, once and in order.
THEOREM NoneSkipped == Spec => []NothingSkipped
<1>1. IInv => NothingSkipped
  BY DEF IInv
<1> QED  BY <1>1, Invariant, PTL

\* A stored packet is announced until the handler has looked for it, although
\* reading the cause register clears causes set meanwhile.
THEOREM WakeupKept == Spec => []NoLostWakeup
<1>1. IInv => NoLostWakeup
  BY DEF IInv
<1> QED  BY <1>1, Invariant, PTL

\* The card never waits for a descriptor while the driver waits for a packet.
THEOREM CardNotWedged == Spec => []NeverWedged
<1>1. IInv => NeverWedged
  <2> SUFFICES ASSUME IInv, e1000_is_available, head = tail, hpc # "tail"
               PROVE  rx_descs[rx_cur].status = 1
    BY DEF NeverWedged
  <2>1. NextDesc(head) = rx_cur /\ head \in Descs /\ rx_cur \in Descs
    BY DEF IInv, RxInv, RingInStep, TypeOK, RxType
  <2>2. NextDesc(head) # head
    BY <2>1, RxConstantsOK DEF Descs, NextDesc
  <2>3. WIn(rx_cur, head, rx_cur)
    BY <2>1, <2>2, DescRemove
  <2> QED  BY <2>1, <2>3 DEF IInv, RxInv, RingInStep
<1> QED  BY <1>1, Invariant, PTL

\* From the card to the task no packet is lost unnoticed, doubled or
\* overtaken, whatever the interleaving of card, handler and task.
THEOREM OncePerPacketInOrder == Spec => []EachOnceInOrder
<1>1. IInv => EachOnceInOrder
  <2> SUFFICES ASSUME IInv PROVE EachOnceInOrder
    OBVIOUS
  <2> DEFINE R == Elements(InRxRing)
             Q == Elements(Waiting)
             H == {InHand} \ {NoPacket}
             D == Elements(processed)
  <2>1. TaskType /\ TaskInv /\ RxType /\ Sorted /\ Arrivals /\ NothingSkipped
    BY DEF IInv, TypeOK
  <2>2. /\ P0 \in SUBSET Int
        /\ processed \in Seq(P0) /\ Hand \in Seq(P0) /\ Waiting \in Seq(P0)
        /\ Hand \o Waiting \in Seq(P0)
        /\ Elements(Kept) = D \cup Elements(Hand) \cup Q
        /\ Elements(Hand) = H
    BY <2>1, KeptParts
  <2>3. Increasing(processed) /\ Increasing(Hand \o Waiting)
        /\ D \cap Elements(Hand \o Waiting) = {}
    <3> DEFINE rest == Hand \o Waiting
    <3>1. rest \in Seq(P0) /\ Increasing(processed \o rest)
      BY <2>1, <2>2 DEF Sorted, Kept
    <3> HIDE DEF rest
    <3>2. Increasing(processed) /\ Increasing(rest) /\ D \cap Elements(rest) = {}
      BY <2>2, <3>1, IncreasingParts
    <3> QED  BY <3>2 DEF rest
  <2>4. Elements(Hand \o Waiting) = H \cup Q /\ H \cap Q = {}
    <3>1. Elements(Hand \o Waiting) = Elements(Hand) \cup Q
      BY <2>2, ElementsConcat
    <3>2. Elements(Hand) \cap Q = {}
      BY <2>2, <2>3, IncreasingParts
    <3> QED  BY <2>2, <3>1, <3>2
  <2>5. Elements(stored) = Elements(handed) \cup R /\ Elements(handed) \cap R = {}
    <3> DEFINE V == 0..MaxPackets
    <3>1. handed \in Seq(V) /\ InRxRing \in Seq(V) /\ V \in SUBSET Int
      BY <2>1, RxRingView, RxConstantsOK DEF RingView, RxType
    <3>2. stored = handed \o InRxRing /\ Increasing(handed \o InRxRing)
      BY <2>1 DEF NothingSkipped, Arrivals
    <3> HIDE DEF V
    <3>3. Elements(handed \o InRxRing) = Elements(handed) \cup R
      BY <3>1, ElementsConcat
    <3>4. Elements(handed) \cap R = {}
      BY <3>1, <3>2, IncreasingParts
    <3> QED  BY <3>2, <3>3, <3>4
  <2>6. Elements(handed) = D \cup H \cup Q \cup dropped /\ (D \cup H \cup Q) \cap dropped = {}
    BY <2>1, <2>2 DEF Sorted
  <2> HIDE DEF R, Q, H, D
  <2>7. Places = <<R, Q, H, D, dropped>>
    BY DEF Places, R, Q, H, D
  <2>8. /\ DOMAIN Places = 1..5
        /\ Places[1] = R /\ Places[2] = Q /\ Places[3] = H /\ Places[4] = D /\ Places[5] = dropped
    BY <2>7
  <2>9. \A i \in DOMAIN Places : i \in {1, 2, 3, 4, 5}
    BY <2>8
  <2>10. UNION {Places[i] : i \in DOMAIN Places} = R \cup Q \cup H \cup D \cup dropped
    <3>1. {Places[i] : i \in DOMAIN Places} = {R, Q, H, D, dropped}
      BY <2>8, <2>9
    <3> QED  BY <3>1
  <2>11. OnePlace
    <3>1. Elements(stored) = UNION {Places[i] : i \in DOMAIN Places}
      BY <2>5, <2>6, <2>10
    <3>2. ASSUME NEW i \in DOMAIN Places, NEW j \in DOMAIN Places, i # j
          PROVE  Places[i] \cap Places[j] = {}
      <4>1. /\ R \cap Q = {} /\ R \cap H = {} /\ R \cap D = {} /\ R \cap dropped = {}
            /\ Q \cap H = {} /\ Q \cap D = {} /\ Q \cap dropped = {}
            /\ H \cap D = {} /\ H \cap dropped = {} /\ D \cap dropped = {}
        BY <2>3, <2>4, <2>5, <2>6
      <4> QED  BY <2>8, <2>9, <3>2, <4>1
    <3> QED  BY <3>1, <3>2 DEF OnePlace
  <2>12. InOrder
    BY <2>3 DEF InOrder, Increasing
  <2> QED  BY <2>11, <2>12 DEF EachOnceInOrder
<1> QED  BY <1>1, Invariant, PTL

\* The queue and the task implement the abstract FIFO: insert_packet is its
\* Offer, the release of a slot its Take, the end of handling its Finish, and
\* everything else, the card's and the driver's steps included, leaves it
\* unchanged.
THEOREM ImplementsFifo == Spec => IsLossyFifo
<1> DEFINE fifo == <<Waiting, InHand, dropped, processed>>
<1>1. Init => Fifo!Init
  <2> SUFFICES ASSUME Init PROVE Fifo!Init
    OBVIOUS
  <2>1. TaskType /\ recv_queue_start = recv_queue_end
    BY InitIInv DEF IInv, TypeOK, Init, TaskInit
  <2>2. Waiting = << >>
    BY <2>1, WaitingIs
  <2> QED  BY <2>2 DEF Fifo!Init, Init, TaskInit, InHand
<1>2. IInv /\ IInv' /\ [Next]_vars => [Fifo!Next]_fifo
  <2> SUFFICES ASSUME IInv, IInv', [Next]_vars PROVE [Fifo!Next]_fifo
    OBVIOUS
  <2>1. TaskType /\ TaskInv
    BY DEF IInv, TypeOK
  <2>2. CASE UNCHANGED taskVars
    BY <2>2 DEF taskVars, queueVars, Waiting, InHand
  <2>3. CASE Insert
    <3> DEFINE x == rx_descs[rx_cur].pkt
    <3>1. insert_packet(x) /\ x \in Packets
      <4>1. RxIInv /\ receive_insert /\ insert_packet(x)
        BY <2>3 DEF Insert, IInv, RxIInv, TypeOK
      <4>2. x \in 1..MaxPackets
        BY <4>1, HandOnStep
      <4> QED  BY <4>1, <4>2, PacketsAgree
    <3> HIDE DEF x
    <3>2. /\ InHand' = InHand /\ processed' = processed
          /\ \/ /\ Len(Waiting) < MAX_PACKET_COUNT - 1
                /\ Waiting' = Append(Waiting, x) /\ dropped' = dropped
             \/ /\ Len(Waiting) = MAX_PACKET_COUNT - 1
                /\ Waiting' = Waiting /\ dropped' = dropped \cup {x}
      BY <2>1, <3>1, QueueInsert
    <3>3. Fifo!Offer(x)
      BY <3>2 DEF Fifo!Offer
    <3> QED  BY <3>1, <3>3 DEF Fifo!Next
  <2>4. CASE Task /\ release_slot
    <3>1. Fifo!Take
      BY <2>1, <2>4, TaskTakes DEF Fifo!Take
    <3> QED  BY <3>1 DEF Fifo!Next
  <2>5. CASE Task /\ handle
    <3>1. InHand # NoPacket
      BY <2>1, <2>5, TaskFinishes, QueueConstantsOK DEF NoPacket
    <3>2. Fifo!Finish
      BY <2>1, <2>5, <3>1, TaskFinishes DEF Fifo!Finish
    <3> QED  BY <3>2 DEF Fifo!Next
  <2>6. CASE routing_init \/ new_packet_available \/ remove_packet \/ decode
    BY <2>1, <2>6, TaskElse
  <2> QED
    BY <2>2, <2>3, <2>4, <2>5, <2>6 DEF Next, Driver, Task, network_task_recv, vars
<1> QED  BY <1>1, <1>2, Invariant, PTL DEF Spec, IsLossyFifo, Fifo!Spec
=============================================================================
