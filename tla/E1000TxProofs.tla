---------------------------- MODULE E1000TxProofs ----------------------------
(***************************************************************************)
(* Proofs about E1000Tx with one sending task, for every size of the       *)
(* transmit ring and every number of frames.                               *)
(***************************************************************************)
EXTENDS E1000Tx, TLAPS

\* (i + 1) % E1000_NUM_TX_DESC is another descriptor of the ring.
LEMMA NextTxIs ==
  \A i \in TxDescs : NextTx(i) \in TxDescs /\ NextTx(i) # i
BY TxConstantsOK DEF NextTx, TxDescs

----------------------------------------------------------------------------
(* The inductive invariant, of the sender s. *)

SenderType ==
  /\ spc \in [Senders -> {"idle", "curr", "fill", "load", "store", "tail", "wait", "free"}]
  /\ frame \in [Senders -> Nat]
  /\ curr \in [Senders -> TxDescs] /\ next \in [Senders -> TxDescs]

TxType ==
  /\ pci_device \in {"absent", "found"}
  /\ tx_descs \in [TxDescs -> [addr : Nat, status : {0, 1}]]
  /\ tx_cur \in TxDescs /\ head \in TxDescs /\ tail \in TxDescs
  /\ fetched \in Nat \cup {Nothing}
  /\ calls \in Nat
  /\ freed \subseteq 1..calls
  /\ wire \in Seq(Nat)

\* The card has sent everything it was told of.
CardQuiet == head = tail /\ fetched = Nothing

\* The descriptor the sender filled is at the card's head.
Filled(s) == curr[s] = head /\ tx_descs[head] = [addr |-> frame[s], status |-> 0]

\* What holds at each line of e1000_send_packet.
Stage(s) ==
  /\ spc[s] \in {"idle", "curr", "fill", "load", "store", "free"} => CardQuiet /\ tx_cur = head
  /\ spc[s] \in {"fill", "load", "store"} => curr[s] = head
  /\ spc[s] \in {"load", "store", "tail"} => Filled(s)
  /\ spc[s] = "store" => next[s] = NextTx(head)
  /\ spc[s] = "tail" => CardQuiet /\ tx_cur = NextTx(head)
  /\ spc[s] = "wait" =>
       /\ tx_cur = tail
       /\ tail = NextTx(curr[s])
       /\ \/ Filled(s) /\ fetched \in {Nothing, frame[s]} /\ Len(wire) = calls - 1
          \/ CardQuiet /\ tx_descs[curr[s]].status = 1 /\ Len(wire) = calls

\* How many frames the card has sent, while it is not waited for.
Sent(s) ==
  /\ pci_device = "absent" => spc[s] \in {"idle", "free"} /\ Len(wire) = 0
  /\ pci_device = "found" =>
       /\ spc[s] \in {"idle", "free"} => Len(wire) = calls
       /\ spc[s] \in {"curr", "fill", "load", "store", "tail"} => Len(wire) = calls - 1

\* The frame in the sender's hands is the newest and is not freed.
Owned(s) == spc[s] # "idle" => calls > 0 /\ frame[s] = calls /\ calls \notin freed

IInv(s) == SenderType /\ TxType /\ Stage(s) /\ Sent(s) /\ Owned(s) /\ WireInOrder

----------------------------------------------------------------------------
(* The steps. *)

\* The first frame of a sender finds the card quiet and an empty wire.
LEMMA InitIInv ==
  ASSUME NEW s, Senders = {s}, Init
  PROVE  IInv(s)
<1>1. 0 \in TxDescs
  BY TxConstantsOK DEF TxDescs
<1>2. SenderType /\ TxType
  BY <1>1 DEF Init, SenderType, TxType, Garbage, Nothing
<1>3. Stage(s) /\ Sent(s) /\ Owned(s)
  BY DEF Init, Stage, Sent, Owned, CardQuiet
<1>4. WireInOrder
  BY DEF Init, WireInOrder
<1> QED  BY <1>2, <1>3, <1>4 DEF IInv

\* A step of the sender leaves the wire as it is, and the types.
LEMMA SendStep ==
  ASSUME NEW s, Senders = {s}, IInv(s), Send(s)
  PROVE  IInv(s)'
<1> USE NextTxIs DEF Goes
<1>1. wire' = wire /\ pci_device' = pci_device /\ head' = head /\ fetched' = fetched
  BY DEF Send, ethernet_send, read_tx_cur, fill_descriptor, load_tx_cur, store_tx_cur,
         write_tail, wait_status, free_frame
<1>2. WireInOrder'
  BY <1>1 DEF IInv, WireInOrder
<1>3. CASE ethernet_send(s)
  <2>1. SenderType' /\ TxType'
    BY <1>3 DEF ethernet_send, IInv, SenderType, TxType
  <2>2. Owned(s)' /\ Sent(s)'
    BY <1>3 DEF ethernet_send, IInv, SenderType, TxType, Owned, Sent
  <2>3. Stage(s)'
    BY <1>3 DEF ethernet_send, IInv, SenderType, TxType, Stage, CardQuiet, Filled
  <2> QED  BY <1>2, <2>1, <2>2, <2>3 DEF IInv
<1>4. CASE read_tx_cur(s)
  <2>1. SenderType' /\ TxType'
    BY <1>4 DEF read_tx_cur, IInv, SenderType, TxType
  <2>2. Owned(s)' /\ Sent(s)'
    BY <1>4 DEF read_tx_cur, IInv, SenderType, TxType, Owned, Sent
  <2>3. Stage(s)'
    BY <1>4 DEF read_tx_cur, IInv, SenderType, TxType, Stage, CardQuiet, Filled
  <2> QED  BY <1>2, <2>1, <2>2, <2>3 DEF IInv
<1>5. CASE fill_descriptor(s)
  <2>1. SenderType' /\ TxType'
    BY <1>5 DEF fill_descriptor, IInv, SenderType, TxType
  <2>2. Owned(s)' /\ Sent(s)'
    BY <1>5 DEF fill_descriptor, IInv, SenderType, TxType, Owned, Sent
  <2>3. Stage(s)'
    BY <1>5 DEF fill_descriptor, IInv, SenderType, TxType, Stage, CardQuiet, Filled
  <2> QED  BY <1>2, <2>1, <2>2, <2>3 DEF IInv
<1>6. CASE load_tx_cur(s)
  <2>1. SenderType' /\ TxType'
    BY <1>6 DEF load_tx_cur, IInv, SenderType, TxType
  <2>2. Owned(s)' /\ Sent(s)'
    BY <1>6 DEF load_tx_cur, IInv, SenderType, TxType, Owned, Sent
  <2>3. Stage(s)'
    BY <1>6 DEF load_tx_cur, IInv, SenderType, TxType, Stage, CardQuiet, Filled
  <2> QED  BY <1>2, <2>1, <2>2, <2>3 DEF IInv
<1>7. CASE store_tx_cur(s)
  <2>1. SenderType' /\ TxType'
    BY <1>7 DEF store_tx_cur, IInv, SenderType, TxType
  <2>2. Owned(s)' /\ Sent(s)'
    BY <1>7 DEF store_tx_cur, IInv, SenderType, TxType, Owned, Sent
  <2>3. Stage(s)'
    BY <1>7 DEF store_tx_cur, IInv, SenderType, TxType, Stage, CardQuiet, Filled
  <2> QED  BY <1>2, <2>1, <2>2, <2>3 DEF IInv
<1>8. CASE write_tail(s)
  <2>1. SenderType' /\ TxType'
    BY <1>8 DEF write_tail, IInv, SenderType, TxType
  <2>2. Owned(s)' /\ Sent(s)'
    BY <1>8 DEF write_tail, IInv, SenderType, TxType, Owned, Sent
  <2>3. Len(wire) = calls - 1
    BY <1>8 DEF write_tail, IInv, SenderType, TxType, Sent
  <2>4. Stage(s)'
    BY <1>8, <2>3 DEF write_tail, IInv, SenderType, TxType, Stage, CardQuiet, Filled
  <2> QED  BY <1>2, <2>1, <2>2, <2>4 DEF IInv
<1>9. CASE wait_status(s)
  <2>1. SenderType' /\ TxType'
    BY <1>9 DEF wait_status, IInv, SenderType, TxType
  <2>2. CardQuiet /\ Len(wire) = calls
    BY <1>9 DEF wait_status, IInv, SenderType, TxType, Stage, Filled
  <2>3. Owned(s)' /\ Sent(s)'
    BY <1>9, <2>2 DEF wait_status, IInv, SenderType, TxType, Owned, Sent
  <2>4. Stage(s)'
    BY <1>9, <2>2 DEF wait_status, IInv, SenderType, TxType, Stage, CardQuiet, Filled
  <2> QED  BY <1>2, <2>1, <2>3, <2>4 DEF IInv
<1>10. CASE free_frame(s)
  <2> calls \in Nat /\ frame[s] \in 1..calls
    BY <1>10 DEF free_frame, IInv, TxType, Owned
  <2> freed' \subseteq 1..calls'
    BY <1>10 DEF free_frame, IInv, TxType
  <2>1. SenderType' /\ TxType'
    BY <1>10 DEF free_frame, IInv, SenderType, TxType
  <2>2. Owned(s)' /\ Sent(s)'
    BY <1>10 DEF free_frame, IInv, SenderType, TxType, Owned, Sent
  <2>3. Stage(s)'
    BY <1>10 DEF free_frame, IInv, SenderType, TxType, Stage, CardQuiet, Filled
  <2> QED  BY <1>2, <2>1, <2>2, <2>3 DEF IInv
<1> QED
  BY <1>3, <1>4, <1>5, <1>6, <1>7, <1>8, <1>9, <1>10 DEF Send

\* The card works only while the sender waits, on the descriptor it filled.
LEMMA CardWorks ==
  ASSUME NEW s, Senders = {s}, IInv(s), head # tail \/ fetched # Nothing
  PROVE  /\ spc[s] = "wait" /\ pci_device = "found"
         /\ Filled(s) /\ fetched \in {Nothing, frame[s]} /\ Len(wire) = calls - 1
         /\ tail = NextTx(head) /\ tx_cur = tail
BY DEF IInv, SenderType, TxType, Stage, Sent, CardQuiet, Filled

\* The card fetches the address of the sender's frame.
LEMMA FetchStep ==
  ASSUME NEW s, Senders = {s}, IInv(s), Fetch
  PROVE  IInv(s)'
<1>1. /\ spc[s] = "wait"
      /\ Filled(s) /\ Len(wire) = calls - 1
  BY CardWorks DEF Fetch
<1>2. fetched' = frame[s]
  BY <1>1 DEF Fetch, Filled
<1>3. SenderType' /\ TxType'
  BY <1>2 DEF Fetch, senderVars, IInv, SenderType, TxType
<1>4. Owned(s)' /\ Sent(s)' /\ WireInOrder'
  BY DEF Fetch, senderVars, IInv, Owned, Sent, WireInOrder
<1>5. Stage(s)'
  BY <1>1, <1>2 DEF Fetch, senderVars, IInv, Stage, Filled
<1> QED  BY <1>3, <1>4, <1>5 DEF IInv

\* What goes out is the newest frame: its buffer is still the sender's.
LEMMA TransmitStep ==
  ASSUME NEW s, Senders = {s}, IInv(s), Transmit
  PROVE  IInv(s)'
<1>1. /\ spc[s] = "wait" /\ pci_device = "found"
      /\ Filled(s) /\ fetched = frame[s] /\ Len(wire) = calls - 1
      /\ tail = NextTx(head) /\ tx_cur = tail
  BY CardWorks DEF Transmit
<1>2. fetched = calls /\ fetched \notin freed
  BY <1>1 DEF IInv, Owned
<1>3. wire' = Append(wire, calls) /\ calls' = calls /\ calls \in Nat /\ wire \in Seq(Nat)
  BY <1>2 DEF Transmit, IInv, TxType
<1>4. Len(wire') = calls /\ wire' \in Seq(Nat)
  BY <1>1, <1>3
<1>5. WireInOrder'
  BY <1>1, <1>3, <1>4 DEF WireInOrder, IInv
<1>6. SenderType' /\ TxType'
  BY <1>3, <1>4, NextTxIs DEF Transmit, senderVars, IInv, SenderType, TxType
<1>7. Owned(s)' /\ Sent(s)'
  BY <1>1 DEF Transmit, senderVars, IInv, Owned, Sent
<1>8. Stage(s)'
  <2>1. tx_descs'[head].status = 1 /\ head' = tail /\ tail' = tail /\ fetched' = Nothing
    BY <1>1 DEF Transmit, IInv, TxType
  <2>2. curr'[s] = head /\ spc'[s] = "wait" /\ tx_cur' = tail /\ tail = NextTx(head)
    BY <1>1 DEF Transmit, senderVars, Filled
  <2> QED  BY <1>3, <1>4, <2>1, <2>2 DEF Stage, CardQuiet
<1> QED  BY <1>5, <1>6, <1>7, <1>8 DEF IInv

\* The invariant holds as long as one task sends.
THEOREM Invariant ==
  ASSUME NEW CONSTANT s, Senders = {s}
  PROVE  Spec => []IInv(s)
<1>1. Init => IInv(s)
  BY InitIInv
<1>2. IInv(s) /\ [Next]_vars => IInv(s)'
  <2> SUFFICES ASSUME IInv(s), [Next]_vars  PROVE IInv(s)'
    OBVIOUS
  <2>1. CASE Send(s)
    BY <2>1, SendStep
  <2>2. CASE Fetch
    BY <2>2, FetchStep
  <2>3. CASE Transmit
    BY <2>3, TransmitStep
  <2>4. CASE UNCHANGED vars
    BY <2>4 DEF vars, senderVars, IInv, SenderType, TxType, Stage, Sent, Owned, CardQuiet,
                Filled, WireInOrder
  <2> QED  BY <2>1, <2>2, <2>3, <2>4 DEF Next
<1> QED  BY <1>1, <1>2, PTL DEF Spec

\* With one sender, frames go out in the order of the calls, each once, and
\* none from a buffer already freed: e1000_send_packet waits for the status
\* of the descriptor it filled.
THEOREM InOrderOnTheWire ==
  ASSUME NEW CONSTANT s, Senders = {s}
  PROVE  Spec => []WireInOrder
<1>1. IInv(s) => WireInOrder
  BY DEF IInv
<1> QED  BY <1>1, Invariant, PTL

\* With one sender, ethernet_send frees a buffer only after the card has
\* transmitted it.
THEOREM FreedAfterSent ==
  ASSUME NEW CONSTANT s, Senders = {s}
  PROVE  Spec => []SentBeforeFreed
<1>1. IInv(s) => SentBeforeFreed
  <2> SUFFICES ASSUME IInv(s), spc[s] = "free", pci_device = "found"
               PROVE  OnWire(frame[s]) # {}
    BY DEF SentBeforeFreed
  <2>1. calls \in DOMAIN wire /\ frame[s] = calls
    BY DEF IInv, TxType, Sent, Owned
  <2>2. wire[calls] = frame[s]
    BY <2>1 DEF IInv, WireInOrder
  <2> QED  BY <2>1, <2>2 DEF OnWire
<1> QED  BY <1>1, Invariant, PTL
=============================================================================
