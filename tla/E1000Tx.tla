------------------------------- MODULE E1000Tx -------------------------------
(***************************************************************************)
(* Sending a frame: ethernet_send and e1000_send_packet, run by one or     *)
(* several tasks, and the transmit side of the network card.               *)
(*                                                                         *)
(* The card transmits the descriptors from its head up to, not including,  *)
(* REG_TXDESCTAIL, one after the other, and sets their status.  A frame is *)
(* a number; the buffer ethernet_send allocates for it has the same name.  *)
(* The e1000 object exists: where e1000_init found no memory for it,       *)
(* e1000_is_available dereferences NULL, and what a send does then is      *)
(* undefined.                                                              *)
(***************************************************************************)
EXTENDS Integers, Sequences

CONSTANTS
  E1000_NUM_TX_DESC,  \* descriptors of the transmit ring
  Senders,            \* tasks that send
  MaxFrames           \* bound: calls of ethernet_send

ASSUME TxConstantsOK ==
  /\ E1000_NUM_TX_DESC \in Nat /\ E1000_NUM_TX_DESC >= 2
  /\ MaxFrames \in Nat

VARIABLES
  pci_device,           \* "absent" or "found"
  tx_descs,             \* buffer and status of each descriptor
  tx_cur,
  head, tail,           \* the card's head, REG_TXDESCTAIL
  fetched,              \* the buffer the card has fetched from its head, or Nothing
  spc, frame, curr, next,  \* each sender: where it is, its buffer, its locals
  calls,                \* frames handed to ethernet_send so far
  freed,                \* buffers given back with free
  wire                  \* history: what the card transmitted, in order

senderVars == <<spc, frame, curr, next>>
vars == <<pci_device, tx_descs, tx_cur, head, tail, fetched, senderVars, calls, freed, wire>>

TxDescs == 0..(E1000_NUM_TX_DESC - 1)
Frames  == 1..MaxFrames
Garbage == 0            \* the address in a descriptor never filled

Nothing == -1           \* no buffer

NextTx(i) == (i + 1) % E1000_NUM_TX_DESC

Goes(s, from, to) == spc[s] = from /\ spc' = [spc EXCEPT ![s] = to]

----------------------------------------------------------------------------
(* A task in ethernet_send. *)

\* Allocates and fills the frame, pads it to the minimum length, and enters
\* e1000_send_packet, which returns at once if there is no card.
ethernet_send(s) ==
  /\ calls < MaxFrames
  /\ Goes(s, "idle", IF pci_device = "found" THEN "curr" ELSE "free")
  /\ frame' = [frame EXCEPT ![s] = calls + 1]
  /\ calls' = calls + 1
  /\ UNCHANGED <<pci_device, tx_descs, tx_cur, head, tail, fetched, curr, next, freed, wire>>

\* e1000_send_packet: the descriptor at tx_cur ...
read_tx_cur(s) ==
  /\ Goes(s, "curr", "fill")
  /\ curr' = [curr EXCEPT ![s] = tx_cur]
  /\ UNCHANGED <<pci_device, tx_descs, tx_cur, head, tail, fetched, frame, next, calls, freed, wire>>

\* Faulty variant: the address of the buffer is left out.
Bad_fill_no_address(s) ==
  /\ Goes(s, "fill", "load")
  /\ tx_descs' = [tx_descs EXCEPT ![curr[s]].status = 0]
  /\ UNCHANGED <<pci_device, tx_cur, head, tail, fetched, frame, curr, next, calls, freed, wire>>

\* ... is filled, its status reset ...
fill_descriptor(s) ==
  /\ Goes(s, "fill", "load")
  /\ tx_descs' = [tx_descs EXCEPT ![curr[s]] = [addr |-> frame[s], status |-> 0]]
  /\ UNCHANGED <<pci_device, tx_cur, head, tail, fetched, frame, curr, next, calls, freed, wire>>

\* ... tx_cur is advanced, a load and a store ...
load_tx_cur(s) ==
  /\ Goes(s, "load", "store")
  /\ next' = [next EXCEPT ![s] = NextTx(tx_cur)]
  /\ UNCHANGED <<pci_device, tx_descs, tx_cur, head, tail, fetched, frame, curr, calls, freed, wire>>

store_tx_cur(s) ==
  /\ Goes(s, "store", "tail")
  /\ tx_cur' = next[s]
  /\ UNCHANGED <<pci_device, tx_descs, head, tail, fetched, frame, curr, next, calls, freed, wire>>

\* Faulty variant: the tail is the descriptor just filled, not the next one.
Bad_tail_is_curr(s) ==
  /\ Goes(s, "tail", "wait")
  /\ tail' = curr[s]
  /\ UNCHANGED <<pci_device, tx_descs, tx_cur, head, fetched, frame, curr, next, calls, freed, wire>>

\* ... the card is told ...
write_tail(s) ==
  /\ Goes(s, "tail", "wait")
  /\ tail' = tx_cur
  /\ UNCHANGED <<pci_device, tx_descs, tx_cur, head, fetched, frame, curr, next, calls, freed, wire>>

\* Faulty variant: the wait for the status is left out.
Bad_no_wait(s) ==
  /\ Goes(s, "wait", "free")
  /\ UNCHANGED <<pci_device, tx_descs, tx_cur, head, tail, fetched, frame, curr, next, calls, freed, wire>>

\* ... and the status awaited.
wait_status(s) ==
  /\ Goes(s, "wait", "free")
  /\ tx_descs[curr[s]].status # 0
  /\ UNCHANGED <<pci_device, tx_descs, tx_cur, head, tail, fetched, frame, curr, next, calls, freed, wire>>

\* ethernet_send gives the buffer back and returns.
free_frame(s) ==
  /\ Goes(s, "free", "idle")
  /\ freed' = freed \cup {frame[s]}
  /\ UNCHANGED <<pci_device, tx_descs, tx_cur, head, tail, fetched, frame, curr, next, calls, wire>>

Send(s) ==
  \/ ethernet_send(s) \/ read_tx_cur(s) \/ fill_descriptor(s) \/ load_tx_cur(s)
  \/ store_tx_cur(s) \/ write_tail(s) \/ wait_status(s) \/ free_frame(s)

----------------------------------------------------------------------------
(* The card. *)

Fetch ==
  /\ head # tail
  /\ fetched = Nothing
  /\ fetched' = tx_descs[head].addr
  /\ UNCHANGED <<pci_device, tx_descs, tx_cur, head, tail, senderVars, calls, freed, wire>>

\* The buffer goes out, whatever it holds by now, and its status is set.
Transmit ==
  /\ fetched # Nothing
  /\ wire' = Append(wire, IF fetched \in freed THEN Garbage ELSE fetched)
  /\ tx_descs' = [tx_descs EXCEPT ![head].status = 1]
  /\ head' = NextTx(head)
  /\ fetched' = Nothing
  /\ UNCHANGED <<pci_device, tx_cur, tail, senderVars, calls, freed>>

----------------------------------------------------------------------------
\* After init_transmit_descriptors, which does not fill the descriptors.
Init ==
  /\ pci_device \in {"absent", "found"}
  /\ tx_descs = [i \in TxDescs |-> [addr |-> Garbage, status |-> 0]]
  /\ tx_cur = 0 /\ head = 0 /\ tail = 0 /\ fetched = Nothing
  /\ spc = [s \in Senders |-> "idle"] /\ frame = [s \in Senders |-> Garbage]
  /\ curr = [s \in Senders |-> 0] /\ next = [s \in Senders |-> 0]
  /\ calls = 0 /\ freed = {} /\ wire = <<>>

Next == Fetch \/ Transmit \/ \E s \in Senders : Send(s)

\* The card works and the scheduler runs every sender; a task need not send.
Spec ==
  /\ Init /\ [][Next]_vars
  /\ WF_vars(Fetch \/ Transmit)
  /\ \A s \in Senders : WF_vars(spc[s] # "idle" /\ Send(s))

----------------------------------------------------------------------------
(* Properties. *)

OnWire(f) == {i \in DOMAIN wire : wire[i] = f}

\* e1000_send_packet returns only after the card has transmitted the frame
\* of this call, so ethernet_send may free the buffer.
SentBeforeFreed ==
  \A s \in Senders : spc[s] = "free" /\ pci_device = "found" => OnWire(frame[s]) # {}

\* The card transmits frames of senders, in the order of the calls and none
\* twice, and never what a buffer already freed or a descriptor never filled
\* happens to hold.
WireInOrder == \A i \in DOMAIN wire : wire[i] = i

\* The wait for the status ends: the card has always been told of the frame.
SendReturns == \A s \in Senders : spc[s] # "idle" ~> spc[s] = "idle"
=============================================================================
