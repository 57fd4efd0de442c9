------------------------------- MODULE RecvPath -------------------------------
(***************************************************************************)
(* The whole way of a packet: network card, interrupt handler, receive     *)
(* queue, network task.  The handler interrupts the task between any two   *)
(* of its steps, the task goes on only when the handler has returned, and  *)
(* the card works concurrently with both.                                  *)
(***************************************************************************)
EXTENDS NetworkTask, E1000Rx

ASSUME PacketsAgree == 1..MaxPackets \subseteq Packets

vars == <<taskVars, rxVars>>

Init == TaskInit /\ RxInit

\* receive_packet's call of insert_packet.
Insert == receive_insert /\ insert_packet(rx_descs[rx_cur].pkt)

TaskRuns == hpc = "idle" /\ pci_device # "unknown"

Task == TaskRuns /\ network_task_recv /\ UNCHANGED rxVars

Driver == Handler /\ UNCHANGED taskVars

Next ==
  \/ e1000_init /\ UNCHANGED taskVars
  \/ Card /\ UNCHANGED taskVars
  \/ Driver
  \/ Insert
  \/ Task

\* The card signals what it stored, an asserted interrupt is taken and its
\* handler runs to the end, and the scheduler gives the task its turns.
Fairness ==
  /\ WF_vars(e1000_init /\ UNCHANGED taskVars)
  /\ WF_vars(SignalPacket /\ UNCHANGED taskVars)
  /\ WF_vars(Driver \/ Insert)
  /\ WF_vars(Task)

Spec == Init /\ [][Next]_vars /\ Fairness

TypeOK == TaskType /\ RxType

----------------------------------------------------------------------------
(* Properties of the composition. *)

Elements(s) == {s[i] : i \in DOMAIN s}

\* Every packet the card stored is in exactly one place: still in the card's
\* ring, in the queue, in the task's hand, processed, or thrown away.
Places ==
  <<Elements(InRxRing), Elements(Waiting), {InHand} \ {NoPacket},
    Elements(processed), dropped>>

OnePlace ==
  /\ Elements(stored) = UNION {Places[i] : i \in DOMAIN Places}
  /\ \A i, j \in DOMAIN Places : i # j => Places[i] \cap Places[j] = {}

\* Packets are processed in the order of their arrival, none twice.
InOrder == \A i, j \in DOMAIN processed : i < j => processed[i] < processed[j]

\* From the card to the task, no packet is lost unnoticed, doubled or overtaken.
EachOnceInOrder == OnePlace /\ InOrder

\* Every packet the card stored is processed or thrown away in the end.
EveryPacketEnds ==
  \A p \in Packets :
    p \in Elements(stored) ~> p \in Elements(processed) \cup dropped
=============================================================================
