----------------------------- MODULE NetworkTask -----------------------------
(***************************************************************************)
(* The receive queue of the network stack and the task that empties it.    *)
(* The producer, insert_packet, runs inside the interrupt handler of the   *)
(* network card and interrupts the task between any two of its steps; the  *)
(* task itself never interrupts the producer.                              *)
(*                                                                         *)
(* A packet is a number, given in the order of arrival.  The task reads    *)
(* the packet through a pointer into the queue's array, first its type     *)
(* (decode), later its contents (handle), after the slot was released.     *)
(***************************************************************************)
EXTENDS Integers, Sequences

CONSTANTS
  MAX_PACKET_COUNT,   \* slots of recv_packet_queue[]
  Packets             \* the packets that may arrive

ASSUME QueueConstantsOK ==
  /\ MAX_PACKET_COUNT \in Nat /\ MAX_PACKET_COUNT >= 2
  /\ Packets \subseteq Nat \ {0}

VARIABLES
  recv_queue_start, recv_queue_end, recv_packet_queue,
  pc,         \* where network_task_recv is
  packet,     \* its local: slot of the packet in hand, or NULL
  seen,       \* its local: the packet whose type it has read
  dropped,    \* history: packets thrown away with "Packet Queue full!"
  processed   \* history: packets whose handling has ended, in order

queueVars == <<recv_queue_start, recv_queue_end, recv_packet_queue>>
taskVars  == <<queueVars, pc, packet, seen, dropped, processed>>

Slots   == 0..(MAX_PACKET_COUNT - 1)
NULL    == -1
NoPacket == 0                  \* a slot never written

\* Faulty variant: no wrap.
Bad_next_slot(i) == i + 1

NextSlot(i) == (i + 1) % MAX_PACKET_COUNT

----------------------------------------------------------------------------
(* The producer, in interrupt context. *)

\* Faulty variants: a full queue is overwritten; it is full one packet early.
Bad_insert_overwrites(data) ==
  /\ recv_packet_queue' = [recv_packet_queue EXCEPT ![recv_queue_end] = data]
  /\ recv_queue_end' = NextSlot(recv_queue_end)
  /\ UNCHANGED <<recv_queue_start, pc, packet, seen, dropped, processed>>
Bad_insert_early_full(data) ==
  IF NextSlot(NextSlot(recv_queue_end)) # recv_queue_start
    THEN /\ recv_packet_queue' = [recv_packet_queue EXCEPT ![recv_queue_end] = data]
         /\ recv_queue_end' = NextSlot(recv_queue_end)
         /\ UNCHANGED <<recv_queue_start, pc, packet, seen, dropped, processed>>
    ELSE /\ dropped' = dropped \cup {data}
         /\ UNCHANGED <<queueVars, pc, packet, seen, processed>>

insert_packet(data) ==
  IF NextSlot(recv_queue_end) # recv_queue_start
    THEN /\ recv_packet_queue' = [recv_packet_queue EXCEPT ![recv_queue_end] = data]
         /\ recv_queue_end' = NextSlot(recv_queue_end)
         /\ UNCHANGED <<recv_queue_start, pc, packet, seen, dropped, processed>>
    ELSE /\ dropped' = dropped \cup {data}
         /\ UNCHANGED <<queueVars, pc, packet, seen, processed>>

----------------------------------------------------------------------------
(* The consumer: network_task_recv. *)

\* routing_init touches none of this state.
routing_init ==
  /\ pc = "init" /\ pc' = "check"
  /\ UNCHANGED <<queueVars, packet, seen, dropped, processed>>

\* Faulty variant: the test ignores the wrap.
Bad_available ==
  /\ pc = "check"
  /\ recv_queue_start < recv_queue_end
  /\ pc' = "take"
  /\ UNCHANGED <<queueVars, packet, seen, dropped, processed>>

new_packet_available ==
  /\ pc = "check"
  /\ recv_queue_start # recv_queue_end
  /\ pc' = "take"
  /\ UNCHANGED <<queueVars, packet, seen, dropped, processed>>

\* Faulty variant: the start is advanced first.
Bad_remove_after_advance ==
  /\ pc = "take"
  /\ packet' = NextSlot(recv_queue_start) /\ pc' = "release"
  /\ UNCHANGED <<queueVars, seen, dropped, processed>>

\* remove_packet, up to the read of the slot's address.
remove_packet ==
  /\ pc = "take"
  /\ IF recv_queue_start = recv_queue_end
       THEN packet' = NULL /\ pc' = "decode"
       ELSE packet' = recv_queue_start /\ pc' = "release"
  /\ UNCHANGED <<queueVars, seen, dropped, processed>>

\* remove_packet, the rest: the slot is free again for the producer's test.
release_slot ==
  /\ pc = "release"
  /\ recv_queue_start' = NextSlot(recv_queue_start)
  /\ pc' = "decode"
  /\ UNCHANGED <<recv_queue_end, recv_packet_queue, packet, seen, dropped, processed>>

\* start_pdu_encapsulation reads the type of the frame ...
decode ==
  /\ pc = "decode"
  /\ seen' = recv_packet_queue[packet]
  /\ pc' = "handle"
  /\ UNCHANGED <<queueVars, packet, dropped, processed>>

\* ... and arp_receive, or nothing, handles what the slot then holds.
handle ==
  /\ pc = "handle"
  /\ processed' = Append(processed, recv_packet_queue[packet])
  /\ packet' = NULL /\ seen' = NoPacket
  /\ pc' = "check"
  /\ UNCHANGED <<queueVars, dropped>>

network_task_recv ==
  \/ routing_init \/ new_packet_available \/ remove_packet
  \/ release_slot \/ decode \/ handle

----------------------------------------------------------------------------
TaskInit ==
  /\ recv_queue_start = 0 /\ recv_queue_end = 0
  /\ recv_packet_queue = [i \in Slots |-> NoPacket]
  /\ pc = "init" /\ packet = NULL /\ seen = NoPacket
  /\ dropped = {} /\ processed = <<>>

TaskType ==
  /\ recv_queue_start \in Slots /\ recv_queue_end \in Slots
  /\ recv_packet_queue \in [Slots -> Packets \cup {NoPacket}]
  /\ pc \in {"init", "check", "take", "release", "decode", "handle"}
  /\ packet \in Slots \cup {NULL}
  /\ seen \in Packets \cup {NoPacket}
  /\ dropped \subseteq Packets
  /\ processed \in Seq(Packets)

----------------------------------------------------------------------------
(* Properties. *)

\* The packets between recv_queue_start and recv_queue_end, oldest first.
Waiting ==
  [k \in 1..((recv_queue_end - recv_queue_start) % MAX_PACKET_COUNT) |->
     recv_packet_queue[(recv_queue_start + k - 1) % MAX_PACKET_COUNT]]

InHand == IF pc \in {"decode", "handle"} THEN recv_packet_queue[packet] ELSE NoPacket

Fifo == INSTANCE LossyFifo WITH
          None <- NoPacket, Capacity <- MAX_PACKET_COUNT - 1, queue <- Waiting,
          inhand <- InHand, lost <- dropped, handled <- processed

\* insert_packet, remove_packet and the task's loop are a FIFO that loses
\* packets only when it is full, although the array is written from
\* interrupts and the task reads a slot it has already released.
IsLossyFifo == Fifo!Spec

\* remove_packet hands out a slot, never the null pointer, and what the slot
\* holds is the same when its type and when its contents are read: the
\* producer cannot reach it, it is the slot the ring keeps empty.
PacketStable ==
  /\ pc \in {"decode", "handle"} => packet # NULL
  /\ pc = "handle" => recv_packet_queue[packet] = seen
=============================================================================
