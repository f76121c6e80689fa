----------------------------- MODULE RxRingQueue -----------------------------
(***************************************************************************)
(* RxRing implements RxQueue.  The refinement mapping reads the queue off  *)
(* the state the NIC and the driver share: the frames pending are those    *)
(* whose descriptors memory shows host-owned, from the driver's position   *)
(* on, in ring order, each being what the NIC wrote to the slot's buffer;  *)
(* the frame in hand is the one whose status rtl8125_recv_packet read,    *)
(* from the read until the call returns.                                   *)
(***************************************************************************)
EXTENDS RxRing, FiniteSets

(* rtl8125_recv_packet has taken the descriptor at rx_idx. *)
Consumed == pc \in {"invbuf", "copy", "rearm", "clean"}

(* The first slot the driver has yet to take. *)
First == IF Consumed THEN (rx_idx + 1) % NumRxDesc ELSE rx_idx

(* The descriptor the driver took is still in memory as the NIC left it: *)
(* the re-arm has not reached memory (it does at the clean or when the    *)
(* dirty line is evicted, after which the NIC may refill the slot).       *)
Held == Consumed /\ ~(pc = "clean" /\ dline[LineOf(rx_idx)] # "D")

(* The number of completed descriptors not yet taken. *)
PendingCount ==
  Cardinality({s \in Slots : ~mem[s].own} \ (IF Held THEN {rx_idx} ELSE {}))

PendingFrames == [k \in 1 .. PendingCount |-> bmem[(First + k - 1) % NumRxDesc]]

(* The frame of the status word the driver read. *)
CurFrame == IF Consumed THEN st.tag ELSE 0

Q == INSTANCE RxQueue WITH pending <- PendingFrames, cur <- CurFrame

(* The receive ring, NIC and non-coherent cache included, behaves as the  *)
(* FIFO of spec 4.5: every receive takes the oldest frame the NIC         *)
(* completed, never one it did not complete or one already taken, and,    *)
(* the caller polling, every completed frame is taken and every call      *)
(* returns.                                                               *)
ImplementsRxQueue == Q!QSpec

=============================================================================
