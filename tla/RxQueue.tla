------------------------------- MODULE RxQueue -------------------------------
(***************************************************************************)
(* What the receive path promises (spec 4.5, 7): frames the NIC completes  *)
(* wait in a FIFO queue; a receive call takes the oldest one, if any,      *)
(* hands it to its caller (or discards it when flagged in error) and       *)
(* returns.  Frames the NIC cannot store are lost.  A frame is its number  *)
(* in the order the wire offered it.                                       *)
(***************************************************************************)
EXTENDS Naturals, Sequences

CONSTANT MaxPkts   \* frames the wire offers

VARIABLES
  arrived,   \* frames offered so far
  pending,   \* frames completed and not yet taken, oldest first
  cur        \* the frame the current receive call took (0: none)

qvars == <<arrived, pending, cur>>

QInit == arrived = 0 /\ pending = << >> /\ cur = 0

(* The NIC stores the next frame. *)
Complete ==
  /\ arrived < MaxPkts
  /\ arrived' = arrived + 1
  /\ pending' = Append(pending, arrived + 1)
  /\ UNCHANGED cur

(* The next frame finds no free descriptor. *)
Lose ==
  /\ arrived < MaxPkts
  /\ arrived' = arrived + 1
  /\ UNCHANGED <<pending, cur>>

(* A receive call takes the oldest pending frame. *)
Take ==
  /\ cur = 0
  /\ pending # << >>
  /\ cur' = Head(pending)
  /\ pending' = Tail(pending)
  /\ UNCHANGED arrived

(* The call returns the slot to the NIC and returns. *)
Done ==
  /\ cur # 0
  /\ cur' = 0
  /\ UNCHANGED <<arrived, pending>>

QNext == Complete \/ Lose \/ Take \/ Done

(* The caller keeps calling: a pending frame is taken, a call returns. *)
QSpec == QInit /\ [][QNext]_qvars /\ WF_qvars(Take) /\ WF_qvars(Done)

=============================================================================
