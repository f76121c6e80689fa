----------------------------- MODULE MCPcieEnum -----------------------------
(* Model values for PcieEnum. *)
EXTENDS PcieEnum

MCAssigned == {TRUE}
MCAnyBar == {TRUE, FALSE}
=============================================================================
