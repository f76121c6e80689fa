----------------------------- MODULE MCPcieTest -----------------------------
(* Model values for PcieTest. *)
EXTENDS PcieTest

MCAssigned == {TRUE}
MCAnyBar == {TRUE, FALSE}
=============================================================================
