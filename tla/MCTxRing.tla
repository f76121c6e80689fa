------------------------------ MODULE MCTxRing ------------------------------
(* Model-checking instances of TxRing. *)
EXTENDS TxRing

(* A 42-byte ARP-sized payload (padded), a 98-byte ping, one oversize. *)
MCSendLens == {42, 98, 2049}
MCShortLens == {42}
=============================================================================
