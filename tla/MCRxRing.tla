------------------------------ MODULE MCRxRing ------------------------------
(* Model-checking instances of RxRing. *)
EXTENDS RxRingQueue, RxQueueProofs

(* Minimum-size frames (60 bytes + FCS) only. *)
MCFrameLens == {64}
(* A 1500-byte payload (the largest untagged Ethernet frame). *)
MCLargeFrameLens == {64, 1504}
MCNoErrs == {FALSE}
MCAnyErrs == {FALSE, TRUE}
=============================================================================
