\* The RK3588 geometry: four descriptors in one 64-byte line.  The NIC
\* always completes within the 100 ms poll budget.  Five sends: the ring
\* is used to its last slot and the driver wraps to slot 0.
CONSTANTS
  NumTxDesc = 4
  DescPerLine = 4
  MaxSends = 5
  SendLens <- MCSendLens
  TxMayTimeout = FALSE
SPECIFICATION Spec
INVARIANT TypeOK
INVARIANT TxPayloadMatches
INVARIANT TxOkMeansSent
