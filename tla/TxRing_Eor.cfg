\* Four slots, five sends, the NIC always completes in time: does the
\* NIC's transmit pointer stay on the ring?
CONSTANTS
  NumTxDesc = 4
  DescPerLine = 4
  MaxSends = 5
  SendLens <- MCShortLens
  TxMayTimeout = FALSE
SPECIFICATION Spec
INVARIANT NicTxInRing
