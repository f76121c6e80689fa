\* Four slots, two sends, the poll budget may run out before the NIC
\* completes: is a device-owned slot ever rewritten?
CONSTANTS
  NumTxDesc = 4
  DescPerLine = 4
  MaxSends = 2
  SendLens <- MCShortLens
  TxMayTimeout = TRUE
SPECIFICATION Spec
PROPERTY TxNoReuseWhileOwned
