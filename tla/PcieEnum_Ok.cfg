\* Steps 1-5 with an ATU that always confirms and a firmware-assigned BAR2;
\* rtl8125_init on the RK3588 geometry (each 4-descriptor ring is one
\* 64-byte line) with the reset wait cut to 3 polls.
CONSTANTS
  AtuMayFail = FALSE
  Undef = Undef
  BarAssigned <- MCAssigned
  NumTxDesc = 4
  NumRxDesc = 4
  IDescPerLine = 4
  ResetPolls = 3
SPECIFICATION TestSpec
INVARIANTS TypeOK BarRestored MmioThroughBarWindow NicTypeOK NicRunsOnRings
PROPERTY InitTerminates
CHECK_DEADLOCK FALSE
