\* The 1024-byte rx_buffer of test_dw_pcie_atu receiving a 1500-byte frame.
CONSTANTS
  NumRxDesc = 2
  DescPerLine = 1
  MaxPkts = 1
  FrameLens <- MCLargeFrameLens
  RxErrs <- MCNoErrs
  CallerBufSize = 1024
SPECIFICATION Spec
INVARIANT CopyFitsCaller
