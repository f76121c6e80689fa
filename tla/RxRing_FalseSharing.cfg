\* The RK3588 geometry (four descriptors per 64-byte line), no frame errors:
\* does the driver still consume completions in order?
CONSTANTS
  NumRxDesc = 4
  DescPerLine = 4
  MaxPkts = 6
  FrameLens <- MCFrameLens
  RxErrs <- MCNoErrs
  CallerBufSize = 1024
SPECIFICATION Spec
INVARIANT RxInOrder
