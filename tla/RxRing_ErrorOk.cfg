\* One descriptor per line, frames may carry RxRES: is an errored frame
\* ever reported as a successful receive?
CONSTANTS
  NumRxDesc = 2
  DescPerLine = 1
  MaxPkts = 2
  FrameLens <- MCFrameLens
  RxErrs <- MCAnyErrs
  CallerBufSize = 1024
SPECIFICATION Spec
INVARIANT RecvOkFresh
