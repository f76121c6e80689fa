\* One descriptor per cache line: two slots, four frames (the ring wraps twice).
CONSTANTS
  NumRxDesc = 2
  DescPerLine = 1
  MaxPkts = 4
  FrameLens <- MCFrameLens
  RxErrs <- MCAnyErrs
  CallerBufSize = 1024
SPECIFICATION Spec
INVARIANT TypeOK
INVARIANT RxInOrder
INVARIANT RxDataIntegrity
INVARIANT NicInRing
INVARIANT RxInv
INVARIANT RefInv
PROPERTY RxEventuallyTaken
PROPERTY ImplementsRxQueue
