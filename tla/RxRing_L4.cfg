\* The RK3588 geometry: 64-byte lines hold all four 16-byte descriptors.
\* Five frames: the ring wraps once.
CONSTANTS
  NumRxDesc = 4
  DescPerLine = 4
  MaxPkts = 5
  FrameLens <- MCFrameLens
  RxErrs <- MCNoErrs
  CallerBufSize = 1024
SPECIFICATION Spec
INVARIANT NoPhantomRx
INVARIANT HostCacheCoherent
