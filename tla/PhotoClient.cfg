SPECIFICATION ClientSpec
CONSTANTS
  s1 = s1
  s2 = s2
  Sizes <- MCSizes
  InitSize = s1
  InitQr = TRUE
  DefaultLook <- MCDefaultLook
  HistoryDepth = 0
  CacheDepth = 1
  Fds = {f1, f2, f3}
  NoFd = NoFd
  MaxPhotos = 3
  MaxGeneration = 2
  MaxRegistrations = 2
  RegisterMayFail = TRUE
  PushMayFail = TRUE
  MaxQueued = 2
  MaxLost = 1
SYMMETRY FdSymmetry
INVARIANTS
  RingFresh
PROPERTIES
  DeliversSettings
  StepsInOrder
