SPECIFICATION ProviderSpec
CONSTANTS
  s1 = s1
  s2 = s2
  Sizes <- MCSizes
  InitSize = s1
  InitQr = TRUE
  DefaultLook <- MCDefaultLook
  HistoryDepth = 1
  CacheDepth = 1
  Fds = {f1, f2, f3, f4}
  NoFd = NoFd
  MaxPhotos = 2
  MaxGeneration = 2
  MaxRegistrations = 2
  RegisterMayFail = TRUE
  PushMayFail = FALSE
PROPERTIES
  DeliversAccepted
