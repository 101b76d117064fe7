SPECIFICATION FairSpec
CONSTANTS
  HistoryDepth = 2
  CacheDepth = 1
  Fds = {f1, f2, f3, f4, f5}
  NoFd = NoFd
  MaxPhotos = 6
  MaxGeneration = 1
INVARIANTS
  RingInBounds
  FdsAccounted
  NoLostWakeup
  HistoryRetained
PROPERTIES
  ImplementsTape
  ShutdownCompletes
  WorkerSettles
