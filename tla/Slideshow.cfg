SPECIFICATION FairSpec
CONSTANTS
  Texts = {t1, t2}
  NoText = NoText
  HasFallback = TRUE
  AnnounceTimeouts <- MCAnnounceTimeouts
  MaxPosts = 2
INVARIANTS
  TypeOK
  CleanWhenStopped
  NoPressSleptOver
  AnnouncementStable
  EinkOfLatest
PROPERTIES
  PressServed
