SPECIFICATION FairSpec
CONSTANTS
  Texts = {t1, t2}
  NoText = NoText
  HasFallback = TRUE
  AnnounceTimeouts <- MCAnnounceTimeouts
  MaxPosts = 1
PROPERTIES
  StopReturns
