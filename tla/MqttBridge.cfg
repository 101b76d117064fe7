SPECIFICATION FairSpec
CONSTANTS
  Topics = {slideshow_active}
  Active = slideshow_active
  MaxUnderWay = 3
  MaxCalls = 1
INVARIANTS
  TypeOK
  RetainedIsNewest
  BridgeStateTrue
PROPERTIES
  Reconnects
