SPECIFICATION FairSpec
CONSTANTS
  Clients = {c1, c2, c3}
  NoClient = NoClient
  MaxInbox = 2
  MaxBuffers = 2
CHECK_DEADLOCK FALSE
INVARIANTS
  TypeOK
  Exclusive
  DeadHolderNoticed
  StatusIsPanel
PROPERTIES
  ImplementsLease
  DeadHolderFreed
