SPECIFICATION Spec
CONSTANTS
  MaxInbox = 3
  MaxCalls = 3
INVARIANTS
  TypeOK
  ServesLastReport
  LatchHolds
  PanelFollows
