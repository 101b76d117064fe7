SPECIFICATION Spec
CONSTANTS
  Commands = {get}
  Enable = Enable
  End = End
  QueueSize = 2
  MaxFrames = 6
CHECK_DEADLOCK FALSE
PROPERTIES
  OwnAnswerOnly
