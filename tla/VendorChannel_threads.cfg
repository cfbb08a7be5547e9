SPECIFICATION FairSpec
CONSTANTS
  MaxOpens = 2
  MaxFrames = 2
  Mishaps = {"driver", "error", "status"}
  MaxMishaps = 1
INVARIANTS
  ThreadHasDriver
  HandlerHasCookie
  ClosedIsReleased
PROPERTIES
  CallsReturn
  SignalledIsRead
  ReceivesInOrder
CHECK_DEADLOCK FALSE
