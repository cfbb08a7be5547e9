SPECIFICATION FairSpec
CONSTANTS
  Nodes = {1, 2}
  MaxSessions = 2
  Accepts <- AcceptAnyone
  MaxMessageSize <- EvenSizes
  SessionTimeout <- UnevenTimeouts
  FirstCapacity = 2
  MaxLen = 2
  UniqueIds = 8
  ClockMod = 4
  Payloads <- ThreeTransfers
  Modes = {"WITH_ACK"}
  Destinations = {1, 2}
  Rejected = {}
  Noise = {}
  MaxIdle = 3
  Prompt = TRUE
  Mishaps = {"loss"}
  MaxMishaps = 1
INVARIANTS
  UniqueKeys
  FinishedIsDelivered
  StopAndWait
PROPERTIES
  TransfersEnd
