SPECIFICATION Spec
CONSTANTS
  Nodes = {1, 2}
  MaxSessions = 2
  Accepts <- AcceptAnyone
  MaxMessageSize <- EvenSizes
  SessionTimeout <- UnevenTimeouts
  FirstCapacity = 2
  MaxLen = 2
  UniqueIds = 8
  ClockMod = 4
  Payloads <- LongThenShort
  Modes = {"WITH_ACK", "WITHOUT_ACK"}
  Destinations = {1, 2, 31}
  Rejected = {}
  Noise = {}
  MaxIdle = 3
  Prompt = FALSE
  Mishaps = {}
  MaxMishaps = 0
INVARIANTS
  DeliveredIntact
  TimeoutMatchesElapsed
