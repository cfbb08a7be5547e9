SPECIFICATION FairSpec
CONSTANTS
  Nodes = {1, 2}
  MaxSessions = 2
  Accepts <- SecondSlotReserved
  MaxMessageSize <- UnevenSizes
  SessionTimeout <- EvenTimeouts
  FirstCapacity = 2
  MaxLen = 2
  UniqueIds = 1
  ClockMod = 4
  Payloads <- LongThenShort
  Modes = {"WITH_ACK"}
  Destinations = {1, 2}
  Rejected <- ShortPayloads
  Noise <- NoisyFrames
  MaxIdle = 3
  Prompt = TRUE
  Mishaps = {"loss", "duplicate", "noise", "restart", "alloc"}
  MaxMishaps = 2
INVARIANTS
  BuffersInBounds
  OneOutcomePerTransfer
  DeliveredOnce
PROPERTIES
  EverythingSettles
