SPECIFICATION QueueFairSpec
CONSTANTS
  Own = 3
  Monitoring = TRUE
  MaxChannels = 2
  MaxPayload = 3
  Static = TRUE
  ChunkLength = 8
  Checksum <- Injective
  Pairs <- TwoReceivers
  Contents <- TwoChunks
  MaxSends = 2
  Noise = {}
  Apis = {"add_chunk_view"}
  Mishaps = {"loss", "restart", "drop"}
  MaxMishaps = 1
  OutboxSize = 3
  InboxSize = 2
  SendAttempts = 1
INVARIANTS
  EventMessageStays
  UndroppedIsHanded
PROPERTIES
  LossyQueueStream
  QueuesDrain
CHECK_DEADLOCK FALSE
