SPECIFICATION Spec
CONSTANTS
  Own = 3
  Monitoring = TRUE
  MaxChannels = 1
  MaxPayload = 3
  Static = TRUE
  ChunkLength = 7
  Checksum <- Injective
  Pairs <- TwoReceivers
  Contents <- Sizes
  MaxSends = 2
  Noise <- ForeignChunks
  Apis = {"add_chunk", "add_chunk_view"}
  Mishaps = {"loss", "duplicate", "noise", "restart"}
  MaxMishaps = 2
INVARIANTS
  UnharmedIsDelivered
CHECK_DEADLOCK FALSE
