SPECIFICATION Spec
CONSTANTS
  Own = 3
  Monitoring = FALSE
  MaxChannels = 1
  MaxPayload = 0
  Static = FALSE
  ChunkLength = 8
  Checksum <- Injective
  Pairs <- TwoReceivers
  Contents <- Varied
  MaxSends = 3
  Noise = {}
  Apis = {"add_chunk", "add_chunk_view"}
  Mishaps = {"loss", "alloc", "restart"}
  MaxMishaps = 2
PROPERTIES
  LossyStream
CHECK_DEADLOCK FALSE
