SPECIFICATION FairSpec
CONSTANTS
  MaxConnects = 2
  MaxFrames = 2
  MaxSends = 2
  Kinds = {"plexed"}
  Mishaps = {"device", "open", "plexer"}
  MaxMishaps = 1
INVARIANTS
  WorkerHasConnection
  StateTellsTheTruth
  SentInItsConnection
  HandlerHasWindow
PROPERTIES
  PassesInOrder
  AwakeWorkerServes
  WaitingWorkerStops
