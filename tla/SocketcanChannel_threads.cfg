SPECIFICATION FairSpec
CONSTANTS
  Consumers = {c1}
  Quiesce = TRUE
  MaxOpens = 3
  MaxFrames = 3
  Mishaps = {"open", "alloc", "error"}
  MaxMishaps = 2
INVARIANTS
  ThreadHasDescriptors
PROPERTIES
  CallsReturn
  QueueEmpties
  ReceivesInOrder
