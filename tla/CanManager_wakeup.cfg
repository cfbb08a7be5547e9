SPECIFICATION FairSpec
CONSTANTS
  MaxConnects = 1
  MaxFrames = 1
  MaxSends = 0
  Kinds = {"raw"}
  Mishaps = {}
  MaxMishaps = 0
PROPERTIES
  AlwaysPublishes
