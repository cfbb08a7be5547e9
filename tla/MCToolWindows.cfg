SPECIFICATION ToolSpec
CONSTANTS
  Builds <- TwoBuilds
  Units <- SixUnits
  ProviderOf <- UnitProvider
  ChanCnt <- UnitChannels
  MaxChanges = 2
  ByteBits = 2
  First <- FirstFile
  Second <- SecondFile
  Ids = {1, 2, 3}
  RawIds = {1}
  TypedNumbers = {27, 300}
  TypedBytes <- ByteStrings
  MaxReceived = 2
  MaxFilters = 2
CONSTRAINT OneWindowAtATime
PROPERTIES
  OpensWhatIsShown
INVARIANTS
  TablesFollowTheFilter
  TypedIsShown
CHECK_DEADLOCK FALSE
