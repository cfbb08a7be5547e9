SPECIFICATION NodeSpec
CONSTANTS
  Channels = {"a", "b"}
  SlotFirst <- Firsts
  SlotCount <- Counts
  FiltersMax = 2
  BankSlots <- Bank
  IdBits = 29
  FifoSize = 2
  Mailboxes = 2
  MaxLen = 8
  Foreign <- ForeignFrames
  MaxForeign = 1
  PayloadBits = 8
  NaN = NaN
  Addr <- Addresses
  Wanted <- Groups
  DataPgn <- Engine
  Desc <- Signals
  Senders = {"a"}
  Values = {2, 13}
  Numbers <- SlotNumbers
  Precision = 8
  Exponents = 16
  Unit = 4096
  MaxSets = 2
  MaxSends = 1
INVARIANTS
  FiltersInForce
  WantedIsReceived
  SignalsKeepValues
  UnderstoodIsMeant
CHECK_DEADLOCK FALSE
