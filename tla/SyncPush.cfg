SPECIFICATION FairSpec

CONSTANTS
  Items = {1, 2, 3}
  Rows = {"txn", "account", "budget", "overall", "contribution"}
  KindOf <- MCKindOf
  Account = "account"
  Outboxes <- MCOutboxes
  MaxBatch = 2
  Handlers = {h1, h2}
  TicksPerSecond = 2
  MaxNow = 2
  MaxEdits = 1
  MaxLosses = 1
  MaxFaults = 1
  NoHandler = NoHandler

CHECK_DEADLOCK FALSE

INVARIANTS
  
  ToldTruly

PROPERTIES
  NoBlindOverwrite
  OutboxDrains
