SPECIFICATION FairSpec

CONSTANTS
  Rows = {1, 2, 3, 4}
  Kinds = 2
  KindOf <- MCKindOf
  HardDeleted = {1}
  PageSize = 2
  TicksPerSecond = 3
  Stamps <- MCStamps
  Start = 8
  MaxNow = 9
  MaxWrites = 3

INVARIANTS
  LostOnlyIfOvertaken

PROPERTIES
  CatchesUp
