SPECIFICATION Spec

CONSTANTS
  Goals = {g1, g2}
  Calls = {c1, c2}
  Amounts = {1}
  Targets = {1, 2}
  Statuses = {"active", "achieved"}
  Length = 1
  MaxDay = 2
  ServerSkew = 1
  MaxContributions = 2

SYMMETRY Symmetry

CHECK_DEADLOCK FALSE

INVARIANTS
  CurrentIsSum
  AchievedUnlessPut
  SummaryMissesTheLate
