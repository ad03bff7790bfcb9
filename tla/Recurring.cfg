SPECIFICATION FairSpec

CONSTANTS
  Runs = {sched, lazy}
  Scheduler = sched
  Interval = 2
  PeriodDays = 3
  Horizon = 5
  Starts = {0}
  FirstWaits = {1, 3}
  Ends = {None, 2}
  EditsDuringRuns = FALSE
  None = None

INVARIANTS
  TypeOK
  AtMostOnce
  NothingSkipped

PROPERTIES
  PostsOnlyDue
  EngineKeepsUp

\* With the template deleted and the clock at its bound nothing is left to do.
CHECK_DEADLOCK FALSE
