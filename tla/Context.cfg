SPECIFICATION FairSpec
CONSTANTS
  Procs = {p1, p2}
  MaxCtx = 3
  Unstartable = {3}
  MaxTime = 1
  RootDeadlines = {2}
  ChildDeadlines = {1, 2}
  NoReason = NoReason
INVARIANTS
  TimersCovered
PROPERTIES
  FlowsDown
  CancelReaches
  DeadlineKept
CHECK_DEADLOCK FALSE
