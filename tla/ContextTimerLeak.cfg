SPECIFICATION Spec
CONSTANTS
  Procs = {p1, p2}
  MaxCtx = 3
  Unstartable = {}
  MaxTime = 2
  RootDeadlines = {3}
  ChildDeadlines = {1}
  NoReason = NoReason
INVARIANTS
  TimersBalance
CHECK_DEADLOCK FALSE
