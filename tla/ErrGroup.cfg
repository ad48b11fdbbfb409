SPECIFICATION FairGroupSpec
CONSTANTS
  Procs = {p1}
  Routines = {r1, r2, r3, r4}
  Nobody = Nobody
  Limit = 2
  Nesting = {r1, r2}
  Watching = {r3}
  Unstartable = {r4}
INVARIANTS
  WaitCovers
  NoLostWakeup
  SlotsReturn
  ErrorReported
PROPERTIES
  GroupLive
CHECK_DEADLOCK FALSE
