SPECIFICATION FairDetectorSpec
CONSTANTS
  Routines = {r1, r2}
  Main = Main
  Timers = {x1}
  Watchers = {d1, d2}
  Threadless = {d2}
  NoPicture = NoPicture
INVARIANTS
  DetectorTypeOK
PROPERTIES
  DeadlockReported
CHECK_DEADLOCK FALSE
