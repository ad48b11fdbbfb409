SPECIFICATION FairSelectSpec
CONSTANTS
  p1 = p1
  p2 = p2
  p3 = p3
  Procs = {p1, p2, p3}
  Chans <- ThreeChans
  Cap <- SlotInThird
  MaxOps = 1
  Calls <- Facing
  Unset = Unset
  Closed = Closed
  SendOk = SendOk
  NoProc = NoProc
INVARIANTS
  NoMissedMatch
  HolderCanGoOn
PROPERTIES
  Promise
  DecidedReturns
CHECK_DEADLOCK FALSE
