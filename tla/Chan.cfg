SPECIFICATION FairSpec
CONSTANTS
  p1 = p1
  p2 = p2
  p3 = p3
  Procs = {p1, p2, p3}
  Chans <- OneChan
  Cap <- OneSlot
  MaxOps = 2
  Calls <- Roles
  Unset = Unset
  Closed = Closed
  SendOk = SendOk
  NoProc = NoProc
INVARIANTS
  TypeOK
  ExactlyOnce
  ReturnsAgree
  NoMissedMatch
PROPERTIES
  Promise
  DecidedReturns
  CloseWakes
CHECK_DEADLOCK FALSE
