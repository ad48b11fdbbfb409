SPECIFICATION AioSpec
CONSTANTS
  t1 = t1
  t2 = t2
  p1 = p1
  Procs = {t1, p1}
  Tasks = {t1}
  Chans <- TwoChans
  Cap <- NoSlots
  MaxOps = 1
  Calls <- TimedRecv
  Unset = Unset
  Closed = Closed
  SendOk = SendOk
  NoProc = NoProc
INVARIANTS
  ValueArrives
CHECK_DEADLOCK FALSE
