SPECIFICATION FairAioSpec
CONSTANTS
  t1 = t1
  t2 = t2
  p1 = p1
  Procs = {t1, t2, p1}
  Tasks = {t1, t2}
  Chans <- TwoChans
  Cap <- NoSlots
  MaxOps = 1
  Calls <- SelectingTasks
  Unset = Unset
  Closed = Closed
  SendOk = SendOk
  NoProc = NoProc
INVARIANTS
  NoLiveGhosts
  TasksAgree
PROPERTIES
  AioPromise
  TimedReturns
CHECK_DEADLOCK FALSE
