SPECIFICATION FairSpec
CONSTANTS
  t1 = t1
  t2 = t2
  t3 = t3
  p1 = p1
  p2 = p2
  Tasks = {t1, t2, t3}
  Workers = {w1, w2}
  Procs = {p1, p2}
  Owner <- TwoOwners
  Needs <- OneJoins
  Unstartable = {t3}
  Tuner = p2
  Sizes <- SmallThenDefault
  None = None
INVARIANTS
  NothingVanishes
  WindowsClosed
PROPERTIES
  PoolPromise
  FailureReported
CHECK_DEADLOCK FALSE
