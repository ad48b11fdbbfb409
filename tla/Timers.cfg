SPECIFICATION FairSpec
CONSTANTS
  OneShots = {t1}
  Tickers = {t3}
  Unstartable = {t1, t3}
  Procs = {p1, p2}
  NoTimer = NoTimer
INVARIANTS
  TimersTypeOK
  StoppedIsSilent
PROPERTIES
  TicksUntilClosed
CHECK_DEADLOCK FALSE
