SPECIFICATION FairMergeSpec
CONSTANTS
  pump = pump
  consumer = consumer
  p1 = p1
  p2 = p2
  Procs = {pump, consumer, p1, p2}
  Pump = pump
  Consumer = consumer
  Chans <- ThreeChans
  Cap <- SlotInFirst
  Inputs <- Twice
  Output = 3
  MaxOps = 10
  Calls <- Closing
  Budget <- Bounds
  Unset = Unset
INVARIANTS
  CarriesEverything
  ClosesWhenDrained
PROPERTIES
  MergeCloses
CHECK_DEADLOCK FALSE
