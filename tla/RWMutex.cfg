SPECIFICATION FairSpec
CONSTANTS
  Readers = {r1, r2, r3}
  Writers = {w1, w2}
INVARIANTS
  Exclusion
  NoLostWakeup
PROPERTIES
  WriterFirst
  WriterGetsIn
