SPECIFICATION FairSpec
CONSTANTS
  Threads = {t1, t2}
  t1 = t1
  t2 = t2
  Batch = 2
  Rotate = 2
  TipKey = FALSE
  Tsa = FALSE
  Faults = {}
  MaxEntries = 5
  MaxFaults = 0
  MaxCrash = 0
INVARIANTS SegmentBound HeadUpToDate
PROPERTIES DueIsSealed
