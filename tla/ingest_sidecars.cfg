SPECIFICATION Spec
CONSTANTS
  Threads = {t1, t2}
  t1 = t1
  t2 = t2
  Batch = 1
  Rotate = 1
  TipKey = TRUE
  Tsa = TRUE
  Faults = {"rollback", "tip", "sthsync", "head", "headsync", "tsa", "answer", "token", "tokensync", "lotl", "meta"}
  MaxEntries = 3
  MaxFaults = 1
  MaxCrash = 1
SYMMETRY Symmetry
INVARIANTS AnchorTruthful SthCommitsEntries
CHECK_DEADLOCK FALSE
