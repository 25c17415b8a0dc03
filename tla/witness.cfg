SPECIFICATION Spec
CONSTANTS
  Workers = {w1, w2}
  Leaves = {a, b}
  MaxSize = 2
  NoteSizes = {TRUE, FALSE}
  Ring = 2
  PendingKept = 1
  ProofsSeen = 2
  HistoryScan = 2
  Torn = TRUE
  MaxRequests = 3
  MaxFails = 1
  MaxKills = 1
SYMMETRY Symmetry
INVARIANTS CosignedPersisted SplitViewRecorded EachRootRecorded EvidenceSound
PROPERTIES StoredGrows
CHECK_DEADLOCK FALSE
