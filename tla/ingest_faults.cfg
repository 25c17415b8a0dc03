SPECIFICATION Spec
CONSTANTS
  Threads = {t1, t2}
  t1 = t1
  t2 = t2
  Batch = 2
  Rotate = 2
  TipKey = TRUE
  Tsa = TRUE
  Faults = {"write", "sth", "open", "answer"}
  MaxEntries = 3
  MaxFaults = 1
  MaxCrash = 1
SYMMETRY Symmetry
INVARIANTS AckedRecoverable SealedVerifies HeadCommitsPrefix TipInStep ResumeAccepts
PROPERTIES SealedNeverChanges ImplementsEvidenceLog
