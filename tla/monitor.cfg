SPECIFICATION FairSpec
CONSTANTS
  Modes = {"writer", "auditor", "none"}
  MaxSilence = 0
  MaxEntries = 2
  MaxTamper = 2
  MaxTime = 1
INVARIANTS BaselinesLinear
PROPERTIES CatchesUp
