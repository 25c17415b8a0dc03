SPECIFICATION FairSpec
CONSTANTS
  w1 = w1  s1 = s1  r1 = r1
  Writers = {w1}
  Signers = {s1}
  Readers = {r1}
  Opts <- MCOpts
  MaxEntries = 2
  MaxTamper = 1
  MaxFaults = 1
  MaxTime = 1
INVARIANTS AcceptedWasSigned HonestVerdicts
PROPERTIES EventuallySealed
CHECK_DEADLOCK FALSE
