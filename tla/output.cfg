SPECIFICATION FairSpec
CONSTANTS
  Procs = {p1, p2}
  Units = 2
  Room = 1
  MaxFaults = 1
  MaxKills = 1
INVARIANTS ExitTruthful PromisedWhole
PROPERTIES KeysKept Ends
CHECK_DEADLOCK FALSE
