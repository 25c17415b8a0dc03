SPECIFICATION FairSpec
CONSTANTS
  Clients = {c1, c2}
  Witnesses = {"w1", "w2"}
  PqNames = {"w1"}
  Ahead <- MCAhead
  FirstSize = 1
  MaxSize = 2
  MaxTime = 2
  MaxFaults = 1
INVARIANTS FreshView NeverAccused
PROPERTIES Witnessed
