SPECIFICATION WalkSpec
CONSTANTS
  Jobs <- AllJobs
  MaxTree = 9
  MaxFork = 4
  MaxPath = 3
INVARIANTS ProofsExact AcceptedIsPrefix AcceptedIsIncluded
CHECK_DEADLOCK FALSE
