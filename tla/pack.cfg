SPECIFICATION Spec
CONSTANTS
  Names = {"a", "b"}
  Live = {"a"}
  EdKeys = {"k1", "k2"}
  PqKeys = {"q1", "q2"}
  MaxAppends = 1
  MaxRotations = 1
  MaxKills = 1
  MaxEdits = 1
  MaxSigns = 2
  MaxBuilds = 2
INVARIANTS SignedByOneKey PackIsOneBuild ProtectedIsSigned
CHECK_DEADLOCK FALSE
