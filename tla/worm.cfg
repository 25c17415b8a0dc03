SPECIFICATION WormSpec
CONSTANTS
  Callers = {c1, c2, c3}
  Records = {r1, r2}
  MaxKeys = 3
SYMMETRY Symmetry
INVARIANTS ErasedStaysErased
PROPERTIES WriteOnce
CHECK_DEADLOCK FALSE
