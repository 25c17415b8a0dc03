SPECIFICATION ActaSpec
CONSTANTS
  Clock <- MCClock
  RotateAt = 2
  MaxReceipts = 3
  MaxShown = 3
INVARIANTS PassIsPath HonestChains KeysOnlyInform
CHECK_DEADLOCK FALSE
