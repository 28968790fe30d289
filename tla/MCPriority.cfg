SPECIFICATION PriSpec
CONSTANTS
  Class = {"data", "bwd"}
  Size = {1}
  Limits = {1, 2, 4}
  MeanSize = 2
  InBytes = {FALSE, TRUE}
  DropFront = {FALSE, TRUE}
  MaxArrivals = 5
  High = {"bwd"}
  Hop = {"x", "y"}
  HopOf <- Alternate
  Prefer = TRUE
CHECK_DEADLOCK FALSE
INVARIANTS PriAccounted WorkConserving UrgentAhead NormalInOrder
PROPERTIES UrgentEvictsNormal PriGrowsBelowLimit
