SPECIFICATION Spec
CONSTANTS
  Class = {"any"}
  Size = {1, 3}
  Limits = {1, 2, 4}
  MeanSize = 2
  InBytes = {FALSE, TRUE}
  DropFront = {FALSE, TRUE}
  MaxArrivals = 5
CHECK_DEADLOCK FALSE
INVARIANTS Accounted InOrder
PROPERTIES GrowsBelowLimit
