SPECIFICATION Spec
CONSTANTS
  NodeCount = 4
  NumNodes = 4
  MaxNumNodes = 4
  Link <- TailedLink
  LinkScript <- Tailed
  Packet = {p1, p2}
  Unit = 48
  RFactor <- Half
  MaxSeq <- OneEnd
  MaxStarts = 1
SYMMETRY Buffers
CHECK_DEADLOCK FALSE
INVARIANTS RowConserved NoUTurn PathFollowsLinks MemoryLoopFree MemoryFits StraightAntsSurvive
PROPERTIES LearnsRealRoutes ImplementsRound
