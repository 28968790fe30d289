SPECIFICATION FairSpec
CONSTANTS
  NodeCount = 4
  NumNodes = 4
  MaxNumNodes = 4
  Link <- TailedLink
  LinkScript <- NoScript
  Packet = {p1}
  Unit = 4
  RFactor <- Half
  MaxSeq <- OneEnd
  MaxStarts = 1
CHECK_DEADLOCK FALSE
INVARIANTS BackwardOnPath NoLoopback
PROPERTIES AntsReleased
