SPECIFICATION Spec
CONSTANTS
  NodeCount = 4
  NumNodes = 4
  MaxNumNodes = 3
  Link <- LineLink
  LinkScript <- Line
  Packet = {p1}
  Unit = 16
  RFactor <- Half
  MaxSeq <- OneEnd
  MaxStarts = 1
CHECK_DEADLOCK FALSE
INVARIANTS MemoryFits
