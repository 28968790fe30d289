SPECIFICATION LinksFairSpec
CONSTANTS
  NodeCount = 4
  NumNodes = 3
  MaxNumNodes = 4
  Link <- LineLink
  LinkScript <- Line
  Packet = {p1, p2, p3}
  Unit = 16
  RFactor <- Half
  MaxSeq <- Three
  MaxStarts = 1
  Limits = {2, 3}
CHECK_DEADLOCK FALSE
INVARIANTS TypeOK InOnePlace LinksBusy
PROPERTIES ImplementsAntNet FoundPathsAreTaught
