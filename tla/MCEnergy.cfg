SPECIFICATION Spec
CONSTANTS
  Packet = {}
  Size <- Powers
  PType <- Types
  Node = {1, 2}
  Full = 3
  Formats = {"wireless"}
  Macs = {"802_11"}
  Others <- NoOthers
  MaxLines = 4
CHECK_DEADLOCK FALSE
INVARIANTS AverageOfNodes
