SPECIFICATION Spec
CONSTANTS
  Packet = {1, 2}
  Size <- Powers
  PType <- Types
  Node = {1}
  Full = 1
  Formats = {"wired", "wireless", "newtrace"}
  Macs = {"802_11", "SMAC"}
  Others <- Three
  MaxLines = 5
CHECK_DEADLOCK FALSE
INVARIANTS DelayMeasured HopDelayMeasured ThroughputMeasured RatioMeasured
