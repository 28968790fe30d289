SPECIFICATION Spec
CONSTANTS
  c1 = c1
  c2 = c2
  c3 = c3
  Builtin = 4
  PT_SMAC = 2
  Name = {n1, n2, n3}
  Classifier = {c1, c2, c3}
  Null = Null
  Known <- KnownTypes
  Knows <- Opinions
  File = {packet, other}
  Lib = packet
  MaxTypes = 7
CHECK_DEADLOCK FALSE
INVARIANT LastOne
