SPECIFICATION Spec
CONSTANTS
  Packet = {p1, p2, p3}
  Object = {o1, o2, o3, o4}
  NoObject = NoObject
  MaxRefs = 3
SYMMETRY Names
INVARIANTS TypeOK CountsReferences FreeListSound OwnedOnce AssertionsHold
PROPERTIES SharedUntouched
