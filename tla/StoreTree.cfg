CONSTANTS
  CallDepth = 8
  KeyOrder <- Down4
  Names = {n1, n2}
  Containment <- AllKinds
  Slow = {}
  Operations = {"create", "rename", "move", "copy", "recycle", "restore", "restoreTo", "delete", "purge", "empty"}
  Overtaken = {}
  SelfLinks = TRUE
  MaxCount = 1
SPECIFICATION Spec
CHECK_DEADLOCK FALSE
SYMMETRY Symmetry
INVARIANTS TreeStaysWhole
