CONSTANTS
  CallDepth = 8
  KeyOrder <- Up4
  Names = {n1, n2}
  Containment <- AllKinds
  Slow = {}
  Operations = {"create", "copy"}
  Overtaken = {}
  SelfLinks = FALSE
  MaxCount = 0
SPECIFICATION Spec
CHECK_DEADLOCK FALSE
PROPERTY CopyKeepsReferences
