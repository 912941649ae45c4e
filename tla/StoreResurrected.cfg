CONSTANTS
  CallDepth = 8
  KeyOrder <- Up3
  Names = {n1}
  Containment <- NoShortcuts
  Slow = {r1}
  Operations = {"create", "delete"}
  Overtaken = {"create"}
  SelfLinks = FALSE
  MaxCount = 0
SPECIFICATION Spec
CHECK_DEADLOCK FALSE
PROPERTY DeletedForGood
