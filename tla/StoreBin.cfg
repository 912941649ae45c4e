CONSTANTS
  CallDepth = 8
  KeyOrder <- Down5
  Names = {n1, n2}
  Containment <- FoldersAndShortcuts
  Slow = {r1}
  Operations = {"create", "recycle", "restore", "delete", "purge", "empty"}
  Overtaken = {"recycle", "restore", "delete", "purge", "empty"}
  SelfLinks = FALSE
  MaxCount = 0
SPECIFICATION Spec
CHECK_DEADLOCK FALSE
SYMMETRY Symmetry
INVARIANTS TypeOK HiddenAsOftenAsRecycled LinksMatch EverythingCanBeDeleted NothingInBinIsVisible RestoreUndoesRecycle
