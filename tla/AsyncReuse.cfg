SPECIFICATION Spec
INVARIANT InactiveAreServed
CONSTANTS
  Workers = {w1}
  MaxConns = 2
  Writes = 2
  Size = 1
CHECK_DEADLOCK FALSE
