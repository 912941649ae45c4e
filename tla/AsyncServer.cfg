SPECIFICATION Spec
INVARIANTS TypeOK HandlerExclusive ServesItsConnection AnsweredInFull
SYMMETRY Symmetry
CONSTANTS
  Workers = {w1, w2}
  MaxConns = 3
  Writes = 1
  Size = 2
CHECK_DEADLOCK FALSE
