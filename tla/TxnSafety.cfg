SPECIFICATION Spec
INVARIANTS TypeOK CounterExact FunctionRunsInTransaction AllOrNothing IdleHoldsNothing NoHandleOverwritten
CONSTANTS
  Workers = {w1, w2}
  Admins = {a1}
  MaxRetries = 2
  MaxDepth = 1
  MaxRedirects = 1
  MaxDrift = 0
SYMMETRY Symmetry
CHECK_DEADLOCK FALSE
