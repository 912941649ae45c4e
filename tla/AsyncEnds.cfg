SPECIFICATION FairSpec
PROPERTIES ConnectionsEnd ShutdownEnds
CONSTANTS
  Workers = {w1}
  MaxConns = 3
  Writes = 1
  Size = 2
CHECK_DEADLOCK FALSE
