SPECIFICATION CalmSpec
PROPERTIES EverybodyGoesOn
CONSTANTS
  Workers = {w1, w2}
  Admins = {a1}
  MaxRetries = 2
  MaxDepth = 0
  MaxRedirects = 0
  MaxDrift = 0
CHECK_DEADLOCK FALSE
