SPECIFICATION ServicesSpec
INVARIANTS
  ServicesTypeOK
  LockLostToFullMessage MaintenanceSafe NoLostUpdates
PROPERTIES
  MessagesStayWhole SessionsKept CacheKeepsOrder
  WorkEnds
CONSTANTS
  Parts <- AllParts
  Putters = {p1, p2}
  Getters = {g1, g2}
  Files <- FilesOfQueue
  Capacity = 2
  Requests = {r1, r2}
  MaxSessions = 2
  Timeout = 0
  Revive = 1
  Managers = {m1, m2}
  Subs = 2
  Commands <- CommandsGiven
  Home <- Homes
  TransTries = 2
  MaxCommands = 2
  MaxFailures = 1
  Callers = {t1, t2}
  Scripts = {q1, q2, q3}
  CacheSize = 2
  Writers = {w1, w2, w3}
  LockedItems = {x, y}
  WorksGiven <- Works
  Bystander = w3
  OnlyItem = x
  LockTries = 2
  MaxCommits = 1
CHECK_DEADLOCK FALSE
