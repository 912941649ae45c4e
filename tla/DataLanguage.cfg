SPECIFICATION DataSpec
INVARIANTS
  DataTypeOK
  QueriesAnswered ParsesAsDeclared LexesEverything TablesCanBeShared
  SitesAgree CookiesMakeASession LocksExact
PROPERTIES
  AttachmentsStayTogether RolesGoDown StoredSessionsLast CommitsStay
CONSTANTS
  Parts <- AllParts
  IntBits = 3
  QueryInputs <- Queried
  Indexed = {"i", "j"}
  Parameter = 0
  Declarations <- DeclarationsBuilt
  MaxStack = 12
  MaxReductions = 12
  Characters = {"d", "e", "t", "k", ".", "-", ">", "=", "q", "s", "n", "b"}
  Texts <- TextsRead
  Processes = {p1, p2}
  MaxVersion = 2
  MaxCrashes = 1
  Contents = {"", "v"}
  NoBytes = ""
  MaxIds = 7
  MaxSchemas = 1
  MaxAttempts = 2
  Users = {"u1", "u2"}
  Admins = {a1, a2}
  Administrators = {}
  MemberOf <- Groups
  Acls <- RolesGiven
  RootAcl <- RootRoles
  MaxObjects = 4
  MaxCalls = 4
  Visitors = {v1, v2}
  MaxStored = 1
  Values = {"x"}
  Persons = {"guest", "u1"}
  Guest = "guest"
  MaxChanges = 3
  SessionTimeout = 1
  ReviveAfter = 1
  Tabs = {t1, t2}
  MaxChunks = 3
  MaxVersions = 3
  Keepers = {m1, m2}
  LogSize = 1
  MaxWrites = 2
  MaxOrders = 2
  MaxFalls = 1
  Sites = {s1, s2, s3}
  Founder = s1
  MaxJoins = 2
  MaxElections = 2
  MaxStops = 1
  Workers = {w1}
  MaxRetries = 1
  MaxDepth = 0
  MaxRedirects = 0
  MaxDrift = 0
CHECK_DEADLOCK FALSE
