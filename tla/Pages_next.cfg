SPECIFICATION PartsSpec
CONSTANTS
  Parts = {"pages"}
  Calls = {c1, c2}
  Other = c2
  Pool <- Clients
  Totals = {0, 1, 3, 4, 5}
  Sizes = {0, 1, 2, 3}
  Largest = 2
  PageCap = 7
  Requests = {q1, q2, q3}
  SessionIds = {s1, s2, s3}
  SessionTtl = 2
  MaxIds = 2
  Spenders = {"acme"}
  Budgets <- Budgets_MC
  Prices <- Prices_MC
  NaN = NaN
  Skews = {0, 1}
  SpanMax = 2
  BatchMax = 2
  LastDay = 2
  MaxIngests = 1
  MaxVer = 3
  Lists <- Lists_MC
  ArgNames = {"id", "q"}
  Graces = {0, 2}
  MaxGen = 4
  LastTick = 4
  TenantIds = {"acme", "beta"}
  Nobody = "none"
  Policies <- Policies_MC
  EventKinds <- EventKinds_MC
  Reads <- Reads_MC
  RingMax = 2
  MaxEvents = 3
  MaxFaults = 1
INVARIANT NextFollowed
CHECK_DEADLOCK FALSE
