SPECIFICATION GatewaySpec
CONSTANTS
  Calls = {c1, c2}
  Threshold = 2
  OpenTime = 2
  PerSecond = 2
  MaxReloads = 1
  Tenants = {own, shared}
  Own = {own}
  Limit <- Limits_MC
  Denied <- Denied_MC
  Window = 1
  MaxCalls = 4
  MaxFaults = 1
  Admins = {a1}
  Lists = {l1}
  Boot = boot
  Watch = watch
  MaxWrites = 2
  MaxKeys = 1
  MaxForced = 2
INVARIANT BreakerAgrees
INVARIANT WindowBound
INVARIANT UpstreamOfPolicy
INVARIANT DisconnectedByFailure
INVARIANT OpenAccounted
PROPERTY LimitedByOwnUse
PROPERTY Reprobes
PROPERTY WatchReads
CHECK_DEADLOCK FALSE
