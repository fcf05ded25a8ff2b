SPECIFICATION Spec
CONSTANTS
  Runs = {r1, r2}
  Workers = {w1}
  MaxQueue = 1
  RunsMax = 1
  BadSeed = {r1}
  NoRun = NoRun
  Sentinel = Sentinel
  MaxFaults = 0
  MaxRestarts = 0
INVARIANT BadRequestsNeverOccupy
CHECK_DEADLOCK FALSE
