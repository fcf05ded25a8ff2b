SPECIFICATION FairSpec
CONSTANTS
  Runs = {r1, r2, r3}
  Workers = {w1}
  MaxQueue = 1
  RunsMax = 1
  BadSeed = {}
  NoRun = NoRun
  Sentinel = Sentinel
  MaxFaults = 0
  MaxRestarts = 1
PROPERTY ServiceSpec
PROPERTY AcceptedCompletes
CHECK_DEADLOCK FALSE
