SPECIFICATION Spec
CONSTANTS
  Runs = {r1, r2, r3, r4}
  Workers = {w1, w2}
  MaxQueue = 1
  RunsMax = 1
  BadSeed = {r4}
  NoRun = NoRun
  Sentinel = Sentinel
  MaxFaults = 1
  MaxRestarts = 0
SYMMETRY Symmetry
INVARIANT OneHolder
INVARIANT CountersExact
 
CHECK_DEADLOCK FALSE
