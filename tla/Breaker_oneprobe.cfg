SPECIFICATION Spec
CONSTANTS
  Calls = {c1, c2, c3}
  Threshold = 1
  OpenTime = 5
  PerSecond = 2
  MaxReloads = 0
SYMMETRY Symmetry
INVARIANT ExactlyOneProbe
