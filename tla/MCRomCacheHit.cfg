SPECIFICATION Spec
CONSTANTS
  Process = {p1, p2}
  Key = {k1}
  Asset = {a1, a2}
  Optional = {a2}
  MaxRuns = 3
  MaxStops = 1
  MaxFaults = 0
INVARIANTS
  LoneHitIsWhole
CHECK_DEADLOCK FALSE
