SPECIFICATION Spec
CONSTANTS
  Process = {p1, p2}
  Key = {k1, k2}
  Asset = {a1, a2}
  Optional = {a2}
  MaxRuns = 3
  MaxStops = 1
  MaxFaults = 1
SYMMETRY Processes
INVARIANTS
  TypeOK
  ActivatedWhole
  PartialNeedsOverlap
  LoneRunSucceeds
CHECK_DEADLOCK FALSE
