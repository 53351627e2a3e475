SPECIFICATION Spec
CONSTANTS
  Character = {"yugo", "gado"}
  Boot = "yugo"
  FullHealth = 1
  MaxFrames = 3
  MaxStep = 4
  MaxSegments = 4
  Thread = {c1, c2}
  Request <- MCRequest
  MaxRequests = 3
SYMMETRY Symmetry
INVARIANT ActionReleases
CHECK_DEADLOCK FALSE
