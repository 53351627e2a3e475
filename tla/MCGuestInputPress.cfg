SPECIFICATION Spec
CONSTANTS
  Levels = {{punch, punch2}}
  Edge = {start}
  Second = {punch2}
  Low = {start}
  LatchFrames = 4
  DataBytes <- MCDataBytes
  BiosAnswers = FALSE
PROPERTIES
  EveryPressReachesGuest
