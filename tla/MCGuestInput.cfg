SPECIFICATION Spec
CONSTANTS
  Levels = {{punch, punch2}}
  Edge = {start}
  Second = {punch2}
  Low = {start}
  LatchFrames = 2
  DataBytes <- MCDataBytes
  BiosAnswers = FALSE
INVARIANTS
  TypeOK
  PacketWhole
  PressReachesGuest
