SPECIFICATION QueueSpec
CONSTANTS
  Capacity = 8
  RecoveryMinCapacity = 4
  MaxConcealment = 2
  SmallCapacity = 4
  LowFloor = 2
  CriticalFloor = 1
  Prebuffers = {0, 4, 8}
  PushLengths = {0, 3, 9}
  MaxFrames = 10
  MaxOutput = 11
INVARIANTS
  QueueTypeOK
  Conservation
  Contiguous
  StretchWithinThird
  StarvationPerSpell
  ConcealmentPaidFor
PROPERTIES
  NoDoubleStretch
