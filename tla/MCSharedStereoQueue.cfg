SPECIFICATION FairSpec
CONSTANTS
  Capacity = 4
  RecoveryMinCapacity = 4
  MaxConcealment = 1
  SmallCapacity = 2
  LowFloor = 2
  CriticalFloor = 1
  SliceLengths = {1, 2}
  Prebuffer = 2
  PrimeFrames = 1
  CallbackFrames = 2
  MissConcealment = 1
  RescueMax = 3
  DeferredMax = 3
  FlushMax = 2
  FlushExtra = 0
  MaxRendered = 5
  MaxCallbacks = 3
  DrainCallbacks = 5
  MaxObservations = 1
INVARIANTS
  TypeOK
  FrameConservation
  MissAccounting
  OrderUnlessRescued
PROPERTIES
  LossOnlyDuringFlush
  ImplementsStream
  PlayedOut
