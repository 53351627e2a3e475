SPECIFICATION FairSpec
CONSTANTS
  Buffer = {b1, b2}
  Capacity = 2
  MaxFrames = 3
INVARIANTS TypeOK NoCallbackAfterFree HealthSeesFailure CapturesKept
PROPERTY SessionEnds
