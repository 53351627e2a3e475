SPECIFICATION Spec
CONSTANTS
  SoundClock = 5
  MainClock = 7
  SampleRate = 3
  Quantum = 3
  MaxQuanta = 2
  MaxPending = 8
  Threshold = 3
  CatchupTarget = 3
  CatchupMin = 1
  CatchupMax = 2
  LatchCapacity = 2
  TickLengths = {1, 2, 5, 15}
  MaxMain = 24
  MaxCommands = 4
INVARIANTS TypeOK TimeConserved CommandsKept
