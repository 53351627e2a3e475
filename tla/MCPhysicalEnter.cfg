SPECIFICATION Spec
CONSTANTS
  CoinFrames = 1
  GapFrames = 2
  StartFrames = 1
  RetryFrames = 1
  MaxCoin = 2
  MaxStart = 2
  MaxSlices = 2
  MaxFunds = 2
  Setups <- TwoSetups
INVARIANTS TypeOK CoinOnlyWithoutCredit StartIsPaid
PROPERTIES OnePressOneSequence EndsForCause SequenceEnds
