\* Two transfers prepared on a mint with a fee, or without.
SPECIFICATION Spec
CONSTANTS
  U64_MAX = 50
  ONE_IN_BASIS_POINTS = 4
  RADIX = 2
  Labels = {0, 1, 2, 3}
  Intents = {0, 1}
  Stepwise = {0}
  Amounts = {2, 3}
  HandleOffsets <- OffsetOfOne
  Rates <- TwoRates
  MAX_AMOUNT = 3
  Supply = 2
  MaxChanges = 1
INVARIANTS SenderSolvent ExecutedOnceAllLanded
PROPERTY FeeNeverShort
\* The transfers are executed or abandoned.
CHECK_DEADLOCK FALSE
