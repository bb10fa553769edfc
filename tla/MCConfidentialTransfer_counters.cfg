\* Patient owners on a mint without fees.
SPECIFICATION Spec
CONSTANTS
  U64_MAX = 2
  ONE_IN_BASIS_POINTS = 12
  a1 = a1
  a2 = a2
  k1 = k1
  NoKey = NoKey
  Accounts = {a1, a2}
  Keys = {k1}
  Auditors = {NoKey}
  AutoApprovals = {TRUE}
  RADIX = 2
  Labels = {0, 1}
  MAXIMUM_DEPOSIT_TRANSFER_AMOUNT = 2
  U32_MAX = 3
  CreditLimits = {2}
  Rates <- NoRates
  Supply = 2
  MaxFresh = 1
  MaxDrafts = 1
  Patient = {a1, a2}
  MaxInFlight = 1
  Switchable = {}
  MaxSwitches = 0
INVARIANT EqualCountersMeanConsistent
CHECK_DEADLOCK FALSE
