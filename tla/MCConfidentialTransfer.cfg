\* Mints with and without fees; every switch thrown once.
SPECIFICATION Spec
CONSTANTS
  U64_MAX = 4
  ONE_IN_BASIS_POINTS = 12
  a1 = a1
  a2 = a2
  k1 = k1
  NoKey = NoKey
  Accounts = {a1, a2}
  Keys = {k1}
  Auditors = {k1, NoKey}
  AutoApprovals = {TRUE, FALSE}
  RADIX = 2
  Labels = {0, 1, 2, 3}
  MAXIMUM_DEPOSIT_TRANSFER_AMOUNT = 2
  U32_MAX = 1
  CreditLimits = {1, 2}
  Rates <- TwoRates
  Supply = 4
  MaxFresh = 3
  MaxDrafts = 2
  Patient = {a1}
  MaxInFlight = 2
  Switchable = {"freeze", "mint", "authority", "credits", "fee", "harvest"}
  MaxSwitches = 1
CONSTRAINT Bounds
INVARIANTS TokensConserved NothingOverdrawn PendingWithinLimit
PROPERTIES SpenderKnowsBalance ConfidentialFeeWithheld MissedCreditShows
\* Authorities are renounced and bounds are reached.
CHECK_DEADLOCK FALSE
