\* Sizes are such that three sets of extensions add up to that of a multisig.
SPECIFICATION Spec
CONSTANTS
  MINT_LEN = 1
  ACCOUNT_LEN = 2
  MULTISIG_LEN = 12
  U16_MAX = 3
  type_len <- MCLen
  Contents <- MCContents
  Required <- MCRequired
  Reserved <- MCReserved
  Slack = {0, 1, 2, 6}
  MaxLen = 32
INVARIANTS
  WellFormed
  PromisedFits
PROPERTY ImplementsMap
\* An account of an unusable size stays as it is.
CHECK_DEADLOCK FALSE
