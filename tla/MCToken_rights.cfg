\* Owners, delegates, maybe a permanent delegate, an abandoned account; at top level and inside a CPI.
SPECIFICATION RightsSpec
CONSTANTS
  U64_MAX = 2
  ONE_IN_BASIS_POINTS = 1
  Mints = {m1}
  Accounts = {a1, a2}
  Keys = {k1, k2}
  BurnOwners = {inc}
  None = None
  MintKinds = {{}, {"PermanentDelegate"}}
  BasisPoints = {1}
  MaximumFees = {1}
  Contexts <- InOrOutsideCpi
  MaxIncarnations = 1
  MaxEpoch = 0
SYMMETRY Symmetry
VIEW View
CONSTRAINT RightsBounds
INVARIANT AllowanceRespected
PROPERTIES
  DebitsAuthorized
  CpiGuardHolds
\* Accounts and mints may all be closed for good, or hold all there is.
CHECK_DEADLOCK FALSE
