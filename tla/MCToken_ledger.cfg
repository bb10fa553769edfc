\* One address, a mint twice, with fees that change or without (3 basis points of 2 are refused).
SPECIFICATION LedgerSpec
CONSTANTS
  U64_MAX = 3
  ONE_IN_BASIS_POINTS = 2
  Mints = {m1}
  Accounts = {a1, a2}
  Keys = {k1}
  BurnOwners = {}
  None = None
  MintKinds = {{"MintCloseAuthority"}, {"TransferFeeConfig", "MintCloseAuthority"}}
  BasisPoints = {1, 2, 3}
  MaximumFees = {1}
  Contexts <- WithOrWithoutMemo
  MaxIncarnations = 2
  MaxEpoch = 2
SYMMETRY Symmetry
VIEW View
INVARIANTS
  TypeOK
  SupplyConserved
PROPERTIES
  TransferTerms
\* Accounts and mints may all be closed for good, or hold all there is.
CHECK_DEADLOCK FALSE
