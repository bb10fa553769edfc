\* Every mint extension in some kind of mint; all authorities can be renounced.
SPECIFICATION FreezeSpec
CONSTANTS
  U64_MAX = 1
  ONE_IN_BASIS_POINTS = 2
  Mints = {m1}
  Accounts = {a1, a2}
  Keys = {k1}
  BurnOwners = {}
  None = None
  MintKinds = {{"DefaultAccountState"}, {"NonTransferable", "PermanentDelegate"}, {"TransferFeeConfig", "MintCloseAuthority"}}
  BasisPoints = {1}
  MaximumFees = {1}
  Contexts <- TopLevel
  MaxIncarnations = 1
  MaxEpoch = 0
SYMMETRY Symmetry
VIEW View
PROPERTIES
  FrozenInert
  RenouncedForGood
  NonTransferableStaysPut
\* Accounts and mints may all be closed for good, or hold all there is.
CHECK_DEADLOCK FALSE
