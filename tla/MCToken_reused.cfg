\* A mint that may be closed, and its address used again for a mint of either kind.
SPECIFICATION FreezeSpec
CONSTANTS
  U64_MAX = 1
  ONE_IN_BASIS_POINTS = 2
  Mints = {m1}
  Accounts = {a1, a2}
  Keys = {k1}
  BurnOwners = {}
  None = None
  MintKinds = {{"MintCloseAuthority"}, {"NonTransferable", "MintCloseAuthority"}}
  BasisPoints = {1}
  MaximumFees = {1}
  Contexts <- TopLevel
  MaxIncarnations = 2
  MaxEpoch = 0
PROPERTIES
  NonTransferableStaysPut
\* Accounts and mints may all be closed for good, or hold all there is.
CHECK_DEADLOCK FALSE
