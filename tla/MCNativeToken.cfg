\* Two accounts, rent of one or two lamports a unit, four lamports to go round.
SPECIFICATION Spec
CONSTANTS
  Accounts = {a1, a2}
  Keys = {k1, k2}
  Incinerator = incinerator
  NativeMint = native_mint
  PlainMint = plain_mint
  None = None
  MaxSize = 2
  Rates = {1, 2}
  Lamports = 2
SYMMETRY Symmetry
VIEW View
INVARIANTS
  NativeBacked
  LamportsConserved
PROPERTIES
  WrappedLeavesByRight
