\* Parts without common state, one at a time.
SPECIFICATION Spec
CONSTANTS
  None = None
  \* Every schedule of a coarse scale, every amount of a small u64.
  U64_MAX = 40
  ONE_IN_BASIS_POINTS = 12
  BasisPoints = {0, 1, 2, 3, 4, 5, 6, 7, 8, 9, 10, 11, 12}
  MaximumFees = {0, 1, 2, 5, 9, 20, 40}
  \* Two keys, in up to three positions and up to three times presented.
  Signers = {k1, k2}
  MultisigAddress = multisig
  MAX_SIGNERS = 3
  MaxPresented = 3
  \* Two hook programs; a mint that is closed and made again.
  TokenAccounts = {a1, a2}
  HookAuthorities = {h1}
  Programs = {p1, p2}
  TokenProgram = token_program
  MaxSupply = 2
  MaxVersions = 1
  MaxHookMints = 2
  \* One mint whose authorities go from hand to hand.
  Mints = {m1}
  Keys = {k1, k2}
  Kinds = {"Metadata", "Group", "Member"}
  Fields = {f1}
  Values = {v1, v2}
  Absent = absent
  MaxIdentitySize = 1
  MaxIdentities = 1
  \* Two mints can be groups of up to two and two can be members.
  g1 = g1
  g2 = g2
  g3 = g3
  GroupMints = {g1, g2, g3}
  Pointing <- SelfPointing
  GroupKeys = {k1}
  MaxGroupSize = 2
  MaxGroups = 2
  I16_MIN <- LowestRate
  I16_MAX = 3
  InterestRates <- SomeRates
  MaxTime = 6
  RateAuthority = rate_authority
  Avoided = {"transfer_with_fee"}
  MaxSigners = 2
  MaxSources = 2
  MaxOffset = 2
INVARIANTS
  PreFeeIsSmallest SplittingSavesNothing RoundTripLoss
  DecisionIsQuorum
  GenuineMeansTransfer
  MembersNumbered
  AverageBetweenRates
  AccountsInTheirRoles BuiltIsAccepted
PROPERTIES
  HookConsulted RenouncedIsFixed RateChangeIsContinuous
\* Mints may be closed for good, and the sweep over the amounts ends.
CHECK_DEADLOCK FALSE
