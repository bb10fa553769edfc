------------------------------- MODULE Parts -------------------------------
(***************************************************************************)
(* Parts of the program that share no state, side by side: each behaviour  *)
(* picks one of them in its first state and only that one moves.           *)
(*                                                                         *)
(*  Fees      the arithmetic of a fee schedule, for every amount           *)
(*  Owner     validate_owner, with keys repeated on both sides             *)
(*  Hook      hook programs that change the accounts they want, and a mint *)
(*            that is closed and made again                                *)
(*  Identity  every authority of a mint handed over and renounced          *)
(*  Groups    groups, and mints that join, go and come back                *)
(*  Interest  rates of either sign, changed at any second                  *)
(*  Wire      every builder but the Avoided ones                           *)
(***************************************************************************)
EXTENDS Integers

CONSTANTS
  None,                                                          \* no key
  U64_MAX, ONE_IN_BASIS_POINTS, BasisPoints, MaximumFees,        \* Fees
  Signers, MultisigAddress, MAX_SIGNERS, MaxPresented,           \* Owner
  TokenAccounts, HookAuthorities, Programs, TokenProgram,        \* Hook
  MaxSupply, MaxVersions, MaxHookMints,
  Mints, Keys, Kinds, Fields, Values, Absent,                    \* Identity
  MaxIdentitySize, MaxIdentities,
  GroupMints, Pointing, GroupKeys, MaxGroupSize, MaxGroups,      \* Groups
  I16_MIN, I16_MAX, InterestRates, MaxTime, RateAuthority,       \* Interest
  Avoided, MaxSigners, MaxSources, MaxOffset                     \* Wire

VARIABLES
  part,                                                        \* the one that moves
  transfer_fee, amount,                                        \* Fees
  multisig, owner, excess, decision,                           \* Owner
  mint, accounts, metas, draft, hook_call, hook_seen,          \* Hook
  identity, identity_incarnation,                              \* Identity
  mints, incarnation,                                          \* Groups
  minted, config, now, range,                                  \* Interest
  call, transaction, handled, seen, outcome                    \* Wire

fees_vars     == <<transfer_fee, amount>>
owner_vars    == <<multisig, owner, excess, decision>>
hook_vars     == <<mint, accounts, metas, draft, hook_call, hook_seen>>
identity_vars == <<identity, identity_incarnation>>
groups_vars   == <<mints, incarnation>>
interest_vars == <<minted, config, now, range>>
wire_vars     == <<call, transaction, handled, seen, outcome>>
vars == <<part, fees_vars, owner_vars, hook_vars, identity_vars, groups_vars, interest_vars,
          wire_vars>>

Fees == INSTANCE FeeArithmetic

Owner == INSTANCE Multisig WITH Keys <- Signers, call <- decision

Hook == INSTANCE TransferHook WITH
  Accounts <- TokenAccounts, Keys <- HookAuthorities, MaxIncarnations <- MaxHookMints,
  call <- hook_call, seen <- hook_seen

Identity == INSTANCE MintIdentity WITH
  MaxGroupSize <- MaxIdentitySize, MaxIncarnations <- MaxIdentities,
  mints <- identity, incarnation <- identity_incarnation

Groups == INSTANCE MintIdentity WITH
  Mints <- GroupMints, Keys <- GroupKeys, Kinds <- {"Group", "Member"}, Fields <- {},
  Values <- {}, MaxIncarnations <- MaxGroups

Interest == INSTANCE InterestBearing WITH Rates <- InterestRates, Authority <- RateAuthority

Wire == INSTANCE Interface

ASSUME PartsAssumption ==
  /\ U64_MAX \in Nat \ {0} /\ ONE_IN_BASIS_POINTS \in Nat \ {0}
  /\ BasisPoints \subseteq 0 .. ONE_IN_BASIS_POINTS /\ MaximumFees \subseteq 0 .. U64_MAX
  /\ Owner!MultisigAssumption
  /\ Hook!HookAssumption
  /\ Identity!IdentityAssumption
  /\ Groups!IdentityAssumption
  /\ Pointing \in [{"Group", "Member"} -> SUBSET GroupMints]
  /\ Interest!InterestAssumption
  /\ Wire!InterfaceAssumption

-----------------------------------------------------------------------------
\* The schedule while another part moves.
FirstFee == CHOOSE f \in [epoch : {0}, maximum_fee : MaximumFees,
                          transfer_fee_basis_points : BasisPoints] : TRUE

\* Parts that have one initial state are in it; of the others, only the one that
\* moves has a choice.
Init ==
  /\ part \in {"Fees", "Owner", "Hook", "Identity", "Groups", "Interest", "Wire"}
  /\ Fees!Init
  /\ part # "Fees" => transfer_fee = FirstFee
  /\ Owner!Init
  /\ part # "Owner" => owner = MultisigAddress
  /\ Hook!Init /\ Identity!Init /\ Groups!Init /\ Interest!Init /\ Wire!Init

FeesMove ==
  /\ part = "Fees" /\ Fees!NextAmount
  /\ UNCHANGED <<part, owner_vars, hook_vars, identity_vars, groups_vars, interest_vars, wire_vars>>

OwnerMoves ==
  /\ part = "Owner" /\ Owner!Next
  /\ UNCHANGED <<part, fees_vars, hook_vars, identity_vars, groups_vars, interest_vars, wire_vars>>

HookMoves ==
  /\ part = "Hook" /\ Hook!Next
  /\ UNCHANGED <<part, fees_vars, owner_vars, identity_vars, groups_vars, interest_vars, wire_vars>>

IdentityMoves ==
  /\ part = "Identity" /\ Identity!Next
  /\ UNCHANGED <<part, fees_vars, owner_vars, hook_vars, groups_vars, interest_vars, wire_vars>>

\* Which mints can be groups and members; the pointers are set up once, pointing to
\* the mint itself, and stay.
GroupsMove ==
  /\ part = "Groups"
  /\ \E m \in GroupMints, k \in GroupKeys :
       \/ \E kind \in {"Group", "Member"} :
            m \in Pointing[kind] /\ Groups!InitializePointer(m, kind, None, m)
       \/ Groups!InitializeMint(m, k)
       \/ Groups!CloseMint(m)
       \/ Groups!GroupSteps(m, k)
  /\ UNCHANGED <<part, fees_vars, owner_vars, hook_vars, identity_vars, interest_vars, wire_vars>>

InterestMoves ==
  /\ part = "Interest" /\ Interest!Next
  /\ UNCHANGED <<part, fees_vars, owner_vars, hook_vars, identity_vars, groups_vars, wire_vars>>

WireMoves ==
  /\ part = "Wire" /\ Wire!Next
  /\ UNCHANGED <<part, fees_vars, owner_vars, hook_vars, identity_vars, groups_vars, interest_vars>>

Next ==
  \/ FeesMove \/ OwnerMoves \/ HookMoves \/ IdentityMoves \/ GroupsMove \/ InterestMoves
  \/ WireMoves

Spec == Init /\ [][Next]_vars

-----------------------------------------------------------------------------
(* The properties of the parts, each stated and explained in its module.   *)

\* calculate_pre_fee_amount returns the smallest amount with the given net amount.
PreFeeIsSmallest == part = "Fees" => Fees!PreFeeIsSmallest

\* Splitting a transfer never saves fees (calculate_fee).
SplittingSavesNothing == part = "Fees" => Fees!SplittingSavesNothing

\* calculate_inverse_fee undoes calculate_fee up to a bounded loss.
RoundTripLoss == part = "Fees" => Fees!RoundTripLoss

\* validate_owner accepts exactly a quorum, however signers are repeated.
DecisionIsQuorum == part = "Owner" => Owner!DecisionIsQuorum

\* A hook that finds both accounts flagged is called, by whomever, while a transfer of
\* them is in progress (set_transferring, unset_transferring).
GenuineMeansTransfer == part = "Hook" => Hook!GenuineMeansTransfer

\* No tokens move between accounts of a mint with a hook program unless it agreed
\* (process_transfer).
HookConsulted == Hook!HookConsulted

\* Members of a group have different numbers within its size, and the size stays within
\* its limit; a member whose mint is closed leaves a gap (token_group/processor.rs).
MembersNumbered == part = "Groups" => Groups!MembersNumbered

\* What has no authority any more never changes (the pointers', token_metadata's and
\* token_group's processors).
RenouncedIsFixed == Identity!RenouncedIsFixed

\* The average rate stays within the rates there were (time_weighted_average_rate).
AverageBetweenRates == part = "Interest" => Interest!AverageBetweenRates

\* Changing the rate hardly changes what has been earned (process_update_rate).
RateChangeIsContinuous == Interest!RateChangeIsContinuous

\* Handlers take every account for what the builder listed it for.
AccountsInTheirRoles == part = "Wire" => Wire!AccountsInTheirRoles

\* Handlers lack nothing the builder should have provided.
BuiltIsAccepted == part = "Wire" => Wire!BuiltIsAccepted
=============================================================================
