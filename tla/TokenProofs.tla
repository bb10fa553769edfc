---------------------------- MODULE TokenProofs ----------------------------
(***************************************************************************)
(* Proofs about Token, for every set of mints, accounts and keys, every    *)
(* width of the integers, every fee schedule and all instructions          *)
(* together: type correctness (no amount leaves its u64), that a delegate  *)
(* never exceeds its allowance, that a frozen account is inert, that       *)
(* tokens are neither created nor lost, and the action properties about    *)
(* debits, the CPI guard, the terms of a transfer, renounced authorities   *)
(* and non-transferable mints.                                             *)
(***************************************************************************)
EXTENDS Token, TotalsProofs

(***************************************************************************)
(* The inductive invariant.  TypeOK and AllowanceRespected are not         *)
(* inductive alone: that what a delegate has spent stays a u64 needs       *)
(* AllowanceRespected, and AllowanceRespected needs the types to reason    *)
(* about the subtraction.  WithheldMarked is what closable relies on: it   *)
(* looks at the withheld fees of an account only if the account has the    *)
(* TransferFeeAmount extension.                                            *)
(***************************************************************************)
WithheldMarked ==
  \A a \in Accounts :
    accounts[a].withheld_amount > 0 => "TransferFeeAmount" \in accounts[a].exts

Accountable == AllowanceRespected /\ WithheldMarked

IInv == TypeOK /\ Accountable

Grants == [by : MaybeKey, amount : U64, spent : U64]

Transactions == [by : MaybeKey, cpi : BOOLEAN, memo : BOOLEAN]

\* Accountable, for one account.
AccountHolds(acc, g) ==
  /\ acc.withheld_amount > 0 => "TransferFeeAmount" \in acc.exts
  /\ g.spent <= g.amount
  /\ acc.delegate # None =>
       /\ g.by = acc.owner
       /\ acc.delegated_amount = g.amount - g.spent

(***************************************************************************)
(* Facts about the constants, and the values instructions store.           *)
(***************************************************************************)
LEMMA ConstantFacts ==
  /\ U64 \subseteq Nat
  /\ 0 \in U64
  /\ NoAmount \notin U64
  /\ None \notin Keys
  /\ None \notin BurnOwners
  /\ 0 .. MaxEpoch \subseteq U64
BY FeeAssumption, TokenAssumption DEF U64, NoAmount

LEMMA InitialFeesType ==
  ASSUME NEW e \in U64, NEW bps \in 0 .. ONE_IN_BASIS_POINTS, NEW max \in U64
  PROVE  initial_fees(e, bps, max) \in FeePairs
BY DEF initial_fees, TransferFees, FeePairs

LEMMA UpdatedFeesType ==
  ASSUME NEW c \in FeePairs, NEW e \in U64,
         NEW bps \in 0 .. ONE_IN_BASIS_POINTS, NEW max \in U64
  PROVE  updated_fees(c, e, bps, max) \in FeePairs
<1>1. c.newer_transfer_fee \in TransferFees /\ c.older_transfer_fee \in TransferFees
  BY DEF FeePairs
<1>2. saturating_add(e, 2) \in U64
  BY FeeAssumption DEF saturating_add, LesserOf, U64
<1>3. [epoch |-> saturating_add(e, 2), maximum_fee |-> max,
       transfer_fee_basis_points |-> bps] \in TransferFees
  BY <1>2 DEF TransferFees
<1> QED
  BY <1>1, <1>3 DEF updated_fees, FeePairs

LEMMA BlankMintType == \A n \in 0 .. MaxIncarnations : BlankMint(n) \in MintState
<1> SUFFICES ASSUME NEW n \in 0 .. MaxIncarnations PROVE BlankMint(n) \in MintState
  OBVIOUS
<1>1. initial_fees(0, 0, 0) \in FeePairs
  <2>1. 0 \in 0 .. ONE_IN_BASIS_POINTS
    BY FeeAssumption
  <2> QED
    BY <2>1, ConstantFacts, InitialFeesType
<1>2. [t \in MintAuthorityTypes |-> None] \in [MintAuthorityTypes -> MaybeKey]
  BY DEF MaybeKey
<1> QED
  BY <1>1, <1>2, ConstantFacts DEF BlankMint, MintState

LEMMA MintAmountsType ==
  ASSUME NEW mint \in MintState, NEW n \in U64
  PROVE  /\ [mint EXCEPT !.supply = n] \in MintState
         /\ [mint EXCEPT !.withheld_amount = n] \in MintState
BY DEF MintState

LEMMA BlankAccountType == BlankAccount \in AccountState
BY ConstantFacts DEF BlankAccount, AccountState, MaybeKey, AccountExtensions

LEMMA NoGrantType == NoGrant \in Grants
BY ConstantFacts DEF NoGrant, Grants, MaybeKey

\* The fee of a transfer is a u64 unless its calculation overflows.
LEMMA FeeType ==
  ASSUME NEW c \in FeePairs, NEW e \in U64, NEW amount \in U64
  PROVE  calculate_epoch_fee(c, e, amount) \in U64 \cup {NoAmount}
<1> DEFINE f == get_epoch_fee(c, e)
<1>1. f \in TransferFees
  BY DEF get_epoch_fee, FeePairs
<1>2. f.maximum_fee \in U64 /\ f.transfer_fee_basis_points \in Nat
  BY <1>1, FeeAssumption DEF TransferFees
<1> HIDE DEF f
<1> DEFINE raw == CheckedU64(ceil_div(amount * f.transfer_fee_basis_points,
                                      ONE_IN_BASIS_POINTS))
<1>3. raw \in U64 \cup {NoAmount}
  BY DEF CheckedU64
<1>4. calculate_fee(f, amount) \in {0, NoAmount, LesserOf(raw, f.maximum_fee)}
  BY DEF calculate_fee
<1> HIDE DEF raw
<1>5. raw \in U64 => LesserOf(raw, f.maximum_fee) \in U64
  BY <1>2 DEF LesserOf
<1>6. raw = NoAmount => calculate_fee(f, amount) \in {0, NoAmount}
  BY DEF calculate_fee, raw
<1>7. calculate_fee(f, amount) \in U64 \cup {NoAmount}
  BY <1>3, <1>4, <1>5, <1>6, ConstantFacts
<1> QED
  BY <1>7 DEF calculate_epoch_fee, f

LEMMA SignedType ==
  ASSUME NEW k \in Keys, NEW ctx \in Contexts, Signed(k, ctx)
  PROVE  tx' \in Transactions
<1>1. ctx \in [cpi : BOOLEAN, memo : BOOLEAN]
  BY TokenAssumption
<1>2. ctx.cpi \in BOOLEAN /\ ctx.memo \in BOOLEAN
  BY <1>1
<1> QED
  BY <1>2 DEF Signed, Transactions, MaybeKey

LEMMA AccountablePerAccount ==
  /\ Accountable <=> \A a \in Accounts : AccountHolds(accounts[a], grants[a])
  /\ Accountable' <=> \A a \in Accounts : AccountHolds(accounts'[a], grants'[a])
BY DEF Accountable, AllowanceRespected, WithheldMarked, AccountHolds

-----------------------------------------------------------------------------
LEMMA InitIInv == Init => IInv
<1> SUFFICES ASSUME Init PROVE IInv
  OBVIOUS
<1>1. mints \in [Mints -> MintState]
  <2>1. 0 \in 0 .. MaxIncarnations
    BY TokenAssumption
  <2> QED
    BY <2>1, BlankMintType DEF Init
<1>2. accounts \in [Accounts -> AccountState] /\ grants \in [Accounts -> Grants]
  BY BlankAccountType, NoGrantType DEF Init
<1>3. epoch \in 0 .. MaxEpoch
  BY TokenAssumption DEF Init, U64
<1>4. tx \in Transactions
  BY DEF Init, Transactions, MaybeKey
<1>5. AccountHolds(BlankAccount, NoGrant)
  BY DEF AccountHolds, BlankAccount, NoGrant
<1>6. Accountable
  BY <1>5, AccountablePerAccount DEF Init
<1> QED
  BY <1>1, <1>2, <1>3, <1>4, <1>6 DEF IInv, TypeOK, Grants, Transactions

(***************************************************************************)
(* The two shapes of a step, as far as IInv is concerned: one that leaves  *)
(* accounts and approvals alone, and one that rewrites a single account.   *)
(***************************************************************************)
LEMMA MintStep ==
  ASSUME IInv, UNCHANGED <<accounts, grants>>, mints' \in [Mints -> MintState],
         epoch' \in 0 .. MaxEpoch, tx' \in Transactions
  PROVE  IInv'
<1>1. Accountable'
  BY AccountablePerAccount DEF IInv
<1> QED
  BY <1>1 DEF IInv, TypeOK, Transactions

LEMMA AccountStep ==
  ASSUME IInv, UNCHANGED epoch, mints' \in [Mints -> MintState], tx' \in Transactions,
         NEW a \in Accounts, NEW acc \in AccountState, NEW g \in Grants,
         accounts' = [accounts EXCEPT ![a] = acc],
         grants' = [grants EXCEPT ![a] = g],
         AccountHolds(acc, g)
  PROVE  IInv'
<1>1. accounts' \in [Accounts -> AccountState] /\ grants' \in [Accounts -> Grants]
  BY DEF IInv, TypeOK, Grants
<1>2. accounts'[a] = acc /\ grants'[a] = g
  BY DEF IInv, TypeOK
<1>3. \A b \in Accounts \ {a} : accounts'[b] = accounts[b] /\ grants'[b] = grants[b]
  BY DEF IInv, TypeOK
<1>4. Accountable'
  BY <1>2, <1>3, AccountablePerAccount DEF IInv
<1> QED
  BY <1>1, <1>4 DEF IInv, TypeOK, Grants, Transactions

\* A step that rewrites one account and leaves what approvals depend on.
LEMMA SettingStep ==
  ASSUME IInv, UNCHANGED <<epoch, grants>>, mints' \in [Mints -> MintState],
         tx' \in Transactions, NEW a \in Accounts, NEW acc \in AccountState,
         accounts' = [accounts EXCEPT ![a] = acc],
         acc.delegate = accounts[a].delegate, acc.owner = accounts[a].owner,
         acc.delegated_amount = accounts[a].delegated_amount,
         acc.withheld_amount = accounts[a].withheld_amount,
         accounts[a].exts \subseteq acc.exts
  PROVE  IInv'
<1>1. grants \in [Accounts -> Grants]
  BY DEF IInv, TypeOK, Grants
<1>2. grants' = [grants EXCEPT ![a] = grants[a]] /\ grants[a] \in Grants
  BY <1>1
<1>3. AccountHolds(accounts[a], grants[a])
  BY AccountablePerAccount DEF IInv
<1>4. AccountHolds(acc, grants[a])
  BY <1>3 DEF AccountHolds
<1> QED
  BY <1>1, <1>2, <1>4, AccountStep

(***************************************************************************)
(* Instructions that create or change mints only.                          *)
(***************************************************************************)
LEMMA InitMintsIInv == IInv /\ InitMints => IInv'
<1> SUFFICES ASSUME IInv, InitMints PROVE IInv'
  OBVIOUS
<1>1. PICK m \in Mints :
        \/ \E k \in MaybeKey : InitializeMintCloseAuthority(m, k)
        \/ \E k \in Keys : InitializePermanentDelegate(m, k)
        \/ InitializeNonTransferableMint(m)
        \/ \E state \in {"Initialized", "Frozen"} : InitializeDefaultAccountState(m, state)
        \/ \E kc, kw \in MaybeKey, bps \in BasisPoints, max \in MaximumFees :
             InitializeTransferFeeConfig(m, kc, kw, bps, max)
        \/ \E km \in Keys, kf \in MaybeKey : InitializeMint(m, km, kf)
  BY DEF InitMints
<1>2. mints[m] \in MintState /\ mints \in [Mints -> MintState]
  BY DEF IInv, TypeOK
<1>3. epoch \in 0 .. MaxEpoch /\ tx \in Transactions
  BY DEF IInv, TypeOK, Transactions
<1>4. ASSUME NEW ext \in MintExtensions, NEW mint \in MintState,
             InitExtension(m, ext, mint)
      PROVE  IInv'
  <2>1. [mint EXCEPT !.exts = @ \cup {ext}] \in MintState
    BY DEF MintState
  <2>2. mints' \in [Mints -> MintState]
    BY <1>2, <1>4, <2>1 DEF InitExtension
  <2> QED
    BY <1>3, <1>4, <2>2, MintStep DEF InitExtension
<1>5. ASSUME NEW type \in MintAuthorityTypes, NEW k \in MaybeKey, NEW mint \in MintState
      PROVE  [mint EXCEPT !.authority[type] = k] \in MintState
  <2>1. mint.authority \in [MintAuthorityTypes -> MaybeKey]
    BY DEF MintState
  <2>2. [mint.authority EXCEPT ![type] = k] \in [MintAuthorityTypes -> MaybeKey]
    BY <2>1
  <2> QED
    BY <2>2 DEF MintState
<1>6. ASSUME NEW k \in MaybeKey, InitializeMintCloseAuthority(m, k) PROVE IInv'
  BY <1>2, <1>4, <1>5, <1>6 DEF InitializeMintCloseAuthority, MintAuthorityTypes,
                                MintExtensions
<1>7. ASSUME NEW k \in Keys, InitializePermanentDelegate(m, k) PROVE IInv'
  <2>1. [mints[m] EXCEPT !.authority["PermanentDelegate"] = k] \in MintState
    BY <1>2, <1>5 DEF MaybeKey, MintAuthorityTypes
  <2> QED
    BY <1>4, <1>7, <2>1 DEF InitializePermanentDelegate, MintExtensions
<1>8. CASE InitializeNonTransferableMint(m)
  BY <1>2, <1>4, <1>8 DEF InitializeNonTransferableMint, MintExtensions
<1>9. ASSUME NEW state \in {"Initialized", "Frozen"},
             InitializeDefaultAccountState(m, state)
      PROVE  IInv'
  <2>1. [mints[m] EXCEPT !.default_state = state] \in MintState
    BY <1>2 DEF MintState
  <2> QED
    BY <1>4, <1>9, <2>1 DEF InitializeDefaultAccountState, MintExtensions
<1>10. ASSUME NEW kc \in MaybeKey, NEW kw \in MaybeKey, NEW bps \in BasisPoints,
              NEW max \in MaximumFees,
              InitializeTransferFeeConfig(m, kc, kw, bps, max)
       PROVE  IInv'
  <2>1. epoch \in U64 /\ bps \in 0 .. ONE_IN_BASIS_POINTS /\ max \in U64
    BY <1>3, <1>10, ConstantFacts, TokenAssumption, FeeAssumption
       DEF InitializeTransferFeeConfig
  <2>2. initial_fees(epoch, bps, max) \in FeePairs
    BY <2>1, InitialFeesType
  <2> DEFINE m1 == [mints[m] EXCEPT !.authority["TransferFeeConfig"] = kc]
             m2 == [m1 EXCEPT !.authority["WithheldWithdraw"] = kw]
             m3 == [m2 EXCEPT !.withheld_amount = 0,
                              !.fees = initial_fees(epoch, bps, max)]
  <2>3. m1 \in MintState
    BY <1>2, <1>5 DEF MintAuthorityTypes
  <2>4. m2 \in MintState
    BY <1>5, <2>3 DEF MintAuthorityTypes
  <2>5. m3 \in MintState
    BY <2>2, <2>4, ConstantFacts DEF MintState
  <2>6. InitExtension(m, "TransferFeeConfig", m3)
    BY <1>10 DEF InitializeTransferFeeConfig
  <2> QED
    BY <1>4, <2>5, <2>6 DEF MintExtensions
<1>11. ASSUME NEW km \in Keys, NEW kf \in MaybeKey, InitializeMint(m, km, kf)
       PROVE  IInv'
  <2> DEFINE m1 == [mints[m] EXCEPT !.authority["MintTokens"] = km]
             m2 == [m1 EXCEPT !.authority["FreezeAccount"] = kf]
             m3 == [m2 EXCEPT !.is_initialized = TRUE, !.incarnation = @ + 1]
  <2>1. m1 \in MintState
    BY <1>2, <1>5 DEF MintAuthorityTypes, MaybeKey
  <2>2. m2 \in MintState
    BY <1>5, <2>1 DEF MintAuthorityTypes
  <2>3. m3 \in MintState
    BY <1>2, <1>11, <2>2, TokenAssumption DEF MintState, InitializeMint
  <2>4. mints' = [mints EXCEPT ![m] = m3]
    BY <1>2, <1>11 DEF InitializeMint, MintState
  <2> QED
    BY <1>2, <1>3, <1>11, <2>3, <2>4, MintStep DEF InitializeMint
<1> QED
  BY <1>1, <1>6, <1>7, <1>8, <1>9, <1>10, <1>11

LEMMA ChangeMintIInv ==
  ASSUME IInv, NEW k \in Keys, NEW ctx \in Contexts, ChangeMint(k, ctx)
  PROVE  IInv'
<1>1. mints \in [Mints -> MintState] /\ epoch \in 0 .. MaxEpoch
  BY DEF IInv, TypeOK
<1>2. ASSUME NEW m \in Mints, NEW type \in MintAuthorityTypes, NEW new \in MaybeKey,
             SetMintAuthority(m, type, new, k, ctx)
      PROVE  IInv'
  <2>1. mints[m].authority \in [MintAuthorityTypes -> MaybeKey]
    BY <1>1 DEF MintState
  <2>2. [mints[m].authority EXCEPT ![type] = new] \in [MintAuthorityTypes -> MaybeKey]
    BY <2>1
  <2>3. mints' \in [Mints -> MintState]
    BY <1>1, <1>2, <2>2 DEF SetMintAuthority, MintState
  <2> QED
    BY <1>1, <1>2, <2>3, SignedType, MintStep DEF SetMintAuthority
<1>3. ASSUME NEW m \in Mints, CloseMint(m, k, ctx) PROVE IInv'
  <2>1. mints[m].incarnation \in 0 .. MaxIncarnations
    BY <1>1 DEF MintState
  <2>2. mints' \in [Mints -> MintState]
    BY <1>1, <1>3, <2>1, BlankMintType DEF CloseMint
  <2> QED
    BY <1>1, <1>3, <2>2, SignedType, MintStep DEF CloseMint
<1> QED
  BY <1>2, <1>3 DEF ChangeMint

LEMMA ChangeFeesIInv ==
  ASSUME IInv, NEW k \in Keys, NEW ctx \in Contexts, ChangeFees(k, ctx)
  PROVE  IInv'
<1>1. PICK m \in Mints, bps \in BasisPoints, max \in MaximumFees :
        SetTransferFee(m, bps, max, k, ctx)
  BY DEF ChangeFees
<1>2. mints \in [Mints -> MintState] /\ epoch \in 0 .. MaxEpoch
  BY DEF IInv, TypeOK
<1>3. /\ mints[m].fees \in FeePairs /\ epoch \in U64
      /\ bps \in 0 .. ONE_IN_BASIS_POINTS /\ max \in U64
  BY <1>1, <1>2, ConstantFacts, TokenAssumption, FeeAssumption
     DEF SetTransferFee, MintState
<1>4. updated_fees(mints[m].fees, epoch, bps, max) \in FeePairs
  BY <1>3, UpdatedFeesType
<1>5. mints' \in [Mints -> MintState]
  BY <1>1, <1>2, <1>4 DEF SetTransferFee, MintState
<1> QED
  BY <1>1, <1>2, <1>5, SignedType, MintStep DEF SetTransferFee

LEMMA AdvanceEpochIInv == IInv /\ AdvanceEpoch => IInv'
<1> SUFFICES ASSUME IInv, AdvanceEpoch PROVE IInv'
  OBVIOUS
<1>1. epoch' \in 0 .. MaxEpoch
  BY TokenAssumption DEF IInv, TypeOK, AdvanceEpoch, U64
<1> QED
  BY <1>1, MintStep DEF IInv, TypeOK, AdvanceEpoch, Transactions

(***************************************************************************)
(* Instructions that create or change one token account.                   *)
(***************************************************************************)
LEMMA InitAccountsIInv == IInv /\ InitAccounts => IInv'
<1> SUFFICES ASSUME IInv, InitAccounts PROVE IInv'
  OBVIOUS
<1>1. /\ mints \in [Mints -> MintState] /\ tx \in Transactions
      /\ accounts \in [Accounts -> AccountState] /\ grants \in [Accounts -> Grants]
  BY DEF IInv, TypeOK, Transactions, Grants
<1>2. ASSUME NEW a \in Accounts, InitializeImmutableOwner(a) PROVE IInv'
  <2> DEFINE acc == [accounts[a] EXCEPT !.exts = @ \cup {"ImmutableOwner"}]
  <2>1. acc \in AccountState
    BY <1>1 DEF AccountState, AccountExtensions
  <2>2. accounts' = [accounts EXCEPT ![a] = acc]
    BY <1>1, <1>2 DEF InitializeImmutableOwner
  <2>3. /\ acc.delegate = accounts[a].delegate /\ acc.owner = accounts[a].owner
        /\ acc.delegated_amount = accounts[a].delegated_amount
        /\ acc.withheld_amount = accounts[a].withheld_amount
        /\ accounts[a].exts \subseteq acc.exts
    BY <1>1 DEF AccountState
  <2> HIDE DEF acc
  <2> QED
    BY <1>1, <1>2, <2>1, <2>2, <2>3, SettingStep DEF InitializeImmutableOwner
<1>3. ASSUME NEW a \in Accounts, NEW m \in Mints, NEW owner \in Owners,
             InitializeAccount(a, m, owner)
      PROVE  IInv'
  <2> DEFINE acc == [BlankAccount EXCEPT
                       !.state = mints[m].default_state,
                       !.mint  = m,
                       !.owner = owner,
                       !.exts  = accounts[a].exts \cup
                                   get_required_init_account_extensions(mints[m].exts)]
  <2>1. get_required_init_account_extensions(mints[m].exts) \subseteq AccountExtensions
    BY DEF get_required_init_account_extensions, AccountExtensions
  <2>2. mints[m].default_state \in {"Initialized", "Frozen"}
    BY <1>1 DEF MintState
  <2>3. accounts[a].exts \subseteq AccountExtensions
    BY <1>1 DEF AccountState
  <2>4. acc \in AccountState
    BY <2>1, <2>2, <2>3, ConstantFacts DEF BlankAccount, AccountState, MaybeKey
  <2>5. AccountHolds(acc, NoGrant)
    BY DEF AccountHolds, BlankAccount, NoGrant
  <2> QED
    BY <1>1, <1>3, <2>4, <2>5, NoGrantType, AccountStep DEF InitializeAccount
<1> QED
  BY <1>2, <1>3 DEF InitAccounts

LEMMA DelegateIInv ==
  ASSUME IInv, NEW k \in Keys, NEW ctx \in Contexts, Delegate(k, ctx)
  PROVE  IInv'
<1>1. /\ mints \in [Mints -> MintState]
      /\ accounts \in [Accounts -> AccountState] /\ grants \in [Accounts -> Grants]
  BY DEF IInv, TypeOK, Grants
<1>2. ASSUME NEW a \in Accounts, NEW delegate \in Keys, NEW amount \in U64,
             Approve(a, delegate, amount, k, ctx)
      PROVE  IInv'
  <2> DEFINE acc == [accounts[a] EXCEPT !.delegate = delegate,
                                        !.delegated_amount = amount]
             g == [by |-> k, amount |-> amount, spent |-> 0]
  <2>1. acc \in AccountState /\ g \in Grants
    <3>1. delegate \in MaybeKey /\ k \in MaybeKey /\ accounts[a] \in AccountState
      BY <1>1 DEF MaybeKey
    <3>2. acc \in AccountState
      BY <3>1 DEF AccountState
    <3>3. g \in Grants
      BY <3>1, ConstantFacts DEF Grants
    <3> QED
      BY <3>2, <3>3
  <2>2. accounts' = [accounts EXCEPT ![a] = acc] /\ grants' = [grants EXCEPT ![a] = g]
    BY <1>1, <1>2 DEF Approve
  <2>3. /\ acc.delegated_amount = amount /\ acc.owner = k
        /\ acc.withheld_amount = accounts[a].withheld_amount /\ acc.exts = accounts[a].exts
    BY <1>1, <1>2 DEF Approve, AccountState
  <2>4. AccountHolds(acc, g)
    <3>1. AccountHolds(accounts[a], grants[a])
      BY AccountablePerAccount DEF IInv
    <3> QED
      BY <2>3, <3>1, ConstantFacts DEF AccountHolds
  <2> HIDE DEF acc, g
  <2>5. UNCHANGED epoch /\ mints' \in [Mints -> MintState] /\ tx' \in Transactions
    BY <1>1, <1>2, SignedType DEF Approve
  <2> QED
    BY <2>1, <2>2, <2>4, <2>5, AccountStep
<1>3. ASSUME NEW a \in Accounts, Revoke(a, k, ctx) PROVE IInv'
  <2> DEFINE acc == [accounts[a] EXCEPT !.delegate = None, !.delegated_amount = 0]
  <2>1. acc \in AccountState
    BY <1>1, ConstantFacts DEF AccountState, MaybeKey
  <2>2. accounts' = [accounts EXCEPT ![a] = acc]
    BY <1>1, <1>3 DEF Revoke
  <2>3. /\ acc.delegate = None
        /\ acc.withheld_amount = accounts[a].withheld_amount /\ acc.exts = accounts[a].exts
    BY <1>1 DEF AccountState
  <2>4. AccountHolds(acc, NoGrant)
    <3>1. AccountHolds(accounts[a], grants[a])
      BY AccountablePerAccount DEF IInv
    <3> QED
      BY <2>3, <3>1 DEF AccountHolds, NoGrant
  <2> HIDE DEF acc
  <2>5. /\ UNCHANGED epoch /\ mints' \in [Mints -> MintState] /\ tx' \in Transactions
        /\ grants' = [grants EXCEPT ![a] = NoGrant]
    BY <1>1, <1>3, SignedType DEF Revoke
  <2> QED
    BY <2>1, <2>2, <2>4, <2>5, NoGrantType, AccountStep
<1> QED
  BY <1>2, <1>3 DEF Delegate

LEMMA ChangeAccountIInv ==
  ASSUME IInv, NEW k \in Keys, NEW ctx \in Contexts, ChangeAccount(k, ctx)
  PROVE  IInv'
<1>1. /\ mints \in [Mints -> MintState]
      /\ accounts \in [Accounts -> AccountState] /\ grants \in [Accounts -> Grants]
  BY DEF IInv, TypeOK, Grants
<1>2. ASSUME NEW a \in Accounts, NEW new \in Owners, SetAccountOwner(a, new, k, ctx)
      PROVE  IInv'
  <2> DEFINE acc == HandedOver(accounts[a], new)
  <2>1. acc \in AccountState
    BY <1>1, ConstantFacts DEF HandedOver, AccountState, MaybeKey
  <2>2. accounts' = [accounts EXCEPT ![a] = acc]
    BY <1>1, <1>2 DEF SetAccountOwner
  <2>3. /\ acc.delegate = None
        /\ acc.withheld_amount = accounts[a].withheld_amount /\ acc.exts = accounts[a].exts
    BY <1>1 DEF HandedOver, AccountState
  <2>4. AccountHolds(acc, NoGrant)
    <3>1. AccountHolds(accounts[a], grants[a])
      BY AccountablePerAccount DEF IInv
    <3> QED
      BY <2>3, <3>1 DEF AccountHolds, NoGrant
  <2> HIDE DEF acc
  <2>5. /\ UNCHANGED epoch /\ mints' \in [Mints -> MintState] /\ tx' \in Transactions
        /\ grants' = [grants EXCEPT ![a] = NoGrant]
    BY <1>1, <1>2, SignedType DEF SetAccountOwner
  <2> QED
    BY <2>1, <2>2, <2>4, <2>5, NoGrantType, AccountStep
<1>3. ASSUME NEW a \in Accounts, NEW new \in MaybeKey,
             SetAccountCloseAuthority(a, new, k, ctx)
      PROVE  IInv'
  <2> DEFINE acc == [accounts[a] EXCEPT !.close_authority = new]
  <2>1. acc \in AccountState
    BY <1>1 DEF AccountState
  <2>2. accounts' = [accounts EXCEPT ![a] = acc]
    BY <1>1, <1>3 DEF SetAccountCloseAuthority
  <2>3. /\ acc.delegate = accounts[a].delegate /\ acc.owner = accounts[a].owner
        /\ acc.delegated_amount = accounts[a].delegated_amount
        /\ acc.withheld_amount = accounts[a].withheld_amount
        /\ accounts[a].exts \subseteq acc.exts
    BY <1>1 DEF AccountState
  <2>4. UNCHANGED <<epoch, grants>> /\ mints' \in [Mints -> MintState] /\ tx' \in Transactions
    BY <1>3, SignedType DEF SetAccountCloseAuthority, IInv, TypeOK
  <2> HIDE DEF acc
  <2> QED
    BY <1>1, <2>1, <2>2, <2>3, <2>4, SettingStep
<1>4. ASSUME NEW a \in Accounts, CloseTokenAccount(a, k, ctx) PROVE IInv'
  <2>1. AccountHolds(BlankAccount, NoGrant)
    BY DEF AccountHolds, BlankAccount, NoGrant
  <2>2. UNCHANGED epoch /\ mints' \in [Mints -> MintState] /\ tx' \in Transactions
    BY <1>1, <1>4, SignedType DEF CloseTokenAccount
  <2> QED
    BY <1>4, <2>1, <2>2, BlankAccountType, NoGrantType, AccountStep DEF CloseTokenAccount
<1> QED
  BY <1>2, <1>3, <1>4 DEF ChangeAccount

LEMMA GuardIInv ==
  ASSUME IInv, NEW k \in Keys, NEW ctx \in Contexts, Guard(k, ctx)
  PROVE  IInv'
<1>1. accounts \in [Accounts -> AccountState]
  BY DEF IInv, TypeOK
<1>2. ASSUME NEW a \in Accounts, NEW enable \in BOOLEAN,
             ToggleRequiredMemoTransfers(a, enable, k, ctx)
      PROVE  IInv'
  <2> DEFINE acc == [accounts[a] EXCEPT !.require_incoming_transfer_memos = enable]
  <2>1. acc \in AccountState
    BY <1>1 DEF AccountState
  <2>2. accounts' = [accounts EXCEPT ![a] = acc]
    BY <1>1, <1>2 DEF ToggleRequiredMemoTransfers
  <2>3. /\ acc.delegate = accounts[a].delegate /\ acc.owner = accounts[a].owner
        /\ acc.delegated_amount = accounts[a].delegated_amount
        /\ acc.withheld_amount = accounts[a].withheld_amount
        /\ accounts[a].exts \subseteq acc.exts
    BY <1>1 DEF AccountState
  <2>4. UNCHANGED <<epoch, grants>> /\ mints' \in [Mints -> MintState] /\ tx' \in Transactions
    BY <1>2, SignedType DEF ToggleRequiredMemoTransfers, IInv, TypeOK
  <2> HIDE DEF acc
  <2> QED
    BY <2>1, <2>2, <2>3, <2>4, SettingStep
<1>3. ASSUME NEW a \in Accounts, NEW enable \in BOOLEAN,
             ToggleCpiGuard(a, enable, k, ctx)
      PROVE  IInv'
  <2> DEFINE acc == [accounts[a] EXCEPT !.lock_cpi = enable]
  <2>1. acc \in AccountState
    BY <1>1 DEF AccountState
  <2>2. accounts' = [accounts EXCEPT ![a] = acc]
    BY <1>1, <1>3 DEF ToggleCpiGuard
  <2>3. /\ acc.delegate = accounts[a].delegate /\ acc.owner = accounts[a].owner
        /\ acc.delegated_amount = accounts[a].delegated_amount
        /\ acc.withheld_amount = accounts[a].withheld_amount
        /\ accounts[a].exts \subseteq acc.exts
    BY <1>1 DEF AccountState
  <2>4. UNCHANGED <<epoch, grants>> /\ mints' \in [Mints -> MintState] /\ tx' \in Transactions
    BY <1>3, SignedType DEF ToggleCpiGuard, IInv, TypeOK
  <2> HIDE DEF acc
  <2> QED
    BY <2>1, <2>2, <2>3, <2>4, SettingStep
<1> QED
  BY <1>2, <1>3 DEF Guard

LEMMA FreezeIInv ==
  ASSUME IInv, NEW k \in Keys, NEW ctx \in Contexts, Freeze(k, ctx)
  PROVE  IInv'
<1>1. /\ accounts \in [Accounts -> AccountState] /\ mints \in [Mints -> MintState]
      /\ epoch \in 0 .. MaxEpoch
  BY DEF IInv, TypeOK
<1>2. ASSUME NEW m \in Mints, NEW state \in {"Initialized", "Frozen"},
             UpdateDefaultAccountState(m, state, k, ctx)
      PROVE  IInv'
  <2>1. mints' \in [Mints -> MintState]
    BY <1>1, <1>2 DEF UpdateDefaultAccountState, MintState
  <2> QED
    BY <1>1, <1>2, <2>1, SignedType, MintStep DEF UpdateDefaultAccountState
<1>3. ASSUME NEW m \in Mints, NEW to \in {"Initialized", "Frozen"}, NEW a \in Accounts,
             ToggleFreezeAccount(a, m, to, k, ctx)
      PROVE  IInv'
  <2> DEFINE acc == [accounts[a] EXCEPT !.state = to]
  <2>1. acc \in AccountState
    BY <1>1 DEF AccountState
  <2>2. accounts' = [accounts EXCEPT ![a] = acc]
    BY <1>1, <1>3 DEF ToggleFreezeAccount
  <2>3. /\ acc.delegate = accounts[a].delegate /\ acc.owner = accounts[a].owner
        /\ acc.delegated_amount = accounts[a].delegated_amount
        /\ acc.withheld_amount = accounts[a].withheld_amount
        /\ accounts[a].exts \subseteq acc.exts
    BY <1>1 DEF AccountState
  <2>4. UNCHANGED <<epoch, grants>> /\ mints' \in [Mints -> MintState] /\ tx' \in Transactions
    BY <1>3, SignedType DEF ToggleFreezeAccount, IInv, TypeOK
  <2> HIDE DEF acc
  <2> QED
    BY <2>1, <2>2, <2>3, <2>4, SettingStep
<1> QED
  BY <1>2, <1>3 DEF Freeze

(***************************************************************************)
(* Instructions that move tokens.  A debit that MayDebit allows keeps the  *)
(* account well typed and is paid for out of the approval, if it is the    *)
(* delegate who debits.                                                    *)
(***************************************************************************)
LEMMA DebitHolds ==
  ASSUME NEW acc \in AccountState, NEW g \in Grants, AccountHolds(acc, g),
         NEW k \in Keys, NEW amount \in U64, NEW permanent, NEW ctx,
         MayDebit(acc, k, amount, permanent, ctx), acc.amount >= amount
  PROVE  LET acc2 == [ChargeAllowance(acc, k, amount, permanent)
                        EXCEPT !.amount = @ - amount]
             g2   == IF AsDelegate(acc, k, permanent)
                     THEN [g EXCEPT !.spent = @ + amount] ELSE g
         IN  acc2 \in AccountState /\ g2 \in Grants /\ AccountHolds(acc2, g2)
<1>1. /\ acc.amount - amount \in U64
      /\ acc.delegated_amount \in U64 /\ g.amount \in U64 /\ g.spent \in U64
      /\ acc.delegate \in MaybeKey
  BY FeeAssumption DEF AccountState, U64, Grants
<1>2. CASE AsDelegate(acc, k, permanent)
  <2>1. acc.delegated_amount >= amount /\ acc.delegate # None
    BY <1>2, ConstantFacts DEF MayDebit, AsDelegate
  <2>2. g.by = acc.owner /\ acc.delegated_amount = g.amount - g.spent
    BY <2>1 DEF AccountHolds
  <2>3. /\ acc.delegated_amount - amount \in U64
        /\ g.spent + amount \in U64
        /\ g.spent + amount <= g.amount
        /\ acc.delegated_amount - amount = g.amount - (g.spent + amount)
    BY <1>1, <2>1, <2>2, FeeAssumption DEF U64
  <2> DEFINE d    == IF acc.delegated_amount = amount THEN None ELSE acc.delegate
             acc1 == [acc EXCEPT !.delegated_amount = acc.delegated_amount - amount,
                                 !.delegate = d]
             acc2 == [acc1 EXCEPT !.amount = @ - amount]
             g2   == [g EXCEPT !.spent = g.spent + amount]
  <2>4. d \in MaybeKey
    BY <1>1 DEF MaybeKey
  <2> HIDE DEF d
  <2>5. acc1 \in AccountState /\ acc1.amount = acc.amount
    BY <2>3, <2>4 DEF AccountState
  <2>6. acc2 \in AccountState
    BY <1>1, <2>5 DEF AccountState
  <2>7. acc2.owner = acc.owner /\ acc2.delegated_amount = acc.delegated_amount - amount
    BY DEF AccountState
  <2>8. g2 \in Grants
    BY <2>3 DEF Grants
  <2>9. g2.spent = g.spent + amount /\ g2.amount = g.amount /\ g2.by = g.by
    BY DEF Grants
  <2>10. AccountHolds(acc2, g2)
    BY <2>2, <2>3, <2>7, <2>9 DEF AccountHolds
  <2> QED
    BY <1>2, <2>6, <2>8, <2>10 DEF ChargeAllowance, d
<1>3. CASE ~AsDelegate(acc, k, permanent)
  <2> DEFINE acc2 == [acc EXCEPT !.amount = @ - amount]
  <2>1. acc2 \in AccountState
    BY <1>1 DEF AccountState
  <2>2. /\ acc2.delegate = acc.delegate /\ acc2.owner = acc.owner
        /\ acc2.delegated_amount = acc.delegated_amount
    BY DEF AccountState
  <2>3. AccountHolds(acc2, g)
    BY <2>2 DEF AccountHolds
  <2> QED
    BY <1>3, <2>1, <2>3 DEF ChargeAllowance
<1> QED
  BY <1>2, <1>3

LEMMA TransferIInv ==
  ASSUME IInv, NEW k \in Keys, NEW ctx \in Contexts, NEW s \in Accounts,
         NEW d \in Accounts, NEW amount \in U64, NEW m \in Mints \cup {None},
         Transfer(s, d, amount, k, m, ctx)
  PROVE  IInv'
<1> DEFINE src == accounts[s]
           dst == accounts[d]
           fee == TransferFeeFor(m, amount)
           permanent == PermanentDelegateFor(m)
           src2 == [ChargeAllowance(src, k, amount, permanent) EXCEPT !.amount = @ - amount]
           dst2 == [dst EXCEPT !.amount = @ + (amount - fee),
                               !.withheld_amount = @ + fee]
           g2 == IF AsDelegate(src, k, permanent)
                 THEN [grants[s] EXCEPT !.spent = @ + amount] ELSE grants[s]
<1>1. /\ mints \in [Mints -> MintState] /\ epoch \in U64
      /\ accounts \in [Accounts -> AccountState] /\ grants \in [Accounts -> Grants]
  BY ConstantFacts DEF IInv, TypeOK, Grants
<1>2. src \in AccountState /\ dst \in AccountState /\ grants[s] \in Grants
  BY <1>1
<1>3. AccountHolds(src, grants[s]) /\ AccountHolds(dst, grants[d])
  BY AccountablePerAccount DEF IInv
<1>4. /\ s # d
      /\ MayTransfer(s, amount, k, m, ctx)
      /\ dst.amount + (amount - fee) \in U64
      /\ fee > 0 => /\ "TransferFeeAmount" \in dst.exts
                    /\ dst.withheld_amount + fee \in U64
      /\ accounts' = [accounts EXCEPT ![s] = src2, ![d] = dst2]
      /\ RecordSpending(s, k, amount, permanent)
      /\ Signed(k, ctx)
      /\ UNCHANGED <<mints, epoch>>
  BY DEF Transfer
<1>5. fee \in U64
  <2>1. fee # NoAmount
    BY <1>4 DEF MayTransfer
  <2>2. CASE m # None /\ has_fee_config(m)
    <3>1. mints[m].fees \in FeePairs
      BY <1>1, <2>2 DEF MintState
    <3> QED
      BY <1>1, <2>1, <2>2, <3>1, FeeType DEF TransferFeeFor
  <2>3. CASE ~(m # None /\ has_fee_config(m))
    BY <2>3, ConstantFacts DEF TransferFeeFor
  <2> QED
    BY <2>2, <2>3
<1>6. src2 \in AccountState /\ g2 \in Grants /\ AccountHolds(src2, g2)
  <2>1. MayDebit(src, k, amount, permanent, ctx) /\ src.amount >= amount
    BY <1>4 DEF MayTransfer
  <2> QED
    BY <1>2, <1>3, <2>1, DebitHolds
<1>7. dst2 \in AccountState
  <2> HIDE DEF fee, dst
  <2>1. dst.withheld_amount \in U64
    BY <1>2 DEF AccountState
  <2>2. dst.withheld_amount + fee \in U64
    BY <1>4, <1>5, <2>1, FeeAssumption DEF U64
  <2> QED
    BY <1>2, <1>4, <2>2 DEF AccountState
<1>8. /\ dst2.delegate = dst.delegate /\ dst2.owner = dst.owner
      /\ dst2.delegated_amount = dst.delegated_amount
      /\ dst2.withheld_amount = dst.withheld_amount + fee /\ dst2.exts = dst.exts
      /\ dst.withheld_amount \in U64
  BY <1>2 DEF AccountState
<1>9. AccountHolds(dst2, grants[d])
  <2> HIDE DEF dst, dst2, fee
  <2>1. dst2.withheld_amount > 0 => "TransferFeeAmount" \in dst2.exts
    BY <1>3, <1>4, <1>5, <1>8, ConstantFacts DEF AccountHolds
  <2> QED
    BY <1>3, <1>8, <2>1 DEF AccountHolds
<1>10. grants' = [grants EXCEPT ![s] = g2]
  BY <1>1, <1>4 DEF RecordSpending
<1> HIDE DEF src2, dst2, g2
<1>11. accounts' \in [Accounts -> AccountState] /\ grants' \in [Accounts -> Grants]
  BY <1>1, <1>4, <1>6, <1>7, <1>10
<1>12. \A a \in Accounts : AccountHolds(accounts'[a], grants'[a])
  <2>1. /\ accounts'[s] = src2 /\ accounts'[d] = dst2
        /\ \A a \in Accounts \ {s, d} : accounts'[a] = accounts[a]
    BY <1>1, <1>4
  <2>2. grants'[s] = g2 /\ \A a \in Accounts \ {s} : grants'[a] = grants[a]
    BY <1>1, <1>10
  <2> QED
    BY <1>4, <1>6, <1>9, <2>1, <2>2, AccountablePerAccount DEF IInv
<1>13. tx' \in Transactions
  BY <1>4, SignedType
<1> QED
  BY <1>4, <1>11, <1>12, <1>13, AccountablePerAccount DEF IInv, TypeOK, Grants, Transactions

LEMMA MoveIInv ==
  ASSUME IInv, NEW k \in Keys, NEW ctx \in Contexts, Move(k, ctx)
  PROVE  IInv'
<1>1. /\ mints \in [Mints -> MintState] /\ epoch \in 0 .. MaxEpoch
      /\ accounts \in [Accounts -> AccountState] /\ grants \in [Accounts -> Grants]
  BY DEF IInv, TypeOK, Grants
<1>2. ASSUME NEW a \in Accounts, NEW amount \in U64, NEW m \in Mints \cup {None},
             SelfTransfer(a, amount, k, m, ctx)
      PROVE  IInv'
  BY <1>1, <1>2, SignedType, MintStep DEF SelfTransfer
<1>3. ASSUME NEW a \in Accounts, NEW amount \in U64, NEW m \in Mints,
             MintTo(m, a, amount, k, ctx)
      PROVE  IInv'
  <2> DEFINE acc == [accounts[a] EXCEPT !.amount = @ + amount]
  <2>1. acc \in AccountState
    BY <1>1, <1>3 DEF MintTo, AccountState
  <2>2. accounts' = [accounts EXCEPT ![a] = acc]
    BY <1>1, <1>3 DEF MintTo
  <2>3. /\ acc.delegate = accounts[a].delegate /\ acc.owner = accounts[a].owner
        /\ acc.delegated_amount = accounts[a].delegated_amount
        /\ acc.withheld_amount = accounts[a].withheld_amount
        /\ accounts[a].exts \subseteq acc.exts
    BY <1>1 DEF AccountState
  <2>4. mints' \in [Mints -> MintState]
    <3>1. /\ mints[m] \in MintState /\ mints[m].supply + amount \in U64
          /\ mints' = [mints EXCEPT ![m] =
                         [mints[m] EXCEPT !.supply = mints[m].supply + amount]]
      BY <1>1, <1>3 DEF MintTo
    <3> QED
      BY <1>1, <3>1, MintAmountsType
  <2>5. UNCHANGED <<epoch, grants>> /\ tx' \in Transactions
    BY <1>3, SignedType DEF MintTo
  <2> HIDE DEF acc
  <2> QED
    BY <2>1, <2>2, <2>3, <2>4, <2>5, SettingStep
<1>4. ASSUME NEW a \in Accounts, NEW amount \in U64, NEW m \in Mints,
             Burn(a, m, amount, k, ctx)
      PROVE  IInv'
  <2> DEFINE src == accounts[a]
             permanent == get_permanent_delegate(m)
             acc == [(IF is_owned_by_system_program_or_incinerator(src) THEN src
                      ELSE ChargeAllowance(src, k, amount, permanent))
                       EXCEPT !.amount = @ - amount]
  <2>1. mints' \in [Mints -> MintState]
    <3>1. mints[m].supply - amount \in U64
      BY <1>1, <1>4, FeeAssumption DEF Burn, MintState, U64
    <3>2. /\ mints[m] \in MintState
          /\ mints' = [mints EXCEPT ![m] =
                         [mints[m] EXCEPT !.supply = mints[m].supply - amount]]
      BY <1>1, <1>4 DEF Burn
    <3> QED
      BY <1>1, <3>1, <3>2, MintAmountsType
  <2>2. UNCHANGED epoch /\ tx' \in Transactions
    BY <1>4, SignedType DEF Burn
  <2>3. accounts' = [accounts EXCEPT ![a] = acc] /\ src.amount >= amount
    BY <1>4 DEF Burn
  <2>4. src \in AccountState /\ grants[a] \in Grants /\ AccountHolds(src, grants[a])
    BY <1>1, AccountablePerAccount DEF IInv
  <2>5. CASE is_owned_by_system_program_or_incinerator(src)
    <3>1. acc = [src EXCEPT !.amount = @ - amount]
      BY <2>5
    <3>2. src.amount - amount \in U64
      BY <2>3, <2>4, FeeAssumption DEF AccountState, U64
    <3>3. acc \in AccountState
      BY <2>4, <3>1, <3>2 DEF AccountState
    <3>4. /\ acc.delegate = src.delegate /\ acc.owner = src.owner
          /\ acc.delegated_amount = src.delegated_amount
          /\ acc.withheld_amount = src.withheld_amount /\ src.exts \subseteq acc.exts
      BY <2>4, <3>1 DEF AccountState
    <3>5. UNCHANGED grants
      BY <1>4, <2>5 DEF Burn
    <3> HIDE DEF acc
    <3> QED
      BY <2>1, <2>2, <2>3, <3>3, <3>4, <3>5, SettingStep
  <2>6. CASE ~is_owned_by_system_program_or_incinerator(src)
    <3> DEFINE g2 == IF AsDelegate(src, k, permanent)
                     THEN [grants[a] EXCEPT !.spent = @ + amount] ELSE grants[a]
               src2 == [ChargeAllowance(src, k, amount, permanent)
                          EXCEPT !.amount = @ - amount]
    <3>1. acc = src2
      BY <2>6
    <3>2. MayDebit(src, k, amount, permanent, ctx)
      BY <1>4, <2>6 DEF Burn
    <3>3. src2 \in AccountState /\ g2 \in Grants /\ AccountHolds(src2, g2)
      BY <2>3, <2>4, <3>2, DebitHolds
    <3>4. grants' = [grants EXCEPT ![a] = g2]
      BY <1>1, <1>4, <2>6 DEF Burn, RecordSpending
    <3> HIDE DEF acc, src2, g2
    <3> QED
      BY <2>1, <2>2, <2>3, <3>1, <3>3, <3>4, AccountStep
  <2> QED
    BY <2>5, <2>6
<1> QED
  BY <1>2, <1>3, <1>4, TransferIInv DEF Move

(***************************************************************************)
(* Instructions that collect fees.                                         *)
(***************************************************************************)
LEMMA EmptyWithheldHolds ==
  ASSUME IInv, NEW S
  PROVE  /\ EmptyWithheld(S) \in [Accounts -> AccountState]
         /\ \A a \in Accounts : AccountHolds(EmptyWithheld(S)[a], grants[a])
<1>1. \A a \in Accounts : accounts[a] \in AccountState /\ AccountHolds(accounts[a], grants[a])
  BY AccountablePerAccount DEF IInv, TypeOK
<1>2. ASSUME NEW a \in Accounts
      PROVE  LET acc == [accounts[a] EXCEPT !.withheld_amount = 0]
             IN  acc \in AccountState /\ AccountHolds(acc, grants[a])
  <2> DEFINE acc == [accounts[a] EXCEPT !.withheld_amount = 0]
  <2>1. acc \in AccountState
    BY <1>1, ConstantFacts DEF AccountState
  <2>2. /\ acc.delegate = accounts[a].delegate /\ acc.owner = accounts[a].owner
        /\ acc.delegated_amount = accounts[a].delegated_amount
        /\ acc.withheld_amount = 0
    BY <1>1 DEF AccountState
  <2> QED
    BY <1>1, <2>1, <2>2 DEF AccountHolds
<1> QED
  BY <1>1, <1>2 DEF EmptyWithheld

LEMMA HarvestIInv == IInv /\ Harvest => IInv'
<1> SUFFICES ASSUME IInv, Harvest PROVE IInv'
  OBVIOUS
<1>1. PICK m \in Mints, from \in SUBSET Accounts : HarvestWithheldTokensToMint(m, from)
  BY DEF Harvest
<1> DEFINE S == harvestable(from, m)
           total == mints[m].withheld_amount + WithheldIn(S)
<1>2. /\ accounts' = EmptyWithheld(S) /\ UNCHANGED <<epoch, tx, grants>>
      /\ mints' = [mints EXCEPT ![m].withheld_amount = total]
      /\ total \in U64
  BY <1>1 DEF HarvestWithheldTokensToMint
<1> HIDE DEF S, total
<1>3. mints' \in [Mints -> MintState]
  <2>1. /\ mints \in [Mints -> MintState] /\ mints[m] \in MintState
        /\ mints' = [mints EXCEPT ![m] = [mints[m] EXCEPT !.withheld_amount = total]]
    BY <1>2 DEF IInv, TypeOK
  <2> QED
    BY <1>2, <2>1, MintAmountsType
<1>4. Accountable'
  BY <1>2, EmptyWithheldHolds, AccountablePerAccount
<1> QED
  BY <1>2, <1>3, <1>4, EmptyWithheldHolds DEF IInv, TypeOK

LEMMA CollectFeesIInv ==
  ASSUME IInv, NEW k \in Keys, NEW ctx \in Contexts, CollectFees(k, ctx)
  PROVE  IInv'
<1>1. /\ mints \in [Mints -> MintState] /\ accounts \in [Accounts -> AccountState]
      /\ grants \in [Accounts -> Grants]
  BY DEF IInv, TypeOK, Grants
<1>2. ASSUME NEW m \in Mints, NEW d \in Accounts,
             WithdrawWithheldTokensFromMint(m, d, k, ctx)
      PROVE  IInv'
  <2> DEFINE acc == [accounts[d] EXCEPT !.amount = @ + mints[m].withheld_amount]
  <2>1. acc \in AccountState
    BY <1>1, <1>2 DEF WithdrawWithheldTokensFromMint, AccountState
  <2>2. accounts' = [accounts EXCEPT ![d] = acc]
    BY <1>1, <1>2 DEF WithdrawWithheldTokensFromMint
  <2>3. /\ acc.delegate = accounts[d].delegate /\ acc.owner = accounts[d].owner
        /\ acc.delegated_amount = accounts[d].delegated_amount
        /\ acc.withheld_amount = accounts[d].withheld_amount
        /\ accounts[d].exts \subseteq acc.exts
    BY <1>1 DEF AccountState
  <2>4. mints' \in [Mints -> MintState]
    <3>1. /\ mints[m] \in MintState
          /\ mints' = [mints EXCEPT ![m] = [mints[m] EXCEPT !.withheld_amount = 0]]
      BY <1>1, <1>2 DEF WithdrawWithheldTokensFromMint
    <3> QED
      BY <1>1, <3>1, ConstantFacts, MintAmountsType
  <2>5. UNCHANGED <<epoch, grants>> /\ tx' \in Transactions
    BY <1>2, SignedType DEF WithdrawWithheldTokensFromMint
  <2> HIDE DEF acc
  <2> QED
    BY <2>1, <2>2, <2>3, <2>4, <2>5, SettingStep
<1>3. ASSUME NEW m \in Mints, NEW d \in Accounts, NEW from \in SUBSET Accounts,
             WithdrawWithheldTokensFromAccounts(m, d, from, k, ctx)
      PROVE  IInv'
  <2> DEFINE S == harvestable(from, m)
             total == accounts[d].amount + WithheldIn(S)
             E == EmptyWithheld(S)
             acc == [E[d] EXCEPT !.amount = total]
  <2>1. /\ accounts' = [E EXCEPT ![d].amount = total]
        /\ UNCHANGED <<mints, epoch, grants>> /\ total \in U64 /\ Signed(k, ctx)
    BY <1>3 DEF WithdrawWithheldTokensFromAccounts
  <2> HIDE DEF total
  <2>2. /\ E[d] \in AccountState /\ E \in [Accounts -> AccountState]
        /\ \A a \in Accounts : AccountHolds(E[a], grants[a])
    BY EmptyWithheldHolds
  <2>3. accounts' = [E EXCEPT ![d] = acc]
    BY <2>1
  <2> HIDE DEF E
  <2>4. /\ acc \in AccountState
        /\ acc.delegate = E[d].delegate /\ acc.owner = E[d].owner
        /\ acc.delegated_amount = E[d].delegated_amount
        /\ acc.withheld_amount = E[d].withheld_amount /\ acc.exts = E[d].exts
    BY <2>1, <2>2 DEF AccountState
  <2>5. AccountHolds(acc, grants[d])
    BY <2>2, <2>4 DEF AccountHolds
  <2> HIDE DEF acc
  <2>6. accounts' \in [Accounts -> AccountState]
    BY <2>2, <2>3, <2>4
  <2>7. accounts'[d] = acc /\ \A a \in Accounts \ {d} : accounts'[a] = E[a]
    BY <2>2, <2>3
  <2>8. Accountable'
    BY <2>1, <2>2, <2>5, <2>7, AccountablePerAccount
  <2>9. tx' \in Transactions
    BY <2>1, SignedType
  <2> QED
    BY <2>1, <2>6, <2>8, <2>9 DEF IInv, TypeOK, Transactions
<1> QED
  BY <1>2, <1>3 DEF CollectFees

-----------------------------------------------------------------------------
LEMMA NextIInv == IInv /\ [Next]_vars => IInv'
<1> SUFFICES ASSUME IInv, [Next]_vars PROVE IInv'
  OBVIOUS
<1>1. CASE InitMints
  BY <1>1, InitMintsIInv
<1>2. CASE InitAccounts
  BY <1>2, InitAccountsIInv
<1>3. CASE Harvest
  BY <1>3, HarvestIInv
<1>4. CASE AdvanceEpoch
  BY <1>4, AdvanceEpochIInv
<1>5. ASSUME NEW k \in Keys, NEW ctx \in Contexts,
             \/ Move(k, ctx)
             \/ Delegate(k, ctx)
             \/ ChangeAccount(k, ctx)
             \/ Guard(k, ctx)
             \/ ChangeMint(k, ctx)
             \/ Freeze(k, ctx)
             \/ CollectFees(k, ctx)
             \/ ChangeFees(k, ctx)
      PROVE  IInv'
  BY <1>5, MoveIInv, DelegateIInv, ChangeAccountIInv, GuardIInv, ChangeMintIInv,
     FreezeIInv, CollectFeesIInv, ChangeFeesIInv
<1>6. CASE UNCHANGED vars
  BY <1>6 DEF vars, IInv, TypeOK, Accountable, AllowanceRespected, WithheldMarked
<1> QED
  BY <1>1, <1>2, <1>3, <1>4, <1>5, <1>6 DEF Next

(***************************************************************************)
(* Type correctness: every balance, supply, withheld amount and allowance  *)
(* stays a u64, every schedule within the basis-point limit.               *)
(***************************************************************************)
THEOREM TypeCorrect == Spec => []TypeOK
<1>1. IInv => TypeOK
  BY DEF IInv
<1> QED
  BY <1>1, InitIInv, NextIInv, PTL DEF Spec

(***************************************************************************)
(* No sequence of instructions, by any number of keys, lets a delegate     *)
(* spend more than the owner approved, or keeps a delegate that the        *)
(* present owner did not approve.                                          *)
(***************************************************************************)
THEOREM DelegatesBounded == Spec => []AllowanceRespected
<1>1. IInv => AllowanceRespected
  BY DEF IInv, Accountable
<1> QED
  BY <1>1, InitIInv, NextIInv, PTL DEF Spec

(***************************************************************************)
(* What FrozenInert allows to happen to a frozen account a.                *)
(***************************************************************************)
FrozenStep(a) ==
  \/ /\ accounts'[a].state = "Frozen"
     /\ \A f \in {"mint", "owner", "amount", "delegate",
                  "delegated_amount", "close_authority", "exts"} :
          accounts'[a][f] = accounts[a][f]
     /\ accounts'[a].withheld_amount <= accounts[a].withheld_amount
  \/ /\ accounts'[a].state = "Initialized"
     /\ tx'.by = mints[accounts[a].mint].authority["FreezeAccount"]
  \/ /\ accounts'[a].state = "Uninitialized"
     /\ accounts[a].amount + accounts[a].withheld_amount = 0

LEMMA FrozenSame ==
  ASSUME TypeOK, NEW a \in Accounts, accounts[a].state = "Frozen",
         accounts'[a] = accounts[a]
  PROVE  FrozenStep(a)
<1>1. accounts[a].withheld_amount \in Nat
  BY ConstantFacts DEF TypeOK, AccountState
<1> QED
  BY <1>1 DEF FrozenStep

\* The instructions that require an Initialized account pass a frozen one by.
LEMMA FrozenPassedBy ==
  ASSUME TypeOK, NEW k \in Keys, NEW ctx \in Contexts, NEW a \in Accounts,
         accounts[a].state = "Frozen",
         Move(k, ctx) \/ Delegate(k, ctx) \/ ChangeMint(k, ctx) \/ ChangeFees(k, ctx)
  PROVE  accounts'[a] = accounts[a]
<1>1. accounts \in [Accounts -> AccountState]
  BY DEF TypeOK
<1>2. CASE Move(k, ctx)
  <2>1. ASSUME NEW s \in Accounts, NEW d \in Accounts, NEW amount \in U64,
               NEW m \in Mints \cup {None}, Transfer(s, d, amount, k, m, ctx)
        PROVE  accounts'[a] = accounts[a]
    <3>1. accounts[s].state = "Initialized" /\ accounts[d].state = "Initialized"
      BY <2>1 DEF Transfer, MayTransfer, MayReceive
    <3>2. a # s /\ a # d
      BY <3>1
    <3> QED
      BY <1>1, <2>1, <3>2 DEF Transfer
  <2>2. ASSUME NEW s \in Accounts, NEW amount \in U64, NEW m \in Mints,
               MintTo(m, s, amount, k, ctx) \/ Burn(s, m, amount, k, ctx)
        PROVE  accounts'[a] = accounts[a]
    <3>1. accounts[s].state = "Initialized"
      BY <2>2 DEF MintTo, Burn
    <3>2. a # s
      BY <3>1
    <3> QED
      BY <1>1, <2>2, <3>2 DEF MintTo, Burn
  <2> QED
    BY <1>2, <2>1, <2>2 DEF Move, SelfTransfer
<1>3. CASE Delegate(k, ctx)
  BY <1>1, <1>3 DEF Delegate, Approve, Revoke
<1>4. CASE ChangeMint(k, ctx) \/ ChangeFees(k, ctx)
  BY <1>4 DEF ChangeMint, ChangeFees, SetMintAuthority, CloseMint, SetTransferFee
<1> QED
  BY <1>2, <1>3, <1>4

\* So do the instructions that create mints and accounts, and the clock.
LEMMA FrozenUnsigned ==
  ASSUME TypeOK, NEW a \in Accounts, accounts[a].state = "Frozen",
         InitMints \/ InitAccounts \/ AdvanceEpoch
  PROVE  accounts'[a] = accounts[a]
<1>1. accounts \in [Accounts -> AccountState]
  BY DEF TypeOK
<1>2. CASE InitMints
  <2>1. \A m, ext, mint : InitExtension(m, ext, mint) => accounts' = accounts
    BY DEF InitExtension
  <2>2. \A m, km, kf : InitializeMint(m, km, kf) => accounts' = accounts
    BY DEF InitializeMint
  <2>3. accounts' = accounts
    BY <1>2, <2>1, <2>2, Zenon
       DEF InitMints, InitializeMintCloseAuthority, InitializePermanentDelegate,
           InitializeNonTransferableMint, InitializeDefaultAccountState,
           InitializeTransferFeeConfig
  <2> QED
    BY <2>3
<1>3. CASE InitAccounts
  BY <1>1, <1>3 DEF InitAccounts, InitializeImmutableOwner, InitializeAccount
<1>4. CASE AdvanceEpoch
  BY <1>4 DEF AdvanceEpoch
<1> QED
  BY <1>2, <1>3, <1>4

\* The ones that do not look at the state of the account.
LEMMA FrozenTouched ==
  ASSUME IInv, NEW k \in Keys, NEW ctx \in Contexts, NEW a \in Accounts,
         accounts[a].state = "Frozen",
         ChangeAccount(k, ctx) \/ Guard(k, ctx) \/ Freeze(k, ctx)
  PROVE  FrozenStep(a)
<1>1. accounts \in [Accounts -> AccountState] /\ TypeOK
  BY DEF IInv, TypeOK
<1>2. accounts[a] \in AccountState /\ accounts[a].withheld_amount \in Nat
  BY <1>1, ConstantFacts DEF AccountState
<1>3. ASSUME NEW b \in Accounts, NEW new,
             SetAccountOwner(b, new, k, ctx) \/ SetAccountCloseAuthority(b, new, k, ctx)
      PROVE  FrozenStep(a)
  <2>1. a # b
    BY <1>3 DEF SetAccountOwner, SetAccountCloseAuthority
  <2>2. accounts'[a] = accounts[a]
    BY <1>1, <1>3, <2>1 DEF SetAccountOwner, SetAccountCloseAuthority
  <2> QED
    BY <1>1, <2>2, FrozenSame
<1>4. ASSUME NEW b \in Accounts, CloseTokenAccount(b, k, ctx) PROVE FrozenStep(a)
  <2>1. CASE a = b
    <3>1. accounts'[a] = BlankAccount
      BY <1>1, <1>4, <2>1 DEF CloseTokenAccount
    <3>2. closable(accounts[a])
      BY <1>4, <2>1 DEF CloseTokenAccount
    <3>3. accounts[a].withheld_amount > 0 => "TransferFeeAmount" \in accounts[a].exts
      BY DEF IInv, Accountable, WithheldMarked
    <3>4. accounts[a].amount = 0 /\ accounts[a].withheld_amount = 0
      BY <1>2, <3>2, <3>3 DEF closable
    <3> QED
      BY <3>1, <3>4 DEF FrozenStep, BlankAccount
  <2>2. CASE a # b
    <3>1. accounts'[a] = accounts[a]
      BY <1>1, <1>4, <2>2 DEF CloseTokenAccount
    <3> QED
      BY <1>1, <3>1, FrozenSame
  <2> QED
    BY <2>1, <2>2
<1>5. ASSUME NEW b \in Accounts, NEW enable \in BOOLEAN,
             \/ ToggleRequiredMemoTransfers(b, enable, k, ctx)
             \/ ToggleCpiGuard(b, enable, k, ctx)
      PROVE  FrozenStep(a)
  <2>1. /\ accounts'[a].state = accounts[a].state
        /\ accounts'[a].mint = accounts[a].mint
        /\ accounts'[a].owner = accounts[a].owner
        /\ accounts'[a].amount = accounts[a].amount
        /\ accounts'[a].delegate = accounts[a].delegate
        /\ accounts'[a].delegated_amount = accounts[a].delegated_amount
        /\ accounts'[a].close_authority = accounts[a].close_authority
        /\ accounts'[a].exts = accounts[a].exts
        /\ accounts'[a].withheld_amount = accounts[a].withheld_amount
    BY <1>1, <1>2, <1>5 DEF ToggleRequiredMemoTransfers, ToggleCpiGuard, AccountState
  <2> QED
    BY <1>2, <2>1 DEF FrozenStep
<1>6. ASSUME NEW m \in Mints, NEW to \in {"Initialized", "Frozen"}, NEW b \in Accounts,
             ToggleFreezeAccount(b, m, to, k, ctx)
      PROVE  FrozenStep(a)
  <2>1. CASE a = b
    <3>1. accounts'[a].state = "Initialized"
      BY <1>1, <1>2, <1>6, <2>1 DEF ToggleFreezeAccount, AccountState
    <3>2. tx'.by = k /\ mints[accounts[a].mint].authority["FreezeAccount"] = k
      BY <1>6, <2>1 DEF ToggleFreezeAccount, Signed
    <3> QED
      BY <3>1, <3>2 DEF FrozenStep
  <2>2. CASE a # b
    <3>1. accounts'[a] = accounts[a]
      BY <1>1, <1>6, <2>2 DEF ToggleFreezeAccount
    <3> QED
      BY <1>1, <3>1, FrozenSame
  <2> QED
    BY <2>1, <2>2
<1>7. ASSUME NEW m \in Mints, NEW state, UpdateDefaultAccountState(m, state, k, ctx)
      PROVE  FrozenStep(a)
  BY <1>1, <1>7, FrozenSame DEF UpdateDefaultAccountState
<1> QED
  BY <1>3, <1>4, <1>5, <1>6, <1>7 DEF ChangeAccount, Guard, Freeze

\* Harvesting takes withheld fees out of frozen accounts, and nothing else.
LEMMA FrozenHarvested ==
  ASSUME TypeOK, NEW a \in Accounts, accounts[a].state = "Frozen", NEW S,
         accounts'[a] = EmptyWithheld(S)[a]
  PROVE  FrozenStep(a)
<1>1. accounts[a] \in AccountState /\ accounts[a].withheld_amount \in Nat
  BY ConstantFacts DEF TypeOK, AccountState
<1>2. CASE accounts'[a] = accounts[a]
  BY <1>2, FrozenSame
<1>3. CASE accounts'[a] = [accounts[a] EXCEPT !.withheld_amount = 0]
  <2>1. /\ accounts'[a].state = accounts[a].state
        /\ accounts'[a].mint = accounts[a].mint
        /\ accounts'[a].owner = accounts[a].owner
        /\ accounts'[a].amount = accounts[a].amount
        /\ accounts'[a].delegate = accounts[a].delegate
        /\ accounts'[a].delegated_amount = accounts[a].delegated_amount
        /\ accounts'[a].close_authority = accounts[a].close_authority
        /\ accounts'[a].exts = accounts[a].exts
        /\ accounts'[a].withheld_amount = 0
    BY <1>1, <1>3 DEF AccountState
  <2> QED
    BY <1>1, <2>1 DEF FrozenStep
<1> QED
  BY <1>2, <1>3 DEF EmptyWithheld

(***************************************************************************)
(* A frozen account is inert against every instruction of anyone; only the *)
(* freeze authority of its mint thaws it, and it is closed only empty      *)
(* (check_account_frozen in the handlers of processor.rs, closable in      *)
(* process_close_account).                                                 *)
(***************************************************************************)
THEOREM FrozenStaysInert == Spec => FrozenInert
<1>1. ASSUME IInv, Next, NEW a \in Accounts, accounts[a].state = "Frozen"
      PROVE  FrozenStep(a)
  <2>0. TypeOK /\ accounts \in [Accounts -> AccountState]
    BY <1>1 DEF IInv, TypeOK
  <2>1. CASE Harvest
    <3>1. PICK m \in Mints, from \in SUBSET Accounts :
            HarvestWithheldTokensToMint(m, from)
      BY <2>1 DEF Harvest
    <3>2. accounts' = EmptyWithheld(harvestable(from, m))
      BY <3>1 DEF HarvestWithheldTokensToMint
    <3> QED
      BY <1>1, <2>0, <3>2, FrozenHarvested
  <2>2. ASSUME NEW k \in Keys, NEW ctx \in Contexts, CollectFees(k, ctx)
        PROVE  FrozenStep(a)
    <3>1. ASSUME NEW m \in Mints, NEW d \in Accounts,
                 WithdrawWithheldTokensFromMint(m, d, k, ctx)
          PROVE  FrozenStep(a)
      <4>1. a # d
        BY <1>1, <3>1 DEF WithdrawWithheldTokensFromMint
      <4>2. accounts'[a] = accounts[a]
        BY <2>0, <3>1, <4>1 DEF WithdrawWithheldTokensFromMint
      <4> QED
        BY <1>1, <2>0, <4>2, FrozenSame
    <3>2. ASSUME NEW m \in Mints, NEW d \in Accounts, NEW from \in SUBSET Accounts,
                 WithdrawWithheldTokensFromAccounts(m, d, from, k, ctx)
          PROVE  FrozenStep(a)
      <4> DEFINE S == harvestable(from, m)
                 total == accounts[d].amount + WithheldIn(S)
      <4>1. a # d
        BY <1>1, <3>2 DEF WithdrawWithheldTokensFromAccounts
      <4>2. accounts' = [EmptyWithheld(S) EXCEPT ![d].amount = total]
        BY <3>2 DEF WithdrawWithheldTokensFromAccounts
      <4> HIDE DEF S, total
      <4>3. accounts'[a] = EmptyWithheld(S)[a]
        BY <4>1, <4>2 DEF EmptyWithheld
      <4> QED
        BY <1>1, <2>0, <4>3, FrozenHarvested
    <3> QED
      BY <2>2, <3>1, <3>2 DEF CollectFees
  <2>3. ASSUME NEW k \in Keys, NEW ctx \in Contexts,
               Move(k, ctx) \/ Delegate(k, ctx) \/ ChangeMint(k, ctx) \/ ChangeFees(k, ctx)
        PROVE  FrozenStep(a)
    BY <1>1, <2>0, <2>3, FrozenPassedBy, FrozenSame
  <2>4. ASSUME NEW k \in Keys, NEW ctx \in Contexts,
               ChangeAccount(k, ctx) \/ Guard(k, ctx) \/ Freeze(k, ctx)
        PROVE  FrozenStep(a)
    BY <1>1, <2>4, FrozenTouched
  <2>5. CASE InitMints \/ InitAccounts \/ AdvanceEpoch
    BY <1>1, <2>0, <2>5, FrozenUnsigned, FrozenSame
  <2> QED
    BY <1>1, <2>1, <2>2, <2>3, <2>4, <2>5 DEF Next
<1>2. IInv /\ [Next]_vars
        => [\A a \in Accounts : accounts[a].state = "Frozen" => FrozenStep(a)]_vars
  BY <1>1
<1>3. Spec => []IInv
  BY InitIInv, NextIInv, PTL DEF Spec
<1> QED
  BY <1>2, <1>3, PTL DEF Spec, FrozenInert, FrozenStep

-----------------------------------------------------------------------------
(***************************************************************************)
(* The inductive invariant behind SupplyConserved.  WithheldMarked (see    *)
(* IInv above) makes closing an account sound; an account that is not open *)
(* must hold nothing, or opening it would destroy it, and so must a mint,  *)
(* whose withheld amount InitializeTransferFeeConfig resets.               *)
(***************************************************************************)
UnopenedEmpty ==
  \A a \in Accounts : accounts[a].state = "Uninitialized" =>
    /\ accounts[a].mint = None
    /\ accounts[a].amount = 0
    /\ accounts[a].withheld_amount = 0

UnmintedEmpty ==
  \A m \in Mints : ~mints[m].is_initialized => mints[m].supply = 0

LInv == IInv /\ UnopenedEmpty /\ UnmintedEmpty /\ SupplyConserved

\* What an account contributes to the holdings of m.
Share(acc, m) == IF acc.mint = m THEN acc.amount + acc.withheld_amount ELSE 0

\* The part of a mint that has to match the accounts.
Issued(mint) == mint.supply - mint.withheld_amount

-----------------------------------------------------------------------------
LEMMA StateFacts ==
  ASSUME TypeOK
  PROVE  /\ accounts \in [Accounts -> AccountState] /\ mints \in [Mints -> MintState]
         /\ \A a \in Accounts : /\ accounts[a].amount \in Nat
                                /\ accounts[a].withheld_amount \in Nat
                                /\ accounts[a].delegated_amount \in Nat
         /\ \A m \in Mints : mints[m].supply \in Nat /\ mints[m].withheld_amount \in Nat
BY ConstantFacts DEF TypeOK, AccountState, MintState

\* The functions that are totalled.
LEMMA ShareFacts ==
  ASSUME TypeOK, NEW m \in Mints
  PROVE  /\ \A a \in Accounts : AmountsOf(m)[a] \in Nat /\ FeesOf(m)[a] \in Nat
         /\ \A a \in Accounts : AmountsOf(m)[a] + FeesOf(m)[a] = Share(accounts[a], m)
         /\ Total(AmountsOf(m), Accounts) \in Nat /\ Total(FeesOf(m), Accounts) \in Nat
<1>1. \A a \in Accounts : AmountsOf(m)[a] \in Nat /\ FeesOf(m)[a] \in Nat
  BY StateFacts DEF AmountsOf, FeesOf
<1>2. \A a \in Accounts : AmountsOf(m)[a] + FeesOf(m)[a] = Share(accounts[a], m)
  BY StateFacts DEF AmountsOf, FeesOf, Share
<1>3. IsFiniteSet(Accounts)
  BY TokenAssumption
<1>4. /\ \A a \in Accounts : AmountsOf(m)[a] \in Nat
      /\ \A a \in Accounts : FeesOf(m)[a] \in Nat
  BY <1>1
<1>5. Total(AmountsOf(m), Accounts) \in Nat /\ Total(FeesOf(m), Accounts) \in Nat
  BY <1>3, <1>4, TotalType, Zenon
<1> QED
  BY <1>1, <1>2, <1>5

LEMMA ShareFactsNext ==
  ASSUME TypeOK', NEW m \in Mints
  PROVE  /\ \A a \in Accounts : AmountsOf(m)'[a] \in Nat /\ FeesOf(m)'[a] \in Nat
         /\ \A a \in Accounts : AmountsOf(m)'[a] + FeesOf(m)'[a] = Share(accounts'[a], m)
         /\ mints'[m].supply \in Nat /\ mints'[m].withheld_amount \in Nat
<1>1. \A a \in Accounts : accounts'[a].amount \in Nat /\ accounts'[a].withheld_amount \in Nat
  BY ConstantFacts DEF TypeOK, AccountState
<1>2. mints'[m].supply \in Nat /\ mints'[m].withheld_amount \in Nat
  BY ConstantFacts DEF TypeOK, MintState
<1> QED
  BY <1>1, <1>2 DEF AmountsOf, FeesOf, Share

(***************************************************************************)
(* Steps that leave the accounts alone, change one of them, or change two: *)
(* supply is conserved if what the mints have issued changes as much as    *)
(* what these accounts hold.                                               *)
(***************************************************************************)
LEMMA NoneConserves ==
  ASSUME LInv, UNCHANGED accounts, \A m \in Mints : Issued(mints'[m]) = Issued(mints[m]),
         TypeOK'
  PROVE  SupplyConserved'
<1> SUFFICES ASSUME NEW m \in Mints PROVE mints'[m].supply = Holdings(m)'
  BY DEF SupplyConserved
<1>1. TypeOK /\ mints[m].supply = Holdings(m)
  BY DEF LInv, IInv, SupplyConserved
<1>2. AmountsOf(m)' = AmountsOf(m) /\ FeesOf(m)' = FeesOf(m)
  BY DEF AmountsOf, FeesOf
<1>3. /\ Total(AmountsOf(m), Accounts) \in Nat /\ Total(FeesOf(m), Accounts) \in Nat
      /\ mints[m].supply \in Nat /\ mints[m].withheld_amount \in Nat
      /\ mints'[m].supply \in Nat /\ mints'[m].withheld_amount \in Nat
  BY <1>1, StateFacts, ShareFacts, ShareFactsNext
<1>4. Issued(mints'[m]) = Issued(mints[m])
  OBVIOUS
<1> QED
  BY <1>1, <1>2, <1>3, <1>4 DEF Holdings, Issued

LEMMA OneConserves ==
  ASSUME LInv, TypeOK', NEW a \in Accounts,
         \A b \in Accounts \ {a} : accounts'[b] = accounts[b],
         \A m \in Mints : Issued(mints'[m]) - Share(accounts'[a], m)
                            = Issued(mints[m]) - Share(accounts[a], m)
  PROVE  SupplyConserved'
<1> SUFFICES ASSUME NEW m \in Mints PROVE mints'[m].supply = Holdings(m)'
  BY DEF SupplyConserved
<1>1. TypeOK /\ mints[m].supply = Holdings(m) /\ IsFiniteSet(Accounts)
  BY TokenAssumption DEF LInv, IInv, SupplyConserved
<1> DEFINE f == AmountsOf(m)
           f1 == AmountsOf(m)'
           g == FeesOf(m)
           g1 == FeesOf(m)'
<1>2. \A b \in Accounts \ {a} : f1[b] = f[b] /\ g1[b] = g[b]
  BY DEF AmountsOf, FeesOf
<1>3. /\ \A b \in Accounts : f[b] \in Nat /\ g[b] \in Nat /\ f1[b] \in Nat /\ g1[b] \in Nat
      /\ f[a] + g[a] = Share(accounts[a], m) /\ f1[a] + g1[a] = Share(accounts'[a], m)
      /\ Total(f, Accounts) \in Nat /\ Total(g, Accounts) \in Nat
      /\ mints[m].supply \in Nat /\ mints[m].withheld_amount \in Nat
      /\ mints'[m].supply \in Nat /\ mints'[m].withheld_amount \in Nat
  BY <1>1, StateFacts, ShareFacts, ShareFactsNext
<1>4. Holdings(m) = mints[m].withheld_amount + Total(f, Accounts) + Total(g, Accounts)
  BY DEF Holdings
<1>5. Holdings(m)' = mints'[m].withheld_amount + Total(f1, Accounts) + Total(g1, Accounts)
  BY DEF Holdings
<1> HIDE DEF f, f1, g, g1
<1>6. Total(f1, Accounts) = Total(f, Accounts) - f[a] + f1[a]
  BY <1>1, <1>2, <1>3, TotalUpdate
<1>7. Total(g1, Accounts) = Total(g, Accounts) - g[a] + g1[a]
  BY <1>1, <1>2, <1>3, TotalUpdate
<1>8. Issued(mints'[m]) - Share(accounts'[a], m) = Issued(mints[m]) - Share(accounts[a], m)
  OBVIOUS
<1> QED
  BY <1>1, <1>3, <1>4, <1>5, <1>6, <1>7, <1>8 DEF Issued

LEMMA TwoConserve ==
  ASSUME LInv, TypeOK', UNCHANGED mints, NEW a \in Accounts, NEW d \in Accounts, a # d,
         \A b \in Accounts \ {a, d} : accounts'[b] = accounts[b],
         \A m \in Mints : Share(accounts'[a], m) + Share(accounts'[d], m)
                            = Share(accounts[a], m) + Share(accounts[d], m)
  PROVE  SupplyConserved'
<1> SUFFICES ASSUME NEW m \in Mints PROVE mints'[m].supply = Holdings(m)'
  BY DEF SupplyConserved
<1>1. TypeOK /\ mints[m].supply = Holdings(m) /\ IsFiniteSet(Accounts)
  BY TokenAssumption DEF LInv, IInv, SupplyConserved
<1> DEFINE f == AmountsOf(m)
           f1 == AmountsOf(m)'
           g == FeesOf(m)
           g1 == FeesOf(m)'
<1>2. \A b \in Accounts \ {a, d} : f1[b] = f[b] /\ g1[b] = g[b]
  BY DEF AmountsOf, FeesOf
<1>3. /\ \A b \in Accounts : f[b] \in Nat /\ g[b] \in Nat /\ f1[b] \in Nat /\ g1[b] \in Nat
      /\ f[a] + g[a] = Share(accounts[a], m) /\ f1[a] + g1[a] = Share(accounts'[a], m)
      /\ f[d] + g[d] = Share(accounts[d], m) /\ f1[d] + g1[d] = Share(accounts'[d], m)
      /\ Total(f, Accounts) \in Nat /\ Total(g, Accounts) \in Nat
      /\ mints[m].withheld_amount \in Nat /\ mints'[m].supply = mints[m].supply
  BY <1>1, StateFacts, ShareFacts, ShareFactsNext
<1>4. Holdings(m) = mints[m].withheld_amount + Total(f, Accounts) + Total(g, Accounts)
  BY DEF Holdings
<1>5. Holdings(m)' = mints[m].withheld_amount + Total(f1, Accounts) + Total(g1, Accounts)
  BY DEF Holdings
<1> HIDE DEF f, f1, g, g1
<1>6. Total(f1, Accounts) = Total(f, Accounts) - f[a] - f[d] + f1[a] + f1[d]
  BY <1>1, <1>2, <1>3, TotalUpdateTwo
<1>7. Total(g1, Accounts) = Total(g, Accounts) - g[a] - g[d] + g1[a] + g1[d]
  BY <1>1, <1>2, <1>3, TotalUpdateTwo
<1>8. /\ f[a] \in Int /\ g[a] \in Int /\ f1[a] \in Int /\ g1[a] \in Int
      /\ f[d] \in Int /\ g[d] \in Int /\ f1[d] \in Int /\ g1[d] \in Int
      /\ Total(f, Accounts) \in Int /\ Total(g, Accounts) \in Int
  BY <1>3
<1>9. f1[a] + g1[a] + (f1[d] + g1[d]) = f[a] + g[a] + (f[d] + g[d])
  <2>1. Share(accounts'[a], m) + Share(accounts'[d], m)
          = Share(accounts[a], m) + Share(accounts[d], m)
    OBVIOUS
  <2> QED
    BY <1>3, <2>1, Zenon
<1>10. Total(f1, Accounts) + Total(g1, Accounts) = Total(f, Accounts) + Total(g, Accounts)
  BY <1>6, <1>7, <1>8, <1>9
<1>11. Total(f1, Accounts) \in Int /\ Total(g1, Accounts) \in Int
  BY <1>6, <1>7, <1>8
<1>12. mints[m].withheld_amount \in Int /\ mints'[m].supply = mints[m].supply
  BY <1>3
<1> QED
  BY <1>1, <1>4, <1>5, <1>8, <1>10, <1>11, <1>12

(***************************************************************************)
(* Harvesting: what the accounts in S withheld is no longer withheld by    *)
(* any account of their mint, and no other mint notices.                   *)
(***************************************************************************)
LEMMA HarvestedFees ==
  ASSUME TypeOK, NEW n \in Mints, NEW S, S \subseteq AccountsOf(n), NEW m \in Mints,
         \A a \in Accounts :
           /\ accounts'[a].mint = accounts[a].mint
           /\ accounts'[a].withheld_amount =
                IF a \in S THEN 0 ELSE accounts[a].withheld_amount
  PROVE  /\ Total(FeesOf(m)', Accounts)
              = Total(FeesOf(m), Accounts) - (IF m = n THEN WithheldIn(S) ELSE 0)
         /\ WithheldIn(S) \in Nat
<1>1. S \subseteq Accounts /\ IsFiniteSet(Accounts) /\ \A a \in S : accounts[a].mint = n
  BY TokenAssumption DEF AccountsOf
<1> DEFINE g == FeesOf(m)
           g1 == FeesOf(m)'
           w == [a \in Accounts |-> accounts[a].withheld_amount]
<1>2. /\ \A a \in Accounts : g[a] \in Nat
      /\ \A a \in Accounts : w[a] \in Nat
  BY StateFacts DEF FeesOf
<1>3. WithheldIn(S) \in Nat
  <2>1. Total(w, S) \in Nat
    BY <1>1, <1>2, TotalPart
  <2> QED
    BY <2>1 DEF WithheldIn
<1>4. CASE m # n
  <2>1. \A a \in Accounts : g1[a] = g[a]
    BY <1>1, <1>4, StateFacts DEF FeesOf
  <2> HIDE DEF g, g1, w
  <2>2. Total(g1, Accounts) = Total(g, Accounts)
    BY <2>1, TotalSame
  <2>3. Total(g, Accounts) \in Nat
    BY <1>1, <1>2, TotalType
  <2> QED
    BY <1>3, <1>4, <2>2, <2>3 DEF g, g1
<1>5. CASE m = n
  <2>1. /\ \A a \in S : g1[a] = 0 /\ g[a] = w[a]
        /\ \A a \in Accounts \ S : g1[a] = g[a]
        /\ \A a \in Accounts : g1[a] \in Nat
    BY <1>1, <1>5, StateFacts DEF FeesOf
  <2>2. WithheldIn(S) = Total(w, S)
    BY DEF WithheldIn
  <2> HIDE DEF g, g1, w
  <2>3. /\ S \subseteq Accounts /\ IsFiniteSet(Accounts)
        /\ \A a \in Accounts : g[a] \in Nat
    BY <1>1, <1>2
  <2>7. Total(g, Accounts) = Total(g, S) + Total(g, Accounts \ S)
    BY <2>3, TotalPart
  <2>8. Total(g, Accounts \ S) \in Nat
    BY <2>3, TotalPart
  <2>4. Total(g1, Accounts) = Total(g1, S) + Total(g1, Accounts \ S)
    BY <1>1, <2>1, TotalPart
  <2>5. Total(g1, S) = 0
    BY <2>1, TotalZero
  <2>6. Total(g, S) = Total(w, S) /\ Total(g1, Accounts \ S) = Total(g, Accounts \ S)
    BY <2>1, TotalSame
  <2> QED
    BY <1>3, <1>5, <2>2, <2>7, <2>8, <2>4, <2>5, <2>6 DEF g, g1
<1> QED
  BY <1>3, <1>4, <1>5

LEMMA HarvestableFacts ==
  ASSUME TypeOK, NEW m \in Mints, NEW from \in SUBSET Accounts
  PROVE  /\ harvestable(from, m) \subseteq AccountsOf(m)
         /\ \A S : EmptyWithheld(S) \in [Accounts -> AccountState]
         /\ \A S : \A a \in Accounts :
              /\ EmptyWithheld(S)[a].mint = accounts[a].mint
              /\ EmptyWithheld(S)[a].amount = accounts[a].amount
              /\ EmptyWithheld(S)[a].withheld_amount =
                   IF a \in S THEN 0 ELSE accounts[a].withheld_amount
              /\ EmptyWithheld(S)[a].state = accounts[a].state
<1>1. harvestable(from, m) \subseteq AccountsOf(m)
  BY DEF harvestable, AccountsOf
<1>2. \A a \in Accounts : accounts[a] \in AccountState
  BY DEF TypeOK
<1>3. \A a \in Accounts : [accounts[a] EXCEPT !.withheld_amount = 0] \in AccountState
  BY <1>2, ConstantFacts DEF AccountState
<1>4. \A S : EmptyWithheld(S) \in [Accounts -> AccountState]
  BY <1>2, <1>3 DEF EmptyWithheld
<1> QED
  BY <1>1, <1>2, <1>4 DEF EmptyWithheld, AccountState

\* HarvestWithheldTokensToMint.
LEMMA HarvestConserves ==
  ASSUME LInv, TypeOK', NEW n \in Mints, NEW from \in SUBSET Accounts,
         HarvestWithheldTokensToMint(n, from)
  PROVE  SupplyConserved'
<1> SUFFICES ASSUME NEW m \in Mints PROVE mints'[m].supply = Holdings(m)'
  BY DEF SupplyConserved
<1> DEFINE S == harvestable(from, n)
<1>1. TypeOK /\ mints[m].supply = Holdings(m) /\ mints \in [Mints -> MintState]
  BY DEF LInv, IInv, SupplyConserved, TypeOK
<1>2. S \subseteq AccountsOf(n)
  BY <1>1, HarvestableFacts
<1>3. \A a \in Accounts :
        /\ accounts'[a].mint = accounts[a].mint
        /\ accounts'[a].amount = accounts[a].amount
        /\ accounts'[a].withheld_amount = IF a \in S THEN 0 ELSE accounts[a].withheld_amount
  BY <1>1, HarvestableFacts DEF HarvestWithheldTokensToMint
<1>4. mints' = [mints EXCEPT ![n].withheld_amount = mints[n].withheld_amount + WithheldIn(S)]
  BY DEF HarvestWithheldTokensToMint
<1> HIDE DEF S
<1>5. /\ mints'[m].supply = mints[m].supply
      /\ mints'[m].withheld_amount = IF m = n THEN mints[n].withheld_amount + WithheldIn(S)
                                              ELSE mints[m].withheld_amount
  BY <1>1, <1>4 DEF MintState
<1>6. /\ Total(FeesOf(m)', Accounts)
           = Total(FeesOf(m), Accounts) - (IF m = n THEN WithheldIn(S) ELSE 0)
      /\ WithheldIn(S) \in Nat
  BY <1>1, <1>2, <1>3, HarvestedFees
<1>7. AmountsOf(m)' = AmountsOf(m)
  BY <1>3 DEF AmountsOf
<1>8. /\ Total(AmountsOf(m), Accounts) \in Nat /\ Total(FeesOf(m), Accounts) \in Nat
      /\ mints[m].withheld_amount \in Nat /\ mints[n].withheld_amount \in Nat
  BY <1>1, StateFacts, ShareFacts
<1> QED
  BY <1>1, <1>5, <1>6, <1>7, <1>8 DEF Holdings

\* WithdrawWithheldTokensFromAccounts.
LEMMA WithdrawConserves ==
  ASSUME LInv, TypeOK', NEW n \in Mints, NEW d \in Accounts, NEW from \in SUBSET Accounts,
         NEW k, NEW ctx, WithdrawWithheldTokensFromAccounts(n, d, from, k, ctx)
  PROVE  SupplyConserved'
<1> SUFFICES ASSUME NEW m \in Mints PROVE mints'[m].supply = Holdings(m)'
  BY DEF SupplyConserved
<1> DEFINE S == harvestable(from, n)
           total == accounts[d].amount + WithheldIn(S)
<1>1. TypeOK /\ mints[m].supply = Holdings(m) /\ IsFiniteSet(Accounts)
  BY TokenAssumption DEF LInv, IInv, SupplyConserved
<1>2. S \subseteq AccountsOf(n) /\ accounts[d].mint = n
  BY <1>1, HarvestableFacts DEF WithdrawWithheldTokensFromAccounts
<1>3. /\ accounts' = [EmptyWithheld(S) EXCEPT ![d].amount = total]
      /\ UNCHANGED mints
  BY DEF WithdrawWithheldTokensFromAccounts
<1> HIDE DEF S
<1>4. \A a \in Accounts :
        /\ accounts'[a].mint = accounts[a].mint
        /\ accounts'[a].amount = IF a = d THEN total ELSE accounts[a].amount
        /\ accounts'[a].withheld_amount = IF a \in S THEN 0 ELSE accounts[a].withheld_amount
  <2>1. /\ EmptyWithheld(S) \in [Accounts -> AccountState]
        /\ \A a \in Accounts :
             /\ EmptyWithheld(S)[a].mint = accounts[a].mint
             /\ EmptyWithheld(S)[a].amount = accounts[a].amount
             /\ EmptyWithheld(S)[a].withheld_amount =
                   IF a \in S THEN 0 ELSE accounts[a].withheld_amount
    BY <1>1, HarvestableFacts
  <2> HIDE DEF total
  <2> QED
    BY <1>3, <2>1 DEF AccountState
<1>5. /\ Total(FeesOf(m)', Accounts)
           = Total(FeesOf(m), Accounts) - (IF m = n THEN WithheldIn(S) ELSE 0)
      /\ WithheldIn(S) \in Nat
  BY <1>1, <1>2, <1>4, HarvestedFees
<1> DEFINE f == AmountsOf(m)
           f1 == AmountsOf(m)'
<1>6. /\ \A a \in Accounts : f[a] \in Nat /\ f1[a] \in Nat
      /\ \A a \in Accounts \ {d} : f1[a] = f[a]
      /\ f1[d] - f[d] = IF m = n THEN WithheldIn(S) ELSE 0
  <2>1. accounts[d].amount \in Nat
    BY <1>1, StateFacts
  <2>2. \A a \in Accounts : f[a] \in Nat /\ f1[a] \in Nat
    BY <1>1, ShareFacts, ShareFactsNext
  <2> QED
    BY <1>2, <1>4, <1>5, <2>1, <2>2 DEF AmountsOf
<1>7. Total(f, Accounts) \in Nat /\ Total(FeesOf(m), Accounts) \in Nat
  BY <1>1, ShareFacts
<1>8. Holdings(m)' = mints[m].withheld_amount + Total(f1, Accounts) + Total(FeesOf(m)', Accounts)
  BY <1>3 DEF Holdings
<1>9. Holdings(m) = mints[m].withheld_amount + Total(f, Accounts) + Total(FeesOf(m), Accounts)
  BY DEF Holdings
<1> HIDE DEF f, f1
<1>10. Total(f1, Accounts) = Total(f, Accounts) - f[d] + f1[d]
  BY <1>1, <1>6, TotalUpdate
<1>11. mints[m].withheld_amount \in Nat
  BY <1>1, StateFacts
<1> QED
  BY <1>1, <1>3, <1>5, <1>6, <1>7, <1>8, <1>9, <1>10, <1>11

(***************************************************************************)
(* The steps of LInv: no account changes, one does, or two do.             *)
(***************************************************************************)
EmptyIfUnopened(acc) ==
  acc.state = "Uninitialized" =>
    /\ acc.mint = None
    /\ acc.amount = 0
    /\ acc.withheld_amount = 0

EmptyIfUnminted(mint) == ~mint.is_initialized => mint.supply = 0

LEMMA MintChange ==
  ASSUME LInv, IInv', UNCHANGED accounts,
         \A m \in Mints : /\ EmptyIfUnminted(mints'[m])
                          /\ Issued(mints'[m]) = Issued(mints[m])
  PROVE  LInv'
<1>1. SupplyConserved'
  BY NoneConserves DEF IInv
<1> QED
  BY <1>1 DEF LInv, UnopenedEmpty, UnmintedEmpty, EmptyIfUnminted

LEMMA AccountChange ==
  ASSUME LInv, IInv', NEW a \in Accounts, NEW acc,
         accounts' = [accounts EXCEPT ![a] = acc], EmptyIfUnopened(acc),
         \A m \in Mints : /\ EmptyIfUnminted(mints'[m])
                          /\ Issued(mints'[m]) - Share(acc, m)
                               = Issued(mints[m]) - Share(accounts[a], m)
  PROVE  LInv'
<1>1. accounts'[a] = acc /\ \A b \in Accounts \ {a} : accounts'[b] = accounts[b]
  BY DEF LInv, IInv, TypeOK
<1>2. SupplyConserved'
  BY <1>1, OneConserves DEF IInv
<1>3. UnopenedEmpty'
  BY <1>1 DEF LInv, UnopenedEmpty, EmptyIfUnopened
<1> QED
  BY <1>2, <1>3 DEF LInv, UnmintedEmpty, EmptyIfUnminted

\* A step that changes neither a mint nor the tokens of the account.
LEMMA SameTokens ==
  ASSUME LInv, IInv', UNCHANGED mints, NEW a \in Accounts, NEW acc,
         accounts' = [accounts EXCEPT ![a] = acc],
         acc.mint = accounts[a].mint, acc.amount = accounts[a].amount,
         acc.withheld_amount = accounts[a].withheld_amount,
         acc.state = "Uninitialized" => accounts[a].state = "Uninitialized"
  PROVE  LInv'
<1>1. EmptyIfUnopened(acc)
  BY DEF EmptyIfUnopened, LInv, UnopenedEmpty
<1>2. \A m \in Mints : EmptyIfUnminted(mints'[m]) /\ Issued(mints'[m]) = Issued(mints[m])
  BY DEF EmptyIfUnminted, LInv, UnmintedEmpty
<1>3. \A m \in Mints : Share(acc, m) = Share(accounts[a], m)
  BY DEF Share
<1> QED
  BY <1>1, <1>2, <1>3, AccountChange

\* An address that is not a mint has nothing to withhold.
LEMMA UnmintedWithholdsNothing ==
  ASSUME LInv, NEW m \in Mints, ~mints[m].is_initialized
  PROVE  mints[m].withheld_amount = 0
<1>1. mints[m].supply = 0 /\ mints[m].supply = Holdings(m) /\ TypeOK
  BY DEF LInv, IInv, UnmintedEmpty, SupplyConserved
<1>2. /\ Total(AmountsOf(m), Accounts) \in Nat /\ Total(FeesOf(m), Accounts) \in Nat
      /\ mints[m].withheld_amount \in Nat
  BY <1>1, StateFacts, ShareFacts
<1> QED
  BY <1>1, <1>2 DEF Holdings

(***************************************************************************)
(* Instructions that create or change mints only.                          *)
(***************************************************************************)
LEMMA OneMintChange ==
  ASSUME LInv, IInv', UNCHANGED accounts, NEW n \in Mints, NEW mint,
         mints' = [mints EXCEPT ![n] = mint], EmptyIfUnminted(mint),
         Issued(mint) = Issued(mints[n])
  PROVE  LInv'
<1>1. mints \in [Mints -> MintState]
  BY DEF LInv, IInv, TypeOK
<1>2. \A m \in Mints : EmptyIfUnminted(mints[m])
  BY DEF LInv, UnmintedEmpty, EmptyIfUnminted
<1>3. mints'[n] = mint /\ \A m \in Mints \ {n} : mints'[m] = mints[m]
  BY <1>1
<1> QED
  BY <1>2, <1>3, MintChange

LEMMA InitMintsLInv ==
  ASSUME LInv, IInv', InitMints
  PROVE  LInv'
<1>1. PICK n \in Mints :
        \/ \E k \in MaybeKey : InitializeMintCloseAuthority(n, k)
        \/ \E k \in Keys : InitializePermanentDelegate(n, k)
        \/ InitializeNonTransferableMint(n)
        \/ \E state \in {"Initialized", "Frozen"} : InitializeDefaultAccountState(n, state)
        \/ \E kc, kw \in MaybeKey, bps \in BasisPoints, max \in MaximumFees :
             InitializeTransferFeeConfig(n, kc, kw, bps, max)
        \/ \E km \in Keys, kf \in MaybeKey : InitializeMint(n, km, kf)
  BY DEF InitMints
<1>2. mints[n] \in MintState /\ mints \in [Mints -> MintState]
  BY DEF LInv, IInv, TypeOK
<1>3. EmptyIfUnminted(mints[n])
  BY DEF LInv, UnmintedEmpty, EmptyIfUnminted
<1>4. ASSUME NEW ext, NEW mint \in MintState, InitExtension(n, ext, mint),
             mint.supply = mints[n].supply, mint.withheld_amount = mints[n].withheld_amount
      PROVE  LInv'
  <2> DEFINE new == [mint EXCEPT !.exts = @ \cup {ext}]
  <2>1. new.supply = mint.supply /\ new.withheld_amount = mint.withheld_amount
    BY DEF MintState
  <2>2. mints' = [mints EXCEPT ![n] = new] /\ UNCHANGED accounts /\ ~mints[n].is_initialized
    BY <1>4 DEF InitExtension, CanExtend
  <2> HIDE DEF new
  <2>3. EmptyIfUnminted(new) /\ Issued(new) = Issued(mints[n])
    BY <1>3, <1>4, <2>1, <2>2 DEF EmptyIfUnminted, Issued
  <2> QED
    BY <2>2, <2>3, OneMintChange
<1>5. ASSUME NEW type \in MintAuthorityTypes, NEW k \in MaybeKey, NEW mint \in MintState
      PROVE  /\ [mint EXCEPT !.authority[type] = k] \in MintState
             /\ [mint EXCEPT !.authority[type] = k].supply = mint.supply
             /\ [mint EXCEPT !.authority[type] = k].withheld_amount = mint.withheld_amount
  <2>1. [mint.authority EXCEPT ![type] = k] \in [MintAuthorityTypes -> MaybeKey]
    BY DEF MintState
  <2> QED
    BY <2>1 DEF MintState
<1>6. ASSUME NEW k \in MaybeKey, InitializeMintCloseAuthority(n, k) PROVE LInv'
  <2> DEFINE mint == [mints[n] EXCEPT !.authority["CloseMint"] = k]
  <2>1. /\ mint \in MintState /\ mint.supply = mints[n].supply
        /\ mint.withheld_amount = mints[n].withheld_amount
    BY <1>2, <1>5 DEF MintAuthorityTypes
  <2>2. InitExtension(n, "MintCloseAuthority", mint)
    BY <1>6 DEF InitializeMintCloseAuthority
  <2> HIDE DEF mint
  <2> QED
    BY <1>4, <2>1, <2>2
<1>7. ASSUME NEW k \in Keys, InitializePermanentDelegate(n, k) PROVE LInv'
  <2> DEFINE mint == [mints[n] EXCEPT !.authority["PermanentDelegate"] = k]
  <2>1. /\ mint \in MintState /\ mint.supply = mints[n].supply
        /\ mint.withheld_amount = mints[n].withheld_amount
    BY <1>2, <1>5 DEF MintAuthorityTypes, MaybeKey
  <2>2. InitExtension(n, "PermanentDelegate", mint)
    BY <1>7 DEF InitializePermanentDelegate
  <2> HIDE DEF mint
  <2> QED
    BY <1>4, <2>1, <2>2
<1>8. CASE InitializeNonTransferableMint(n)
  BY <1>2, <1>4, <1>8 DEF InitializeNonTransferableMint
<1>9. ASSUME NEW state \in {"Initialized", "Frozen"},
             InitializeDefaultAccountState(n, state)
      PROVE  LInv'
  <2> DEFINE mint == [mints[n] EXCEPT !.default_state = state]
  <2>1. /\ mint \in MintState /\ mint.supply = mints[n].supply
        /\ mint.withheld_amount = mints[n].withheld_amount
    BY <1>2 DEF MintState
  <2>2. InitExtension(n, "DefaultAccountState", mint)
    BY <1>9 DEF InitializeDefaultAccountState
  <2> HIDE DEF mint
  <2> QED
    BY <1>4, <2>1, <2>2
<1>10. ASSUME NEW kc \in MaybeKey, NEW kw \in MaybeKey, NEW bps \in BasisPoints,
              NEW max \in MaximumFees,
              InitializeTransferFeeConfig(n, kc, kw, bps, max)
       PROVE  LInv'
  <2> DEFINE m1 == [mints[n] EXCEPT !.authority["TransferFeeConfig"] = kc]
             m2 == [m1 EXCEPT !.authority["WithheldWithdraw"] = kw]
             m3 == [m2 EXCEPT !.withheld_amount = 0,
                              !.fees = initial_fees(epoch, bps, max)]
  <2>1. m1 \in MintState /\ m1.supply = mints[n].supply
    BY <1>2, <1>5 DEF MintAuthorityTypes
  <2> HIDE DEF m1
  <2>2. m2 \in MintState /\ m2.supply = mints[n].supply
    BY <1>5, <2>1 DEF MintAuthorityTypes
  <2> USE DEF m1
  <2>3. InitExtension(n, "TransferFeeConfig", m3)
    BY <1>10 DEF InitializeTransferFeeConfig
  <2>4. ~mints[n].is_initialized
    BY <2>3 DEF InitExtension, CanExtend
  <2>5. mints[n].withheld_amount = 0
    BY <2>4, UnmintedWithholdsNothing
  <2>6. /\ bps \in 0 .. ONE_IN_BASIS_POINTS /\ epoch \in U64 /\ max \in U64
    BY <1>10, ConstantFacts, TokenAssumption, FeeAssumption
       DEF InitializeTransferFeeConfig, LInv, IInv, TypeOK
  <2>7. initial_fees(epoch, bps, max) \in FeePairs
    BY <2>6, InitialFeesType
  <2>8. m3 \in MintState /\ m3.supply = m2.supply /\ m3.withheld_amount = 0
    BY <2>2, <2>7, ConstantFacts DEF MintState
  <2> HIDE DEF m1, m2, m3
  <2> QED
    BY <1>4, <2>2, <2>3, <2>5, <2>8
<1>11. ASSUME NEW km \in Keys, NEW kf \in MaybeKey, InitializeMint(n, km, kf)
       PROVE  LInv'
  <2> DEFINE new == mints'[n]
  <2>1. mints' = [mints EXCEPT ![n] = new] /\ UNCHANGED accounts
    BY <1>2, <1>11 DEF InitializeMint, MintState
  <2>2. /\ new.supply = mints[n].supply /\ new.withheld_amount = mints[n].withheld_amount
        /\ new.is_initialized
    BY <1>2, <1>11 DEF InitializeMint, MintState
  <2> HIDE DEF new
  <2>3. EmptyIfUnminted(new) /\ Issued(new) = Issued(mints[n])
    BY <2>2 DEF EmptyIfUnminted, Issued
  <2> QED
    BY <2>1, <2>3, OneMintChange
<1> QED
  BY <1>1, <1>6, <1>7, <1>8, <1>9, <1>10, <1>11

LEMMA ChangeMintLInv ==
  ASSUME LInv, IInv', NEW k \in Keys, NEW ctx \in Contexts,
         ChangeMint(k, ctx) \/ ChangeFees(k, ctx)
  PROVE  LInv'
<1>1. mints \in [Mints -> MintState]
  BY DEF LInv, IInv, TypeOK
<1>2. \A m \in Mints : EmptyIfUnminted(mints[m])
  BY DEF LInv, UnmintedEmpty, EmptyIfUnminted
<1>3. ASSUME NEW n \in Mints, NEW type \in MintAuthorityTypes, NEW new \in MaybeKey,
             SetMintAuthority(n, type, new, k, ctx)
      PROVE  LInv'
  <2>1. UNCHANGED accounts /\ \A m \in Mints :
          /\ mints'[m].supply = mints[m].supply
          /\ mints'[m].withheld_amount = mints[m].withheld_amount
          /\ mints'[m].is_initialized = mints[m].is_initialized
    BY <1>1, <1>3 DEF SetMintAuthority, MintState
  <2>2. \A m \in Mints : EmptyIfUnminted(mints'[m]) /\ Issued(mints'[m]) = Issued(mints[m])
    BY <1>2, <2>1 DEF EmptyIfUnminted, Issued
  <2> QED
    BY <2>1, <2>2, MintChange
<1>4. ASSUME NEW n \in Mints, NEW bps, NEW max, SetTransferFee(n, bps, max, k, ctx)
      PROVE  LInv'
  <2>1. UNCHANGED accounts /\ \A m \in Mints :
          /\ mints'[m].supply = mints[m].supply
          /\ mints'[m].withheld_amount = mints[m].withheld_amount
          /\ mints'[m].is_initialized = mints[m].is_initialized
    BY <1>1, <1>4 DEF SetTransferFee, MintState
  <2>2. \A m \in Mints : EmptyIfUnminted(mints'[m]) /\ Issued(mints'[m]) = Issued(mints[m])
    BY <1>2, <2>1 DEF EmptyIfUnminted, Issued
  <2> QED
    BY <2>1, <2>2, MintChange
<1>5. ASSUME NEW n \in Mints, CloseMint(n, k, ctx) PROVE LInv'
  <2> DEFINE new == BlankMint(mints[n].incarnation)
  <2>1. /\ mints' = [mints EXCEPT ![n] = new] /\ UNCHANGED accounts
        /\ mints[n].supply = 0
    BY <1>5 DEF CloseMint
  <2>2. new.supply = 0 /\ new.withheld_amount = 0
    BY DEF BlankMint
  <2>3. mints[n].withheld_amount = 0
    <3>1. mints[n].supply = Holdings(n) /\ TypeOK
      BY DEF LInv, IInv, SupplyConserved
    <3>2. /\ Total(AmountsOf(n), Accounts) \in Nat /\ Total(FeesOf(n), Accounts) \in Nat
          /\ mints[n].withheld_amount \in Nat
      BY <3>1, StateFacts, ShareFacts
    <3> QED
      BY <2>1, <3>1, <3>2 DEF Holdings
  <2> HIDE DEF new
  <2>4. EmptyIfUnminted(new) /\ Issued(new) = Issued(mints[n])
    BY <2>1, <2>2, <2>3 DEF EmptyIfUnminted, Issued
  <2> QED
    BY <2>1, <2>4, OneMintChange
<1> QED
  BY <1>3, <1>4, <1>5 DEF ChangeMint, ChangeFees

(***************************************************************************)
(* Instructions on accounts.                                               *)
(***************************************************************************)
LEMMA InitAccountsLInv ==
  ASSUME LInv, IInv', InitAccounts
  PROVE  LInv'
<1>1. TypeOK /\ accounts \in [Accounts -> AccountState]
  BY DEF LInv, IInv, TypeOK
<1>2. ASSUME NEW a \in Accounts, InitializeImmutableOwner(a) PROVE LInv'
  <2> DEFINE acc == [accounts[a] EXCEPT !.exts = @ \cup {"ImmutableOwner"}]
  <2>1. accounts' = [accounts EXCEPT ![a] = acc] /\ UNCHANGED mints
    BY <1>2 DEF InitializeImmutableOwner
  <2>2. /\ acc.mint = accounts[a].mint /\ acc.amount = accounts[a].amount
        /\ acc.withheld_amount = accounts[a].withheld_amount
        /\ acc.state = accounts[a].state
    BY <1>1 DEF AccountState
  <2> HIDE DEF acc
  <2> QED
    BY <2>1, <2>2, SameTokens
<1>3. ASSUME NEW a \in Accounts, NEW n \in Mints, NEW owner \in Owners,
             InitializeAccount(a, n, owner)
      PROVE  LInv'
  <2> DEFINE acc == accounts'[a]
  <2>1. accounts' = [accounts EXCEPT ![a] = acc] /\ UNCHANGED mints
    BY <1>1, <1>3 DEF InitializeAccount
  <2>2. acc.amount = 0 /\ acc.withheld_amount = 0 /\ acc.state = mints[n].default_state
    BY <1>1, <1>3 DEF InitializeAccount, BlankAccount
  <2>3. mints[n].default_state # "Uninitialized"
    BY <1>1 DEF TypeOK, MintState
  <2>4. accounts[a].amount = 0 /\ accounts[a].withheld_amount = 0
    BY <1>3 DEF InitializeAccount, LInv, UnopenedEmpty
  <2>5. \A m \in Mints : Share(acc, m) = Share(accounts[a], m)
    BY <2>2, <2>4 DEF Share
  <2>6. EmptyIfUnopened(acc)
    BY <2>2, <2>3 DEF EmptyIfUnopened
  <2>7. \A m \in Mints : EmptyIfUnminted(mints'[m]) /\ Issued(mints'[m]) = Issued(mints[m])
    BY <2>1 DEF EmptyIfUnminted, LInv, UnmintedEmpty
  <2> HIDE DEF acc
  <2> QED
    BY <2>1, <2>5, <2>6, <2>7, AccountChange
<1> QED
  BY <1>2, <1>3 DEF InitAccounts

\* Paying the debit out of the allowance changes no tokens.
LEMMA ChargeKeepsTokens ==
  ASSUME NEW acc \in AccountState, NEW k, NEW amount, NEW permanent
  PROVE  LET new == ChargeAllowance(acc, k, amount, permanent)
         IN  /\ new.mint = acc.mint /\ new.owner = acc.owner /\ new.state = acc.state
             /\ new.amount = acc.amount /\ new.withheld_amount = acc.withheld_amount
             /\ new.lock_cpi = acc.lock_cpi /\ new.close_authority = acc.close_authority
             /\ new.exts = acc.exts
             /\ new.delegate \in {acc.delegate, None}
             /\ \A n : /\ [new EXCEPT !.amount = n].mint = acc.mint
                       /\ [new EXCEPT !.amount = n].owner = acc.owner
                       /\ [new EXCEPT !.amount = n].state = acc.state
                       /\ [new EXCEPT !.amount = n].amount = n
                       /\ [new EXCEPT !.amount = n].withheld_amount = acc.withheld_amount
                       /\ [new EXCEPT !.amount = n].lock_cpi = acc.lock_cpi
                       /\ [new EXCEPT !.amount = n].close_authority = acc.close_authority
                       /\ [new EXCEPT !.amount = n].exts = acc.exts
                       /\ [new EXCEPT !.amount = n].delegate = new.delegate
                       /\ [new EXCEPT !.amount = n].delegated_amount = new.delegated_amount
<1> DEFINE new == ChargeAllowance(acc, k, amount, permanent)
<1>1. \/ new = acc
      \/ new = [acc EXCEPT !.delegated_amount = @ - amount,
                           !.delegate = IF acc.delegated_amount = amount THEN None ELSE @]
  BY DEF ChargeAllowance
<1>2. CASE new = acc
  BY <1>2 DEF AccountState
<1>3. CASE new = [acc EXCEPT !.delegated_amount = @ - amount,
                             !.delegate = IF acc.delegated_amount = amount THEN None ELSE @]
  <2> HIDE DEF new
  <2> QED
    BY <1>3 DEF AccountState, new
<1> QED
  BY <1>1, <1>2, <1>3

LEMMA TransferEffect ==
  ASSUME TypeOK, NEW s \in Accounts, NEW d \in Accounts, NEW amount \in U64,
         NEW m \in Mints \cup {None}, NEW k \in Keys, NEW ctx \in Contexts,
         Transfer(s, d, amount, k, m, ctx)
  PROVE  LET fee == TransferFeeFor(m, amount)
         IN  /\ s # d /\ fee \in Nat /\ amount \in Nat /\ fee <= amount
             /\ accounts[s].state = "Initialized" /\ accounts[d].state = "Initialized"
             /\ accounts[d].mint = accounts[s].mint
             /\ accounts'[s].mint = accounts[s].mint
             /\ accounts'[s].state = accounts[s].state
             /\ accounts'[s].amount = accounts[s].amount - amount
             /\ accounts'[s].withheld_amount = accounts[s].withheld_amount
             /\ accounts'[s].exts = accounts[s].exts
             /\ accounts'[d].mint = accounts[d].mint
             /\ accounts'[d].state = accounts[d].state
             /\ accounts'[d].amount = accounts[d].amount + (amount - fee)
             /\ accounts'[d].withheld_amount = accounts[d].withheld_amount + fee
             /\ \A b \in Accounts \ {s, d} : accounts'[b] = accounts[b]
             /\ UNCHANGED mints
<1>1. accounts \in [Accounts -> AccountState] /\ accounts[s] \in AccountState
      /\ accounts[d] \in AccountState
  BY DEF TypeOK
<1> DEFINE fee == TransferFeeFor(m, amount)
           new == ChargeAllowance(accounts[s], k, amount, PermanentDelegateFor(m))
<1>2. /\ s # d /\ accounts[s].state = "Initialized" /\ accounts[d].state = "Initialized"
      /\ accounts[d].mint = accounts[s].mint /\ UNCHANGED mints
      /\ fee # NoAmount /\ amount - fee \in U64
      /\ m # None => mints[m] \in MintState
  BY TokenAssumption DEF Transfer, MayTransfer, MayReceive, TypeOK
<1>3. fee \in Nat
  <2>1. CASE m # None /\ has_fee_config(m)
    <3>1. mints[m].fees \in FeePairs /\ epoch \in U64
      BY <1>2, <2>1, ConstantFacts DEF MintState, TypeOK
    <3>2. fee = calculate_epoch_fee(mints[m].fees, epoch, amount)
      BY <2>1 DEF TransferFeeFor
    <3> HIDE DEF fee
    <3> QED
      BY <1>2, <3>1, <3>2, FeeType, ConstantFacts
  <2>2. CASE ~(m # None /\ has_fee_config(m))
    BY <2>2 DEF TransferFeeFor
  <2> QED
    BY <2>1, <2>2
<1>4. accounts' = [accounts EXCEPT
        ![s] = [new EXCEPT !.amount = @ - amount],
        ![d] = [accounts[d] EXCEPT !.amount = @ + (amount - fee),
                                   !.withheld_amount = @ + fee]]
  BY DEF Transfer
<1>5. /\ new.amount = accounts[s].amount
      /\ \A n : /\ [new EXCEPT !.amount = n].mint = accounts[s].mint
                /\ [new EXCEPT !.amount = n].state = accounts[s].state
                /\ [new EXCEPT !.amount = n].amount = n
                /\ [new EXCEPT !.amount = n].withheld_amount = accounts[s].withheld_amount
                /\ [new EXCEPT !.amount = n].exts = accounts[s].exts
  BY <1>1, ChargeKeepsTokens
<1>6. amount \in Nat /\ fee <= amount
  BY <1>2, <1>3, ConstantFacts
<1> HIDE DEF fee, new
<1>7. /\ accounts'[s] = [new EXCEPT !.amount = new.amount - amount]
      /\ accounts'[d] = [accounts[d] EXCEPT !.amount = accounts[d].amount + (amount - fee),
                                    !.withheld_amount = accounts[d].withheld_amount + fee]
      /\ \A b \in Accounts \ {s, d} : accounts'[b] = accounts[b]
  BY <1>1, <1>2, <1>4
<1>8. /\ accounts'[d].mint = accounts[d].mint /\ accounts'[d].state = accounts[d].state
      /\ accounts'[d].amount = accounts[d].amount + (amount - fee)
      /\ accounts'[d].withheld_amount = accounts[d].withheld_amount + fee
  BY <1>1, <1>7 DEF AccountState
<1>9. /\ accounts'[s].mint = accounts[s].mint /\ accounts'[s].state = accounts[s].state
      /\ accounts'[s].amount = accounts[s].amount - amount
      /\ accounts'[s].withheld_amount = accounts[s].withheld_amount
      /\ accounts'[s].exts = accounts[s].exts
  BY <1>5, <1>7
<1> QED
  BY <1>2, <1>3, <1>6, <1>7, <1>8, <1>9 DEF fee

LEMMA MintToEffect ==
  ASSUME TypeOK, NEW m \in Mints, NEW d \in Accounts, NEW amount \in U64,
         NEW k \in Keys, NEW ctx \in Contexts, MintTo(m, d, amount, k, ctx)
  PROVE  /\ accounts[d].state = "Initialized" /\ accounts[d].mint = m
         /\ mints[m].is_initialized
         /\ accounts' = [accounts EXCEPT ![d] =
                           [accounts[d] EXCEPT !.amount = accounts[d].amount + amount]]
         /\ mints' = [mints EXCEPT ![m] =
                        [mints[m] EXCEPT !.supply = mints[m].supply + amount]]
BY DEF MintTo, TypeOK

LEMMA BurnEffect ==
  ASSUME TypeOK, NEW m \in Mints, NEW s \in Accounts, NEW amount \in U64,
         NEW k \in Keys, NEW ctx \in Contexts, Burn(s, m, amount, k, ctx)
  PROVE  /\ accounts[s].state = "Initialized" /\ accounts[s].mint = m
         /\ mints[m].is_initialized
         /\ accounts[s].amount >= amount /\ mints[m].supply >= amount
         /\ accounts' = [accounts EXCEPT ![s] = accounts'[s]]
         /\ accounts'[s].mint = m /\ accounts'[s].state = accounts[s].state
         /\ accounts'[s].owner = accounts[s].owner /\ accounts'[s].exts = accounts[s].exts
         /\ accounts'[s].amount = accounts[s].amount - amount
         /\ accounts'[s].withheld_amount = accounts[s].withheld_amount
         /\ mints' = [mints EXCEPT ![m] =
                        [mints[m] EXCEPT !.supply = mints[m].supply - amount]]
<1> DEFINE charged == ChargeAllowance(accounts[s], k, amount, get_permanent_delegate(m))
           abandoned == is_owned_by_system_program_or_incinerator(accounts[s])
           new == [(IF abandoned THEN accounts[s] ELSE charged) EXCEPT !.amount = @ - amount]
<1>1. accounts \in [Accounts -> AccountState] /\ accounts[s] \in AccountState
  BY DEF TypeOK
<1>2. /\ accounts[s].state = "Initialized" /\ accounts[s].mint = m
      /\ mints[m].is_initialized
      /\ accounts[s].amount >= amount /\ mints[m].supply >= amount
      /\ accounts' = [accounts EXCEPT ![s] = new]
      /\ mints' = [mints EXCEPT ![m] =
                     [mints[m] EXCEPT !.supply = mints[m].supply - amount]]
  BY <1>1 DEF Burn, TypeOK
<1>3. accounts'[s] = new
  BY <1>1, <1>2
<1>4. /\ new.mint = accounts[s].mint /\ new.state = accounts[s].state
      /\ new.owner = accounts[s].owner /\ new.exts = accounts[s].exts
      /\ new.amount = accounts[s].amount - amount
      /\ new.withheld_amount = accounts[s].withheld_amount
  <2>1. CASE abandoned
    BY <1>1, <2>1 DEF AccountState
  <2>2. CASE ~abandoned
    <3>1. new = [charged EXCEPT !.amount = charged.amount - amount]
      BY <2>2
    <3>2. /\ charged.amount = accounts[s].amount
          /\ \A n : /\ [charged EXCEPT !.amount = n].mint = accounts[s].mint
                    /\ [charged EXCEPT !.amount = n].owner = accounts[s].owner
                    /\ [charged EXCEPT !.amount = n].exts = accounts[s].exts
                    /\ [charged EXCEPT !.amount = n].state = accounts[s].state
                    /\ [charged EXCEPT !.amount = n].amount = n
                    /\ [charged EXCEPT !.amount = n].withheld_amount
                          = accounts[s].withheld_amount
      BY <1>1, ChargeKeepsTokens
    <3> HIDE DEF charged, new
    <3> QED
      BY <3>1, <3>2
  <2> QED
    BY <2>1, <2>2
<1> HIDE DEF new
<1> QED
  BY <1>2, <1>3, <1>4

LEMMA MoveLInv ==
  ASSUME LInv, IInv', NEW k \in Keys, NEW ctx \in Contexts, Move(k, ctx)
  PROVE  LInv'
<1>1. TypeOK /\ accounts \in [Accounts -> AccountState] /\ mints \in [Mints -> MintState]
      /\ U64 \subseteq Nat
  BY ConstantFacts DEF LInv, IInv, TypeOK
<1>2. ASSUME NEW s \in Accounts, NEW d \in Accounts, NEW amount \in U64,
             NEW m \in Mints \cup {None}, Transfer(s, d, amount, k, m, ctx)
      PROVE  LInv'
  <2> DEFINE fee == TransferFeeFor(m, amount)
  <2>1. /\ s # d /\ fee \in Nat /\ amount \in Nat
        /\ accounts[s].state = "Initialized" /\ accounts[d].state = "Initialized"
        /\ accounts[d].mint = accounts[s].mint
        /\ accounts'[s].mint = accounts[s].mint /\ accounts'[s].state = accounts[s].state
        /\ accounts'[s].amount = accounts[s].amount - amount
        /\ accounts'[s].withheld_amount = accounts[s].withheld_amount
        /\ accounts'[d].mint = accounts[d].mint /\ accounts'[d].state = accounts[d].state
        /\ accounts'[d].amount = accounts[d].amount + (amount - fee)
        /\ accounts'[d].withheld_amount = accounts[d].withheld_amount + fee
        /\ \A b \in Accounts \ {s, d} : accounts'[b] = accounts[b]
        /\ UNCHANGED mints
    BY <1>1, <1>2, TransferEffect
  <2> HIDE DEF fee
  <2>2. /\ accounts[s].amount \in Nat /\ accounts[s].withheld_amount \in Nat
        /\ accounts[d].amount \in Nat /\ accounts[d].withheld_amount \in Nat
    BY <1>1, StateFacts
  <2>3. \A n \in Mints : Share(accounts'[s], n) + Share(accounts'[d], n)
                           = Share(accounts[s], n) + Share(accounts[d], n)
    BY <2>1, <2>2 DEF Share
  <2>4. SupplyConserved'
    BY <2>1, <2>3, TwoConserve DEF IInv
  <2>5. UnopenedEmpty'
    BY <2>1 DEF LInv, UnopenedEmpty
  <2> QED
    BY <2>1, <2>4, <2>5 DEF LInv, UnmintedEmpty
<1>3. ASSUME NEW m \in Mints, NEW d \in Accounts, NEW amount \in U64,
             MintTo(m, d, amount, k, ctx)
      PROVE  LInv'
  <2> DEFINE acc == [accounts[d] EXCEPT !.amount = accounts[d].amount + amount]
             mint == [mints[m] EXCEPT !.supply = mints[m].supply + amount]
  <2>1. /\ accounts[d].state = "Initialized" /\ accounts[d].mint = m
        /\ mints[m].is_initialized
        /\ accounts' = [accounts EXCEPT ![d] = acc] /\ mints' = [mints EXCEPT ![m] = mint]
    BY <1>1, <1>3, MintToEffect
  <2>2. /\ acc.mint = m /\ acc.amount = accounts[d].amount + amount
        /\ acc.withheld_amount = accounts[d].withheld_amount /\ acc.state = "Initialized"
        /\ mint.supply = mints[m].supply + amount
        /\ mint.withheld_amount = mints[m].withheld_amount /\ mint.is_initialized
    BY <1>1, <2>1 DEF AccountState, MintState
  <2> HIDE DEF acc, mint
  <2>3. mints'[m] = mint /\ \A n \in Mints \ {m} : mints'[n] = mints[n]
    BY <1>1, <2>1
  <2>4. EmptyIfUnopened(acc) /\ \A n \in Mints : EmptyIfUnminted(mints'[n])
    BY <2>2, <2>3 DEF EmptyIfUnopened, EmptyIfUnminted, LInv, UnmintedEmpty
  <2>5. /\ accounts[d].amount \in Nat /\ accounts[d].withheld_amount \in Nat
        /\ mints[m].supply \in Nat /\ mints[m].withheld_amount \in Nat /\ amount \in Nat
    BY <1>1, StateFacts
  <2>6. /\ Issued(mints'[m]) - Share(acc, m) = Issued(mints[m]) - Share(accounts[d], m)
        /\ \A n \in Mints \ {m} : Issued(mints'[n]) = Issued(mints[n])
        /\ \A n \in Mints \ {m} : Share(acc, n) = Share(accounts[d], n)
    BY <2>1, <2>2, <2>3, <2>5 DEF Issued, Share
  <2>7. \A n \in Mints : Issued(mints'[n]) - Share(acc, n)
                           = Issued(mints[n]) - Share(accounts[d], n)
    BY <2>6
  <2> QED
    BY <2>1, <2>4, <2>7, AccountChange
<1>4. ASSUME NEW m \in Mints, NEW s \in Accounts, NEW amount \in U64,
             Burn(s, m, amount, k, ctx)
      PROVE  LInv'
  <2> DEFINE acc == accounts'[s]
             mint == [mints[m] EXCEPT !.supply = mints[m].supply - amount]
  <2>1. /\ accounts[s].state = "Initialized" /\ accounts[s].mint = m
        /\ mints[m].is_initialized
        /\ accounts' = [accounts EXCEPT ![s] = acc] /\ mints' = [mints EXCEPT ![m] = mint]
        /\ acc.mint = m /\ acc.amount = accounts[s].amount - amount
        /\ acc.withheld_amount = accounts[s].withheld_amount
        /\ acc.state = accounts[s].state
    BY <1>1, <1>4, BurnEffect
  <2>2. /\ mint.supply = mints[m].supply - amount
        /\ mint.withheld_amount = mints[m].withheld_amount /\ mint.is_initialized
    BY <1>1, <2>1 DEF MintState
  <2> HIDE DEF acc, mint
  <2>3. mints'[m] = mint /\ \A n \in Mints \ {m} : mints'[n] = mints[n]
    BY <1>1, <2>1
  <2>4. EmptyIfUnopened(acc) /\ \A n \in Mints : EmptyIfUnminted(mints'[n])
    BY <2>1, <2>2, <2>3 DEF EmptyIfUnopened, EmptyIfUnminted, LInv, UnmintedEmpty
  <2>5. /\ accounts[s].amount \in Nat /\ accounts[s].withheld_amount \in Nat
        /\ mints[m].supply \in Nat /\ mints[m].withheld_amount \in Nat /\ amount \in Nat
    BY <1>1, StateFacts
  <2>6. /\ Issued(mints'[m]) - Share(acc, m) = Issued(mints[m]) - Share(accounts[s], m)
        /\ \A n \in Mints \ {m} : Issued(mints'[n]) = Issued(mints[n])
        /\ \A n \in Mints \ {m} : Share(acc, n) = Share(accounts[s], n)
    BY <2>1, <2>2, <2>3, <2>5 DEF Issued, Share
  <2>7. \A n \in Mints : Issued(mints'[n]) - Share(acc, n)
                           = Issued(mints[n]) - Share(accounts[s], n)
    BY <2>6
  <2> QED
    BY <2>1, <2>4, <2>7, AccountChange
<1>5. ASSUME NEW s, NEW amount, NEW m, SelfTransfer(s, amount, k, m, ctx) PROVE LInv'
  BY <1>5 DEF SelfTransfer, LInv, UnopenedEmpty, UnmintedEmpty, SupplyConserved, Holdings,
              AmountsOf, FeesOf
<1> QED
  BY <1>2, <1>3, <1>4, <1>5 DEF Move

LEMMA SettingsLInv ==
  ASSUME LInv, IInv', NEW k \in Keys, NEW ctx \in Contexts,
         Delegate(k, ctx) \/ ChangeAccount(k, ctx) \/ Guard(k, ctx) \/ Freeze(k, ctx)
  PROVE  LInv'
<1>1. TypeOK /\ accounts \in [Accounts -> AccountState] /\ mints \in [Mints -> MintState]
  BY DEF LInv, IInv, TypeOK
<1>2. ASSUME NEW a \in Accounts, UNCHANGED mints,
             accounts' = [accounts EXCEPT ![a] = accounts'[a]],
             accounts'[a].mint = accounts[a].mint, accounts'[a].amount = accounts[a].amount,
             accounts'[a].withheld_amount = accounts[a].withheld_amount,
             accounts'[a].state # "Uninitialized" \/ accounts'[a].state = accounts[a].state
      PROVE  LInv'
  BY <1>2, SameTokens
<1>3. ASSUME NEW a \in Accounts, NEW delegate \in Keys, NEW amount \in U64,
             Approve(a, delegate, amount, k, ctx)
      PROVE  LInv'
  BY <1>1, <1>2, <1>3 DEF Approve, AccountState
<1>4. ASSUME NEW a \in Accounts, Revoke(a, k, ctx) PROVE LInv'
  BY <1>1, <1>2, <1>4 DEF Revoke, AccountState
<1>5. ASSUME NEW a \in Accounts, NEW new, SetAccountOwner(a, new, k, ctx) PROVE LInv'
  BY <1>1, <1>2, <1>5 DEF SetAccountOwner, HandedOver, AccountState
<1>6. ASSUME NEW a \in Accounts, NEW new, SetAccountCloseAuthority(a, new, k, ctx)
      PROVE  LInv'
  BY <1>1, <1>2, <1>6 DEF SetAccountCloseAuthority, AccountState
<1>7. ASSUME NEW a \in Accounts, CloseTokenAccount(a, k, ctx) PROVE LInv'
  <2>1. /\ accounts' = [accounts EXCEPT ![a] = BlankAccount] /\ UNCHANGED mints
        /\ closable(accounts[a])
    BY <1>7 DEF CloseTokenAccount
  <2>2. accounts[a].amount = 0 /\ accounts[a].withheld_amount = 0
    <3>1. accounts[a].withheld_amount > 0 => "TransferFeeAmount" \in accounts[a].exts
      BY DEF LInv, IInv, Accountable, WithheldMarked
    <3>2. accounts[a].withheld_amount \in Nat
      BY <1>1, StateFacts
    <3> QED
      BY <2>1, <3>1, <3>2 DEF closable
  <2>3. EmptyIfUnopened(BlankAccount)
    BY DEF EmptyIfUnopened, BlankAccount
  <2>4. \A m \in Mints : Share(BlankAccount, m) = 0 /\ Share(accounts[a], m) = 0
    BY <2>2 DEF Share, BlankAccount
  <2>5. \A m \in Mints : EmptyIfUnminted(mints'[m]) /\ Issued(mints'[m]) = Issued(mints[m])
    BY <2>1 DEF EmptyIfUnminted, LInv, UnmintedEmpty
  <2> QED
    BY <2>1, <2>3, <2>4, <2>5, AccountChange
<1>8. ASSUME NEW a \in Accounts, NEW enable \in BOOLEAN,
             \/ ToggleRequiredMemoTransfers(a, enable, k, ctx)
             \/ ToggleCpiGuard(a, enable, k, ctx)
      PROVE  LInv'
  BY <1>1, <1>2, <1>8 DEF ToggleRequiredMemoTransfers, ToggleCpiGuard, AccountState
<1>9. ASSUME NEW a \in Accounts, NEW m \in Mints, NEW to \in {"Initialized", "Frozen"},
             ToggleFreezeAccount(a, m, to, k, ctx)
      PROVE  LInv'
  BY <1>1, <1>2, <1>9 DEF ToggleFreezeAccount, AccountState
<1>10. ASSUME NEW m \in Mints, NEW state, UpdateDefaultAccountState(m, state, k, ctx)
       PROVE  LInv'
  <2>1. UNCHANGED accounts /\ \A n \in Mints :
          /\ mints'[n].supply = mints[n].supply
          /\ mints'[n].withheld_amount = mints[n].withheld_amount
          /\ mints'[n].is_initialized = mints[n].is_initialized
    BY <1>1, <1>10 DEF UpdateDefaultAccountState, MintState
  <2>2. \A n \in Mints : EmptyIfUnminted(mints'[n]) /\ Issued(mints'[n]) = Issued(mints[n])
    BY <2>1 DEF EmptyIfUnminted, Issued, LInv, UnmintedEmpty
  <2> QED
    BY <2>1, <2>2, MintChange
<1> QED
  BY <1>3, <1>4, <1>5, <1>6, <1>7, <1>8, <1>9, <1>10
     DEF Delegate, ChangeAccount, Guard, Freeze

LEMMA HarvestLInv ==
  ASSUME LInv, IInv', Harvest
  PROVE  LInv'
<1>1. PICK n \in Mints, from \in SUBSET Accounts : HarvestWithheldTokensToMint(n, from)
  BY DEF Harvest
<1>2. TypeOK /\ mints \in [Mints -> MintState]
  BY DEF LInv, IInv, TypeOK
<1>3. SupplyConserved'
  BY <1>1, HarvestConserves DEF IInv
<1>4. \A a \in Accounts :
        /\ accounts'[a].mint = accounts[a].mint
        /\ accounts'[a].amount = accounts[a].amount
        /\ accounts'[a].withheld_amount \in {0, accounts[a].withheld_amount}
        /\ accounts'[a].state = accounts[a].state
  BY <1>1, <1>2, HarvestableFacts DEF HarvestWithheldTokensToMint
<1>5. \A m \in Mints : /\ mints'[m].supply = mints[m].supply
                       /\ mints'[m].is_initialized = mints[m].is_initialized
  BY <1>1, <1>2 DEF HarvestWithheldTokensToMint, MintState
<1> QED
  BY <1>3, <1>4, <1>5 DEF LInv, UnopenedEmpty, UnmintedEmpty

LEMMA CollectFeesLInv ==
  ASSUME LInv, IInv', NEW k \in Keys, NEW ctx \in Contexts, CollectFees(k, ctx)
  PROVE  LInv'
<1>1. TypeOK /\ accounts \in [Accounts -> AccountState] /\ mints \in [Mints -> MintState]
  BY DEF LInv, IInv, TypeOK
<1>2. ASSUME NEW m \in Mints, NEW d \in Accounts, WithdrawWithheldTokensFromMint(m, d, k, ctx)
      PROVE  LInv'
  <2> DEFINE acc == [accounts[d] EXCEPT
                       !.amount = accounts[d].amount + mints[m].withheld_amount]
             mint == [mints[m] EXCEPT !.withheld_amount = 0]
  <2>1. /\ accounts[d].state = "Initialized" /\ accounts[d].mint = m
        /\ mints[m].is_initialized
        /\ accounts' = [accounts EXCEPT ![d] = acc] /\ mints' = [mints EXCEPT ![m] = mint]
    BY <1>1, <1>2 DEF WithdrawWithheldTokensFromMint
  <2>2. /\ acc.mint = m /\ acc.amount = accounts[d].amount + mints[m].withheld_amount
        /\ acc.withheld_amount = accounts[d].withheld_amount /\ acc.state = "Initialized"
        /\ mint.supply = mints[m].supply
        /\ mint.withheld_amount = 0 /\ mint.is_initialized
    BY <1>1, <2>1 DEF AccountState, MintState
  <2> HIDE DEF acc, mint
  <2>3. mints'[m] = mint /\ \A n \in Mints \ {m} : mints'[n] = mints[n]
    BY <1>1, <2>1
  <2>4. EmptyIfUnopened(acc) /\ \A n \in Mints : EmptyIfUnminted(mints'[n])
    BY <2>2, <2>3 DEF EmptyIfUnopened, EmptyIfUnminted, LInv, UnmintedEmpty
  <2>5. /\ accounts[d].amount \in Nat /\ accounts[d].withheld_amount \in Nat
        /\ mints[m].supply \in Nat /\ mints[m].withheld_amount \in Nat
    BY <1>1, StateFacts
  <2>6. /\ Issued(mints'[m]) - Share(acc, m) = Issued(mints[m]) - Share(accounts[d], m)
        /\ \A n \in Mints \ {m} : Issued(mints'[n]) = Issued(mints[n])
        /\ \A n \in Mints \ {m} : Share(acc, n) = Share(accounts[d], n)
    BY <2>1, <2>2, <2>3, <2>5 DEF Issued, Share
  <2>7. \A n \in Mints : Issued(mints'[n]) - Share(acc, n)
                           = Issued(mints[n]) - Share(accounts[d], n)
    BY <2>6
  <2> QED
    BY <2>1, <2>4, <2>7, AccountChange
<1>3. ASSUME NEW m \in Mints, NEW d \in Accounts, NEW from \in SUBSET Accounts,
             WithdrawWithheldTokensFromAccounts(m, d, from, k, ctx)
      PROVE  LInv'
  <2> DEFINE S == harvestable(from, m)
             total == accounts[d].amount + WithheldIn(S)
  <2>1. SupplyConserved'
    BY <1>3, WithdrawConserves DEF IInv
  <2>2. /\ accounts' = [EmptyWithheld(S) EXCEPT ![d].amount = total] /\ UNCHANGED mints
        /\ accounts[d].state = "Initialized"
    BY <1>3 DEF WithdrawWithheldTokensFromAccounts
  <2> HIDE DEF S, total
  <2>3. /\ EmptyWithheld(S) \in [Accounts -> AccountState]
        /\ \A a \in Accounts :
             /\ EmptyWithheld(S)[a].mint = accounts[a].mint
             /\ EmptyWithheld(S)[a].amount = accounts[a].amount
             /\ EmptyWithheld(S)[a].withheld_amount =
                   IF a \in S THEN 0 ELSE accounts[a].withheld_amount
             /\ EmptyWithheld(S)[a].state = accounts[a].state
    BY <1>1, HarvestableFacts
  <2>4. /\ \A a \in Accounts \ {d} : accounts'[a] = EmptyWithheld(S)[a]
        /\ accounts'[d].state = accounts[d].state
    BY <2>2, <2>3 DEF AccountState
  <2>5. UnopenedEmpty'
    BY <2>2, <2>3, <2>4 DEF LInv, UnopenedEmpty
  <2> QED
    BY <2>1, <2>2, <2>5 DEF LInv, UnmintedEmpty
<1> QED
  BY <1>2, <1>3 DEF CollectFees

-----------------------------------------------------------------------------
LEMMA InitLInv == Init => LInv
<1> SUFFICES ASSUME Init PROVE LInv
  OBVIOUS
<1>1. IInv
  BY InitIInv
<1>2. UnopenedEmpty /\ UnmintedEmpty
  BY DEF Init, UnopenedEmpty, UnmintedEmpty, BlankAccount, BlankMint
<1>3. SupplyConserved
  <2> SUFFICES ASSUME NEW m \in Mints PROVE mints[m].supply = Holdings(m)
    BY DEF SupplyConserved
  <2>1. \A a \in Accounts : AmountsOf(m)[a] = 0 /\ FeesOf(m)[a] = 0
    BY DEF Init, AmountsOf, FeesOf, BlankAccount
  <2>2. Total(AmountsOf(m), Accounts) = 0 /\ Total(FeesOf(m), Accounts) = 0
    BY <2>1, TotalZero
  <2>3. mints[m].supply = 0 /\ mints[m].withheld_amount = 0
    BY DEF Init, BlankMint
  <2> QED
    BY <2>2, <2>3 DEF Holdings
<1> QED
  BY <1>1, <1>2, <1>3 DEF LInv

LEMMA NextLInv == LInv /\ [Next]_vars => LInv'
<1> SUFFICES ASSUME LInv, [Next]_vars PROVE LInv'
  OBVIOUS
<1>1. IInv'
  BY NextIInv DEF LInv
<1>2. CASE InitMints
  BY <1>1, <1>2, InitMintsLInv
<1>3. CASE InitAccounts
  BY <1>1, <1>3, InitAccountsLInv
<1>4. CASE Harvest
  BY <1>1, <1>4, HarvestLInv
<1>5. CASE AdvanceEpoch \/ UNCHANGED vars
  BY <1>1, <1>5 DEF AdvanceEpoch, vars, LInv, UnopenedEmpty, UnmintedEmpty,
                    SupplyConserved, Holdings, AmountsOf, FeesOf
<1>6. ASSUME NEW k \in Keys, NEW ctx \in Contexts,
             \/ Move(k, ctx)
             \/ Delegate(k, ctx)
             \/ ChangeAccount(k, ctx)
             \/ Guard(k, ctx)
             \/ ChangeMint(k, ctx)
             \/ Freeze(k, ctx)
             \/ CollectFees(k, ctx)
             \/ ChangeFees(k, ctx)
      PROVE  LInv'
  BY <1>1, <1>6, MoveLInv, SettingsLInv, ChangeMintLInv, CollectFeesLInv
<1> QED
  BY <1>2, <1>3, <1>4, <1>5, <1>6 DEF Next

LEMMA LedgerInvariant == Spec => []LInv
BY InitLInv, NextLInv, PTL DEF Spec

(***************************************************************************)
(* Tokens are neither created nor lost, whatever transfers with fees,      *)
(* harvests, withdrawals, burns and closures are executed, for any number  *)
(* of mints, accounts and keys: the supply of a mint is what its accounts  *)
(* hold and withhold and what the mint withholds.                          *)
(***************************************************************************)
THEOREM TokensConserved == Spec => []SupplyConserved
<1>1. LInv => SupplyConserved
  BY DEF LInv
<1> QED
  BY <1>1, LedgerInvariant, PTL

-----------------------------------------------------------------------------
(***************************************************************************)
(* The instructions that move tokens out of an account or into it.         *)
(***************************************************************************)
Debits(a, k, ctx, amount) ==
  \/ \E d \in Accounts, m \in Mints \cup {None} : Transfer(a, d, amount, k, m, ctx)
  \/ \E m \in Mints : Burn(a, m, amount, k, ctx)

Credits(a, k, ctx) ==
  \/ \E s \in Accounts, m \in Mints \cup {None}, amount \in U64 :
       Transfer(s, a, amount, k, m, ctx)
  \/ \E m \in Mints, amount \in U64 : MintTo(m, a, amount, k, ctx)
  \/ \E m \in Mints : WithdrawWithheldTokensFromMint(m, a, k, ctx)
  \/ \E m \in Mints, from \in SUBSET Accounts :
       WithdrawWithheldTokensFromAccounts(m, a, from, k, ctx)

\* Creating a mint, and the clock, change no account.
LEMMA InitMintsKeepAccounts == InitMints \/ AdvanceEpoch => UNCHANGED accounts
<1>1. CASE InitMints
  <2>1. \A m, ext, mint : InitExtension(m, ext, mint) => UNCHANGED accounts
    BY DEF InitExtension
  <2>2. \A m, km, kf : InitializeMint(m, km, kf) => UNCHANGED accounts
    BY DEF InitializeMint
  <2> QED
    BY <1>1, <2>1, <2>2, Zenon
       DEF InitMints, InitializeMintCloseAuthority, InitializePermanentDelegate,
           InitializeNonTransferableMint, InitializeDefaultAccountState,
           InitializeTransferFeeConfig
<1> QED
  BY <1>1 DEF AdvanceEpoch

\* The instructions that are neither of Move nor of CollectFees change no amount.
LEMMA SettingsKeepAmounts ==
  ASSUME LInv, NEW a \in Accounts, NEW k \in Keys, NEW ctx \in Contexts,
         \/ Delegate(k, ctx) \/ ChangeAccount(k, ctx) \/ Guard(k, ctx)
         \/ Freeze(k, ctx) \/ ChangeMint(k, ctx) \/ ChangeFees(k, ctx)
  PROVE  accounts'[a].amount = accounts[a].amount
<1>1. TypeOK /\ accounts \in [Accounts -> AccountState]
  BY DEF LInv, IInv, TypeOK
<1>2. ASSUME NEW b \in Accounts, accounts' = [accounts EXCEPT ![b] = accounts'[b]],
             accounts'[b].amount = accounts[b].amount
      PROVE  accounts'[a].amount = accounts[a].amount
  BY <1>1, <1>2
<1>3. ASSUME NEW b \in Accounts, NEW delegate \in Keys, NEW amount \in U64,
             Approve(b, delegate, amount, k, ctx)
      PROVE  accounts'[a].amount = accounts[a].amount
  BY <1>1, <1>2, <1>3 DEF Approve, AccountState
<1>8. CASE Delegate(k, ctx)
  <2>1. ASSUME NEW b \in Accounts, Revoke(b, k, ctx)
        PROVE  accounts'[a].amount = accounts[a].amount
    BY <1>1, <1>2, <2>1 DEF Revoke, AccountState
  <2> QED
    BY <1>3, <1>8, <2>1 DEF Delegate
<1>9. CASE ChangeAccount(k, ctx)
  <2>1. ASSUME NEW b \in Accounts, NEW new, SetAccountOwner(b, new, k, ctx)
        PROVE  accounts'[a].amount = accounts[a].amount
    BY <1>1, <1>2, <2>1 DEF SetAccountOwner, HandedOver, AccountState
  <2>2. ASSUME NEW b \in Accounts, NEW new, SetAccountCloseAuthority(b, new, k, ctx)
        PROVE  accounts'[a].amount = accounts[a].amount
    BY <1>1, <1>2, <2>2 DEF SetAccountCloseAuthority, AccountState
  <2>3. ASSUME NEW b \in Accounts, CloseTokenAccount(b, k, ctx)
        PROVE  accounts'[a].amount = accounts[a].amount
    BY <1>1, <2>3 DEF CloseTokenAccount, closable, BlankAccount
  <2> QED
    BY <1>9, <2>1, <2>2, <2>3 DEF ChangeAccount
<1>4. CASE Guard(k, ctx)
  BY <1>1, <1>4 DEF Guard, ToggleRequiredMemoTransfers, ToggleCpiGuard, AccountState
<1>5. CASE Freeze(k, ctx)
  BY <1>1, <1>5 DEF Freeze, UpdateDefaultAccountState, ToggleFreezeAccount, AccountState
<1>6. CASE ChangeMint(k, ctx) \/ ChangeFees(k, ctx)
  BY <1>6 DEF ChangeMint, ChangeFees, SetMintAuthority, CloseMint, SetTransferFee
<1> QED
  BY <1>8, <1>9, <1>4, <1>5, <1>6

LEMMA UnsignedKeepAmounts ==
  ASSUME LInv, NEW a \in Accounts, InitMints \/ InitAccounts \/ Harvest \/ AdvanceEpoch
  PROVE  accounts'[a].amount = accounts[a].amount
<1>1. TypeOK /\ accounts \in [Accounts -> AccountState]
  BY DEF LInv, IInv, TypeOK
<1>2. CASE InitAccounts
  <2>1. ASSUME NEW b \in Accounts, InitializeImmutableOwner(b)
        PROVE  accounts'[a].amount = accounts[a].amount
    BY <1>1, <2>1 DEF InitializeImmutableOwner, AccountState
  <2>2. ASSUME NEW b \in Accounts, NEW m \in Mints, NEW owner \in Owners,
               InitializeAccount(b, m, owner)
        PROVE  accounts'[a].amount = accounts[a].amount
    <3>1. accounts[b].amount = 0
      BY <2>2 DEF InitializeAccount, LInv, UnopenedEmpty
    <3>2. accounts'[b].amount = 0
      BY <1>1, <2>2 DEF InitializeAccount, BlankAccount
    <3>3. a # b => accounts'[a] = accounts[a]
      BY <1>1, <2>2 DEF InitializeAccount
    <3> QED
      BY <3>1, <3>2, <3>3
  <2> QED
    BY <1>2, <2>1, <2>2 DEF InitAccounts
<1>3. CASE Harvest
  BY <1>1, <1>3, HarvestableFacts DEF Harvest, HarvestWithheldTokensToMint
<1> QED
  BY <1>2, <1>3, InitMintsKeepAccounts

LEMMA CollectEffect ==
  ASSUME LInv, NEW k \in Keys, NEW ctx \in Contexts, NEW a \in Accounts,
         CollectFees(k, ctx)
  PROVE  /\ accounts'[a].amount >= accounts[a].amount
         /\ accounts'[a].amount > accounts[a].amount => Credits(a, k, ctx)
<1>1. /\ TypeOK /\ accounts \in [Accounts -> AccountState]
      /\ accounts[a].amount \in Nat
      /\ \A m \in Mints : mints[m].withheld_amount \in Nat
  BY StateFacts DEF LInv, IInv, TypeOK
<1>2. ASSUME NEW m \in Mints, NEW d \in Accounts, WithdrawWithheldTokensFromMint(m, d, k, ctx)
      PROVE  /\ accounts'[a].amount >= accounts[a].amount
             /\ accounts'[a].amount > accounts[a].amount => Credits(a, k, ctx)
  <2>1. accounts' = [accounts EXCEPT ![d].amount = @ + mints[m].withheld_amount]
    BY <1>2 DEF WithdrawWithheldTokensFromMint
  <2>2. /\ accounts'[d].amount = accounts[d].amount + mints[m].withheld_amount
        /\ a # d => accounts'[a] = accounts[a]
    BY <1>1, <2>1 DEF AccountState
  <2>3. CASE a = d
    BY <1>1, <1>2, <2>2, <2>3 DEF Credits
  <2>4. CASE a # d
    BY <1>1, <2>2, <2>4
  <2> QED
    BY <2>3, <2>4
<1>3. ASSUME NEW m \in Mints, NEW d \in Accounts, NEW from \in SUBSET Accounts,
             WithdrawWithheldTokensFromAccounts(m, d, from, k, ctx)
      PROVE  /\ accounts'[a].amount >= accounts[a].amount
             /\ accounts'[a].amount > accounts[a].amount => Credits(a, k, ctx)
  <2> DEFINE S == harvestable(from, m)
             total == accounts[d].amount + WithheldIn(S)
  <2>1. accounts' = [EmptyWithheld(S) EXCEPT ![d].amount = total]
    BY <1>3 DEF WithdrawWithheldTokensFromAccounts
  <2>2. WithheldIn(S) \in Nat /\ accounts[d].amount \in Nat
    <3> DEFINE w == [b \in Accounts |-> accounts[b].withheld_amount]
    <3>1. \A b \in Accounts : w[b] \in Nat
      BY <1>1, StateFacts
    <3>2. S \subseteq Accounts /\ IsFiniteSet(Accounts)
      BY TokenAssumption DEF harvestable
    <3>3. WithheldIn(S) = Total(w, S)
      BY DEF WithheldIn
    <3> HIDE DEF w, S
    <3>4. Total(w, S) \in Nat
      BY <3>1, <3>2, TotalPart
    <3> QED
      BY <1>1, <3>3, <3>4, StateFacts
  <2>3. /\ EmptyWithheld(S) \in [Accounts -> AccountState]
        /\ EmptyWithheld(S)[a].amount = accounts[a].amount
    BY <1>1, HarvestableFacts
  <2> HIDE DEF S, total
  <2>4. /\ accounts'[d].amount = total
        /\ a # d => accounts'[a].amount = accounts[a].amount
    BY <2>1, <2>3 DEF AccountState
  <2>5. CASE a = d
    BY <1>3, <2>2, <2>4, <2>5 DEF Credits, total
  <2>6. CASE a # d
    BY <1>1, <2>4, <2>6
  <2> QED
    BY <2>5, <2>6
<1> QED
  BY <1>2, <1>3 DEF CollectFees

LEMMA MoveEffect ==
  ASSUME LInv, NEW k \in Keys, NEW ctx \in Contexts, NEW a \in Accounts, Move(k, ctx)
  PROVE  /\ accounts'[a].amount < accounts[a].amount =>
              \E amount \in U64 :
                 /\ accounts[a].amount - accounts'[a].amount = amount
                 /\ Debits(a, k, ctx, amount)
         /\ accounts'[a].amount > accounts[a].amount => Credits(a, k, ctx)
<1> DEFINE Goal ==
      /\ accounts'[a].amount < accounts[a].amount =>
           \E amount \in U64 :
              /\ accounts[a].amount - accounts'[a].amount = amount
              /\ Debits(a, k, ctx, amount)
      /\ accounts'[a].amount > accounts[a].amount => Credits(a, k, ctx)
<1>1. /\ TypeOK /\ accounts \in [Accounts -> AccountState] /\ U64 \subseteq Nat
      /\ \A b \in Accounts : accounts[b].amount \in Nat
  BY StateFacts, ConstantFacts DEF LInv, IInv, TypeOK
<1>2. ASSUME accounts'[a].amount = accounts[a].amount PROVE Goal
  BY <1>1, <1>2
<1>3. ASSUME NEW s \in Accounts, NEW d \in Accounts, NEW amount \in U64,
             NEW m \in Mints \cup {None}, Transfer(s, d, amount, k, m, ctx)
      PROVE  Goal
  <2> DEFINE fee == TransferFeeFor(m, amount)
  <2>1. /\ s # d /\ fee \in Nat /\ amount \in Nat /\ fee <= amount
        /\ accounts'[s].amount = accounts[s].amount - amount
        /\ accounts'[d].amount = accounts[d].amount + (amount - fee)
        /\ \A b \in Accounts \ {s, d} : accounts'[b] = accounts[b]
    BY <1>1, <1>3, TransferEffect
  <2> HIDE DEF fee
  <2>2. CASE a = s
    <3>1. Debits(a, k, ctx, amount)
      BY <1>3, <2>2 DEF Debits
    <3>2. accounts[a].amount - accounts'[a].amount = amount
      BY <1>1, <2>1, <2>2
    <3>3. ~(accounts'[a].amount > accounts[a].amount)
      BY <1>1, <2>1, <2>2
    <3> QED
      BY <3>1, <3>2, <3>3
  <2>3. CASE a = d
    <3>1. Credits(a, k, ctx)
      BY <1>3, <2>3 DEF Credits
    <3>2. ~(accounts'[a].amount < accounts[a].amount)
      BY <1>1, <2>1, <2>3
    <3> QED
      BY <3>1, <3>2
  <2>4. CASE a # s /\ a # d
    BY <1>2, <2>1, <2>4
  <2> QED
    BY <2>2, <2>3, <2>4
<1>4. ASSUME NEW m \in Mints, NEW d \in Accounts, NEW amount \in U64,
             MintTo(m, d, amount, k, ctx)
      PROVE  Goal
  <2>1. accounts' = [accounts EXCEPT ![d] =
                       [accounts[d] EXCEPT !.amount = accounts[d].amount + amount]]
    BY <1>1, <1>4, MintToEffect
  <2>2. /\ accounts'[d].amount = accounts[d].amount + amount
        /\ a # d => accounts'[a] = accounts[a]
    BY <1>1, <2>1 DEF AccountState
  <2>3. CASE a = d
    <3>1. Credits(a, k, ctx)
      BY <1>4, <2>3 DEF Credits
    <3>2. ~(accounts'[a].amount < accounts[a].amount)
      BY <1>1, <2>2, <2>3
    <3> QED
      BY <3>1, <3>2
  <2>4. CASE a # d
    BY <1>2, <2>2, <2>4
  <2> QED
    BY <2>3, <2>4
<1>5. ASSUME NEW m \in Mints, NEW s \in Accounts, NEW amount \in U64,
             Burn(s, m, amount, k, ctx)
      PROVE  Goal
  <2>1. /\ accounts' = [accounts EXCEPT ![s] = accounts'[s]]
        /\ accounts'[s].amount = accounts[s].amount - amount
    BY <1>1, <1>5, BurnEffect
  <2>2. a # s => accounts'[a] = accounts[a]
    BY <1>1, <2>1
  <2>3. CASE a = s
    <3>1. Debits(a, k, ctx, amount)
      BY <1>5, <2>3 DEF Debits
    <3>2. accounts[a].amount - accounts'[a].amount = amount
      BY <1>1, <2>1, <2>3
    <3>3. ~(accounts'[a].amount > accounts[a].amount)
      BY <1>1, <2>1, <2>3
    <3> QED
      BY <3>1, <3>2, <3>3
  <2>4. CASE a # s
    BY <1>2, <2>2, <2>4
  <2> QED
    BY <2>3, <2>4
<1>6. ASSUME NEW s, NEW amount, NEW m, SelfTransfer(s, amount, k, m, ctx) PROVE Goal
  BY <1>2, <1>6 DEF SelfTransfer
<1> HIDE DEF Goal
<1>7. Goal
  BY <1>3, <1>4, <1>5, <1>6 DEF Move
<1> QED
  BY <1>7 DEF Goal

\* Tokens leave an account in a transfer from it or in a burn, and enter it
\* in a transfer to it, by minting or by the withdrawal of fees.
LEMMA AmountCause ==
  ASSUME LInv, Next, NEW a \in Accounts
  PROVE  /\ accounts'[a].amount < accounts[a].amount =>
              \E k \in Keys, ctx \in Contexts, amount \in U64 :
                 /\ accounts[a].amount - accounts'[a].amount = amount
                 /\ Debits(a, k, ctx, amount)
         /\ accounts'[a].amount > accounts[a].amount =>
              \E k \in Keys, ctx \in Contexts : Credits(a, k, ctx)
<1> DEFINE Goal ==
      /\ accounts'[a].amount < accounts[a].amount =>
           \E k \in Keys, ctx \in Contexts, amount \in U64 :
              /\ accounts[a].amount - accounts'[a].amount = amount
              /\ Debits(a, k, ctx, amount)
      /\ accounts'[a].amount > accounts[a].amount =>
           \E k \in Keys, ctx \in Contexts : Credits(a, k, ctx)
<1>1. accounts[a].amount \in Nat
  BY StateFacts DEF LInv, IInv
<1>2. ASSUME accounts'[a].amount = accounts[a].amount PROVE Goal
  BY <1>1, <1>2
<1>3. ASSUME InitMints \/ InitAccounts \/ Harvest \/ AdvanceEpoch PROVE Goal
  BY <1>2, <1>3, UnsignedKeepAmounts
<1>4. ASSUME NEW k \in Keys, NEW ctx \in Contexts,
             \/ Delegate(k, ctx) \/ ChangeAccount(k, ctx) \/ Guard(k, ctx)
             \/ Freeze(k, ctx) \/ ChangeMint(k, ctx) \/ ChangeFees(k, ctx)
      PROVE  Goal
  BY <1>2, <1>4, SettingsKeepAmounts
<1>5. ASSUME NEW k \in Keys, NEW ctx \in Contexts, Move(k, ctx) PROVE Goal
  BY <1>5, MoveEffect
<1>6. ASSUME NEW k \in Keys, NEW ctx \in Contexts, CollectFees(k, ctx) PROVE Goal
  <2>1. /\ accounts'[a].amount >= accounts[a].amount
        /\ accounts'[a].amount > accounts[a].amount => Credits(a, k, ctx)
    BY <1>6, CollectEffect
  <2>2. accounts'[a].amount \in Nat
    <3>1. TypeOK'
      BY NextIInv DEF LInv, IInv
    <3> QED
      BY <3>1, ConstantFacts DEF TypeOK, AccountState
  <2>3. ~(accounts'[a].amount < accounts[a].amount)
    BY <1>1, <2>1, <2>2
  <2> QED
    BY <2>1, <2>3
<1> HIDE DEF Goal
<1>7. ASSUME NEW k \in Keys, NEW ctx \in Contexts,
             \/ Move(k, ctx)
             \/ Delegate(k, ctx)
             \/ ChangeAccount(k, ctx)
             \/ Guard(k, ctx)
             \/ ChangeMint(k, ctx)
             \/ Freeze(k, ctx)
             \/ CollectFees(k, ctx)
             \/ ChangeFees(k, ctx)
      PROVE  Goal
  BY <1>4, <1>5, <1>6, <1>7
<1>8. Goal
  BY <1>3, <1>7 DEF Next
<1> QED
  BY <1>8 DEF Goal

-----------------------------------------------------------------------------
(***************************************************************************)
(* DebitsAuthorized.                                                       *)
(***************************************************************************)
DebitAuthorized(a) ==
  LET acc   == accounts[a]
      debit == acc.amount - accounts'[a].amount
  IN  debit > 0 =>
        \/ tx'.by = acc.owner
        \/ tx'.by = get_permanent_delegate(acc.mint)
        \/ /\ tx'.by = acc.delegate
           /\ accounts'[a].delegated_amount = acc.delegated_amount - debit
        \/ /\ acc.owner \in BurnOwners
           /\ mints'[acc.mint].supply = mints[acc.mint].supply - debit

\* A delegate pays for the debit with its allowance.
LEMMA AllowancePays ==
  ASSUME NEW acc \in AccountState, NEW k \in Keys, NEW amount, NEW permanent, NEW ctx,
         NEW n, MayDebit(acc, k, amount, permanent, ctx)
  PROVE  \/ k = permanent
         \/ k = acc.owner
         \/ /\ k = acc.delegate
            /\ [ChargeAllowance(acc, k, amount, permanent) EXCEPT !.amount = n].delegated_amount
                 = acc.delegated_amount - amount
<1>1. CASE AsDelegate(acc, k, permanent)
  <2> DEFINE new == [acc EXCEPT !.delegated_amount = @ - amount,
                       !.delegate = IF acc.delegated_amount = amount THEN None ELSE @]
  <2>1. ChargeAllowance(acc, k, amount, permanent) = new
    BY <1>1 DEF ChargeAllowance
  <2>2. new.delegated_amount = acc.delegated_amount - amount
        /\ [new EXCEPT !.amount = n].delegated_amount = new.delegated_amount
    BY DEF AccountState
  <2> HIDE DEF new
  <2> QED
    BY <1>1, <2>1, <2>2 DEF AsDelegate
<1>2. CASE ~AsDelegate(acc, k, permanent)
  BY <1>2 DEF MayDebit
<1> QED
  BY <1>1, <1>2

LEMMA TransferAuthorized ==
  ASSUME TypeOK, NEW s \in Accounts, NEW d \in Accounts, NEW amount \in U64,
         NEW m \in Mints \cup {None}, NEW k \in Keys, NEW ctx \in Contexts,
         Transfer(s, d, amount, k, m, ctx)
  PROVE  /\ tx'.by = k /\ tx'.cpi = ctx.cpi /\ tx'.memo = ctx.memo
         /\ m # None => m = accounts[s].mint
         /\ MayDebit(accounts[s], k, amount, PermanentDelegateFor(m), ctx)
         /\ \/ k = accounts[s].owner
            \/ k = get_permanent_delegate(accounts[s].mint)
            \/ /\ k = accounts[s].delegate
               /\ accounts'[s].delegated_amount = accounts[s].delegated_amount - amount
<1>1. accounts \in [Accounts -> AccountState] /\ accounts[s] \in AccountState
  BY DEF TypeOK
<1> DEFINE new == ChargeAllowance(accounts[s], k, amount, PermanentDelegateFor(m))
           fee == TransferFeeFor(m, amount)
<1>2. /\ MayDebit(accounts[s], k, amount, PermanentDelegateFor(m), ctx)
      /\ Signed(k, ctx)
  BY DEF Transfer, MayTransfer
<1>3. s # d /\ accounts' = [accounts EXCEPT
        ![s] = [new EXCEPT !.amount = @ - amount],
        ![d] = [accounts[d] EXCEPT !.amount = @ + (amount - fee),
                                   !.withheld_amount = @ + fee]]
  BY DEF Transfer
<1> HIDE DEF new, fee
<1>4. accounts'[s] = [new EXCEPT !.amount = new.amount - amount]
  BY <1>1, <1>3
<1>5. \/ k = PermanentDelegateFor(m)
      \/ k = accounts[s].owner
      \/ /\ k = accounts[s].delegate
         /\ accounts'[s].delegated_amount = accounts[s].delegated_amount - amount
  BY <1>1, <1>2, <1>4, AllowancePays DEF new
<1>6. m # None => m = accounts[s].mint
  BY DEF Transfer, MayTransfer
<1>7. k = PermanentDelegateFor(m) => k = get_permanent_delegate(accounts[s].mint)
  BY <1>6, ConstantFacts DEF PermanentDelegateFor, get_permanent_delegate
<1>8. tx'.by = k /\ tx'.cpi = ctx.cpi /\ tx'.memo = ctx.memo
  BY <1>2 DEF Signed
<1> QED
  BY <1>2, <1>5, <1>6, <1>7, <1>8

LEMMA BurnAuthorized ==
  ASSUME TypeOK, NEW m \in Mints, NEW s \in Accounts, NEW amount \in U64,
         NEW k \in Keys, NEW ctx \in Contexts, Burn(s, m, amount, k, ctx)
  PROVE  /\ tx'.by = k /\ tx'.cpi = ctx.cpi
         /\ \/ accounts[s].owner \in BurnOwners
            \/ /\ MayDebit(accounts[s], k, amount, get_permanent_delegate(m), ctx)
               /\ \/ k = accounts[s].owner
                  \/ k = get_permanent_delegate(accounts[s].mint)
                  \/ /\ k = accounts[s].delegate
                     /\ accounts'[s].delegated_amount = accounts[s].delegated_amount - amount
<1>1. accounts \in [Accounts -> AccountState] /\ accounts[s] \in AccountState
  BY DEF TypeOK
<1> DEFINE new == ChargeAllowance(accounts[s], k, amount, get_permanent_delegate(m))
           abandoned == is_owned_by_system_program_or_incinerator(accounts[s])
<1>2. /\ Signed(k, ctx) /\ accounts[s].mint = m
      /\ abandoned \/ MayDebit(accounts[s], k, amount, get_permanent_delegate(m), ctx)
      /\ accounts' = [accounts EXCEPT ![s] =
           [(IF abandoned THEN accounts[s] ELSE new) EXCEPT !.amount = @ - amount]]
  BY DEF Burn
<1>3. CASE abandoned
  BY <1>2, <1>3 DEF Signed, is_owned_by_system_program_or_incinerator
<1>4. CASE ~abandoned
  <2> HIDE DEF new, abandoned
  <2>1. accounts'[s] = [new EXCEPT !.amount = new.amount - amount]
    BY <1>1, <1>2, <1>4
  <2>2. \/ k = get_permanent_delegate(m)
        \/ k = accounts[s].owner
        \/ /\ k = accounts[s].delegate
           /\ accounts'[s].delegated_amount = accounts[s].delegated_amount - amount
    BY <1>1, <1>2, <1>4, <2>1, AllowancePays DEF new
  <2> QED
    BY <1>2, <1>4, <2>2 DEF Signed
<1> QED
  BY <1>3, <1>4

(***************************************************************************)
(* Nobody but the owner, the permanent delegate of the mint and a delegate *)
(* within its allowance takes tokens out of an account (process_transfer,  *)
(* process_burn); what the burn owners hold can be burnt, not moved.       *)
(***************************************************************************)
THEOREM DebitsNeedAuthority == Spec => DebitsAuthorized
<1>1. ASSUME LInv, Next, NEW a \in Accounts PROVE DebitAuthorized(a)
  <2> DEFINE debit == accounts[a].amount - accounts'[a].amount
  <2>1. TypeOK /\ accounts[a].amount \in Nat /\ mints \in [Mints -> MintState]
    BY <1>1, StateFacts DEF LInv, IInv
  <2>2. accounts'[a].amount \in Nat
    <3>1. TypeOK'
      BY <1>1, NextIInv DEF LInv, IInv
    <3> QED
      BY <3>1, ConstantFacts DEF TypeOK, AccountState
  <2>3. SUFFICES ASSUME debit > 0
                 PROVE  \/ tx'.by = accounts[a].owner
                        \/ tx'.by = get_permanent_delegate(accounts[a].mint)
                        \/ /\ tx'.by = accounts[a].delegate
                           /\ accounts'[a].delegated_amount
                                = accounts[a].delegated_amount - debit
                        \/ /\ accounts[a].owner \in BurnOwners
                           /\ mints'[accounts[a].mint].supply
                                = mints[accounts[a].mint].supply - debit
    BY DEF DebitAuthorized
  <2>4. accounts'[a].amount < accounts[a].amount
    BY <2>1, <2>2, <2>3
  <2>5. PICK k \in Keys, ctx \in Contexts, amount \in U64 :
          debit = amount /\ Debits(a, k, ctx, amount)
    BY <1>1, <2>4, AmountCause
  <2> HIDE DEF debit
  <2>6. ASSUME NEW d \in Accounts, NEW m \in Mints \cup {None},
               Transfer(a, d, amount, k, m, ctx)
        PROVE  \/ tx'.by = accounts[a].owner
               \/ tx'.by = get_permanent_delegate(accounts[a].mint)
               \/ /\ tx'.by = accounts[a].delegate
                  /\ accounts'[a].delegated_amount = accounts[a].delegated_amount - debit
    BY <2>1, <2>5, <2>6, TransferAuthorized
  <2>7. ASSUME NEW m \in Mints, Burn(a, m, amount, k, ctx)
        PROVE  \/ tx'.by = accounts[a].owner
               \/ tx'.by = get_permanent_delegate(accounts[a].mint)
               \/ /\ tx'.by = accounts[a].delegate
                  /\ accounts'[a].delegated_amount = accounts[a].delegated_amount - debit
               \/ /\ accounts[a].owner \in BurnOwners
                  /\ mints'[accounts[a].mint].supply
                       = mints[accounts[a].mint].supply - debit
    <3>1. /\ accounts[a].mint = m
          /\ mints' = [mints EXCEPT ![m] =
                         [mints[m] EXCEPT !.supply = mints[m].supply - amount]]
      BY <2>1, <2>7, BurnEffect
    <3>2. mints'[m].supply = mints[m].supply - amount
      BY <2>1, <3>1 DEF MintState
    <3> QED
      BY <2>1, <2>5, <2>7, <3>1, <3>2, BurnAuthorized
  <2> QED
    BY <2>5, <2>6, <2>7 DEF Debits
<1>2. LInv /\ [Next]_vars => [\A a \in Accounts : DebitAuthorized(a)]_vars
  BY <1>1
<1> QED
  BY <1>2, LedgerInvariant, PTL DEF Spec, DebitsAuthorized, DebitAuthorized

-----------------------------------------------------------------------------
(***************************************************************************)
(* TransferTerms.                                                          *)
(***************************************************************************)
TermsKept(s, d) ==
  LET m     == accounts[s].mint
      debit == accounts[s].amount - accounts'[s].amount
  IN  /\ s # d /\ debit > 0
      /\ accounts'[d].amount + accounts'[d].withheld_amount
           > accounts[d].amount + accounts[d].withheld_amount
      => /\ has_fee_config(m) /\ "TransferFeeAmount" \in accounts[s].exts
              => accounts'[d].withheld_amount - accounts[d].withheld_amount
                   = calculate_epoch_fee(mints[m].fees, epoch, debit)
         /\ accounts[d].require_incoming_transfer_memos => tx'.memo

(***************************************************************************)
(* The fee is the one in force and the required memo is there, whichever   *)
(* of the transfer instructions moves the tokens, for every fee schedule   *)
(* and every amount (process_transfer).                                    *)
(***************************************************************************)
THEOREM TransfersOnTerms == Spec => TransferTerms
<1>1. ASSUME LInv, Next, NEW s \in Accounts, NEW d \in Accounts PROVE TermsKept(s, d)
  <2> DEFINE sm    == accounts[s].mint
             debit == accounts[s].amount - accounts'[s].amount
             Terms == /\ has_fee_config(sm) /\ "TransferFeeAmount" \in accounts[s].exts
                           => accounts'[d].withheld_amount - accounts[d].withheld_amount
                                = calculate_epoch_fee(mints[sm].fees, epoch, debit)
                      /\ accounts[d].require_incoming_transfer_memos => tx'.memo
  <2>1. /\ TypeOK /\ accounts \in [Accounts -> AccountState]
        /\ accounts[s].amount \in Nat /\ accounts[d].amount \in Nat
        /\ accounts[d].withheld_amount \in Nat
    BY <1>1, StateFacts DEF LInv, IInv
  <2>2. accounts'[s].amount \in Nat
    <3>1. TypeOK'
      BY <1>1, NextIInv DEF LInv, IInv
    <3> QED
      BY <3>1, ConstantFacts DEF TypeOK, AccountState
  <2>3. SUFFICES ASSUME s # d, debit > 0,
                        accounts'[d].amount + accounts'[d].withheld_amount
                          > accounts[d].amount + accounts[d].withheld_amount
                 PROVE  Terms
    BY DEF TermsKept
  <2>4. accounts'[s].amount < accounts[s].amount /\ accounts'[d] # accounts[d]
    BY <2>1, <2>2, <2>3
  <2>5. PICK k \in Keys, ctx \in Contexts, amount \in U64 :
          debit = amount /\ Debits(s, k, ctx, amount)
    BY <1>1, <2>4, AmountCause
  <2> HIDE DEF debit
  <2>6. ASSUME NEW m \in Mints, Burn(s, m, amount, k, ctx) PROVE FALSE
    <3>1. accounts' = [accounts EXCEPT ![s] = accounts'[s]]
      BY <2>1, <2>6, BurnEffect
    <3>2. accounts'[d] = accounts[d]
      BY <2>1, <2>3, <3>1
    <3> QED
      BY <2>4, <3>2
  <2>7. ASSUME NEW b \in Accounts, NEW m \in Mints \cup {None},
               Transfer(s, b, amount, k, m, ctx)
        PROVE  Terms
    <3> DEFINE fee == TransferFeeFor(m, amount)
    <3>1. /\ fee \in Nat
          /\ accounts'[b].withheld_amount = accounts[b].withheld_amount + fee
          /\ \A c \in Accounts \ {s, b} : accounts'[c] = accounts[c]
      BY <2>1, <2>7, TransferEffect
    <3>2. b = d
      BY <2>3, <2>4, <3>1
    <3>3. accounts'[d].withheld_amount - accounts[d].withheld_amount = fee
      <4> HIDE DEF fee
      <4> QED
        BY <2>1, <3>1, <3>2
    <3>4. ASSUME has_fee_config(sm), "TransferFeeAmount" \in accounts[s].exts
          PROVE  fee = calculate_epoch_fee(mints[sm].fees, epoch, debit)
      <4>1. m # None
        BY <2>7, <3>4 DEF Transfer, MayTransfer
      <4>2. m = sm
        BY <2>7, <4>1 DEF Transfer, MayTransfer
      <4> QED
        BY <2>5, <3>4, <4>1, <4>2 DEF TransferFeeFor
    <3>5. accounts[d].require_incoming_transfer_memos => tx'.memo
      <4>1. accounts[d].require_incoming_transfer_memos => ctx.memo
        BY <2>7, <3>2 DEF Transfer, MayReceive
      <4>2. tx'.memo = ctx.memo
        BY <2>1, <2>7, TransferAuthorized
      <4> QED
        BY <4>1, <4>2
    <3> HIDE DEF fee, sm
    <3> QED
      BY <3>3, <3>4, <3>5
  <2> HIDE DEF Terms
  <2> QED
    BY <2>5, <2>6, <2>7 DEF Debits
<1>2. LInv /\ [Next]_vars => [\A s, d \in Accounts : TermsKept(s, d)]_vars
  BY <1>1
<1> QED
  BY <1>2, LedgerInvariant, PTL DEF Spec, TransferTerms, TermsKept

-----------------------------------------------------------------------------
(***************************************************************************)
(* RenouncedForGood.                                                       *)
(***************************************************************************)
Renounced(old, new) ==
  old.is_initialized /\ new.is_initialized =>
    /\ \A type \in MintAuthorityTypes :
         old.authority[type] = None => new.authority[type] = None
    /\ old.authority["MintTokens"] = None => new.supply <= old.supply

LEMMA RenouncedOneMint ==
  ASSUME TypeOK, NEW n \in Mints, NEW mint, mints' = [mints EXCEPT ![n] = mint],
         Renounced(mints[n], mint), NEW m \in Mints
  PROVE  Renounced(mints[m], mints'[m])
<1>1. mints \in [Mints -> MintState] /\ mints[m].supply \in Nat
  BY StateFacts DEF TypeOK
<1>2. mints'[n] = mint /\ (m # n => mints'[m] = mints[m])
  BY <1>1
<1> QED
  BY <1>1, <1>2 DEF Renounced

LEMMA RenouncedUnchanged ==
  ASSUME TypeOK, NEW m \in Mints, mints'[m] = mints[m]
  PROVE  Renounced(mints[m], mints'[m])
BY StateFacts DEF Renounced

\* Instructions that change no mint.
LEMMA MintsKept ==
  ASSUME NEW k \in Keys, NEW ctx \in Contexts,
         Delegate(k, ctx) \/ ChangeAccount(k, ctx) \/ Guard(k, ctx)
  PROVE  UNCHANGED mints
BY DEF Delegate, ChangeAccount, Guard, Approve, Revoke, SetAccountOwner,
       SetAccountCloseAuthority, CloseTokenAccount, ToggleRequiredMemoTransfers, ToggleCpiGuard

LEMMA RenouncedSigned ==
  ASSUME LInv, NEW m \in Mints, NEW k \in Keys, NEW ctx \in Contexts,
         \/ Move(k, ctx) \/ ChangeMint(k, ctx) \/ Freeze(k, ctx)
         \/ CollectFees(k, ctx) \/ ChangeFees(k, ctx)
  PROVE  Renounced(mints[m], mints'[m])
<1>1. /\ TypeOK /\ mints \in [Mints -> MintState] /\ U64 \subseteq Nat /\ k # None
      /\ \A n \in Mints : mints[n].supply \in Nat
  BY StateFacts, ConstantFacts DEF LInv, IInv, TypeOK
<1>2. ASSUME NEW n \in Mints, NEW d \in Accounts, NEW amount \in U64,
             MintTo(n, d, amount, k, ctx)
      PROVE  Renounced(mints[m], mints'[m])
  <2> DEFINE mint == [mints[n] EXCEPT !.supply = mints[n].supply + amount]
  <2>1. mints' = [mints EXCEPT ![n] = mint]
    BY <1>1, <1>2, MintToEffect
  <2>2. mints[n].authority["MintTokens"] = k
    BY <1>2 DEF MintTo
  <2>3. mint.authority = mints[n].authority
    BY <1>1 DEF MintState
  <2> HIDE DEF mint
  <2>4. Renounced(mints[n], mint)
    BY <1>1, <2>2, <2>3 DEF Renounced
  <2> QED
    BY <1>1, <2>1, <2>4, RenouncedOneMint
<1>3. ASSUME NEW n \in Mints, NEW s \in Accounts, NEW amount \in U64,
             Burn(s, n, amount, k, ctx)
      PROVE  Renounced(mints[m], mints'[m])
  <2> DEFINE mint == [mints[n] EXCEPT !.supply = mints[n].supply - amount]
  <2>1. mints' = [mints EXCEPT ![n] = mint]
    BY <1>1, <1>3, BurnEffect
  <2>2. mint.authority = mints[n].authority /\ mint.supply = mints[n].supply - amount
    BY <1>1 DEF MintState
  <2> HIDE DEF mint
  <2>3. Renounced(mints[n], mint)
    BY <1>1, <2>2 DEF Renounced
  <2> QED
    BY <1>1, <2>1, <2>3, RenouncedOneMint
<1>4. ASSUME NEW s, NEW d, NEW amount, NEW n,
             Transfer(s, d, amount, k, n, ctx) \/ SelfTransfer(s, amount, k, n, ctx)
      PROVE  Renounced(mints[m], mints'[m])
  BY <1>1, <1>4, RenouncedUnchanged DEF Transfer, SelfTransfer
<1>5. CASE Move(k, ctx)
  BY <1>2, <1>3, <1>4, <1>5 DEF Move
<1>6. ASSUME NEW n \in Mints, NEW type \in MintAuthorityTypes, NEW new \in MaybeKey,
             SetMintAuthority(n, type, new, k, ctx)
      PROVE  Renounced(mints[m], mints'[m])
  <2> DEFINE mint == [mints[n] EXCEPT !.authority[type] = new]
  <2>1. mints' = [mints EXCEPT ![n] = mint] /\ mints[n].authority[type] = k
    BY <1>6 DEF SetMintAuthority
  <2>2. /\ mint.supply = mints[n].supply
        /\ \A t \in MintAuthorityTypes \ {type} : mint.authority[t] = mints[n].authority[t]
    BY <1>1 DEF MintState
  <2> HIDE DEF mint
  <2>3. Renounced(mints[n], mint)
    BY <1>1, <2>1, <2>2 DEF Renounced
  <2> QED
    BY <1>1, <2>1, <2>3, RenouncedOneMint
<1>7. ASSUME NEW n \in Mints, CloseMint(n, k, ctx) PROVE Renounced(mints[m], mints'[m])
  <2>1. mints' = [mints EXCEPT ![n] = BlankMint(mints[n].incarnation)]
    BY <1>7 DEF CloseMint
  <2>2. Renounced(mints[n], BlankMint(mints[n].incarnation))
    BY DEF Renounced, BlankMint
  <2> QED
    BY <1>1, <2>1, <2>2, RenouncedOneMint
<1>8. ASSUME NEW n \in Mints, NEW mint, mints' = [mints EXCEPT ![n] = mint],
             mint.authority = mints[n].authority, mint.supply = mints[n].supply
      PROVE  Renounced(mints[m], mints'[m])
  <2>1. Renounced(mints[n], mint)
    BY <1>1, <1>8 DEF Renounced
  <2> QED
    BY <1>1, <1>8, <2>1, RenouncedOneMint
<1>9. ASSUME NEW n \in Mints, NEW bps, NEW max, SetTransferFee(n, bps, max, k, ctx)
      PROVE  Renounced(mints[m], mints'[m])
  BY <1>1, <1>8, <1>9 DEF SetTransferFee, MintState
<1>10. ASSUME NEW n \in Mints, NEW d, WithdrawWithheldTokensFromMint(n, d, k, ctx)
       PROVE  Renounced(mints[m], mints'[m])
  BY <1>1, <1>8, <1>10 DEF WithdrawWithheldTokensFromMint, MintState
<1>11. ASSUME NEW n \in Mints, NEW state, UpdateDefaultAccountState(n, state, k, ctx)
       PROVE  Renounced(mints[m], mints'[m])
  BY <1>1, <1>8, <1>11 DEF UpdateDefaultAccountState, MintState
<1>12. CASE ChangeMint(k, ctx) \/ ChangeFees(k, ctx)
  BY <1>6, <1>7, <1>9, <1>12 DEF ChangeMint, ChangeFees
<1>13. CASE Freeze(k, ctx)
  BY <1>1, <1>11, <1>13, RenouncedUnchanged DEF Freeze, ToggleFreezeAccount
<1>14. CASE CollectFees(k, ctx)
  BY <1>1, <1>10, <1>14, RenouncedUnchanged
     DEF CollectFees, WithdrawWithheldTokensFromAccounts
<1> QED
  BY <1>5, <1>12, <1>13, <1>14

LEMMA RenouncedUnsigned ==
  ASSUME LInv, NEW m \in Mints, InitMints \/ InitAccounts \/ Harvest \/ AdvanceEpoch
  PROVE  Renounced(mints[m], mints'[m])
<1>1. TypeOK /\ mints \in [Mints -> MintState] /\ \A n \in Mints : mints[n].supply \in Nat
  BY StateFacts DEF LInv, IInv, TypeOK
<1>2. CASE InitMints
  <2>1. ASSUME NEW n \in Mints, NEW mint, mints' = [mints EXCEPT ![n] = mint],
               ~mints[n].is_initialized
        PROVE  Renounced(mints[m], mints'[m])
    <3>1. Renounced(mints[n], mint)
      BY <2>1 DEF Renounced
    <3> QED
      BY <1>1, <2>1, <3>1, RenouncedOneMint
  <2>2. ASSUME NEW n \in Mints, NEW ext, NEW mint, InitExtension(n, ext, mint)
        PROVE  Renounced(mints[m], mints'[m])
    BY <2>1, <2>2 DEF InitExtension, CanExtend
  <2>3. ASSUME NEW n \in Mints, NEW km, NEW kf, InitializeMint(n, km, kf)
        PROVE  Renounced(mints[m], mints'[m])
    <3>1. mints' = [mints EXCEPT ![n] = mints'[n]]
      BY <1>1, <2>3 DEF InitializeMint, MintState
    <3> QED
      BY <2>1, <2>3, <3>1 DEF InitializeMint
  <2> QED
    BY <1>2, <2>2, <2>3, Zenon
       DEF InitMints, InitializeMintCloseAuthority, InitializePermanentDelegate,
           InitializeNonTransferableMint, InitializeDefaultAccountState,
           InitializeTransferFeeConfig
<1>3. CASE InitAccounts \/ AdvanceEpoch
  BY <1>1, <1>3, RenouncedUnchanged
     DEF InitAccounts, InitializeImmutableOwner, InitializeAccount, AdvanceEpoch
<1>4. CASE Harvest
  <2>1. PICK n \in Mints, from \in SUBSET Accounts : HarvestWithheldTokensToMint(n, from)
    BY <1>4 DEF Harvest
  <2> DEFINE total == mints[n].withheld_amount + WithheldIn(harvestable(from, n))
             mint == [mints[n] EXCEPT !.withheld_amount = total]
  <2>2. mints' = [mints EXCEPT ![n] = mint]
    BY <2>1 DEF HarvestWithheldTokensToMint
  <2> HIDE DEF total
  <2>3. mint.authority = mints[n].authority /\ mint.supply = mints[n].supply
    BY <1>1 DEF MintState
  <2> HIDE DEF mint
  <2>4. Renounced(mints[n], mint)
    BY <1>1, <2>3 DEF Renounced
  <2> QED
    BY <1>1, <2>2, <2>4, RenouncedOneMint
<1> QED
  BY <1>2, <1>3, <1>4

\* An account in use is frozen by nothing but FreezeAccount.
LEMMA FreezeCause ==
  ASSUME LInv, Next, NEW a \in Accounts,
         accounts[a].state = "Initialized", accounts'[a].state = "Frozen"
  PROVE  \E k \in Keys, m \in Mints :
           accounts[a].mint = m /\ mints[m].authority["FreezeAccount"] = k
<1> DEFINE Goal == \E k \in Keys, m \in Mints :
                     accounts[a].mint = m /\ mints[m].authority["FreezeAccount"] = k
<1>1. TypeOK /\ accounts \in [Accounts -> AccountState]
  BY DEF LInv, IInv, TypeOK
<1>2. ASSUME NEW b \in Accounts, accounts' = [accounts EXCEPT ![b] = accounts'[b]],
             accounts'[b].state # "Frozen" \/ accounts'[b].state = accounts[b].state
      PROVE  FALSE
  BY <1>1, <1>2
<1>3. ASSUME NEW k \in Keys, NEW ctx \in Contexts, Move(k, ctx) PROVE FALSE
  <2>1. ASSUME NEW s \in Accounts, NEW d \in Accounts, NEW amount \in U64,
               NEW m \in Mints \cup {None}, Transfer(s, d, amount, k, m, ctx)
        PROVE  FALSE
    <3>1. /\ accounts'[s].state = accounts[s].state /\ accounts'[d].state = accounts[d].state
          /\ \A b \in Accounts \ {s, d} : accounts'[b] = accounts[b]
      BY <1>1, <2>1, TransferEffect
    <3> QED
      BY <3>1
  <2>2. ASSUME NEW m \in Mints, NEW d \in Accounts, NEW amount \in U64,
               MintTo(m, d, amount, k, ctx)
        PROVE  FALSE
    BY <1>1, <1>2, <2>2, MintToEffect DEF AccountState
  <2>3. ASSUME NEW m \in Mints, NEW s \in Accounts, NEW amount \in U64,
               Burn(s, m, amount, k, ctx)
        PROVE  FALSE
    BY <1>1, <1>2, <2>3, BurnEffect
  <2> QED
    BY <1>3, <2>1, <2>2, <2>3 DEF Move, SelfTransfer
<1>4. ASSUME NEW k \in Keys, NEW ctx \in Contexts, Delegate(k, ctx) PROVE FALSE
  <2>1. ASSUME NEW b \in Accounts, NEW delegate, NEW amount,
               Approve(b, delegate, amount, k, ctx)
        PROVE  FALSE
    BY <1>1, <1>2, <2>1 DEF Approve, AccountState
  <2>2. ASSUME NEW b \in Accounts, Revoke(b, k, ctx) PROVE FALSE
    BY <1>1, <1>2, <2>2 DEF Revoke, AccountState
  <2> QED
    BY <1>4, <2>1, <2>2 DEF Delegate
<1>5. ASSUME NEW k \in Keys, NEW ctx \in Contexts, ChangeAccount(k, ctx) PROVE FALSE
  <2>1. ASSUME NEW b \in Accounts, NEW new, SetAccountOwner(b, new, k, ctx) PROVE FALSE
    BY <1>1, <1>2, <2>1 DEF SetAccountOwner, HandedOver, AccountState
  <2>2. ASSUME NEW b \in Accounts, NEW new, SetAccountCloseAuthority(b, new, k, ctx)
        PROVE  FALSE
    BY <1>1, <1>2, <2>2 DEF SetAccountCloseAuthority, AccountState
  <2>3. ASSUME NEW b \in Accounts, CloseTokenAccount(b, k, ctx) PROVE FALSE
    BY <1>1, <1>2, <2>3 DEF CloseTokenAccount, BlankAccount
  <2> QED
    BY <1>5, <2>1, <2>2, <2>3 DEF ChangeAccount
<1>6. ASSUME NEW k \in Keys, NEW ctx \in Contexts, Guard(k, ctx) PROVE FALSE
  <2>1. ASSUME NEW b \in Accounts, NEW enable, ToggleRequiredMemoTransfers(b, enable, k, ctx)
        PROVE  FALSE
    BY <1>1, <1>2, <2>1 DEF ToggleRequiredMemoTransfers, AccountState
  <2>2. ASSUME NEW b \in Accounts, NEW enable, ToggleCpiGuard(b, enable, k, ctx)
        PROVE  FALSE
    BY <1>1, <1>2, <2>2 DEF ToggleCpiGuard, AccountState
  <2> QED
    BY <1>6, <2>1, <2>2 DEF Guard
<1>7. ASSUME NEW k \in Keys, NEW ctx \in Contexts, Freeze(k, ctx) PROVE Goal
  <2>1. ASSUME NEW b \in Accounts, NEW m \in Mints, NEW to,
               ToggleFreezeAccount(b, m, to, k, ctx)
        PROVE  Goal
    <3>1. /\ accounts[b].mint = m /\ mints[m].authority["FreezeAccount"] = k
          /\ accounts' = [accounts EXCEPT ![b].state = to]
      BY <2>1 DEF ToggleFreezeAccount
    <3>2. a = b
      BY <1>1, <3>1
    <3> QED
      BY <3>1, <3>2
  <2> QED
    BY <1>7, <2>1 DEF Freeze, UpdateDefaultAccountState
<1>8. ASSUME NEW k \in Keys, NEW ctx \in Contexts, CollectFees(k, ctx) PROVE FALSE
  <2>1. ASSUME NEW m \in Mints, NEW d \in Accounts,
               WithdrawWithheldTokensFromMint(m, d, k, ctx)
        PROVE  FALSE
    BY <1>1, <1>2, <2>1 DEF WithdrawWithheldTokensFromMint, AccountState
  <2>2. ASSUME NEW m \in Mints, NEW d \in Accounts, NEW from \in SUBSET Accounts,
               WithdrawWithheldTokensFromAccounts(m, d, from, k, ctx)
        PROVE  FALSE
    <3> DEFINE S == harvestable(from, m)
               total == accounts[d].amount + WithheldIn(S)
    <3>1. accounts' = [EmptyWithheld(S) EXCEPT ![d].amount = total]
      BY <2>2 DEF WithdrawWithheldTokensFromAccounts
    <3>2. /\ EmptyWithheld(S) \in [Accounts -> AccountState]
          /\ \A b \in Accounts : EmptyWithheld(S)[b].state = accounts[b].state
      BY <1>1, HarvestableFacts
    <3> HIDE DEF S, total
    <3>3. accounts'[a].state = accounts[a].state
      BY <3>1, <3>2 DEF AccountState
    <3> QED
      BY <3>3
  <2> QED
    BY <1>8, <2>1, <2>2 DEF CollectFees
<1>9. ASSUME NEW k \in Keys, NEW ctx \in Contexts,
             ChangeMint(k, ctx) \/ ChangeFees(k, ctx)
      PROVE  FALSE
  BY <1>9 DEF ChangeMint, ChangeFees, SetMintAuthority, CloseMint, SetTransferFee
<1>10. ASSUME InitMints \/ InitAccounts \/ Harvest \/ AdvanceEpoch PROVE FALSE
  <2>1. ASSUME NEW b \in Accounts, InitializeImmutableOwner(b) PROVE FALSE
    BY <1>1, <1>2, <2>1 DEF InitializeImmutableOwner, AccountState
  <2>2. ASSUME NEW b \in Accounts, NEW m \in Mints, NEW owner \in Owners,
               InitializeAccount(b, m, owner)
        PROVE  FALSE
    <3>1. a # b /\ accounts'[a] = accounts[a]
      BY <1>1, <2>2 DEF InitializeAccount
    <3> QED
      BY <3>1
  <2>3. CASE Harvest
    <3>1. accounts'[a].state = accounts[a].state
      BY <1>1, <2>3, HarvestableFacts DEF Harvest, HarvestWithheldTokensToMint
    <3> QED
      BY <3>1
  <2>4. CASE InitMints \/ AdvanceEpoch
    BY <2>4, InitMintsKeepAccounts
  <2> QED
    BY <1>10, <2>1, <2>2, <2>3, <2>4 DEF InitAccounts
<1> HIDE DEF Goal
<1>11. Goal
  BY <1>3, <1>4, <1>5, <1>6, <1>7, <1>8, <1>9, <1>10 DEF Next
<1> QED
  BY <1>11 DEF Goal

(***************************************************************************)
(* An authority given up never comes back while the mint lives, and with   *)
(* it goes what only it could do: minting more, freezing an account        *)
(* (process_set_authority, process_mint_to, process_toggle_freeze_account).*)
(***************************************************************************)
THEOREM RenouncedStaysGone == Spec => RenouncedForGood
<1> DEFINE Kept(m) ==
      mints[m].is_initialized /\ mints'[m].is_initialized =>
        LET gone(type) == mints[m].authority[type] = None
        IN  /\ \A type \in MintAuthorityTypes :
                 gone(type) => mints'[m].authority[type] = None
            /\ gone("MintTokens") => mints'[m].supply <= mints[m].supply
            /\ gone("FreezeAccount") => \A a \in AccountsOf(m) :
                 accounts[a].state = "Initialized" => accounts'[a].state # "Frozen"
<1>1. ASSUME LInv, Next, NEW m \in Mints PROVE Kept(m)
  <2>1. ASSUME NEW k \in Keys, NEW ctx \in Contexts,
               Delegate(k, ctx) \/ ChangeAccount(k, ctx) \/ Guard(k, ctx)
        PROVE  Renounced(mints[m], mints'[m])
    BY <1>1, <2>1, MintsKept, RenouncedUnchanged DEF LInv, IInv
  <2>2. Renounced(mints[m], mints'[m])
    BY <1>1, <2>1, RenouncedSigned, RenouncedUnsigned DEF Next
  <2>3. ASSUME mints[m].authority["FreezeAccount"] = None, NEW a \in AccountsOf(m),
               accounts[a].state = "Initialized", accounts'[a].state = "Frozen"
        PROVE  FALSE
    <3>1. a \in Accounts /\ accounts[a].mint = m
      BY DEF AccountsOf
    <3>2. PICK k \in Keys : mints[m].authority["FreezeAccount"] = k
      BY <1>1, <2>3, <3>1, FreezeCause
    <3> QED
      BY <2>3, <3>2, ConstantFacts
  <2> QED
    BY <2>2, <2>3 DEF Renounced
<1>2. LInv /\ [Next]_vars => [\A m \in Mints : Kept(m)]_vars
  BY <1>1
<1> QED
  BY <1>2, LedgerInvariant, PTL DEF Spec, RenouncedForGood

-----------------------------------------------------------------------------
(***************************************************************************)
(* CpiGuardHolds.  The guard protects the owner, so that it holds rests on *)
(* the owner of a locked account being one who can sign: the burn owners,  *)
(* whose tokens anyone may burn, cannot lock an account, and a locked      *)
(* account cannot be handed over to them.                                  *)
(***************************************************************************)
LockedOwned == \A a \in Accounts : accounts[a].lock_cpi => accounts[a].owner \in Keys

\* What happens to an account, acc before the step and new after it.
Guarded(acc, new) ==
  /\ new.lock_cpi => new.owner \in Keys
  /\ acc.state # "Uninitialized" /\ new.state # "Uninitialized" /\ acc.lock_cpi =>
       /\ new.owner = acc.owner
       /\ tx'.cpi =>
            /\ new.lock_cpi
            /\ new.delegate \in {acc.delegate, None}
            /\ new.close_authority \in {acc.close_authority, None}
            /\ new.amount < acc.amount =>
                 tx'.by \in {acc.delegate, get_permanent_delegate(acc.mint)}

GInv == LInv /\ LockedOwned

LEMMA GuardedSame ==
  ASSUME GInv, NEW a \in Accounts,
         accounts'[a].owner = accounts[a].owner,
         accounts'[a].lock_cpi = accounts[a].lock_cpi,
         accounts'[a].delegate \in {accounts[a].delegate, None},
         accounts'[a].close_authority = accounts[a].close_authority,
         accounts'[a].amount >= accounts[a].amount, accounts'[a].amount \in Nat
  PROVE  Guarded(accounts[a], accounts'[a])
<1>1. accounts[a].amount \in Nat
  BY StateFacts DEF GInv, LInv, IInv
<1>2. ~(accounts'[a].amount < accounts[a].amount)
  BY <1>1
<1> QED
  BY <1>2 DEF Guarded, GInv, LockedOwned

\* A step that rewrites one account.
LEMMA GuardedOne ==
  ASSUME GInv, NEW b \in Accounts, accounts' = [accounts EXCEPT ![b] = accounts'[b]],
         Guarded(accounts[b], accounts'[b]), NEW a \in Accounts
  PROVE  Guarded(accounts[a], accounts'[a])
<1>1. TypeOK /\ accounts \in [Accounts -> AccountState]
  BY DEF GInv, LInv, IInv, TypeOK
<1>2. CASE a = b
  BY <1>2
<1>3. CASE a # b
  <2>1. accounts'[a] = accounts[a]
    BY <1>1, <1>3
  <2>2. accounts[a].amount \in Nat
    BY <1>1, StateFacts
  <2>3. accounts[a].amount >= accounts[a].amount
    BY <2>2
  <2> QED
    BY <2>1, <2>2, <2>3, GuardedSame
<1> QED
  BY <1>2, <1>3

LEMMA GuardedMove ==
  ASSUME GInv, IInv', NEW a \in Accounts, NEW k \in Keys, NEW ctx \in Contexts, Move(k, ctx)
  PROVE  Guarded(accounts[a], accounts'[a])
<1>1. /\ TypeOK /\ accounts \in [Accounts -> AccountState] /\ U64 \subseteq Nat
      /\ \A b \in Accounts : accounts[b].amount \in Nat
      /\ \A b \in Accounts : accounts'[b].amount \in Nat
  BY StateFacts, ConstantFacts DEF GInv, LInv, IInv, TypeOK, AccountState
<1>2. \A b \in Accounts : accounts[b].lock_cpi => accounts[b].owner \notin BurnOwners
  BY TokenAssumption DEF GInv, LockedOwned
<1>3. ASSUME NEW b \in Accounts, accounts'[b] = accounts[b]
      PROVE  Guarded(accounts[b], accounts'[b])
  <2>1. accounts[b].amount >= accounts[b].amount
    BY <1>1
  <2> QED
    BY <1>1, <1>3, <2>1, GuardedSame
\* A debit is covered by MayDebit, which looks at the guard.
<1>4. ASSUME NEW s \in Accounts, NEW new \in AccountState, NEW amount, NEW n, NEW permanent,
             MayDebit(accounts[s], k, amount, permanent, ctx),
             tx'.by = k, tx'.cpi = ctx.cpi,
             k = permanent => k = get_permanent_delegate(accounts[s].mint),
             accounts'[s] =
               [ChargeAllowance(accounts[s], k, amount, permanent) EXCEPT !.amount = n]
      PROVE  Guarded(accounts[s], accounts'[s])
  <2> DEFINE charged == ChargeAllowance(accounts[s], k, amount, permanent)
  <2>1. /\ charged.delegate \in {accounts[s].delegate, None}
        /\ \A i : /\ [charged EXCEPT !.amount = i].owner = accounts[s].owner
                  /\ [charged EXCEPT !.amount = i].lock_cpi = accounts[s].lock_cpi
                  /\ [charged EXCEPT !.amount = i].close_authority
                       = accounts[s].close_authority
                  /\ [charged EXCEPT !.amount = i].delegate = charged.delegate
    BY <1>1, ChargeKeepsTokens
  <2> HIDE DEF charged
  <2>2. /\ accounts'[s].owner = accounts[s].owner
        /\ accounts'[s].lock_cpi = accounts[s].lock_cpi
        /\ accounts'[s].close_authority = accounts[s].close_authority
        /\ accounts'[s].delegate \in {accounts[s].delegate, None}
    BY <1>4, <2>1 DEF charged
  <2>3. accounts[s].lock_cpi /\ tx'.cpi =>
          tx'.by \in {accounts[s].delegate, get_permanent_delegate(accounts[s].mint)}
    BY <1>4 DEF MayDebit, AsDelegate
  <2> QED
    BY <2>2, <2>3 DEF Guarded, GInv, LockedOwned
<1>5. ASSUME NEW s \in Accounts, NEW d \in Accounts, NEW amount \in U64,
             NEW m \in Mints \cup {None}, Transfer(s, d, amount, k, m, ctx)
      PROVE  Guarded(accounts[a], accounts'[a])
  <2> DEFINE new == ChargeAllowance(accounts[s], k, amount, PermanentDelegateFor(m))
             fee == TransferFeeFor(m, amount)
             dst == [accounts[d] EXCEPT !.amount = accounts[d].amount + (amount - fee),
                       !.withheld_amount = accounts[d].withheld_amount + fee]
  <2>1. /\ s # d /\ fee \in Nat /\ amount \in Nat /\ fee <= amount
        /\ accounts'[d].amount = accounts[d].amount + (amount - fee)
        /\ \A b \in Accounts \ {s, d} : accounts'[b] = accounts[b]
    BY <1>1, <1>5, TransferEffect
  <2>2. accounts' = [accounts EXCEPT ![s] = [new EXCEPT !.amount = @ - amount],
               ![d] = [accounts[d] EXCEPT !.amount = @ + (amount - fee),
                                          !.withheld_amount = @ + fee]]
    BY <1>5 DEF Transfer
  <2> HIDE DEF new, fee
  <2>3. accounts'[s] = [new EXCEPT !.amount = new.amount - amount]
    BY <1>1, <2>1, <2>2
  <2>4. accounts'[d] = dst
    BY <1>1, <2>2
  <2>5. CASE a = s
    <3>1. /\ tx'.by = k /\ tx'.cpi = ctx.cpi
          /\ MayDebit(accounts[s], k, amount, PermanentDelegateFor(m), ctx)
          /\ m # None => m = accounts[s].mint
      BY <1>1, <1>5, TransferAuthorized
    <3>2. k = PermanentDelegateFor(m) => k = get_permanent_delegate(accounts[s].mint)
      BY <3>1, ConstantFacts DEF PermanentDelegateFor, get_permanent_delegate
    <3> QED
      BY <1>1, <1>4, <2>3, <2>5, <3>1, <3>2 DEF new
  <2>6. CASE a = d
    <3>1. /\ accounts'[d].owner = accounts[d].owner
          /\ accounts'[d].lock_cpi = accounts[d].lock_cpi
          /\ accounts'[d].delegate = accounts[d].delegate
          /\ accounts'[d].close_authority = accounts[d].close_authority
      BY <1>1, <2>4 DEF AccountState
    <3>2. accounts'[d].amount >= accounts[d].amount
      BY <1>1, <2>1
    <3> QED
      BY <1>1, <2>6, <3>1, <3>2, GuardedSame
  <2>7. CASE a # s /\ a # d
    BY <1>3, <2>1, <2>7
  <2> QED
    BY <2>5, <2>6, <2>7
<1>6. ASSUME NEW m \in Mints, NEW d \in Accounts, NEW amount \in U64,
             MintTo(m, d, amount, k, ctx)
      PROVE  Guarded(accounts[a], accounts'[a])
  <2>1. accounts' = [accounts EXCEPT ![d] =
                       [accounts[d] EXCEPT !.amount = accounts[d].amount + amount]]
    BY <1>1, <1>6, MintToEffect
  <2>2. /\ accounts'[d].owner = accounts[d].owner
        /\ accounts'[d].lock_cpi = accounts[d].lock_cpi
        /\ accounts'[d].delegate = accounts[d].delegate
        /\ accounts'[d].close_authority = accounts[d].close_authority
        /\ accounts'[d].amount = accounts[d].amount + amount
        /\ accounts' = [accounts EXCEPT ![d] = accounts'[d]]
    BY <1>1, <2>1 DEF AccountState
  <2>3. accounts'[d].amount >= accounts[d].amount
    BY <1>1, <2>2
  <2>4. Guarded(accounts[d], accounts'[d])
    BY <1>1, <2>2, <2>3, GuardedSame
  <2> QED
    BY <2>2, <2>4, GuardedOne
<1>7. ASSUME NEW m \in Mints, NEW s \in Accounts, NEW amount \in U64,
             Burn(s, m, amount, k, ctx)
      PROVE  Guarded(accounts[a], accounts'[a])
  <2> DEFINE permanent == get_permanent_delegate(m)
             new == ChargeAllowance(accounts[s], k, amount, permanent)
             abandoned == is_owned_by_system_program_or_incinerator(accounts[s])
  <2>4. tx'.by = k /\ tx'.cpi = ctx.cpi
    BY <1>7 DEF Burn, Signed
  <2>5. /\ accounts[s].mint = m
        /\ accounts' = [accounts EXCEPT ![s] = accounts'[s]]
    BY <1>1, <1>7, BurnEffect
  <2>6. /\ accounts' = [accounts EXCEPT ![s] =
             [(IF abandoned THEN accounts[s] ELSE new) EXCEPT !.amount = @ - amount]]
        /\ abandoned \/ MayDebit(accounts[s], k, amount, permanent, ctx)
    BY <1>7 DEF Burn
  <2>1. /\ tx'.by = k /\ tx'.cpi = ctx.cpi /\ accounts[s].mint = m
        /\ accounts' = [accounts EXCEPT ![s] = accounts'[s]]
        /\ accounts' = [accounts EXCEPT ![s] =
             [(IF abandoned THEN accounts[s] ELSE new) EXCEPT !.amount = @ - amount]]
        /\ abandoned \/ MayDebit(accounts[s], k, amount, permanent, ctx)
    BY <2>4, <2>5, <2>6, Zenon
  <2>2. CASE abandoned
    <3>1. ~accounts[s].lock_cpi
      BY <1>2, <2>2 DEF is_owned_by_system_program_or_incinerator
    <3>2. accounts'[s].lock_cpi = accounts[s].lock_cpi
      BY <1>1, <2>1, <2>2 DEF AccountState
    <3>3. Guarded(accounts[s], accounts'[s])
      BY <3>1, <3>2 DEF Guarded
    <3> QED
      BY <2>1, <3>3, GuardedOne
  <2>3. CASE ~abandoned
    <3> HIDE DEF new, abandoned
    <3>1. accounts'[s] = [new EXCEPT !.amount = new.amount - amount]
      BY <1>1, <2>1, <2>3
    <3>2. Guarded(accounts[s], accounts'[s])
      BY <1>1, <1>4, <2>1, <2>3, <3>1 DEF new
    <3> QED
      BY <2>1, <3>2, GuardedOne
  <2> QED
    BY <2>2, <2>3
<1>8. ASSUME NEW s, NEW amount, NEW m, SelfTransfer(s, amount, k, m, ctx)
      PROVE  Guarded(accounts[a], accounts'[a])
  BY <1>3, <1>8 DEF SelfTransfer
<1> QED
  BY <1>5, <1>6, <1>7, <1>8 DEF Move

LEMMA GuardedSettings ==
  ASSUME GInv, IInv', NEW a \in Accounts, NEW k \in Keys, NEW ctx \in Contexts,
         Delegate(k, ctx) \/ ChangeAccount(k, ctx) \/ Guard(k, ctx) \/ Freeze(k, ctx)
  PROVE  Guarded(accounts[a], accounts'[a])
<1>1. TypeOK /\ accounts \in [Accounts -> AccountState]
      /\ \A b \in Accounts : accounts[b].amount \in Nat
  BY StateFacts DEF GInv, LInv, IInv, TypeOK
<1>2. ASSUME NEW b \in Accounts, accounts' = [accounts EXCEPT ![b] = accounts'[b]],
             accounts'[b].amount = accounts[b].amount,
             accounts'[b].owner = accounts[b].owner,
             accounts'[b].lock_cpi = accounts[b].lock_cpi,
             accounts[b].lock_cpi /\ tx'.cpi =>
               /\ accounts'[b].delegate \in {accounts[b].delegate, None}
               /\ accounts'[b].close_authority \in {accounts[b].close_authority, None}
      PROVE  Guarded(accounts[a], accounts'[a])
  <2>1. ~(accounts'[b].amount < accounts[b].amount)
    BY <1>1, <1>2
  <2>2. Guarded(accounts[b], accounts'[b])
    BY <1>2, <2>1 DEF Guarded, GInv, LockedOwned
  <2> QED
    BY <1>2, <2>2, GuardedOne
<1>3. ASSUME NEW b \in Accounts, NEW delegate, NEW amount, Approve(b, delegate, amount, k, ctx)
      PROVE  Guarded(accounts[a], accounts'[a])
  BY <1>1, <1>2, <1>3 DEF Approve, Signed, AccountState
<1>4. ASSUME NEW b \in Accounts, Revoke(b, k, ctx) PROVE Guarded(accounts[a], accounts'[a])
  BY <1>1, <1>2, <1>4 DEF Revoke, AccountState
<1>5. ASSUME NEW b \in Accounts, NEW new, SetAccountOwner(b, new, k, ctx)
      PROVE  Guarded(accounts[a], accounts'[a])
  <2>1. /\ ~accounts[b].lock_cpi /\ accounts' = [accounts EXCEPT ![b] = accounts'[b]]
        /\ accounts'[b].lock_cpi = accounts[b].lock_cpi
    BY <1>1, <1>5 DEF SetAccountOwner, HandedOver, AccountState
  <2>2. Guarded(accounts[b], accounts'[b])
    BY <2>1 DEF Guarded
  <2> QED
    BY <2>1, <2>2, GuardedOne
<1>6. ASSUME NEW b \in Accounts, NEW new, SetAccountCloseAuthority(b, new, k, ctx)
      PROVE  Guarded(accounts[a], accounts'[a])
  BY <1>1, <1>2, <1>6 DEF SetAccountCloseAuthority, Signed, AccountState
<1>7. ASSUME NEW b \in Accounts, CloseTokenAccount(b, k, ctx)
      PROVE  Guarded(accounts[a], accounts'[a])
  <2>1. accounts' = [accounts EXCEPT ![b] = accounts'[b]] /\ accounts'[b] = BlankAccount
    BY <1>1, <1>7 DEF CloseTokenAccount
  <2>2. Guarded(accounts[b], accounts'[b])
    BY <2>1 DEF Guarded, BlankAccount
  <2> QED
    BY <2>1, <2>2, GuardedOne
<1>8. ASSUME NEW b \in Accounts, NEW enable, ToggleRequiredMemoTransfers(b, enable, k, ctx)
      PROVE  Guarded(accounts[a], accounts'[a])
  BY <1>1, <1>2, <1>8 DEF ToggleRequiredMemoTransfers, AccountState
<1>9. ASSUME NEW b \in Accounts, NEW enable, ToggleCpiGuard(b, enable, k, ctx)
      PROVE  Guarded(accounts[a], accounts'[a])
  <2>1. /\ ~tx'.cpi /\ accounts[b].owner = k
        /\ accounts' = [accounts EXCEPT ![b] = accounts'[b]]
        /\ accounts'[b].owner = accounts[b].owner
    BY <1>1, <1>9 DEF ToggleCpiGuard, Signed, AccountState
  <2>2. Guarded(accounts[b], accounts'[b])
    BY <2>1 DEF Guarded
  <2> QED
    BY <2>1, <2>2, GuardedOne
<1>10. ASSUME NEW b \in Accounts, NEW m, NEW to, ToggleFreezeAccount(b, m, to, k, ctx)
       PROVE  Guarded(accounts[a], accounts'[a])
  <2>1. accounts' = [accounts EXCEPT ![b] = [accounts[b] EXCEPT !.state = to]]
    BY <1>10 DEF ToggleFreezeAccount
  <2>2. /\ accounts' = [accounts EXCEPT ![b] = accounts'[b]]
        /\ accounts'[b].amount = accounts[b].amount
        /\ accounts'[b].owner = accounts[b].owner
        /\ accounts'[b].lock_cpi = accounts[b].lock_cpi
        /\ accounts'[b].delegate = accounts[b].delegate
        /\ accounts'[b].close_authority = accounts[b].close_authority
    BY <1>1, <2>1 DEF AccountState
  <2> QED
    BY <1>2, <2>2
<1>11. ASSUME UNCHANGED accounts PROVE Guarded(accounts[a], accounts'[a])
  <2>1. accounts'[a] = accounts[a] /\ accounts[a].amount >= accounts[a].amount
    BY <1>1, <1>11
  <2> QED
    BY <1>1, <2>1, GuardedSame
<1>12. CASE Delegate(k, ctx) \/ Freeze(k, ctx)
  BY <1>3, <1>4, <1>10, <1>11, <1>12 DEF Delegate, Freeze, UpdateDefaultAccountState
<1>13. CASE ChangeAccount(k, ctx) \/ Guard(k, ctx)
  BY <1>5, <1>6, <1>7, <1>8, <1>9, <1>13 DEF ChangeAccount, Guard
<1> QED
  BY <1>12, <1>13

\* Harvests, withdrawals and the instructions on mints.
LEMMA GuardedCollect ==
  ASSUME GInv, IInv', NEW a \in Accounts, NEW k \in Keys, NEW ctx \in Contexts,
         CollectFees(k, ctx) \/ ChangeMint(k, ctx) \/ ChangeFees(k, ctx)
  PROVE  Guarded(accounts[a], accounts'[a])
<1>1. /\ TypeOK /\ accounts \in [Accounts -> AccountState] /\ LInv
      /\ accounts[a].amount \in Nat /\ accounts'[a].amount \in Nat
  BY StateFacts, ConstantFacts DEF GInv, LInv, IInv, TypeOK, AccountState
<1>2. ASSUME accounts'[a].owner = accounts[a].owner,
             accounts'[a].lock_cpi = accounts[a].lock_cpi,
             accounts'[a].delegate = accounts[a].delegate,
             accounts'[a].close_authority = accounts[a].close_authority,
             CollectFees(k, ctx)
      PROVE  Guarded(accounts[a], accounts'[a])
  <2>1. accounts'[a].amount >= accounts[a].amount
    BY <1>1, <1>2, CollectEffect
  <2> QED
    BY <1>1, <1>2, <2>1, GuardedSame
<1>3. ASSUME NEW m \in Mints, NEW d \in Accounts, WithdrawWithheldTokensFromMint(m, d, k, ctx)
      PROVE  Guarded(accounts[a], accounts'[a])
  <2>1. CollectFees(k, ctx)
    BY <1>3 DEF CollectFees
  <2> QED
    BY <1>1, <1>2, <1>3, <2>1 DEF WithdrawWithheldTokensFromMint, AccountState
<1>4. ASSUME NEW m \in Mints, NEW d \in Accounts, NEW from \in SUBSET Accounts,
             WithdrawWithheldTokensFromAccounts(m, d, from, k, ctx)
      PROVE  Guarded(accounts[a], accounts'[a])
  <2> DEFINE S == harvestable(from, m)
             total == accounts[d].amount + WithheldIn(S)
             E == EmptyWithheld(S)
  <2>1. accounts' = [E EXCEPT ![d].amount = total]
    BY <1>4 DEF WithdrawWithheldTokensFromAccounts
  <2>2. /\ E \in [Accounts -> AccountState]
        /\ E[a].owner = accounts[a].owner /\ E[a].lock_cpi = accounts[a].lock_cpi
        /\ E[a].delegate = accounts[a].delegate
        /\ E[a].close_authority = accounts[a].close_authority
    <3>1. E \in [Accounts -> AccountState]
      BY <1>1, HarvestableFacts
    <3>2. E[a] \in {accounts[a], [accounts[a] EXCEPT !.withheld_amount = 0]}
      BY DEF EmptyWithheld
    <3> HIDE DEF E, S
    <3> QED
      BY <1>1, <3>1, <3>2 DEF AccountState
  <2> HIDE DEF S, total, E
  <2>3. /\ accounts'[a].owner = accounts[a].owner
        /\ accounts'[a].lock_cpi = accounts[a].lock_cpi
        /\ accounts'[a].delegate = accounts[a].delegate
        /\ accounts'[a].close_authority = accounts[a].close_authority
    BY <2>1, <2>2 DEF AccountState
  <2>4. CollectFees(k, ctx)
    BY <1>4 DEF CollectFees
  <2> QED
    BY <1>2, <2>3, <2>4
<1>5. CASE ChangeMint(k, ctx) \/ ChangeFees(k, ctx)
  <2>1. accounts' = accounts
    BY <1>5 DEF ChangeMint, ChangeFees, SetMintAuthority, CloseMint, SetTransferFee
  <2>2. accounts[a].amount >= accounts[a].amount
    BY <1>1
  <2> QED
    BY <1>1, <2>1, <2>2, GuardedSame
<1> QED
  BY <1>3, <1>4, <1>5 DEF CollectFees

LEMMA GuardedUnsigned ==
  ASSUME GInv, IInv', NEW a \in Accounts, InitMints \/ InitAccounts \/ Harvest \/ AdvanceEpoch
  PROVE  Guarded(accounts[a], accounts'[a])
<1>1. /\ TypeOK /\ accounts \in [Accounts -> AccountState] /\ LInv
      /\ accounts[a].amount \in Nat
  BY StateFacts DEF GInv, LInv, IInv, TypeOK
<1>2. accounts'[a].amount = accounts[a].amount /\ accounts'[a].amount >= accounts[a].amount
  BY <1>1, UnsignedKeepAmounts
<1>3. CASE InitMints \/ AdvanceEpoch
  <2>1. accounts'[a] = accounts[a]
    BY <1>3, InitMintsKeepAccounts
  <2> QED
    BY <1>1, <1>2, <2>1, GuardedSame
<1>4. ASSUME NEW b \in Accounts, InitializeImmutableOwner(b)
      PROVE  Guarded(accounts[a], accounts'[a])
  <2>1. /\ accounts'[a].owner = accounts[a].owner
        /\ accounts'[a].lock_cpi = accounts[a].lock_cpi
        /\ accounts'[a].delegate = accounts[a].delegate
        /\ accounts'[a].close_authority = accounts[a].close_authority
    BY <1>1, <1>4 DEF InitializeImmutableOwner, AccountState
  <2> QED
    BY <1>1, <1>2, <2>1, GuardedSame
<1>5. ASSUME NEW b \in Accounts, NEW m \in Mints, NEW owner \in Owners,
             InitializeAccount(b, m, owner)
      PROVE  Guarded(accounts[a], accounts'[a])
  <2>1. /\ accounts' = [accounts EXCEPT ![b] = accounts'[b]]
        /\ accounts[b].state = "Uninitialized" /\ accounts'[b].lock_cpi = FALSE
    BY <1>1, <1>5 DEF InitializeAccount, BlankAccount
  <2>2. Guarded(accounts[b], accounts'[b])
    BY <2>1 DEF Guarded
  <2> QED
    BY <2>1, <2>2, GuardedOne
<1>6. CASE Harvest
  <2>1. PICK m \in Mints, from \in SUBSET Accounts : HarvestWithheldTokensToMint(m, from)
    BY <1>6 DEF Harvest
  <2>2. accounts'[a] \in {accounts[a], [accounts[a] EXCEPT !.withheld_amount = 0]}
    BY <2>1 DEF HarvestWithheldTokensToMint, EmptyWithheld
  <2>3. /\ accounts'[a].owner = accounts[a].owner
        /\ accounts'[a].lock_cpi = accounts[a].lock_cpi
        /\ accounts'[a].delegate = accounts[a].delegate
        /\ accounts'[a].close_authority = accounts[a].close_authority
    BY <1>1, <2>2 DEF AccountState
  <2> QED
    BY <1>1, <1>2, <2>3, GuardedSame
<1> QED
  BY <1>3, <1>4, <1>5, <1>6 DEF InitAccounts

LEMMA GuardedNext ==
  ASSUME GInv, Next, NEW a \in Accounts
  PROVE  Guarded(accounts[a], accounts'[a])
<1>1. IInv'
  BY NextIInv DEF GInv, LInv
<1>2. ASSUME NEW k \in Keys, NEW ctx \in Contexts,
             \/ Move(k, ctx)
             \/ Delegate(k, ctx)
             \/ ChangeAccount(k, ctx)
             \/ Guard(k, ctx)
             \/ ChangeMint(k, ctx)
             \/ Freeze(k, ctx)
             \/ CollectFees(k, ctx)
             \/ ChangeFees(k, ctx)
      PROVE  Guarded(accounts[a], accounts'[a])
  BY <1>1, <1>2, GuardedMove, GuardedSettings, GuardedCollect
<1> QED
  BY <1>1, <1>2, GuardedUnsigned DEF Next

(***************************************************************************)
(* Inside a CPI, a locked guard keeps the owner's signature from unlocking *)
(* the account, handing it over, appointing a delegate or close authority, *)
(* or moving its tokens; outside, it still keeps the owner                 *)
(* (extension/cpi_guard, process_transfer, process_burn, process_approve,  *)
(* process_set_authority).                                                 *)
(***************************************************************************)
THEOREM GuardProtectsOwner == Spec => CpiGuardHolds
<1> DEFINE Kept(a) ==
      LET acc == accounts[a]
          new == accounts'[a]
          open == {acc.delegate, get_permanent_delegate(acc.mint)}
      IN  acc.state # "Uninitialized" /\ new.state # "Uninitialized" /\ acc.lock_cpi =>
            /\ new.owner = acc.owner
            /\ tx'.cpi =>
                 /\ new.lock_cpi
                 /\ new.delegate \in {acc.delegate, None}
                 /\ new.close_authority \in {acc.close_authority, None}
                 /\ new.amount < acc.amount => tx'.by \in open
<1>1. Init => GInv
  BY InitLInv DEF GInv, LockedOwned, Init, BlankAccount
<1>2. GInv /\ [Next]_vars => GInv'
  <2> SUFFICES ASSUME GInv, [Next]_vars PROVE GInv'
    OBVIOUS
  <2>1. LInv'
    BY NextLInv DEF GInv
  <2>2. CASE Next
    <3>1. \A a \in Accounts : accounts'[a].lock_cpi => accounts'[a].owner \in Keys
      BY <2>2, GuardedNext DEF Guarded
    <3> QED
      BY <2>1, <3>1 DEF GInv, LockedOwned
  <2>3. CASE UNCHANGED vars
    BY <2>1, <2>3 DEF vars, GInv, LockedOwned
  <2> QED
    BY <2>2, <2>3
<1>3. GInv /\ [Next]_vars => [\A a \in Accounts : Kept(a)]_vars
  BY GuardedNext DEF Guarded
<1> QED
  BY <1>1, <1>2, <1>3, PTL DEF Spec, CpiGuardHolds

-----------------------------------------------------------------------------
(***************************************************************************)
(* NonTransferableStaysPut, for addresses that are a mint once.  A mint    *)
(* closed and initialized again at the same address may find accounts of   *)
(* the earlier one, which carry no mark and escape the check: the property *)
(* is then false, as the run reused_mint shows.  While no address is a     *)
(* mint twice, every account of a non-transferable mint is marked, since   *)
(* the extensions of a mint are fixed before its first account is opened,  *)
(* and so neither the accounts nor the mint ever withhold a fee.           *)
(***************************************************************************)
Fixed(mint) ==
  /\ mint.is_initialized => mint.incarnation >= 1
  /\ "NonTransferable" \in mint.exts => mint.withheld_amount = 0

Marked(acc, ms) ==
  /\ acc.state # "Uninitialized" => acc.mint # None
  /\ acc.mint # None =>
       /\ ms[acc.mint].incarnation >= 1
       /\ "NonTransferable" \in ms[acc.mint].exts =>
            /\ "NonTransferableAccount" \in acc.exts
            /\ acc.withheld_amount = 0

AccountsMarked ==
  /\ \A m \in Mints : Fixed(mints[m])
  /\ \A a \in Accounts : Marked(accounts[a], mints)

NInv == LInv /\ AccountsMarked

\* What a step does to a mint.
Evolved(old, new) ==
  /\ Fixed(new)
  /\ new.incarnation >= old.incarnation
  /\ "NonTransferable" \in new.exts /\ old.incarnation >= 1 => "NonTransferable" \in old.exts

LEMMA EvolvedSame ==
  ASSUME NInv, NEW m \in Mints, NEW mint,
         mint.is_initialized = mints[m].is_initialized, mint.exts = mints[m].exts,
         mint.incarnation = mints[m].incarnation,
         mint.withheld_amount \in {0, mints[m].withheld_amount}
  PROVE  Evolved(mints[m], mint)
<1>1. mints[m].incarnation \in Nat
  BY DEF NInv, LInv, IInv, TypeOK, MintState
<1>2. mints[m].incarnation >= mints[m].incarnation
  BY <1>1
<1> QED
  BY <1>2 DEF Evolved, Fixed, NInv, AccountsMarked

LEMMA EvolvedOne ==
  ASSUME NInv, NEW n \in Mints, NEW mint, mints' = [mints EXCEPT ![n] = mint],
         Evolved(mints[n], mint), NEW m \in Mints
  PROVE  Evolved(mints[m], mints'[m])
<1>1. mints \in [Mints -> MintState]
  BY DEF NInv, LInv, IInv, TypeOK
<1>2. mints'[n] = mint /\ (m # n => mints'[m] = mints[m])
  BY <1>1
<1> QED
  BY <1>2, EvolvedSame

\* Mints are set up at most once.
LEMMA EvolvedInit ==
  ASSUME MaxIncarnations <= 1, NInv, NEW m \in Mints, InitMints
  PROVE  Evolved(mints[m], mints'[m])
<1>1. LInv /\ mints \in [Mints -> MintState]
  BY DEF NInv, LInv, IInv, TypeOK
<1>2. ASSUME NEW n \in Mints, NEW ext, NEW mint \in MintState, InitExtension(n, ext, mint),
             mint.is_initialized = mints[n].is_initialized,
             mint.incarnation = mints[n].incarnation,
             mint.withheld_amount \in {0, mints[n].withheld_amount}
      PROVE  Evolved(mints[m], mints'[m])
  <2> DEFINE new == [mint EXCEPT !.exts = @ \cup {ext}]
  <2>1. /\ mints' = [mints EXCEPT ![n] = new] /\ ~mints[n].is_initialized
        /\ mints[n].incarnation < MaxIncarnations
    BY <1>2 DEF InitExtension, CanExtend
  <2>2. mints[n].withheld_amount = 0
    BY <1>1, <2>1, UnmintedWithholdsNothing
  <2>0. mints[n] \in MintState
    BY <1>1
  <2>3. mints[n].incarnation \in Nat /\ mints[n].incarnation = 0
    BY <2>0, <2>1, TokenAssumption DEF MintState
  <2>4. /\ new.is_initialized = mints[n].is_initialized
        /\ new.incarnation = mints[n].incarnation /\ new.withheld_amount = 0
    BY <1>2, <2>2 DEF MintState
  <2> HIDE DEF new
  <2>5. Evolved(mints[n], new)
    BY <2>1, <2>3, <2>4 DEF Evolved, Fixed
  <2> QED
    BY <2>1, <2>5, EvolvedOne
<1>3. ASSUME NEW type \in MintAuthorityTypes, NEW k \in MaybeKey, NEW mint \in MintState
      PROVE  /\ [mint EXCEPT !.authority[type] = k] \in MintState
             /\ [mint EXCEPT !.authority[type] = k].is_initialized = mint.is_initialized
             /\ [mint EXCEPT !.authority[type] = k].incarnation = mint.incarnation
             /\ [mint EXCEPT !.authority[type] = k].withheld_amount = mint.withheld_amount
  <2>1. [mint.authority EXCEPT ![type] = k] \in [MintAuthorityTypes -> MaybeKey]
    BY DEF MintState
  <2> QED
    BY <2>1 DEF MintState
<1>4. ASSUME NEW n \in Mints, NEW k \in MaybeKey,
             InitializeMintCloseAuthority(n, k) \/ InitializePermanentDelegate(n, k)
      PROVE  Evolved(mints[m], mints'[m])
  <2>1. CASE InitializeMintCloseAuthority(n, k)
    <3> DEFINE mint == [mints[n] EXCEPT !.authority["CloseMint"] = k]
    <3>0. mints[n] \in MintState
      BY <1>1
    <3>1. /\ mint \in MintState /\ mint.is_initialized = mints[n].is_initialized
          /\ mint.incarnation = mints[n].incarnation
          /\ mint.withheld_amount = mints[n].withheld_amount
      BY <1>3, <3>0 DEF MintAuthorityTypes
    <3>2. InitExtension(n, "MintCloseAuthority", mint)
      BY <2>1 DEF InitializeMintCloseAuthority
    <3> HIDE DEF mint
    <3> QED
      BY <1>2, <3>1, <3>2
  <2>2. CASE InitializePermanentDelegate(n, k)
    <3> DEFINE mint == [mints[n] EXCEPT !.authority["PermanentDelegate"] = k]
    <3>0. mints[n] \in MintState
      BY <1>1
    <3>1. /\ mint \in MintState /\ mint.is_initialized = mints[n].is_initialized
          /\ mint.incarnation = mints[n].incarnation
          /\ mint.withheld_amount = mints[n].withheld_amount
      BY <1>3, <3>0 DEF MintAuthorityTypes
    <3>2. InitExtension(n, "PermanentDelegate", mint)
      BY <2>2 DEF InitializePermanentDelegate
    <3> HIDE DEF mint
    <3> QED
      BY <1>2, <3>1, <3>2
  <2> QED
    BY <1>4, <2>1, <2>2
<1>5. ASSUME NEW n \in Mints, InitializeNonTransferableMint(n)
      PROVE  Evolved(mints[m], mints'[m])
  BY <1>1, <1>2, <1>5 DEF InitializeNonTransferableMint
<1>6. ASSUME NEW n \in Mints, NEW state \in {"Initialized", "Frozen"},
             InitializeDefaultAccountState(n, state)
      PROVE  Evolved(mints[m], mints'[m])
  <2> DEFINE mint == [mints[n] EXCEPT !.default_state = state]
  <2>1. /\ mint \in MintState /\ mint.is_initialized = mints[n].is_initialized
        /\ mint.incarnation = mints[n].incarnation
        /\ mint.withheld_amount = mints[n].withheld_amount
    BY <1>1 DEF MintState
  <2>2. InitExtension(n, "DefaultAccountState", mint)
    BY <1>6 DEF InitializeDefaultAccountState
  <2> HIDE DEF mint
  <2> QED
    BY <1>2, <2>1, <2>2
<1>7. ASSUME NEW n \in Mints, NEW kc \in MaybeKey, NEW kw \in MaybeKey,
             NEW bps \in BasisPoints, NEW max \in MaximumFees,
             InitializeTransferFeeConfig(n, kc, kw, bps, max)
      PROVE  Evolved(mints[m], mints'[m])
  <2> DEFINE m1 == [mints[n] EXCEPT !.authority["TransferFeeConfig"] = kc]
             m2 == [m1 EXCEPT !.authority["WithheldWithdraw"] = kw]
             m3 == [m2 EXCEPT !.withheld_amount = 0,
                              !.fees = initial_fees(epoch, bps, max)]
  <2>0. mints[n] \in MintState
    BY <1>1
  <2>1. /\ m1 \in MintState /\ m1.is_initialized = mints[n].is_initialized
        /\ m1.incarnation = mints[n].incarnation
    BY <1>3, <2>0 DEF MintAuthorityTypes
  <2>2. InitExtension(n, "TransferFeeConfig", m3)
    BY <1>7 DEF InitializeTransferFeeConfig
  <2> HIDE DEF m1
  <2>3. /\ m2 \in MintState /\ m2.is_initialized = mints[n].is_initialized
        /\ m2.incarnation = mints[n].incarnation
    BY <1>3, <2>1 DEF MintAuthorityTypes
  <2> HIDE DEF m2
  <2>4. bps \in 0 .. ONE_IN_BASIS_POINTS /\ epoch \in U64 /\ max \in U64
    BY <1>7, <1>1, ConstantFacts, TokenAssumption, FeeAssumption
       DEF InitializeTransferFeeConfig, LInv, IInv, TypeOK
  <2>5. initial_fees(epoch, bps, max) \in FeePairs
    BY <2>4, InitialFeesType
  <2>6. /\ m3 \in MintState /\ m3.is_initialized = mints[n].is_initialized
        /\ m3.incarnation = mints[n].incarnation /\ m3.withheld_amount = 0
    BY <2>3, <2>5, ConstantFacts DEF MintState
  <2> HIDE DEF m3
  <2> QED
    BY <1>2, <2>2, <2>6
<1>8. ASSUME NEW n \in Mints, NEW km \in Keys, NEW kf \in MaybeKey, InitializeMint(n, km, kf)
      PROVE  Evolved(mints[m], mints'[m])
  <2> DEFINE new == mints'[n]
  <2>1. /\ mints' = [mints EXCEPT ![n] = new] /\ new.exts = mints[n].exts
        /\ new.incarnation = mints[n].incarnation + 1
        /\ new.withheld_amount = mints[n].withheld_amount
    BY <1>1, <1>8 DEF InitializeMint, MintState
  <2>2. mints[n].incarnation \in Nat
    BY <1>1 DEF MintState
  <2> HIDE DEF new
  <2>3. Fixed(mints[n])
    BY DEF NInv, AccountsMarked
  <2>4. Evolved(mints[n], new)
    BY <2>1, <2>2, <2>3 DEF Evolved, Fixed
  <2> QED
    BY <2>1, <2>4, EvolvedOne
<1>9. Keys \subseteq MaybeKey
  BY DEF MaybeKey
<1> QED
  BY <1>4, <1>5, <1>6, <1>7, <1>8, <1>9 DEF InitMints

\* The fees withheld by accounts of a non-transferable mint: none.
LEMMA NothingWithheld ==
  ASSUME NInv, NEW n \in Mints, "NonTransferable" \in mints[n].exts,
         NEW from \in SUBSET Accounts
  PROVE  WithheldIn(harvestable(from, n)) = 0
<1> DEFINE S == harvestable(from, n)
           w == [a \in Accounts |-> accounts[a].withheld_amount]
<1>1. \A a \in S : a \in Accounts /\ accounts[a].mint = n
  BY DEF harvestable
<1>2. n # None
  BY TokenAssumption
<1>3. \A a \in S : w[a] = 0
  BY <1>1, <1>2 DEF NInv, AccountsMarked, Marked
<1>4. WithheldIn(S) = Total(w, S)
  BY DEF WithheldIn
<1> HIDE DEF S, w
<1>5. Total(w, S) = 0
  BY <1>3, TotalZero
<1> QED
  BY <1>4, <1>5 DEF S

LEMMA EvolvedNext ==
  ASSUME MaxIncarnations <= 1, NInv, Next, NEW m \in Mints
  PROVE  Evolved(mints[m], mints'[m])
<1>1. TypeOK /\ mints \in [Mints -> MintState] /\ LInv
  BY DEF NInv, LInv, IInv, TypeOK
<1>2. ASSUME UNCHANGED mints PROVE Evolved(mints[m], mints'[m])
  BY <1>2, EvolvedSame
<1>3. ASSUME NEW n \in Mints, NEW mint, mints' = [mints EXCEPT ![n] = mint],
             mint.is_initialized = mints[n].is_initialized, mint.exts = mints[n].exts,
             mint.incarnation = mints[n].incarnation,
             mint.withheld_amount \in {0, mints[n].withheld_amount}
      PROVE  Evolved(mints[m], mints'[m])
  BY <1>3, EvolvedSame, EvolvedOne
<1>4. ASSUME NEW k \in Keys, NEW ctx \in Contexts, Move(k, ctx)
      PROVE  Evolved(mints[m], mints'[m])
  <2>1. ASSUME NEW n \in Mints, NEW d \in Accounts, NEW amount \in U64,
               MintTo(n, d, amount, k, ctx)
        PROVE  Evolved(mints[m], mints'[m])
    <3>1. mints' = [mints EXCEPT ![n] =
                      [mints[n] EXCEPT !.supply = mints[n].supply + amount]]
      BY <1>1, <2>1, MintToEffect
    <3> QED
      BY <1>1, <1>3, <3>1 DEF MintState
  <2>2. ASSUME NEW n \in Mints, NEW s \in Accounts, NEW amount \in U64,
               Burn(s, n, amount, k, ctx)
        PROVE  Evolved(mints[m], mints'[m])
    <3>1. mints' = [mints EXCEPT ![n] =
                      [mints[n] EXCEPT !.supply = mints[n].supply - amount]]
      BY <1>1, <2>2, BurnEffect
    <3> QED
      BY <1>1, <1>3, <3>1 DEF MintState
  <2>3. ASSUME NEW s, NEW d, NEW amount, NEW n,
               Transfer(s, d, amount, k, n, ctx) \/ SelfTransfer(s, amount, k, n, ctx)
        PROVE  Evolved(mints[m], mints'[m])
    BY <1>2, <2>3 DEF Transfer, SelfTransfer
  <2> QED
    BY <1>4, <2>1, <2>2, <2>3 DEF Move
<1>5. ASSUME NEW k \in Keys, NEW ctx \in Contexts, ChangeMint(k, ctx) \/ ChangeFees(k, ctx)
      PROVE  Evolved(mints[m], mints'[m])
  <2>1. ASSUME NEW n \in Mints, NEW type, NEW new, SetMintAuthority(n, type, new, k, ctx)
        PROVE  Evolved(mints[m], mints'[m])
    BY <1>1, <1>3, <2>1 DEF SetMintAuthority, MintState
  <2>2. ASSUME NEW n \in Mints, CloseMint(n, k, ctx) PROVE Evolved(mints[m], mints'[m])
    <3>1. mints' = [mints EXCEPT ![n] = BlankMint(mints[n].incarnation)]
      BY <2>2 DEF CloseMint
    <3>2. mints[n].incarnation \in Nat
      BY <1>1 DEF MintState
    <3>3. Evolved(mints[n], BlankMint(mints[n].incarnation))
      BY <3>2 DEF Evolved, Fixed, BlankMint
    <3> QED
      BY <3>1, <3>3, EvolvedOne
  <2>3. ASSUME NEW n \in Mints, NEW bps, NEW max, SetTransferFee(n, bps, max, k, ctx)
        PROVE  Evolved(mints[m], mints'[m])
    BY <1>1, <1>3, <2>3 DEF SetTransferFee, MintState
  <2> QED
    BY <1>5, <2>1, <2>2, <2>3 DEF ChangeMint, ChangeFees
<1>6. ASSUME NEW k \in Keys, NEW ctx \in Contexts, Freeze(k, ctx)
      PROVE  Evolved(mints[m], mints'[m])
  <2>1. ASSUME NEW n \in Mints, NEW state, UpdateDefaultAccountState(n, state, k, ctx)
        PROVE  Evolved(mints[m], mints'[m])
    BY <1>1, <1>3, <2>1 DEF UpdateDefaultAccountState, MintState
  <2> QED
    BY <1>2, <1>6, <2>1 DEF Freeze, ToggleFreezeAccount
<1>7. ASSUME NEW k \in Keys, NEW ctx \in Contexts, CollectFees(k, ctx)
      PROVE  Evolved(mints[m], mints'[m])
  <2>1. ASSUME NEW n \in Mints, NEW d, WithdrawWithheldTokensFromMint(n, d, k, ctx)
        PROVE  Evolved(mints[m], mints'[m])
    <3> DEFINE mint == [mints[n] EXCEPT !.withheld_amount = 0]
    <3>1. mints' = [mints EXCEPT ![n] = mint]
      BY <2>1 DEF WithdrawWithheldTokensFromMint
    <3>2. /\ mint.is_initialized = mints[n].is_initialized /\ mint.exts = mints[n].exts
          /\ mint.incarnation = mints[n].incarnation /\ mint.withheld_amount = 0
      BY <1>1 DEF MintState
    <3> HIDE DEF mint
    <3> QED
      BY <1>3, <3>1, <3>2
  <2> QED
    BY <1>2, <1>7, <2>1 DEF CollectFees, WithdrawWithheldTokensFromAccounts
<1>8. CASE Harvest
  <2>1. PICK n \in Mints, from \in SUBSET Accounts : HarvestWithheldTokensToMint(n, from)
    BY <1>8 DEF Harvest
  <2> DEFINE total == mints[n].withheld_amount + WithheldIn(harvestable(from, n))
             mint == [mints[n] EXCEPT !.withheld_amount = total]
  <2>2. mints' = [mints EXCEPT ![n] = mint]
    BY <2>1 DEF HarvestWithheldTokensToMint
  <2>3. "NonTransferable" \in mints[n].exts => total = 0
    <3>1. "NonTransferable" \in mints[n].exts => mints[n].withheld_amount = 0
      BY DEF NInv, AccountsMarked, Fixed
    <3> QED
      BY <3>1, NothingWithheld
  <2> HIDE DEF total
  <2>4. /\ mint.is_initialized = mints[n].is_initialized /\ mint.exts = mints[n].exts
        /\ mint.incarnation = mints[n].incarnation /\ mint.withheld_amount = total
    BY <1>1 DEF MintState
  <2>5. mints[n].incarnation \in Nat /\ Fixed(mints[n])
    BY <1>1 DEF MintState, NInv, AccountsMarked
  <2> HIDE DEF mint
  <2>6. Evolved(mints[n], mint)
    BY <2>3, <2>4, <2>5 DEF Evolved, Fixed
  <2> QED
    BY <2>2, <2>6, EvolvedOne
<1>9. CASE InitMints
  BY <1>9, EvolvedInit
<1>10. CASE InitAccounts \/ AdvanceEpoch
  BY <1>2, <1>10 DEF InitAccounts, InitializeImmutableOwner, InitializeAccount, AdvanceEpoch
<1>11. ASSUME NEW k \in Keys, NEW ctx \in Contexts,
              Delegate(k, ctx) \/ ChangeAccount(k, ctx) \/ Guard(k, ctx)
       PROVE  Evolved(mints[m], mints'[m])
  BY <1>2, <1>11, MintsKept
<1>12. ASSUME NEW k \in Keys, NEW ctx \in Contexts,
              \/ Move(k, ctx)
              \/ Delegate(k, ctx)
              \/ ChangeAccount(k, ctx)
              \/ Guard(k, ctx)
              \/ ChangeMint(k, ctx)
              \/ Freeze(k, ctx)
              \/ CollectFees(k, ctx)
              \/ ChangeFees(k, ctx)
       PROVE  Evolved(mints[m], mints'[m])
  BY <1>4, <1>5, <1>6, <1>7, <1>11, <1>12
<1> QED
  BY <1>8, <1>9, <1>10, <1>12 DEF Next

\* A transfer takes nothing out of an account of a non-transferable mint, so
\* that no fee is withheld by another one.
LEMMA MarkedStays ==
  ASSUME NInv, NEW s \in Accounts, NEW d \in Accounts, NEW amount \in U64,
         NEW m \in Mints \cup {None}, NEW k \in Keys, NEW ctx \in Contexts,
         Transfer(s, d, amount, k, m, ctx)
  PROVE  /\ accounts[d].mint # None
         /\ "NonTransferable" \notin mints[accounts[d].mint].exts
<1>1. TypeOK
  BY DEF NInv, LInv, IInv
<1>2. /\ accounts[s].state = "Initialized" /\ accounts[d].mint = accounts[s].mint
  BY <1>1, TransferEffect
<1>3. "NonTransferableAccount" \notin accounts[s].exts
  BY DEF Transfer, MayTransfer
<1> QED
  BY <1>2, <1>3 DEF NInv, AccountsMarked, Marked


\* An account that a step leaves with its mint and its extensions.
Follows(old, new) ==
  /\ new.state # "Uninitialized" => old.state # "Uninitialized"
  /\ new.mint = old.mint
  /\ old.exts \subseteq new.exts
  /\ new.withheld_amount \in {0, old.withheld_amount}

LEMMA FollowsMarked ==
  ASSUME MaxIncarnations <= 1, NInv, Next, NEW a \in Accounts, NEW new,
         Follows(accounts[a], new)
  PROVE  Marked(new, mints')
<1> DEFINE n == accounts[a].mint
<1>1. accounts[a] \in AccountState /\ n \in Mints \cup {None}
  BY DEF NInv, LInv, IInv, TypeOK, AccountState
<1>2. Marked(accounts[a], mints)
  BY DEF NInv, AccountsMarked
<1>3. CASE n = None
  BY <1>2, <1>3 DEF Marked, Follows
<1>4. CASE n # None
  <2>1. n \in Mints /\ Evolved(mints[n], mints'[n])
    BY <1>1, <1>4, EvolvedNext
  <2>2. mints[n].incarnation \in Nat /\ mints'[n].incarnation \in Nat
    <3>1. mints[n] \in MintState /\ mints'[n] \in MintState
      BY <2>1, NextLInv DEF NInv, LInv, IInv, TypeOK
    <3> QED
      BY <3>1 DEF MintState
  <2>3. mints[n].incarnation >= 1
    BY <1>2, <1>4 DEF Marked
  <2>4. mints'[n].incarnation >= 1
    BY <2>1, <2>2, <2>3 DEF Evolved
  <2>5. "NonTransferable" \in mints'[n].exts => "NonTransferable" \in mints[n].exts
    BY <2>1, <2>3 DEF Evolved
  <2>6. new.mint = n
    BY DEF Follows
  <2>7. "NonTransferable" \in mints[n].exts =>
           "NonTransferableAccount" \in new.exts /\ new.withheld_amount = 0
    BY <1>2, <1>4 DEF Marked, Follows
  <2> HIDE DEF n
  <2> QED
    BY <1>4, <2>4, <2>5, <2>6, <2>7 DEF Marked
<1> QED
  BY <1>3, <1>4

LEMMA MarkedOne ==
  ASSUME MaxIncarnations <= 1, NInv, Next, NEW b \in Accounts, NEW new,
         accounts' = [accounts EXCEPT ![b] = new], Marked(new, mints'), NEW a \in Accounts
  PROVE  Marked(accounts'[a], mints')
<1>1. accounts \in [Accounts -> AccountState]
  BY DEF NInv, LInv, IInv, TypeOK
<1>2. accounts'[b] = new /\ (a # b => accounts'[a] = accounts[a])
  BY <1>1
<1>3. Follows(accounts[a], accounts[a])
  BY DEF Follows
<1> QED
  BY <1>2, <1>3, FollowsMarked

LEMMA MarkedMove ==
  ASSUME MaxIncarnations <= 1, NInv, Next, NEW a \in Accounts,
         NEW k \in Keys, NEW ctx \in Contexts, Move(k, ctx)
  PROVE  Marked(accounts'[a], mints')
<1>1. TypeOK /\ accounts \in [Accounts -> AccountState]
  BY DEF NInv, LInv, IInv, TypeOK
<1>2. Follows(accounts[a], accounts[a])
  BY DEF Follows
<1>3. ASSUME NEW s, NEW amount, NEW m, SelfTransfer(s, amount, k, m, ctx)
      PROVE  Marked(accounts'[a], mints')
  BY <1>2, <1>3, FollowsMarked DEF SelfTransfer
<1>4. ASSUME NEW s \in Accounts, NEW d \in Accounts, NEW amount \in U64,
             NEW m \in Mints \cup {None}, Transfer(s, d, amount, k, m, ctx)
      PROVE  Marked(accounts'[a], mints')
  <2>1. /\ accounts'[s].mint = accounts[s].mint /\ accounts'[s].state = accounts[s].state
        /\ accounts'[s].withheld_amount = accounts[s].withheld_amount
        /\ accounts'[s].exts = accounts[s].exts
        /\ accounts'[d].mint = accounts[d].mint
        /\ \A b \in Accounts \ {s, d} : accounts'[b] = accounts[b]
        /\ UNCHANGED mints
    BY <1>1, <1>4, TransferEffect
  <2>2. CASE a # d
    <3>1. Follows(accounts[a], accounts'[a])
      BY <1>2, <2>1, <2>2 DEF Follows
    <3> QED
      BY <3>1, FollowsMarked
  <2>3. CASE a = d
    <3>1. /\ accounts[d].mint # None
          /\ "NonTransferable" \notin mints[accounts[d].mint].exts
      BY <1>4, MarkedStays
    <3>2. mints[accounts[d].mint].incarnation >= 1
      BY <3>1 DEF NInv, AccountsMarked, Marked
    <3> QED
      BY <2>1, <2>3, <3>1, <3>2 DEF Marked
  <2> QED
    BY <2>2, <2>3
<1>5. ASSUME NEW m \in Mints, NEW d \in Accounts, NEW amount \in U64,
             MintTo(m, d, amount, k, ctx)
      PROVE  Marked(accounts'[a], mints')
  <2> DEFINE new == [accounts[d] EXCEPT !.amount = accounts[d].amount + amount]
  <2>1. accounts' = [accounts EXCEPT ![d] = new]
    BY <1>1, <1>5, MintToEffect
  <2>2. Follows(accounts[d], new)
    BY <1>1 DEF Follows, AccountState
  <2> HIDE DEF new
  <2> QED
    BY <2>1, <2>2, FollowsMarked, MarkedOne
<1>6. ASSUME NEW m \in Mints, NEW s \in Accounts, NEW amount \in U64,
             Burn(s, m, amount, k, ctx)
      PROVE  Marked(accounts'[a], mints')
  <2>1. /\ accounts' = [accounts EXCEPT ![s] = accounts'[s]]
        /\ accounts[s].mint = m /\ accounts'[s].mint = m
        /\ accounts'[s].state = accounts[s].state /\ accounts'[s].exts = accounts[s].exts
        /\ accounts'[s].withheld_amount = accounts[s].withheld_amount
    BY <1>1, <1>6, BurnEffect
  <2>2. Follows(accounts[s], accounts'[s])
    BY <2>1 DEF Follows
  <2> QED
    BY <2>1, <2>2, FollowsMarked, MarkedOne
<1> QED
  BY <1>3, <1>4, <1>5, <1>6 DEF Move

LEMMA MarkedSettings ==
  ASSUME MaxIncarnations <= 1, NInv, Next, NEW a \in Accounts,
         NEW k \in Keys, NEW ctx \in Contexts,
         \/ Delegate(k, ctx) \/ ChangeAccount(k, ctx) \/ Guard(k, ctx)
         \/ Freeze(k, ctx) \/ ChangeMint(k, ctx) \/ ChangeFees(k, ctx)
  PROVE  Marked(accounts'[a], mints')
<1>1. TypeOK /\ accounts \in [Accounts -> AccountState]
  BY DEF NInv, LInv, IInv, TypeOK
<1>2. ASSUME UNCHANGED accounts PROVE Marked(accounts'[a], mints')
  <2>1. Follows(accounts[a], accounts'[a])
    BY <1>2 DEF Follows
  <2> QED
    BY <2>1, FollowsMarked
<1>3. ASSUME NEW b \in Accounts, accounts' = [accounts EXCEPT ![b] = accounts'[b]],
             Follows(accounts[b], accounts'[b])
      PROVE  Marked(accounts'[a], mints')
  BY <1>3, FollowsMarked, MarkedOne
<1>4. ASSUME NEW b \in Accounts, NEW delegate, NEW amount, Approve(b, delegate, amount, k, ctx)
      PROVE  Marked(accounts'[a], mints')
  BY <1>1, <1>3, <1>4 DEF Approve, AccountState, Follows
<1>5. ASSUME NEW b \in Accounts, Revoke(b, k, ctx) PROVE Marked(accounts'[a], mints')
  BY <1>1, <1>3, <1>5 DEF Revoke, AccountState, Follows
<1>6. ASSUME NEW b \in Accounts, NEW new, SetAccountOwner(b, new, k, ctx)
      PROVE  Marked(accounts'[a], mints')
  BY <1>1, <1>3, <1>6 DEF SetAccountOwner, HandedOver, AccountState, Follows
<1>7. ASSUME NEW b \in Accounts, NEW new, SetAccountCloseAuthority(b, new, k, ctx)
      PROVE  Marked(accounts'[a], mints')
  BY <1>1, <1>3, <1>7 DEF SetAccountCloseAuthority, AccountState, Follows
<1>8. ASSUME NEW b \in Accounts, CloseTokenAccount(b, k, ctx)
      PROVE  Marked(accounts'[a], mints')
  <2>1. accounts' = [accounts EXCEPT ![b] = BlankAccount]
    BY <1>8 DEF CloseTokenAccount
  <2>2. Marked(BlankAccount, mints')
    BY DEF Marked, BlankAccount
  <2> QED
    BY <2>1, <2>2, MarkedOne
<1>9. ASSUME NEW b \in Accounts, NEW enable,
             ToggleRequiredMemoTransfers(b, enable, k, ctx) \/ ToggleCpiGuard(b, enable, k, ctx)
      PROVE  Marked(accounts'[a], mints')
  BY <1>1, <1>3, <1>9
     DEF ToggleRequiredMemoTransfers, ToggleCpiGuard, AccountState, Follows
<1>10. ASSUME NEW b \in Accounts, NEW m, NEW to, ToggleFreezeAccount(b, m, to, k, ctx)
       PROVE  Marked(accounts'[a], mints')
  <2>1. /\ accounts' = [accounts EXCEPT ![b] = [accounts[b] EXCEPT !.state = to]]
        /\ accounts[b].state # "Uninitialized"
    BY <1>10 DEF ToggleFreezeAccount
  <2>2. /\ accounts' = [accounts EXCEPT ![b] = accounts'[b]]
        /\ accounts'[b] = [accounts[b] EXCEPT !.state = to]
    BY <1>1, <2>1
  <2>3. Follows(accounts[b], accounts'[b])
    BY <1>1, <2>1, <2>2 DEF AccountState, Follows
  <2> QED
    BY <1>3, <2>2, <2>3
<1>11. CASE Delegate(k, ctx) \/ ChangeAccount(k, ctx) \/ Guard(k, ctx)
  BY <1>4, <1>5, <1>6, <1>7, <1>8, <1>9, <1>11 DEF Delegate, ChangeAccount, Guard
<1>12. CASE Freeze(k, ctx)
  BY <1>2, <1>10, <1>12 DEF Freeze, UpdateDefaultAccountState
<1>13. CASE ChangeMint(k, ctx) \/ ChangeFees(k, ctx)
  BY <1>2, <1>13 DEF ChangeMint, ChangeFees, SetMintAuthority, CloseMint, SetTransferFee
<1> QED
  BY <1>11, <1>12, <1>13


LEMMA MarkedCollect ==
  ASSUME MaxIncarnations <= 1, NInv, Next, NEW a \in Accounts,
         Harvest \/ \E k \in Keys, ctx \in Contexts : CollectFees(k, ctx)
  PROVE  Marked(accounts'[a], mints')
<1>1. TypeOK /\ accounts \in [Accounts -> AccountState] /\ accounts[a] \in AccountState
  BY DEF NInv, LInv, IInv, TypeOK
<1>2. ASSUME NEW S PROVE Follows(accounts[a], EmptyWithheld(S)[a])
  <2>1. EmptyWithheld(S)[a] \in {accounts[a], [accounts[a] EXCEPT !.withheld_amount = 0]}
    BY DEF EmptyWithheld
  <2>2. Follows(accounts[a], [accounts[a] EXCEPT !.withheld_amount = 0])
    BY <1>1 DEF Follows, AccountState
  <2> QED
    BY <2>1, <2>2 DEF Follows
<1>3. CASE Harvest
  <2>1. PICK m \in Mints, from \in SUBSET Accounts : HarvestWithheldTokensToMint(m, from)
    BY <1>3 DEF Harvest
  <2>2. accounts' = EmptyWithheld(harvestable(from, m))
    BY <2>1 DEF HarvestWithheldTokensToMint
  <2> QED
    BY <1>2, <2>2, FollowsMarked
<1>4. ASSUME NEW k \in Keys, NEW ctx \in Contexts, NEW m \in Mints, NEW d \in Accounts,
             WithdrawWithheldTokensFromMint(m, d, k, ctx)
      PROVE  Marked(accounts'[a], mints')
  <2> DEFINE new == [accounts[d] EXCEPT !.amount = @ + mints[m].withheld_amount]
  <2>1. accounts' = [accounts EXCEPT ![d] = new]
    BY <1>4 DEF WithdrawWithheldTokensFromMint
  <2>2. Follows(accounts[d], new)
    BY <1>1 DEF Follows, AccountState
  <2> HIDE DEF new
  <2> QED
    BY <2>1, <2>2, FollowsMarked, MarkedOne
<1>5. ASSUME NEW k \in Keys, NEW ctx \in Contexts, NEW m \in Mints, NEW d \in Accounts,
             NEW from \in SUBSET Accounts,
             WithdrawWithheldTokensFromAccounts(m, d, from, k, ctx)
      PROVE  Marked(accounts'[a], mints')
  <2> DEFINE S == harvestable(from, m)
             total == accounts[d].amount + WithheldIn(S)
             E == EmptyWithheld(S)
  <2>1. accounts' = [E EXCEPT ![d].amount = total]
    BY <1>5 DEF WithdrawWithheldTokensFromAccounts
  <2>2. E \in [Accounts -> AccountState] /\ Follows(accounts[a], E[a])
    BY <1>1, <1>2, HarvestableFacts
  <2> HIDE DEF S, total, E
  <2>3. accounts'[a] \in {E[a], [E[a] EXCEPT !.amount = total]}
    BY <2>1, <2>2
  <2>4. E[a] \in AccountState
    BY <2>2
  <2>5. Follows(accounts[a], [E[a] EXCEPT !.amount = total])
    BY <2>2, <2>4 DEF Follows, AccountState
  <2> QED
    BY <2>2, <2>3, <2>5, FollowsMarked
<1> QED
  BY <1>3, <1>4, <1>5 DEF CollectFees

LEMMA MarkedUnsigned ==
  ASSUME MaxIncarnations <= 1, NInv, Next, NEW a \in Accounts,
         InitMints \/ InitAccounts \/ AdvanceEpoch
  PROVE  Marked(accounts'[a], mints')
<1>1. accounts \in [Accounts -> AccountState] /\ mints \in [Mints -> MintState]
  BY DEF NInv, LInv, IInv, TypeOK
<1>2. CASE InitMints \/ AdvanceEpoch
  <2>1. Follows(accounts[a], accounts'[a])
    BY <1>2, InitMintsKeepAccounts DEF Follows
  <2> QED
    BY <2>1, FollowsMarked
<1>3. ASSUME NEW b \in Accounts, InitializeImmutableOwner(b)
      PROVE  Marked(accounts'[a], mints')
  <2> DEFINE new == [accounts[b] EXCEPT !.exts = @ \cup {"ImmutableOwner"}]
  <2>1. accounts' = [accounts EXCEPT ![b] = new]
    BY <1>3 DEF InitializeImmutableOwner
  <2>2. Follows(accounts[b], new)
    BY <1>1 DEF Follows, AccountState
  <2> HIDE DEF new
  <2> QED
    BY <2>1, <2>2, FollowsMarked, MarkedOne
<1>4. ASSUME NEW b \in Accounts, NEW m \in Mints, NEW owner \in Owners,
             InitializeAccount(b, m, owner)
      PROVE  Marked(accounts'[a], mints')
  <2> DEFINE new == [BlankAccount EXCEPT
          !.state = mints[m].default_state,
          !.mint  = m,
          !.owner = owner,
          !.exts  = accounts[b].exts \cup
                      get_required_init_account_extensions(mints[m].exts)]
  <2>1. /\ accounts' = [accounts EXCEPT ![b] = new] /\ UNCHANGED mints
        /\ mints[m].is_initialized
    BY <1>4 DEF InitializeAccount
  <2>2. /\ new.mint = m /\ new.withheld_amount = 0
        /\ get_required_init_account_extensions(mints[m].exts) \subseteq new.exts
    BY DEF BlankAccount
  <2>3. "NonTransferable" \in mints[m].exts => "NonTransferableAccount" \in new.exts
    BY <2>2 DEF get_required_init_account_extensions
  <2>4. mints[m].incarnation >= 1
    BY <2>1 DEF NInv, AccountsMarked, Fixed
  <2>5. m # None
    BY TokenAssumption
  <2> HIDE DEF new
  <2>6. Marked(new, mints')
    BY <2>1, <2>2, <2>3, <2>4, <2>5 DEF Marked
  <2> QED
    BY <2>1, <2>6, MarkedOne
<1> QED
  BY <1>2, <1>3, <1>4 DEF InitAccounts

LEMMA InitNInv == Init => NInv
<1> SUFFICES ASSUME Init PROVE NInv
  OBVIOUS
<1>1. \A m \in Mints : Fixed(mints[m])
  BY DEF Init, Fixed, BlankMint
<1>2. \A a \in Accounts : Marked(accounts[a], mints)
  BY DEF Init, Marked, BlankAccount
<1> QED
  BY <1>1, <1>2, InitLInv DEF NInv, AccountsMarked

LEMMA NextNInv ==
  ASSUME MaxIncarnations <= 1, NInv, [Next]_vars
  PROVE  NInv'
<1>1. LInv'
  BY NextLInv DEF NInv
<1>2. CASE Next
  <2>1. \A m \in Mints : Fixed(mints'[m])
    BY <1>2, EvolvedNext DEF Evolved
  <2>2. ASSUME NEW a \in Accounts PROVE Marked(accounts'[a], mints')
    <3>1. ASSUME NEW k \in Keys, NEW ctx \in Contexts,
                 \/ Move(k, ctx)
                 \/ Delegate(k, ctx)
                 \/ ChangeAccount(k, ctx)
                 \/ Guard(k, ctx)
                 \/ ChangeMint(k, ctx)
                 \/ Freeze(k, ctx)
                 \/ CollectFees(k, ctx)
                 \/ ChangeFees(k, ctx)
          PROVE  Marked(accounts'[a], mints')
      BY <1>2, <3>1, MarkedMove, MarkedSettings, MarkedCollect
    <3> QED
      BY <1>2, <3>1, MarkedCollect, MarkedUnsigned DEF Next
  <2> QED
    BY <1>1, <2>1, <2>2 DEF NInv, AccountsMarked
<1>3. CASE UNCHANGED vars
  BY <1>1, <1>3 DEF vars, NInv, AccountsMarked
<1> QED
  BY <1>2, <1>3

StaysPut(a) ==
  LET m == accounts[a].mint
  IN  /\ accounts[a].state # "Uninitialized"
      /\ "NonTransferable" \in mints[m].exts
      /\ accounts'[a].amount > accounts[a].amount
      => mints'[m].supply > mints[m].supply

(***************************************************************************)
(* While no address is a mint twice, an account of a non-transferable mint *)
(* gains tokens only by minting: no transfer reaches it and no withheld    *)
(* fee is paid into it (process_transfer, process_mint_to,                 *)
(* get_required_init_account_extensions).                                  *)
(***************************************************************************)
THEOREM NonTransferableStays ==
  ASSUME MaxIncarnations <= 1
  PROVE  Spec => NonTransferableStaysPut
<1>1. ASSUME NInv, Next, NEW a \in Accounts PROVE StaysPut(a)
  <2> DEFINE m == accounts[a].mint
  <2>1. /\ LInv /\ TypeOK /\ accounts \in [Accounts -> AccountState]
        /\ mints \in [Mints -> MintState]
        /\ accounts[a] \in AccountState /\ accounts[a].amount \in Nat
    BY <1>1, StateFacts DEF NInv, LInv, IInv, TypeOK
  <2>2. SUFFICES ASSUME accounts[a].state # "Uninitialized",
                        "NonTransferable" \in mints[m].exts,
                        accounts'[a].amount > accounts[a].amount
                 PROVE  mints'[m].supply > mints[m].supply
    BY DEF StaysPut
  <2>3. PICK k \in Keys, ctx \in Contexts : Credits(a, k, ctx)
    BY <1>1, <2>1, <2>2, AmountCause
  <2>4. m \in Mints
    BY <1>1, <2>1, <2>2 DEF NInv, AccountsMarked, Marked, AccountState
  <2>5. ASSUME NEW s \in Accounts, NEW n \in Mints \cup {None}, NEW amount \in U64,
               Transfer(s, a, amount, k, n, ctx)
        PROVE  FALSE
    BY <1>1, <2>2, <2>5, MarkedStays
  <2>6. ASSUME NEW n \in Mints, NEW amount \in U64, MintTo(n, a, amount, k, ctx)
        PROVE  mints'[m].supply > mints[m].supply
    <3>1. /\ n = m
          /\ accounts' = [accounts EXCEPT ![a] =
                            [accounts[a] EXCEPT !.amount = accounts[a].amount + amount]]
          /\ mints' = [mints EXCEPT ![m] =
                         [mints[m] EXCEPT !.supply = mints[m].supply + amount]]
      BY <2>1, <2>6, MintToEffect
    <3>2. accounts'[a].amount = accounts[a].amount + amount
      BY <2>1, <3>1 DEF AccountState
    <3>3. mints[m] \in MintState /\ mints'[m].supply = mints[m].supply + amount
      BY <2>1, <2>4, <3>1 DEF MintState
    <3>4. amount \in Nat /\ mints[m].supply \in Nat
      BY <3>3, ConstantFacts DEF MintState
    <3> QED
      BY <2>1, <2>2, <3>2, <3>3, <3>4
  <2>7. ASSUME NEW n \in Mints, WithdrawWithheldTokensFromMint(n, a, k, ctx)
        PROVE  FALSE
    <3>1. /\ n = m
          /\ accounts' = [accounts EXCEPT ![a].amount = @ + mints[n].withheld_amount]
      BY <2>7 DEF WithdrawWithheldTokensFromMint
    <3>2. mints[n].withheld_amount = 0
      BY <1>1, <2>2, <2>4, <3>1 DEF NInv, AccountsMarked, Fixed
    <3>3. accounts'[a].amount = accounts[a].amount + 0
      BY <2>1, <3>1, <3>2 DEF AccountState
    <3> QED
      BY <2>1, <2>2, <3>3
  <2>8. ASSUME NEW n \in Mints, NEW from \in SUBSET Accounts,
               WithdrawWithheldTokensFromAccounts(n, a, from, k, ctx)
        PROVE  FALSE
    <3> DEFINE E == EmptyWithheld(harvestable(from, n))
    <3>1. n = m /\ accounts' = [E EXCEPT ![a].amount =
                                   accounts[a].amount + WithheldIn(harvestable(from, n))]
      BY <2>8 DEF WithdrawWithheldTokensFromAccounts
    <3>2. WithheldIn(harvestable(from, n)) = 0
      BY <1>1, <2>2, <2>4, <3>1, NothingWithheld
    <3>3. E \in [Accounts -> AccountState]
      BY <2>1, HarvestableFacts
    <3> HIDE DEF E
    <3>4. accounts'[a].amount = accounts[a].amount + 0
      BY <3>1, <3>2, <3>3 DEF AccountState
    <3> QED
      BY <2>1, <2>2, <3>4
  <2> HIDE DEF m
  <2> QED
    BY <2>3, <2>5, <2>6, <2>7, <2>8 DEF Credits
<1>2. NInv /\ [Next]_vars => [\A a \in Accounts : StaysPut(a)]_vars
  BY <1>1
<1>3. NInv /\ [Next]_vars => NInv'
  BY NextNInv
<1> QED
  BY <1>2, <1>3, InitNInv, PTL DEF Spec, NonTransferableStaysPut, StaysPut

=============================================================================
