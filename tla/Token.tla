------------------------------- MODULE Token -------------------------------
(***************************************************************************)
(* The ledger of the token program (processor.rs): mints and token         *)
(* accounts, and the instructions that create them, move their tokens,     *)
(* change their authorities and destroy them, together with the extensions *)
(* that take part in those handlers: TransferFeeConfig/TransferFeeAmount,  *)
(* MintCloseAuthority, PermanentDelegate, NonTransferable,                 *)
(* DefaultAccountState, ImmutableOwner, MemoTransfer and CpiGuard.         *)
(*                                                                         *)
(* An instruction that returns an error changes nothing (the runtime rolls *)
(* the transaction back), so an action is enabled exactly when its handler *)
(* returns Ok.  validate_owner is modelled as "k is the expected key and   *)
(* it signed"; k ranges over Keys, so it is never None.  Decimals and      *)
(* lamports are left out; the native mint, the transfer hook and the       *)
(* confidential extensions are not among the mints of this module.         *)
(***************************************************************************)
EXTENDS TransferFee, Totals

CONSTANTS
  Mints,           \* addresses of mints
  Accounts,        \* addresses of token accounts
  Keys,            \* public keys that can sign
  BurnOwners,      \* system_program::id() and incinerator::id(): never sign
  None,            \* COption::None
  MintKinds,       \* the sets of extensions the mints of a run may be given
  BasisPoints,     \* transfer_fee_basis_points arguments explored
  MaximumFees,     \* maximum_fee arguments explored
  Contexts,        \* [cpi, memo]: the transaction contexts explored
  MaxIncarnations, \* bound: times an address is initialized as a mint
  MaxEpoch         \* bound: last epoch of the clock

MintExtensions ==
  {"TransferFeeConfig", "MintCloseAuthority", "PermanentDelegate",
   "NonTransferable", "DefaultAccountState"}

ASSUME TokenAssumption ==
  /\ IsFiniteSet(Accounts)
  /\ None \notin Keys \cup BurnOwners \cup Mints
  /\ Keys \cap BurnOwners = {}
  /\ MintKinds \subseteq SUBSET MintExtensions
  /\ BasisPoints \subseteq Nat
  /\ MaximumFees \subseteq U64
  /\ Contexts \subseteq [cpi : BOOLEAN, memo : BOOLEAN]
  /\ MaxIncarnations \in Nat
  /\ MaxEpoch \in U64

VARIABLES
  mints,     \* address -> contents of a mint
  accounts,  \* address -> contents of a token account
  epoch,     \* Clock::get()?.epoch
  \* History, read by the properties only:
  tx,        \* who signed the last instruction, and its context
  grants     \* account -> its last approval and what was spent of it

vars == <<mints, accounts, epoch, tx, grants>>

-----------------------------------------------------------------------------
(***************************************************************************)
(* State.                                                                  *)
(***************************************************************************)

\* The AuthorityTypes that live in a mint, and the extension each belongs to.
MintAuthorityTypes ==
  {"MintTokens", "FreezeAccount", "CloseMint", "TransferFeeConfig",
   "WithheldWithdraw", "PermanentDelegate"}

AuthorityExtension(type) ==
  CASE type = "CloseMint"         -> {"MintCloseAuthority"}
    [] type = "TransferFeeConfig" -> {"TransferFeeConfig"}
    [] type = "WithheldWithdraw"  -> {"TransferFeeConfig"}
    [] type = "PermanentDelegate" -> {"PermanentDelegate"}
    [] OTHER                      -> {}

FeePairs == [older_transfer_fee : TransferFees, newer_transfer_fee : TransferFees]

AccountExtensions == {"ImmutableOwner", "NonTransferableAccount", "TransferFeeAmount"}

Owners == Keys \cup BurnOwners
MaybeKey == Keys \cup {None}

MintState ==
  [is_initialized : BOOLEAN, supply : U64, exts : SUBSET MintExtensions,
   authority : [MintAuthorityTypes -> MaybeKey],
   default_state : {"Initialized", "Frozen"},
   withheld_amount : U64, fees : FeePairs, incarnation : 0 .. MaxIncarnations]

AccountState ==
  [state : {"Uninitialized", "Initialized", "Frozen"},
   mint : Mints \cup {None}, owner : Owners \cup {None}, amount : U64,
   delegate : MaybeKey, delegated_amount : U64, close_authority : MaybeKey,
   exts : SUBSET AccountExtensions, withheld_amount : U64,
   require_incoming_transfer_memos : BOOLEAN, lock_cpi : BOOLEAN]

\* An account's memory after the system program allocated it: all zeros.
BlankMint(n) ==
  [is_initialized |-> FALSE, supply |-> 0, exts |-> {},
   authority |-> [t \in MintAuthorityTypes |-> None],
   default_state |-> "Initialized", withheld_amount |-> 0,
   fees |-> initial_fees(0, 0, 0), incarnation |-> n]

BlankAccount ==
  [state |-> "Uninitialized", mint |-> None, owner |-> None, amount |-> 0,
   delegate |-> None, delegated_amount |-> 0, close_authority |-> None,
   exts |-> {}, withheld_amount |-> 0,
   require_incoming_transfer_memos |-> FALSE, lock_cpi |-> FALSE]

\* History: no approval outstanding.
NoGrant == [by |-> None, amount |-> 0, spent |-> 0]

Init ==
  /\ mints = [m \in Mints |-> BlankMint(0)]
  /\ accounts = [a \in Accounts |-> BlankAccount]
  /\ epoch = 0
  /\ tx = [by |-> None, cpi |-> FALSE, memo |-> FALSE]
  /\ grants = [a \in Accounts |-> NoGrant]

\* The instruction was signed by k in context ctx.
Signed(k, ctx) == tx' = [by |-> k, cpi |-> ctx.cpi, memo |-> ctx.memo]

has_fee_config(m) == "TransferFeeConfig" \in mints[m].exts

get_permanent_delegate(m) == mints[m].authority["PermanentDelegate"]

is_owned_by_system_program_or_incinerator(acc) == acc.owner \in BurnOwners

-----------------------------------------------------------------------------
(***************************************************************************)
(* Creating mints.  The system program allocates the address with the      *)
(* space for one of MintKinds; extensions are initialized first, each by   *)
(* its own instruction, and InitializeMint then requires that they fill    *)
(* the space exactly.  Nobody needs to sign.                               *)
(***************************************************************************)
CanExtend(m, ext) ==
  /\ ~mints[m].is_initialized
  /\ mints[m].incarnation < MaxIncarnations
  /\ \E kind \in MintKinds : mints[m].exts \cup {ext} \subseteq kind

InitExtension(m, ext, mint) ==
  /\ CanExtend(m, ext)
  /\ mints' = [mints EXCEPT ![m] = [mint EXCEPT !.exts = @ \cup {ext}]]
  /\ UNCHANGED <<accounts, epoch, tx, grants>>

InitializeMintCloseAuthority(m, close_authority) ==
  InitExtension(m, "MintCloseAuthority",
    [mints[m] EXCEPT !.authority["CloseMint"] = close_authority])

InitializePermanentDelegate(m, delegate) ==
  InitExtension(m, "PermanentDelegate",
    [mints[m] EXCEPT !.authority["PermanentDelegate"] = delegate])

InitializeNonTransferableMint(m) ==
  InitExtension(m, "NonTransferable", mints[m])

InitializeDefaultAccountState(m, state) ==
  InitExtension(m, "DefaultAccountState",
    [mints[m] EXCEPT !.default_state = state])

InitializeTransferFeeConfig(m, config_authority, withdraw_authority, bps, maximum_fee) ==
  /\ bps <= ONE_IN_BASIS_POINTS
  /\ InitExtension(m, "TransferFeeConfig",
       [mints[m] EXCEPT !.authority["TransferFeeConfig"] = config_authority,
                        !.authority["WithheldWithdraw"] = withdraw_authority,
                        !.withheld_amount = 0,
                        !.fees = initial_fees(epoch, bps, maximum_fee)])

InitializeMint(m, mint_authority, freeze_authority) ==
  /\ ~mints[m].is_initialized
  /\ mints[m].incarnation < MaxIncarnations
  /\ mints[m].exts \in MintKinds
  /\ ("DefaultAccountState" \in mints[m].exts /\ mints[m].default_state = "Frozen")
       => freeze_authority # None
  /\ mints' = [mints EXCEPT
                 ![m].is_initialized = TRUE,
                 ![m].authority["MintTokens"] = mint_authority,
                 ![m].authority["FreezeAccount"] = freeze_authority,
                 ![m].incarnation = @ + 1]
  /\ UNCHANGED <<accounts, epoch, tx, grants>>

(***************************************************************************)
(* Creating token accounts.                                                *)
(***************************************************************************)
InitializeImmutableOwner(a) ==
  /\ accounts[a].state = "Uninitialized"
  /\ accounts' = [accounts EXCEPT ![a].exts = @ \cup {"ImmutableOwner"}]
  /\ UNCHANGED <<mints, epoch, tx, grants>>

\* Mutant: the account of a non-transferable mint is not marked as one.
unmarked_account_extensions(mint_exts) ==
  (IF "TransferFeeConfig" \in mint_exts THEN {"TransferFeeAmount"} ELSE {}) \cup
  (IF "NonTransferable" \in mint_exts THEN {"ImmutableOwner"} ELSE {})

get_required_init_account_extensions(mint_exts) ==
  (IF "TransferFeeConfig" \in mint_exts THEN {"TransferFeeAmount"} ELSE {}) \cup
  (IF "NonTransferable" \in mint_exts
   THEN {"NonTransferableAccount", "ImmutableOwner"} ELSE {})

InitializeAccount(a, m, owner) ==
  /\ accounts[a].state = "Uninitialized"
  /\ mints[m].is_initialized
  /\ accounts' = [accounts EXCEPT ![a] =
       [BlankAccount EXCEPT
          !.state = mints[m].default_state,
          !.mint  = m,
          !.owner = owner,
          !.exts  = accounts[a].exts \cup
                      get_required_init_account_extensions(mints[m].exts)]]
  /\ grants' = [grants EXCEPT ![a] = NoGrant]
  /\ UNCHANGED <<mints, epoch, tx>>

-----------------------------------------------------------------------------
(***************************************************************************)
(* Who may take tokens out of an account (process_transfer, process_burn): *)
(* the mint's permanent delegate, else the account's delegate within its   *)
(* allowance, else the owner, whom the CPI guard stops inside a CPI.       *)
(***************************************************************************)
AsDelegate(acc, k, permanent) == k # permanent /\ k = acc.delegate

MayDebit(acc, k, amount, permanent, ctx) ==
  \/ k = permanent
  \/ AsDelegate(acc, k, permanent) /\ acc.delegated_amount >= amount
  \/ /\ k # permanent
     /\ k # acc.delegate
     /\ k = acc.owner
     /\ ~(acc.lock_cpi /\ ctx.cpi)

\* Mutant: the delegate spends for free.
AllowanceForFree(acc, k, amount, permanent) == acc

\* The account after the delegate's allowance has paid for the debit.
ChargeAllowance(acc, k, amount, permanent) ==
  IF AsDelegate(acc, k, permanent)
  THEN [acc EXCEPT !.delegated_amount = @ - amount,
                   !.delegate = IF acc.delegated_amount = amount THEN None ELSE @]
  ELSE acc

RecordSpending(a, k, amount, permanent) ==
  grants' = IF AsDelegate(accounts[a], k, permanent)
            THEN [grants EXCEPT ![a].spent = @ + amount]
            ELSE grants

(***************************************************************************)
(* Transfer (m = None: no mint account is passed), TransferChecked and     *)
(* TransferCheckedWithFee, whose expected_fee only adds a guard: each of   *)
(* its executions is one of TransferChecked.                               *)
(***************************************************************************)
TransferFeeFor(m, amount) ==
  IF m # None /\ has_fee_config(m)
  THEN calculate_epoch_fee(mints[m].fees, epoch, amount)
  ELSE 0

PermanentDelegateFor(m) == IF m # None THEN get_permanent_delegate(m) ELSE None

\* Mutant: a transfer without the mint is not refused to accounts that withhold.
MayTransferUncharged(s, amount, k, m, ctx) ==
  LET src == accounts[s]
  IN  /\ src.state = "Initialized"
      /\ src.amount >= amount
      /\ "NonTransferableAccount" \notin src.exts
      /\ m # None => src.mint = m /\ mints[m].is_initialized
      /\ MayDebit(src, k, amount, PermanentDelegateFor(m), ctx)

\* The part of process_transfer that precedes the self-transfer exit.
MayTransfer(s, amount, k, m, ctx) ==
  LET src == accounts[s]
  IN  /\ src.state = "Initialized"
      /\ src.amount >= amount
      /\ "NonTransferableAccount" \notin src.exts
      /\ IF m # None
         THEN src.mint = m /\ mints[m].is_initialized
         ELSE "TransferFeeAmount" \notin src.exts
      /\ TransferFeeFor(m, amount) # NoAmount
      /\ MayDebit(src, k, amount, PermanentDelegateFor(m), ctx)

\* The checks on the destination, which a self-transfer never reaches.
MayReceive(dst, mint, ctx) ==
  /\ dst.state = "Initialized"
  /\ dst.mint = mint
  /\ dst.require_incoming_transfer_memos => ctx.memo

SelfTransfer(s, amount, k, m, ctx) ==
  /\ MayTransfer(s, amount, k, m, ctx)
  /\ Signed(k, ctx)
  /\ UNCHANGED <<mints, accounts, epoch, grants>>

Transfer(s, d, amount, k, m, ctx) ==
  LET src       == accounts[s]
      dst       == accounts[d]
      fee       == TransferFeeFor(m, amount)
      permanent == PermanentDelegateFor(m)
  IN
  /\ s # d
  /\ MayTransfer(s, amount, k, m, ctx)
  /\ MayReceive(dst, src.mint, ctx)
  /\ amount - fee \in U64
  /\ dst.amount + (amount - fee) \in U64
  /\ fee > 0 => /\ "TransferFeeAmount" \in dst.exts
                /\ dst.withheld_amount + fee \in U64
  /\ accounts' = [accounts EXCEPT
       ![s] = [ChargeAllowance(src, k, amount, permanent) EXCEPT !.amount = @ - amount],
       ![d] = [dst EXCEPT !.amount = @ + (amount - fee),
                          !.withheld_amount = @ + fee]]
  /\ RecordSpending(s, k, amount, permanent)
  /\ Signed(k, ctx)
  /\ UNCHANGED <<mints, epoch>>

MintTo(m, d, amount, k, ctx) ==
  LET dst == accounts[d]
  IN
  /\ dst.state = "Initialized"
  /\ dst.mint = m
  /\ mints[m].is_initialized
  /\ "NonTransferable" \in mints[m].exts => "ImmutableOwner" \in dst.exts
  /\ mints[m].authority["MintTokens"] = k
  /\ dst.amount + amount \in U64
  /\ mints[m].supply + amount \in U64
  /\ accounts' = [accounts EXCEPT ![d].amount = @ + amount]
  /\ mints' = [mints EXCEPT ![m].supply = @ + amount]
  /\ Signed(k, ctx)
  /\ UNCHANGED <<epoch, grants>>

Burn(s, m, amount, k, ctx) ==
  LET src       == accounts[s]
      permanent == get_permanent_delegate(m)
      abandoned == is_owned_by_system_program_or_incinerator(src)
  IN
  /\ mints[m].is_initialized
  /\ src.state = "Initialized"
  /\ src.amount >= amount
  /\ src.mint = m
  /\ abandoned \/ MayDebit(src, k, amount, permanent, ctx)
  /\ mints[m].supply >= amount
  /\ accounts' = [accounts EXCEPT ![s] =
       [(IF abandoned THEN src ELSE ChargeAllowance(src, k, amount, permanent))
          EXCEPT !.amount = @ - amount]]
  /\ mints' = [mints EXCEPT ![m].supply = @ - amount]
  /\ IF abandoned THEN UNCHANGED grants ELSE RecordSpending(s, k, amount, permanent)
  /\ Signed(k, ctx)
  /\ UNCHANGED epoch

-----------------------------------------------------------------------------
(***************************************************************************)
(* Delegation and account authorities.                                     *)
(***************************************************************************)
Approve(a, delegate, amount, k, ctx) ==
  /\ accounts[a].state = "Initialized"
  /\ accounts[a].owner = k
  /\ ~(accounts[a].lock_cpi /\ ctx.cpi)
  /\ accounts' = [accounts EXCEPT ![a].delegate = delegate,
                                  ![a].delegated_amount = amount]
  /\ grants' = [grants EXCEPT ![a] = [by |-> k, amount |-> amount, spent |-> 0]]
  /\ Signed(k, ctx)
  /\ UNCHANGED <<mints, epoch>>

\* Mutant: revoking is possible while the account is frozen.
RevokeFrozen(a, k, ctx) ==
  /\ accounts[a].state # "Uninitialized"
  /\ k = accounts[a].delegate \/ k = accounts[a].owner
  /\ accounts' = [accounts EXCEPT ![a].delegate = None, ![a].delegated_amount = 0]
  /\ grants' = [grants EXCEPT ![a] = NoGrant]
  /\ Signed(k, ctx)
  /\ UNCHANGED <<mints, epoch>>

\* By the owner, or by the delegate itself.
Revoke(a, k, ctx) ==
  /\ accounts[a].state = "Initialized"
  /\ k = accounts[a].delegate \/ k = accounts[a].owner
  /\ accounts' = [accounts EXCEPT ![a].delegate = None, ![a].delegated_amount = 0]
  /\ grants' = [grants EXCEPT ![a] = NoGrant]
  /\ Signed(k, ctx)
  /\ UNCHANGED <<mints, epoch>>

\* Mutant: the delegate survives the change of owner.
HandedOverWithDelegate(acc, new) == [acc EXCEPT !.owner = new]

\* A new owner does not inherit the delegate.
HandedOver(acc, new) ==
  [acc EXCEPT !.owner = new, !.delegate = None, !.delegated_amount = 0]

\* SetAuthority(AccountOwner).  A locked CPI guard blocks it inside a CPI and
\* outside; a None owner is an invalid instruction.
SetAccountOwner(a, new, k, ctx) ==
  /\ accounts[a].state = "Initialized"
  /\ accounts[a].owner = k
  /\ "ImmutableOwner" \notin accounts[a].exts
  /\ ~accounts[a].lock_cpi
  /\ accounts' = [accounts EXCEPT ![a] = HandedOver(@, new)]
  /\ grants' = [grants EXCEPT ![a] = NoGrant]
  /\ Signed(k, ctx)
  /\ UNCHANGED <<mints, epoch>>

\* close_authority.unwrap_or(owner)
CloseAuthorityOf(acc) ==
  IF acc.close_authority # None THEN acc.close_authority ELSE acc.owner

\* SetAuthority(CloseAccount).
SetAccountCloseAuthority(a, new, k, ctx) ==
  /\ accounts[a].state = "Initialized"
  /\ CloseAuthorityOf(accounts[a]) = k
  /\ ~(accounts[a].lock_cpi /\ ctx.cpi /\ new # None)
  /\ accounts' = [accounts EXCEPT ![a].close_authority = new]
  /\ Signed(k, ctx)
  /\ UNCHANGED <<mints, epoch, grants>>

\* EnableRequiredMemoTransfers and DisableRequiredMemoTransfers.
ToggleRequiredMemoTransfers(a, enable, k, ctx) ==
  /\ accounts[a].state # "Uninitialized"
  /\ accounts[a].owner = k
  /\ accounts' = [accounts EXCEPT ![a].require_incoming_transfer_memos = enable]
  /\ Signed(k, ctx)
  /\ UNCHANGED <<mints, epoch, grants>>

\* Mutant: the guard can be unlocked inside a CPI.
ToggleCpiGuardAnywhere(a, enable, k, ctx) ==
  /\ accounts[a].state # "Uninitialized"
  /\ accounts[a].owner = k
  /\ accounts' = [accounts EXCEPT ![a].lock_cpi = enable]
  /\ Signed(k, ctx)
  /\ UNCHANGED <<mints, epoch, grants>>

\* EnableCpiGuard and DisableCpiGuard: never inside a CPI.
ToggleCpiGuard(a, enable, k, ctx) ==
  /\ accounts[a].state # "Uninitialized"
  /\ accounts[a].owner = k
  /\ ~ctx.cpi
  /\ accounts' = [accounts EXCEPT ![a].lock_cpi = enable]
  /\ Signed(k, ctx)
  /\ UNCHANGED <<mints, epoch, grants>>

\* Mutant: withheld fees are forgotten.
closable_with_fees(acc) == acc.amount = 0

\* Nothing left in the account: neither its own tokens nor withheld fees.
closable(acc) ==
  /\ acc.amount = 0
  /\ "TransferFeeAmount" \in acc.exts => acc.withheld_amount = 0

\* CloseAccount of a token account, frozen or not.  Accounts of the burn owners
\* need no signature.  The lamports and their destination are not modelled: some
\* destination always passes the checks (the owner, for a locked CPI guard inside
\* a CPI; the incinerator, for the burn owners).
CloseTokenAccount(a, k, ctx) ==
  LET acc == accounts[a]
  IN
  /\ acc.state # "Uninitialized"
  /\ closable(acc)
  /\ is_owned_by_system_program_or_incinerator(acc) \/ CloseAuthorityOf(acc) = k
  /\ accounts' = [accounts EXCEPT ![a] = BlankAccount]
  /\ grants' = [grants EXCEPT ![a] = NoGrant]
  /\ Signed(k, ctx)
  /\ UNCHANGED <<mints, epoch>>

-----------------------------------------------------------------------------
(***************************************************************************)
(* Authorities of a mint, freezing, closing.                               *)
(***************************************************************************)

\* Mutant: a renounced authority can be claimed.
ClaimMintAuthority(m, type, new, k, ctx) ==
  /\ mints[m].is_initialized
  /\ AuthorityExtension(type) \subseteq mints[m].exts
  /\ mints[m].authority[type] \in {k, None}
  /\ mints' = [mints EXCEPT ![m].authority[type] = new]
  /\ Signed(k, ctx)
  /\ UNCHANGED <<accounts, epoch, grants>>

\* SetAuthority on a mint: an authority that is None stays None.
SetMintAuthority(m, type, new, k, ctx) ==
  /\ mints[m].is_initialized
  /\ AuthorityExtension(type) \subseteq mints[m].exts
  /\ mints[m].authority[type] = k
  /\ mints' = [mints EXCEPT ![m].authority[type] = new]
  /\ Signed(k, ctx)
  /\ UNCHANGED <<accounts, epoch, grants>>

\* UpdateDefaultAccountState, by the freeze authority.
UpdateDefaultAccountState(m, state, k, ctx) ==
  /\ mints[m].is_initialized
  /\ mints[m].authority["FreezeAccount"] = k
  /\ "DefaultAccountState" \in mints[m].exts
  /\ mints' = [mints EXCEPT ![m].default_state = state]
  /\ Signed(k, ctx)
  /\ UNCHANGED <<accounts, epoch, grants>>

\* FreezeAccount (to = "Frozen") and ThawAccount (to = "Initialized").
ToggleFreezeAccount(a, m, to, k, ctx) ==
  /\ accounts[a].state # "Uninitialized"
  /\ accounts[a].state # to
  /\ accounts[a].mint = m
  /\ mints[m].is_initialized
  /\ mints[m].authority["FreezeAccount"] = k
  /\ accounts' = [accounts EXCEPT ![a].state = to]
  /\ Signed(k, ctx)
  /\ UNCHANGED <<mints, epoch, grants>>

\* CloseAccount of a mint.  The address can be allocated and initialized
\* again; token accounts that name it stay.
CloseMint(m, k, ctx) ==
  /\ mints[m].is_initialized
  /\ "MintCloseAuthority" \in mints[m].exts
  /\ mints[m].authority["CloseMint"] = k
  /\ mints[m].supply = 0
  /\ mints' = [mints EXCEPT ![m] = BlankMint(mints[m].incarnation)]
  /\ Signed(k, ctx)
  /\ UNCHANGED <<accounts, epoch, grants>>

-----------------------------------------------------------------------------
(***************************************************************************)
(* Transfer fees.                                                          *)
(***************************************************************************)
\* Mutant: no limit on the basis points.
SetUnlimitedTransferFee(m, bps, maximum_fee, k, ctx) ==
  /\ mints[m].is_initialized
  /\ has_fee_config(m)
  /\ mints[m].authority["TransferFeeConfig"] = k
  /\ mints' = [mints EXCEPT ![m].fees = updated_fees(@, epoch, bps, maximum_fee)]
  /\ Signed(k, ctx)
  /\ UNCHANGED <<accounts, epoch, grants>>

SetTransferFee(m, bps, maximum_fee, k, ctx) ==
  /\ mints[m].is_initialized
  /\ has_fee_config(m)
  /\ mints[m].authority["TransferFeeConfig"] = k
  /\ bps <= ONE_IN_BASIS_POINTS
  /\ mints' = [mints EXCEPT ![m].fees = updated_fees(@, epoch, bps, maximum_fee)]
  /\ Signed(k, ctx)
  /\ UNCHANGED <<accounts, epoch, grants>>

WithdrawWithheldTokensFromMint(m, d, k, ctx) ==
  /\ mints[m].is_initialized
  /\ has_fee_config(m)
  /\ mints[m].authority["WithheldWithdraw"] = k
  /\ accounts[d].state = "Initialized"
  /\ accounts[d].mint = m
  /\ accounts[d].amount + mints[m].withheld_amount \in U64
  /\ accounts' = [accounts EXCEPT ![d].amount = @ + mints[m].withheld_amount]
  /\ mints' = [mints EXCEPT ![m].withheld_amount = 0]
  /\ Signed(k, ctx)
  /\ UNCHANGED <<epoch, grants>>

(***************************************************************************)
(* harvest_from_account fails on an account that is not initialized, names *)
(* another mint or has no TransferFeeAmount; the callers log that and go   *)
(* on with the next account.  An account listed twice yields nothing the   *)
(* second time, so the list is a set.                                      *)
(***************************************************************************)
harvestable(from, m) ==
  {a \in from : /\ accounts[a].state # "Uninitialized"
                /\ accounts[a].mint = m
                /\ "TransferFeeAmount" \in accounts[a].exts}

WithheldIn(S) == Total([a \in Accounts |-> accounts[a].withheld_amount], S)

EmptyWithheld(S) ==
  [a \in Accounts |->
     IF a \in S THEN [accounts[a] EXCEPT !.withheld_amount = 0] ELSE accounts[a]]

\* Permissionless.
HarvestWithheldTokensToMint(m, from) ==
  LET harvested == harvestable(from, m)
      total     == mints[m].withheld_amount + WithheldIn(harvested)
  IN
  /\ mints[m].is_initialized
  /\ has_fee_config(m)
  /\ total \in U64
  /\ accounts' = EmptyWithheld(harvested)
  /\ mints' = [mints EXCEPT ![m].withheld_amount = total]
  /\ UNCHANGED <<epoch, tx, grants>>

WithdrawWithheldTokensFromAccounts(m, d, from, k, ctx) ==
  LET harvested == harvestable(from, m)
      total     == accounts[d].amount + WithheldIn(harvested)
  IN
  /\ mints[m].is_initialized
  /\ has_fee_config(m)
  /\ mints[m].authority["WithheldWithdraw"] = k
  /\ accounts[d].state = "Initialized"
  /\ accounts[d].mint = m
  \* Harvesting the destination itself is an error instead of a skip.
  /\ d \in from => "TransferFeeAmount" \in accounts[d].exts
  /\ total \in U64
  /\ accounts' = [EmptyWithheld(harvested) EXCEPT ![d].amount = total]
  /\ Signed(k, ctx)
  /\ UNCHANGED <<mints, epoch, grants>>

\* The clock sysvar.
AdvanceEpoch ==
  /\ epoch < MaxEpoch
  /\ epoch' = epoch + 1
  /\ UNCHANGED <<mints, accounts, tx, grants>>

-----------------------------------------------------------------------------
(***************************************************************************)
(* The next-state relation, in groups of related instructions.             *)
(***************************************************************************)
InitMints ==
  \E m \in Mints :
    \/ \E k \in MaybeKey : InitializeMintCloseAuthority(m, k)
    \/ \E k \in Keys : InitializePermanentDelegate(m, k)
    \/ InitializeNonTransferableMint(m)
    \/ \E state \in {"Initialized", "Frozen"} : InitializeDefaultAccountState(m, state)
    \/ \E kc, kw \in MaybeKey, bps \in BasisPoints, max \in MaximumFees :
         InitializeTransferFeeConfig(m, kc, kw, bps, max)
    \/ \E km \in Keys, kf \in MaybeKey : InitializeMint(m, km, kf)

InitAccounts ==
  \E a \in Accounts :
    \/ InitializeImmutableOwner(a)
    \/ \E m \in Mints, owner \in Owners : InitializeAccount(a, m, owner)

Move(k, ctx) ==
  \E a \in Accounts, amount \in U64 :
    \/ \E m \in Mints \cup {None} :
         \/ SelfTransfer(a, amount, k, m, ctx)
         \/ \E d \in Accounts : Transfer(a, d, amount, k, m, ctx)
    \/ \E m \in Mints : MintTo(m, a, amount, k, ctx)
    \/ \E m \in Mints : Burn(a, m, amount, k, ctx)

Delegate(k, ctx) ==
  \E a \in Accounts :
    \/ \E delegate \in Keys, amount \in U64 : Approve(a, delegate, amount, k, ctx)
    \/ Revoke(a, k, ctx)

ChangeAccount(k, ctx) ==
  \E a \in Accounts :
    \/ \E new \in Owners : SetAccountOwner(a, new, k, ctx)
    \/ \E new \in MaybeKey : SetAccountCloseAuthority(a, new, k, ctx)
    \/ CloseTokenAccount(a, k, ctx)

Guard(k, ctx) ==
  \E a \in Accounts, enable \in BOOLEAN :
    \/ ToggleRequiredMemoTransfers(a, enable, k, ctx)
    \/ ToggleCpiGuard(a, enable, k, ctx)

ChangeMint(k, ctx) ==
  \E m \in Mints :
    \/ \E type \in MintAuthorityTypes, new \in MaybeKey :
         SetMintAuthority(m, type, new, k, ctx)
    \/ CloseMint(m, k, ctx)

Freeze(k, ctx) ==
  \E m \in Mints, state \in {"Initialized", "Frozen"} :
    \/ UpdateDefaultAccountState(m, state, k, ctx)
    \/ \E a \in Accounts : ToggleFreezeAccount(a, m, state, k, ctx)

CollectFees(k, ctx) ==
  \E m \in Mints, d \in Accounts :
    \/ WithdrawWithheldTokensFromMint(m, d, k, ctx)
    \/ \E from \in SUBSET Accounts :
         WithdrawWithheldTokensFromAccounts(m, d, from, k, ctx)

Harvest == \E m \in Mints, from \in SUBSET Accounts : HarvestWithheldTokensToMint(m, from)

ChangeFees(k, ctx) ==
  \E m \in Mints, bps \in BasisPoints, max \in MaximumFees :
    SetTransferFee(m, bps, max, k, ctx)

Next ==
  \/ InitMints
  \/ InitAccounts
  \/ Harvest
  \/ AdvanceEpoch
  \/ \E k \in Keys, ctx \in Contexts :
       \/ Move(k, ctx)
       \/ Delegate(k, ctx)
       \/ ChangeAccount(k, ctx)
       \/ Guard(k, ctx)
       \/ ChangeMint(k, ctx)
       \/ Freeze(k, ctx)
       \/ CollectFees(k, ctx)
       \/ ChangeFees(k, ctx)

Spec == Init /\ [][Next]_vars

-----------------------------------------------------------------------------
(***************************************************************************)
(* Properties.                                                             *)
(***************************************************************************)
TypeOK ==
  /\ mints \in [Mints -> MintState]
  /\ accounts \in [Accounts -> AccountState]
  /\ epoch \in 0 .. MaxEpoch
  /\ tx \in [by : MaybeKey, cpi : BOOLEAN, memo : BOOLEAN]
  /\ grants \in [Accounts -> [by : MaybeKey, amount : U64, spent : U64]]

AccountsOf(m) == {a \in Accounts : accounts[a].mint = m}

\* What each account holds and withholds of m.
AmountsOf(m) ==
  [a \in Accounts |-> IF accounts[a].mint = m THEN accounts[a].amount ELSE 0]
FeesOf(m) ==
  [a \in Accounts |-> IF accounts[a].mint = m THEN accounts[a].withheld_amount ELSE 0]

Holdings(m) ==
  mints[m].withheld_amount + Total(AmountsOf(m), Accounts) + Total(FeesOf(m), Accounts)

(***************************************************************************)
(* Tokens are neither created nor lost: the supply recorded in a mint is   *)
(* what its accounts hold, what they withhold and what the mint withholds, *)
(* across transfers with fees, harvests, withdrawals, burns and closures.  *)
(* An address that is not (or no longer) a mint has supply 0, so closing a *)
(* mint leaves no tokens behind in any account.                            *)
(***************************************************************************)
SupplyConserved == \A m \in Mints : mints[m].supply = Holdings(m)

(***************************************************************************)
(* A delegate never spends more than was approved, whatever mixture of     *)
(* transfers, burns, re-approvals, revocations and owner changes happens;  *)
(* and whoever is delegate now was approved by the present owner and has   *)
(* exactly the unspent part left (process_approve, process_transfer,       *)
(* process_burn, process_set_authority).                                   *)
(***************************************************************************)
AllowanceRespected ==
  \A a \in Accounts :
    /\ grants[a].spent <= grants[a].amount
    /\ accounts[a].delegate # None =>
         /\ grants[a].by = accounts[a].owner
         /\ accounts[a].delegated_amount = grants[a].amount - grants[a].spent

(***************************************************************************)
(* Tokens leave an account only by the hand of its owner, of the permanent *)
(* delegate of its mint, or of a delegate whose allowance shrinks by as    *)
(* much; accounts of the burn owners can be burnt by anyone, but even they *)
(* never lose tokens to another account.                                   *)
(***************************************************************************)
DebitsAuthorized ==
  [][\A a \in Accounts :
       LET acc   == accounts[a]
           debit == acc.amount - accounts'[a].amount
       IN  debit > 0 =>
             \/ tx'.by = acc.owner
             \/ tx'.by = get_permanent_delegate(acc.mint)
             \/ /\ tx'.by = acc.delegate
                /\ accounts'[a].delegated_amount = acc.delegated_amount - debit
             \/ /\ acc.owner \in BurnOwners
                /\ mints'[acc.mint].supply = mints[acc.mint].supply - debit
    ]_vars

(***************************************************************************)
(* Freezing is total: while an account stays frozen nothing but its        *)
(* withheld fees, its memo and its CPI-guard setting changes, by whomever; *)
(* it gets out of the state only by the freeze authority, or by being      *)
(* closed without leaving any token behind.                                *)
(***************************************************************************)
FrozenInert ==
  [][\A a \in Accounts : accounts[a].state = "Frozen" =>
       \/ /\ accounts'[a].state = "Frozen"
          /\ \A f \in {"mint", "owner", "amount", "delegate",
                       "delegated_amount", "close_authority", "exts"} :
               accounts'[a][f] = accounts[a][f]
          /\ accounts'[a].withheld_amount <= accounts[a].withheld_amount
       \/ /\ accounts'[a].state = "Initialized"
          /\ tx'.by = mints[accounts[a].mint].authority["FreezeAccount"]
       \/ /\ accounts'[a].state = "Uninitialized"
          /\ accounts[a].amount + accounts[a].withheld_amount = 0
    ]_vars

(***************************************************************************)
(* What is renounced stays renounced for as long as the mint lives: no     *)
(* authority comes back from None; without a mint authority the supply     *)
(* never grows again, and without a freeze authority no account in use is  *)
(* ever frozen.                                                            *)
(***************************************************************************)
RenouncedForGood ==
  [][\A m \in Mints : mints[m].is_initialized /\ mints'[m].is_initialized =>
       LET gone(type) == mints[m].authority[type] = None
       IN  /\ \A type \in MintAuthorityTypes :
                gone(type) => mints'[m].authority[type] = None
           /\ gone("MintTokens") => mints'[m].supply <= mints[m].supply
           /\ gone("FreezeAccount") => \A a \in AccountsOf(m) :
                accounts[a].state = "Initialized" => accounts'[a].state # "Frozen"
    ]_vars

(***************************************************************************)
(* A locked CPI guard: an instruction inside a CPI cannot unlock it, hand  *)
(* the account over, appoint a delegate or a close authority, or move the  *)
(* owner's tokens on the owner's signature.  Outside a CPI the owner still *)
(* cannot be changed.  This is about the public instructions: the handlers *)
(* of confidential transfers do not consult the guard.                     *)
(***************************************************************************)
CpiGuardHolds ==
  [][\A a \in Accounts :
       LET acc == accounts[a]
           new == accounts'[a]
           open == {acc.delegate, get_permanent_delegate(acc.mint)}
       IN  acc.state # "Uninitialized" /\ new.state # "Uninitialized" /\ acc.lock_cpi =>
             /\ new.owner = acc.owner
             /\ tx'.cpi =>
                  /\ new.lock_cpi
                  /\ new.delegate \in {acc.delegate, None}
                  /\ new.close_authority \in {acc.close_authority, None}
                  /\ new.amount < acc.amount => tx'.by \in open
    ]_vars

(***************************************************************************)
(* Tokens move from one account to another only on the terms in force when *)
(* the transfer executes, whichever instruction moves them.  When the mint *)
(* has a fee schedule and the sender's account was opened under it, the    *)
(* receiver withholds exactly what the schedule in force charges on what   *)
(* the sender lost, also where the transfer passes no mint; when the       *)
(* receiver requires memos, a memo precedes it (process_transfer).         *)
(* Accounts left over from an earlier mint of that address do not withhold *)
(* and are not spoken of; minting and fee withdrawals need no memo.        *)
(***************************************************************************)
TransferTerms ==
  [][\A s, d \in Accounts :
       LET m     == accounts[s].mint
           debit == accounts[s].amount - accounts'[s].amount
       IN  /\ s # d /\ debit > 0
           /\ accounts'[d].amount + accounts'[d].withheld_amount
                > accounts[d].amount + accounts[d].withheld_amount
           => /\ has_fee_config(m) /\ "TransferFeeAmount" \in accounts[s].exts
                   => accounts'[d].withheld_amount - accounts[d].withheld_amount
                        = calculate_epoch_fee(mints[m].fees, epoch, debit)
              /\ accounts[d].require_incoming_transfer_memos => tx'.memo
    ]_vars

(***************************************************************************)
(* "Indicates that the tokens from this mint can't be transferred"         *)
(* (extension/non_transferable.rs): an account of a non-transferable mint  *)
(* gains tokens only by minting.                                           *)
(***************************************************************************)
NonTransferableStaysPut ==
  [][\A a \in Accounts :
       LET m == accounts[a].mint
       IN  /\ accounts[a].state # "Uninitialized"
           /\ "NonTransferable" \in mints[m].exts
           /\ accounts'[a].amount > accounts[a].amount
           => mints'[m].supply > mints[m].supply
    ]_vars

=============================================================================
