------------------------ MODULE ConfidentialTransfer ------------------------
(***************************************************************************)
(* The confidential-transfer and confidential-transfer-fee extensions:     *)
(* the handlers of confidential_transfer/processor.rs and                  *)
(* confidential_transfer_fee/processor.rs on one mint and its accounts,    *)
(* and the clients of account_info.rs that read an account, prove          *)
(* something about the ciphertexts they read, and submit the instruction   *)
(* later, when the account may have changed.                               *)
(*                                                                         *)
(* Ciphertexts are those of module Ciphertext.  A proof is the statement   *)
(* it makes; a client whose statement is false has nothing to submit.      *)
(*                                                                         *)
(* Owners and signatures are the subject of Token and Multisig: the        *)
(* instructions of an account are submitted by its owner.                  *)
(***************************************************************************)
EXTENDS TransferFee, Ciphertext, Totals

CONSTANTS
  Accounts,      \* token accounts of the mint
  Keys,          \* ElGamal public keys
  NoKey,         \* no auditor
  Auditors,      \* auditor keys a mint may be given
  AutoApprovals, \* what a mint may say to auto_approve_new_accounts
  MAXIMUM_DEPOSIT_TRANSFER_AMOUNT,
  U32_MAX,       \* the largest number decrypt_u32 finds, 2^32 - 1
  CreditLimits,  \* maximum_pending_balance_credit_counter an owner may choose
  Rates,         \* transfer fees that come into force
  Supply,        \* bound: tokens minted
  MaxFresh,      \* bound: encryptions made by clients
  Patient,       \* accounts whose owner waits for one instruction to end
                 \* before reading the account for the next
  MaxDrafts,     \* bound: instructions one client has in flight
  MaxInFlight,   \* bound: instructions in flight
  Switchable,    \* bound: the switches that are ever changed
  MaxSwitches    \* bound: how often

ASSUME ConfidentialAssumption ==
  /\ IsFiniteSet(Accounts)
  /\ {MAXIMUM_DEPOSIT_TRANSFER_AMOUNT, U32_MAX} \subseteq Nat
  /\ CreditLimits \subseteq Nat
  /\ \A f \in Rates : /\ f.transfer_fee_basis_points \in 0 .. ONE_IN_BASIS_POINTS
                      /\ f.maximum_fee \in Nat
  /\ Auditors \subseteq Keys \cup {NoKey}
  /\ AutoApprovals \subseteq BOOLEAN
  /\ Patient \subseteq Accounts
  /\ Supply \in U64
  /\ {MaxFresh, MaxDrafts, MaxInFlight, MaxSwitches} \subseteq Nat
  /\ \A n \in 0 .. MaxFresh : n < MaxFresh => n \in Labels

VARIABLES
  mint,      \* the mint's base, confidential and fee extensions
  account,   \* the accounts, with their two extensions
  drafts,    \* instructions built by clients and not yet executed
  fresh,     \* encryptions so far: the next one is unlike all of them
  switches   \* changes made so far

vars == <<mint, account, drafts, fresh, switches>>

-----------------------------------------------------------------------------
(***************************************************************************)
(* State.                                                                  *)
(***************************************************************************)
NoFee == [transfer_fee_basis_points |-> 0, maximum_fee |-> 0]

NoMint ==
  [initialized |-> FALSE, confidential |-> FALSE, confidential_fee |-> FALSE,
   authority |-> FALSE, auto_approve |-> FALSE, auditor |-> NoKey,
   fee_authority |-> FALSE, fee_key |-> NoKey, harvest_enabled |-> FALSE,
   withheld |-> Zeroed, has_fees |-> FALSE, fee |-> NoFee, minted |-> 0]

MintState ==
  [initialized : BOOLEAN, confidential : BOOLEAN, confidential_fee : BOOLEAN,
   authority : BOOLEAN, auto_approve : BOOLEAN, auditor : Keys \cup {NoKey},
   fee_authority : BOOLEAN, fee_key : Keys \cup {NoKey},
   harvest_enabled : BOOLEAN, withheld : Ciphertexts, has_fees : BOOLEAN,
   fee : Rates \cup {NoFee}, minted : 0 .. Supply]

Fresh ==
  [open |-> FALSE, amount |-> 0, frozen |-> FALSE, configured |-> FALSE,
   approved |-> FALSE, key |-> NoKey, lo |-> Zeroed, hi |-> Zeroed,
   available |-> Zeroed, decryptable |-> 0, allow_confidential |-> FALSE,
   allow_public |-> TRUE, counter |-> 0, limit |-> 0, expected |-> 0,
   actual |-> 0, withheld |-> Zeroed, public_withheld |-> 0]

AccountState ==
  [open : BOOLEAN, amount : 0 .. Supply, frozen : BOOLEAN,
   configured : BOOLEAN, approved : BOOLEAN, key : Keys \cup {NoKey},
   lo : Ciphertexts, hi : Ciphertexts, available : Ciphertexts,
   decryptable : Nat, allow_confidential : BOOLEAN, allow_public : BOOLEAN,
   counter : Nat, limit : CreditLimits \cup {0}, expected : Nat,
   actual : Nat, withheld : Ciphertexts, public_withheld : 0 .. Supply]

Init ==
  /\ mint = NoMint
  /\ account = [a \in Accounts |-> Fresh]
  /\ drafts = {}
  /\ fresh = 0
  /\ switches = 0

\* A change that the bounds Switchable and MaxSwitches allow.
Switch(what) ==
  what \in Switchable /\ switches < MaxSwitches /\ switches' = switches + 1

-----------------------------------------------------------------------------
(***************************************************************************)
(* Setting up the mint: its extensions in any order, each as often as one  *)
(* likes (init_extension(true) overwrites), then the mint itself.          *)
(***************************************************************************)
InitializeTransferFeeConfig(fee) ==
  /\ ~mint.initialized
  /\ mint' = [mint EXCEPT !.has_fees = TRUE, !.fee = fee]
  /\ UNCHANGED <<account, drafts, fresh, switches>>

InitializeConfidentialMint(auto, auditor) ==
  /\ ~mint.initialized
  /\ mint' = [mint EXCEPT !.confidential = TRUE, !.authority = TRUE,
                          !.auto_approve = auto, !.auditor = auditor]
  /\ UNCHANGED <<account, drafts, fresh, switches>>

InitializeConfidentialTransferFeeConfig(key) ==
  /\ ~mint.initialized
  /\ mint' = [mint EXCEPT !.confidential_fee = TRUE, !.fee_authority = TRUE,
                          !.fee_key = key, !.harvest_enabled = TRUE,
                          !.withheld = Zeroed]
  /\ UNCHANGED <<account, drafts, fresh, switches>>

\* Fees and confidential transfers together need the third extension.
check_for_invalid_mint_extension_combinations(m) ==
  /\ m.confidential_fee => m.has_fees /\ m.confidential
  /\ m.has_fees /\ m.confidential => m.confidential_fee

InitializeMint ==
  /\ ~mint.initialized
  /\ check_for_invalid_mint_extension_combinations(mint)
  /\ mint' = [mint EXCEPT !.initialized = TRUE]
  /\ UNCHANGED <<account, drafts, fresh, switches>>

-----------------------------------------------------------------------------
(***************************************************************************)
(* The public side of an account, as far as the extensions meet it.        *)
(***************************************************************************)
InitializeAccount(a) ==
  /\ mint.initialized
  /\ ~account[a].open
  /\ account' = [account EXCEPT ![a] = [Fresh EXCEPT !.open = TRUE]]
  /\ UNCHANGED <<mint, drafts, fresh, switches>>

MintTo(a, n) ==
  /\ account[a].open
  /\ ~account[a].frozen
  /\ mint.minted + n <= Supply
  /\ mint' = [mint EXCEPT !.minted = @ + n]
  /\ account' = [account EXCEPT ![a].amount = @ + n]
  /\ UNCHANGED <<drafts, fresh, switches>>

\* process_transfer asks the destination for non_confidential_transfer_allowed;
\* the fee goes to the destination's public TransferFeeAmount.
Transfer(a, b, n) ==
  LET fee == calculate_fee(mint.fee, n)
  IN  /\ a # b
      /\ account[a].open /\ account[b].open
      /\ ~account[a].frozen /\ ~account[b].frozen
      /\ n <= account[a].amount
      /\ account[b].allow_public
      /\ account' = [account EXCEPT ![a].amount = @ - n,
                                    ![b].amount = @ + n - fee,
                                    ![b].public_withheld = @ + fee]
      /\ UNCHANGED <<mint, drafts, fresh, switches>>

ToggleFreeze(a) ==
  /\ account[a].open
  /\ Switch("freeze")
  /\ account' = [account EXCEPT ![a].frozen = ~@]
  /\ UNCHANGED <<mint, drafts, fresh>>

\* ConfidentialTransferAccount::closable.
closable(x) == x.lo = Zeroed /\ x.hi = Zeroed /\ x.available = Zeroed

\* ConfidentialTransferFeeAmount::closable.
fee_closable(x) == x.withheld = Zeroed

CloseAccount(a) ==
  /\ account[a].open
  /\ account[a].amount = 0
  /\ account[a].public_withheld = 0
  /\ closable(account[a])
  /\ fee_closable(account[a])
  /\ account' = [account EXCEPT ![a] = Fresh]
  /\ UNCHANGED <<mint, drafts, fresh, switches>>

-----------------------------------------------------------------------------
(***************************************************************************)
(* The confidential side: configuration and switches.                      *)
(***************************************************************************)
ConfigureAccount(a, key, limit) ==
  /\ account[a].open
  /\ mint.confidential
  /\ ~account[a].configured
  /\ account' = [account EXCEPT ![a] =
       [@ EXCEPT !.configured = TRUE, !.approved = mint.auto_approve,
                 !.key = key, !.limit = limit,
                 !.lo = Zeroed, !.hi = Zeroed, !.available = Zeroed,
                 !.decryptable = 0, !.allow_confidential = TRUE,
                 !.counter = 0, !.expected = 0, !.actual = 0,
                 !.allow_public = TRUE, !.withheld = Zeroed]]
  /\ UNCHANGED <<mint, drafts, fresh, switches>>

ApproveAccount(a) ==
  /\ account[a].configured
  /\ mint.authority
  /\ account' = [account EXCEPT ![a].approved = TRUE]
  /\ UNCHANGED <<mint, drafts, fresh, switches>>

UpdateMint(auto, auditor) ==
  /\ mint.initialized
  /\ mint.confidential
  /\ mint.authority
  /\ Switch("mint")
  /\ mint' = [mint EXCEPT !.auto_approve = auto, !.auditor = auditor]
  /\ UNCHANGED <<account, drafts, fresh>>

\* SetAuthority with no new authority, for one of the two extensions.
RenounceAuthority(which) ==
  /\ mint.initialized
  /\ mint[which]
  /\ Switch("authority")
  /\ mint' = [mint EXCEPT ![which] = FALSE]
  /\ UNCHANGED <<account, drafts, fresh>>

\* An epoch in which another transfer fee comes into force (FeeSchedule).
ChangeFee(fee) ==
  /\ mint.initialized
  /\ mint.has_fees
  /\ fee # mint.fee
  /\ Switch("fee")
  /\ mint' = [mint EXCEPT !.fee = fee]
  /\ UNCHANGED <<account, drafts, fresh>>

\* Enable and DisableConfidentialCredits, -NonConfidentialCredits.
AllowCredits(a, which, allow) ==
  /\ account[a].configured
  /\ account[a][which] # allow
  /\ Switch("credits")
  /\ account' = [account EXCEPT ![a][which] = allow]
  /\ UNCHANGED <<mint, drafts, fresh>>

SetHarvestToMint(enabled) ==
  /\ mint.initialized
  /\ mint.confidential_fee
  /\ mint.fee_authority
  /\ mint.harvest_enabled # enabled
  /\ Switch("harvest")
  /\ mint' = [mint EXCEPT !.harvest_enabled = enabled]
  /\ UNCHANGED <<account, drafts, fresh>>

-----------------------------------------------------------------------------
(***************************************************************************)
(* Credits.                                                                *)
(***************************************************************************)
valid_as_source(x) == x.configured /\ x.approved

\* Mutant: the limit itself is let through.
valid_as_destination_at_limit(x) ==
  x.configured /\ x.approved /\ x.allow_confidential /\ x.counter <= x.limit

valid_as_destination(x) ==
  x.configured /\ x.approved /\ x.allow_confidential /\ x.counter + 1 <= x.limit

\* Both halves are added and the credit is counted.
Credited(x, lo, hi) ==
  [x EXCEPT !.lo = Plus(@, lo), !.hi = Plus(@, hi), !.counter = @ + 1]

Deposit(a, n) ==
  LET x == account[a]
  IN  /\ x.open
      /\ ~x.frozen
      /\ n <= x.amount
      /\ valid_as_destination(x)
      /\ n <= MAXIMUM_DEPOSIT_TRANSFER_AMOUNT
      /\ account' = [account EXCEPT ![a] =
           [Credited(x, PlusAmount(Zeroed, Low(n)), PlusAmount(Zeroed, High(n)))
            EXCEPT !.amount = @ - n]]
      /\ UNCHANGED <<mint, drafts, fresh, switches>>

-----------------------------------------------------------------------------
(***************************************************************************)
(* Clients.  Draft...(...) reads the accounts, decrypts, proves and builds *)
(* an instruction; the action of the same name executes it in whatever     *)
(* state the program is by then, and Drop stands for an instruction that   *)
(* is refused or never arrives.                                            *)
(***************************************************************************)
InFlight(by) == Cardinality({d \in drafts : d.by = by})

Drafts(d, encryptions) ==
  /\ InFlight(d.by) < IF d.by \in Patient THEN 1 ELSE MaxDrafts
  /\ Cardinality(drafts) < MaxInFlight
  /\ fresh + encryptions <= MaxFresh
  /\ d \notin drafts
  /\ drafts' = drafts \cup {d}
  /\ fresh' = fresh + encryptions
  /\ UNCHANGED <<mint, account, switches>>

Executes(d) == d \in drafts /\ drafts' = drafts \ {d} /\ UNCHANGED <<fresh, switches>>

Drop(d) == Executes(d) /\ UNCHANGED <<mint, account>>

\* ElGamal ciphertexts are decrypted by search: decrypt_u32 finds the number
\* in a ciphertext only if that is a u32.
decrypt_u32(c) == c.v \in 0 .. U32_MAX

\* ApplyPendingBalanceAccountInfo: both halves are decrypted, and their sum
\* with the decryptable balance is unwrapped as a u64.
DraftApply(a) ==
  LET x == account[a]
  IN  /\ x.configured
      /\ decrypt_u32(x.lo)
      /\ decrypt_u32(x.hi)
      /\ x.decryptable + LoHi(x.lo, x.hi).v \in U64
      /\ Drafts([op |-> "apply", by |-> a, expected |-> x.counter,
                 decryptable |-> x.decryptable + LoHi(x.lo, x.hi).v], 0)

\* Mutant: records the counter after resetting it.
ApplyPendingBalanceLate(d) ==
  LET x == account[d.by]
  IN  /\ d.op = "apply"
      /\ x.configured
      /\ Executes(d)
      /\ account' = [account EXCEPT ![d.by] =
           [x EXCEPT !.available = Plus(@, LoHi(x.lo, x.hi)),
                     !.actual = 0, !.expected = d.expected,
                     !.decryptable = d.decryptable, !.counter = 0,
                     !.lo = Zeroed, !.hi = Zeroed]]
      /\ UNCHANGED mint

ApplyPendingBalance(d) ==
  LET x == account[d.by]
  IN  /\ d.op = "apply"
      /\ x.configured
      /\ Executes(d)
      /\ account' = [account EXCEPT ![d.by] =
           [x EXCEPT !.available = Plus(@, LoHi(x.lo, x.hi)),
                     !.actual = x.counter, !.expected = d.expected,
                     !.decryptable = d.decryptable, !.counter = 0,
                     !.lo = Zeroed, !.hi = Zeroed]]
      /\ UNCHANGED mint

\* EmptyAccountAccountInfo: the proof says that the ciphertext holds zero.
DraftEmpty(a) ==
  LET x == account[a]
  IN  /\ x.configured
      /\ x.available.v = 0
      /\ Drafts([op |-> "empty", by |-> a, key |-> x.key,
                 ciphertext |-> x.available], 0)

EmptyAccount(d) ==
  LET x == account[d.by]
      emptied == [x EXCEPT !.available = Zeroed]
  IN  /\ d.op = "empty"
      /\ x.configured
      /\ x.key = d.key
      /\ x.available = d.ciphertext
      /\ closable(emptied)
      /\ Executes(d)
      /\ account' = [account EXCEPT ![d.by] = emptied]
      /\ UNCHANGED mint

\* WithdrawAccountInfo: new_decryptable_available_balance needs decryptable >=
\* amount; the proof ties that difference to the ciphertext, so it exists
\* only while the decryptable balance is the encrypted one.
DraftWithdraw(a, n) ==
  LET x == account[a]
  IN  /\ x.configured
      /\ x.decryptable >= n
      /\ x.decryptable = x.available.v
      /\ Drafts([op |-> "withdraw", by |-> a, key |-> x.key, amount |-> n,
                 final |-> PlusAmount(x.available, -n),
                 decryptable |-> x.decryptable - n], 0)

Withdraw(d) ==
  LET x == account[d.by]
      final == PlusAmount(x.available, -d.amount)
  IN  /\ d.op = "withdraw"
      /\ x.open
      /\ ~x.frozen
      /\ valid_as_source(x)
      /\ x.key = d.key
      /\ final = d.final
      /\ Executes(d)
      /\ account' = [account EXCEPT ![d.by] =
           [x EXCEPT !.available = final, !.decryptable = d.decryptable,
                     !.amount = @ + d.amount]]
      /\ UNCHANGED mint

-----------------------------------------------------------------------------
(***************************************************************************)
(* Confidential transfers.                                                 *)
(***************************************************************************)
\* TransferAccountInfo: generate_transfer_proof_data, or the _with_fee form on
\* a mint with fees.  The proof states that the amount is well formed, that
\* the new balance is not negative and that the fee is what the quoted rate
\* charges.
DraftTransfer(a, b, n) ==
  LET x == account[a]
      fee == calculate_fee(mint.fee, n)
      lo == Encrypt(Low(n), fresh)
      hi == Encrypt(High(n), fresh)
  IN  /\ x.configured
      /\ account[b].configured
      /\ n <= MAXIMUM_DEPOSIT_TRANSFER_AMOUNT
      /\ x.decryptable >= n
      /\ x.decryptable = x.available.v
      /\ Drafts([op |-> "transfer", by |-> a, to |-> b,
                 source |-> x.key, destination |-> account[b].key,
                 auditor |-> mint.auditor, fee_key |-> mint.fee_key,
                 rate |-> mint.fee, lo |-> lo, hi |-> hi,
                 fee_lo |-> Encrypt(Low(fee), fresh + 1),
                 fee_hi |-> Encrypt(High(fee), fresh + 1),
                 final |-> Minus(x.available, LoHi(lo, hi)),
                 decryptable |-> x.decryptable - n],
                IF mint.has_fees THEN 2 ELSE 1)

\* The balance of the source after the transfer, checked against the proof.
new_source_available_balance(x, d) == Minus(x.available, LoHi(d.lo, d.hi))

\* Mutant: accepts a proof made for another balance.
process_source_for_transfer_unchecked(x, d) ==
  valid_as_source(x) /\ ~x.frozen /\ x.key = d.source

process_source_for_transfer(x, d) ==
  /\ x.open
  /\ ~x.frozen
  /\ valid_as_source(x)
  /\ x.key = d.source
  /\ new_source_available_balance(x, d) = d.final

process_destination_for_transfer(x, d) ==
  /\ x.open
  /\ ~x.frozen
  /\ valid_as_destination(x)
  /\ x.key = d.destination

\* Mutant: the rate of the proof is not compared with the one in force.
verify_transfer_with_fee_proof_any_rate(d) == d.fee_key = mint.fee_key

\* The checks of a fee proof against the mint.
verify_transfer_with_fee_proof(d) ==
  /\ d.rate = mint.fee
  /\ d.fee_key = mint.fee_key

\* Mutant: the whole amount is credited and the fee withheld on top.
FeeChargedTwice(x, d) ==
  [x EXCEPT !.withheld = Plus(@, LoHi(d.fee_lo, d.fee_hi))]

\* The fee leaves the pending balance half by half and is withheld whole.
FeeCharged(x, d) ==
  [x EXCEPT !.lo = Minus(@, d.fee_lo), !.hi = Minus(@, d.fee_hi),
            !.withheld = Plus(@, LoHi(d.fee_lo, d.fee_hi))]

ConfidentialTransfer(d) ==
  LET debited == [account EXCEPT ![d.by].available =
                                   new_source_available_balance(account[d.by], d),
                                 ![d.by].decryptable = d.decryptable]
      credited == Credited(debited[d.to], d.lo, d.hi)
  IN  /\ d.op = "transfer"
      /\ mint.auditor = d.auditor
      /\ mint.has_fees => verify_transfer_with_fee_proof(d)
      /\ process_source_for_transfer(account[d.by], d)
      /\ process_destination_for_transfer(debited[d.to], d)
      /\ Executes(d)
      /\ account' = [debited EXCEPT ![d.to] =
           IF mint.has_fees /\ d.by # d.to THEN FeeCharged(credited, d) ELSE credited]
      /\ UNCHANGED mint

-----------------------------------------------------------------------------
(***************************************************************************)
(* Withheld confidential fees.                                             *)
(***************************************************************************)
\* harvest_from_account: accounts without the extension are passed over.
Harvestable(S) == {a \in S : account[a].open /\ account[a].configured}

Aggregate(S) ==
  LET withheld(a) == account[a].withheld
  IN  [v |-> Total([a \in Accounts |-> withheld(a).v], Harvestable(S)),
       r |-> [l \in Labels |->
                Total([a \in Accounts |-> withheld(a).r[l]], Harvestable(S))]]

Harvested(acc, S) ==
  [a \in Accounts |-> IF a \in Harvestable(S)
                      THEN [acc[a] EXCEPT !.withheld = Zeroed] ELSE acc[a]]

HarvestWithheldTokensToMint(S) ==
  /\ mint.initialized
  /\ mint.confidential_fee
  /\ mint.harvest_enabled
  /\ mint' = [mint EXCEPT !.withheld = Plus(@, Aggregate(S))]
  /\ account' = Harvested(account, S)
  /\ UNCHANGED <<drafts, fresh, switches>>

\* WithheldTokensInfo: the proof says that the destination ciphertext holds
\* the amount of the withheld one.  From the mint: S is empty.
DraftWithdrawWithheld(S, b) ==
  LET withheld == IF S = {} THEN mint.withheld ELSE Aggregate(S)
  IN  /\ mint.confidential_fee
      /\ account[b].configured
      /\ decrypt_u32(withheld)
      /\ Drafts([op |-> "withheld", by |-> "authority", from |-> S, to |-> b,
                 source |-> mint.fee_key, destination |-> account[b].key,
                 withheld |-> withheld, moved |-> Encrypt(withheld.v, fresh),
                 decryptable |-> account[b].decryptable + withheld.v], 1)

\* Checked of the destination by both instructions; the moved amount goes to
\* the available balance, uncounted.
WithdrawWithheld(d, withheld, acc) ==
  LET x == account[d.to]
  IN  /\ d.op = "withheld"
      /\ mint.confidential_fee
      /\ x.open
      /\ ~x.frozen
      /\ valid_as_destination(x)
      /\ d.source = mint.fee_key
      /\ d.destination = x.key
      /\ d.withheld = withheld
      /\ Executes(d)
      /\ account' = [acc EXCEPT ![d.to].available = Plus(@, d.moved),
                                ![d.to].decryptable = d.decryptable]

WithdrawWithheldTokensFromMint(d) ==
  /\ WithdrawWithheld(d, mint.withheld, account)
  /\ d.from = {}
  /\ mint' = [mint EXCEPT !.withheld = Zeroed]

WithdrawWithheldTokensFromAccounts(d) ==
  /\ d.op = "withheld"
  /\ d.from # {}
  /\ WithdrawWithheld(d, Aggregate(d.from), Harvested(account, d.from))
  /\ UNCHANGED mint

-----------------------------------------------------------------------------
Amounts == 1 .. Supply

ExecuteDraft ==
  \E d \in drafts :
    \/ Drop(d)
    \/ ApplyPendingBalance(d)
    \/ EmptyAccount(d)
    \/ Withdraw(d)
    \/ ConfidentialTransfer(d)
    \/ WithdrawWithheldTokensFromMint(d)
    \/ WithdrawWithheldTokensFromAccounts(d)

Next ==
  \/ \E auto \in AutoApprovals, key \in Auditors :
       \/ InitializeConfidentialMint(auto, key)
       \/ UpdateMint(auto, key)
  \/ \E key \in Keys : InitializeConfidentialTransferFeeConfig(key)
  \/ \E fee \in Rates : InitializeTransferFeeConfig(fee) \/ ChangeFee(fee)
  \/ InitializeMint
  \/ \E which \in {"authority", "fee_authority"} : RenounceAuthority(which)
  \/ \E enabled \in BOOLEAN : SetHarvestToMint(enabled)
  \/ \E S \in SUBSET Accounts :
       \/ HarvestWithheldTokensToMint(S)
       \/ \E b \in Accounts : DraftWithdrawWithheld(S, b)
  \/ \E a \in Accounts :
       \/ InitializeAccount(a)
       \/ CloseAccount(a)
       \/ ToggleFreeze(a)
       \/ ApproveAccount(a)
       \/ DraftApply(a)
       \/ DraftEmpty(a)
       \/ \E n \in Amounts : MintTo(a, n) \/ Deposit(a, n) \/ DraftWithdraw(a, n)
       \/ \E b \in Accounts, n \in Amounts : Transfer(a, b, n) \/ DraftTransfer(a, b, n)
       \/ \E key \in Keys, limit \in CreditLimits : ConfigureAccount(a, key, limit)
       \/ \E which \in {"allow_confidential", "allow_public"}, allow \in BOOLEAN :
            AllowCredits(a, which, allow)
  \/ ExecuteDraft

Spec == Init /\ [][Next]_vars

-----------------------------------------------------------------------------
(***************************************************************************)
(* Properties.                                                             *)
(***************************************************************************)
\* Types.
TypeOK ==
  /\ mint \in MintState
  /\ account \in [Accounts -> AccountState]
  /\ fresh \in 0 .. MaxFresh
  /\ switches \in 0 .. MaxSwitches
  /\ \A d \in drafts : d.by \in Accounts \cup {"authority"}

\* What an account holds, in public and in ciphertexts.
Holdings(x) ==
  x.amount + x.public_withheld + LoHi(x.lo, x.hi).v + x.available.v + x.withheld.v

\* The supply of the mint is what the accounts and the mint hold, encrypted or
\* not: no handler of the two extensions, executed late or in any order,
\* makes or loses a token, and closable lets no account go with one.
TokensConserved ==
  Total([a \in Accounts |-> Holdings(account[a])], Accounts) + mint.withheld.v
    = mint.minted

\* No encrypted balance is negative, although the program cannot see it:
\* process_source_for_transfer and process_withdraw only accept proofs about
\* the ciphertext that is there now.
NothingOverdrawn ==
  /\ TypeOK
  /\ \A a \in Accounts : /\ account[a].available.v >= 0
                         /\ LoHi(account[a].lo, account[a].hi).v >= 0
                         /\ account[a].withheld.v >= 0
  /\ mint.withheld.v >= 0

\* A pending balance is bounded by the credits counted since the last
\* ApplyPendingBalance, and these by the limit the owner chose.  On a mint
\* without fees that is what lets the owner decrypt it: the low half always, if
\* the limit is no more than 2^16 + 1; the high half for certain only after one
\* credit, which may bring all of 2^32 - 1, and after two no limit helps.  With
\* fees a half may also be negative (FeeCharged).
PendingWithinLimit ==
  \A a \in Accounts :
    LET x == account[a]
    IN  /\ x.counter <= x.limit
        /\ x.lo.v <= x.counter * (RADIX - 1)
        /\ x.hi.v <= x.counter * High(MAXIMUM_DEPOSIT_TRANSFER_AMOUNT)
        /\ ~mint.has_fees =>
             /\ x.limit * (RADIX - 1) <= U32_MAX => decrypt_u32(x.lo)
             /\ x.counter * High(MAXIMUM_DEPOSIT_TRANSFER_AMOUNT) <= U32_MAX
                  => decrypt_u32(x.hi)

\* After every withdrawal and every confidential transfer the balance that the
\* owner can decrypt is the encrypted one, whatever happened between reading
\* the account and executing the instruction.
SpenderKnowsBalance ==
  [][\A a \in Accounts :
       account'[a].available.v < account[a].available.v
         => account'[a].decryptable = account'[a].available.v]_vars

\* What a confidential transfer takes from one account for another is charged
\* the fee in force when it executes, not the one quoted in its proof: the
\* withheld amounts grow by exactly that fee.
ConfidentialFeeWithheld ==
  [][\A a, b \in Accounts :
       /\ a # b
       /\ account'[a].available.v < account[a].available.v
       /\ account'[b].counter > account[b].counter
       => account'[b].withheld.v - account[b].withheld.v
            = calculate_fee(mint.fee, account[a].available.v
                                        - account'[a].available.v)]_vars

\* On a mint without fees, for a patient owner: the decryptable balance parts
\* from the encrypted one only in an ApplyPendingBalance that leaves the
\* expected and the actual counter different, so a credit that raced it shows.
MissedCreditShows ==
  [][\A a \in Patient :
       /\ ~mint.has_fees
       /\ account[a].decryptable = account[a].available.v
       /\ account'[a].decryptable # account'[a].available.v
       => account'[a].expected # account'[a].actual]_vars

\* What instruction.rs says of ApplyPendingBalance: if the expected and the
\* actual counter are equal then the decryptable balance is the encrypted one.
EqualCountersMeanConsistent ==
  \A a \in Accounts :
    account[a].expected = account[a].actual
      => account[a].decryptable = account[a].available.v
=============================================================================
