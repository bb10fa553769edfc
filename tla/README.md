# A TLA+ model of the BARK token program

`src/programs/` is a Solana token program with extensions (the Token-2022 design);
`src/main.ts` is a client that creates the BARK mint with it. The modules in this directory
model the program: the ledger, its fees and guards, the lamports below it, the bytes it is kept
in, the confidential balances, and the way from a client's builder to a handler. TLC checks
small instances, TLAPS proves the central facts for every size.

The program keeps no memory of its own: an instruction reads and writes the accounts passed to
it, either completely or (on any error) not at all. The difficulty is therefore not in races
within a handler but in long sequences of legal instructions by many signers, in the context an
instruction is executed in (inside another program's CPI, after a memo, in which epoch), in what
a client read before it signed, and in arithmetic at its limits.

## Inventory

Sources are under `src/programs/src/`.

| Component | Source | State | Operations | What makes it correct | Module |
|---|---|---|---|---|---|
| Fee arithmetic | `extension/transfer_fee/mod.rs` | a schedule (bps, cap, epoch) | fee, net, gross and inverse fee | rounding up; the inverse is exact; no gain by splitting | `TransferFee` |
| Fee schedule of a mint | `extension/transfer_fee/processor.rs` | older and newer schedule, authority | initialize, set, change authority | notice before a change applies; fixed within an epoch | `FeeSchedule` |
| Ledger: mints and accounts | `processor.rs`, `state.rs`, `pod.rs` | supply, balances, delegates, authorities, states | create, transfer, mint, burn, approve, revoke, set authority, freeze, thaw, close | conservation, authorization, allowances, inertness of frozen accounts | `Token` |
| Withheld fees | `extension/transfer_fee/processor.rs`, `processor.rs` | withheld amounts of accounts and mints | withhold, harvest, withdraw | nothing lost or counted twice | `Token` |
| Account guards | `extension/{cpi_guard,memo_transfer}/`, `extension/immutable_owner.rs` | three flags per account | enable, disable | no guard can be evaded | `Token` |
| Mint options | `extension/{mint_close_authority,permanent_delegate,non_transferable}.rs`, `extension/default_account_state/` | authorities and marks | initialize, update | consulted by every route | `Token` |
| Native SOL accounts | `processor.rs`, `native_mint.rs`, `extension/reallocate.rs` | lamports against amounts | SyncNative, CreateNativeMint, WithdrawExcessLamports, Reallocate | an amount is backed by lamports above the reserve | `NativeToken` |
| Multisig authorities | `processor.rs` (`validate_owner`), `state.rs` | m, n, signers | InitializeMultisig, validation | a quorum of distinct positions | `Multisig` |
| TLV storage, Reallocate | `extension/mod.rs`, `extension/reallocate.rs` | bytes: base, padding, type, entries | init, alloc, realloc, sizes | implements a map from extension to value | `Tlv` |
| Transfer hook | `extension/transfer_hook/`, `onchain.rs`, `offchain.rs` | hook, transferring flags | CPI around a transfer; two reads of the client | the flag is set only during the call | `TransferHook` |
| Confidential transfer and its fee | `extension/confidential_transfer*/` | pending and available balances, counters | configure, deposit, withdraw, transfer, apply, harvest | conservation and solvency in the encrypted domain | `ConfidentialTransfer`, `SplitProofs` |
| Interest-bearing mint | `extension/interest_bearing_mint/` | rates, timestamps | initialize, update rate | time-weighted average | `InterestBearing` |
| Pointers, groups, metadata | `extension/{metadata_pointer,group_pointer,group_member_pointer,token_group,token_metadata}/` | address and authority pairs, group size, fields | initialize, update, add member | numbers given once; renounced means fixed | `MintIdentity` |
| Instruction encoding | `instruction.rs`, `pod_instruction.rs`, `extension/*/instruction.rs`, `proof.rs` | none | build, decode, take accounts | builder and handler agree on every position | `Interface` |
| Client script | `src/main.ts` | none on chain | create, mint, transfer with a quoted fee, withdraw, burn | the quote agrees with the program | - |

How they interact: `processor.rs` dispatches every instruction; its transfer consults the mint's
fee schedule, permanent delegate and hook, the source's non-transferable mark and CPI guard, and
the destination's memo requirement. Initializing an account copies marks from the mint
(`get_required_init_account_extensions`), and later handlers rely on the marks instead of the
mint. Closing deletes the mint or account without looking at what still refers to it. The
confidential extensions take their fee from the same schedule. The clock sysvar and the price of
rent are the only inputs that change without an instruction; lamports also move without the
program, and a hook is foreign code in the middle of a transfer.

What is hard about it, in more detail, is the list of hazards in `PROJECT.json`.

## Modules

* **`TransferFee`**: the pure arithmetic: `calculate_fee`, `calculate_post_fee_amount`,
  `calculate_pre_fee_amount`, `calculate_inverse_fee`, `get_epoch_fee`, and what initialization
  (`initial_fees`) and SetTransferFee (`updated_fees`) store. `None` results are `NoAmount`.
  `U64_MAX` and `ONE_IN_BASIS_POINTS` are constants, so that small widths exercise the overflow
  paths. `FeeArithmetic` picks a schedule, sweeps the amount and compares with reference
  definitions. `ConfidentialTransfer` and `SplitProofs` extend `TransferFee` too.
* **`FeeSchedule`**: one mint's pair of schedules, one action per instruction plus
  `AdvanceEpoch`. The history variables `atStart` and `atPrevStart` remember what was stored at
  the beginning of the current and of the previous epoch.
* **`Token`**: the ledger. `mints` and `accounts` map addresses to records with the fields of
  the Rust structs; extensions present are a set `exts` and their data are fields. One action
  per instruction; Transfer, TransferChecked and TransferCheckedWithFee are one action with the
  mint as an optional argument, with the early exit of a transfer to oneself as an action of its
  own (`SelfTransfer`). `Contexts` says whether an instruction runs inside a CPI and whether a
  memo precedes it. History: `tx` is the last signer and its context, `grants` the last approval
  of an account and what was spent of it; no guard reads them. `MCToken` has three
  specifications over subsets of the actions, one per question: all actions together are out of
  TLC's reach on an instance of interest, and the theorems cover them together.
* **`NativeToken`**: `lamports` of every address next to the native part of the accounts: amount
  and recorded reserve. `SystemTransfer` and `RentChanges` are what happens outside the program. History:
  `grantedUnder` is the owner who named a close authority.
* **`Multisig`**: `validate_owner` as the loop it is, one step per signer account presented and
  matched against every position, for an owner that is a multisig or a key.
* **`TransferHook`**: a transfer in three steps (move and flag, the hook's answer, clear the
  flags or undo), direct calls of any hook program by anyone, and the client of `offchain.rs` that
  reads the mint and the hook's account list at two different times. Between the steps of a
  transfer only foreign code runs: it may call hook programs with the flagged accounts and change
  their lists, and a refusal undoes that too. The hook program and the resolution of its extra
  accounts are external.
* **`MintIdentity`**: the three pointers, the metadata and group of each mint, and their
  authorities; `incarnation` counts how often an address became a mint.
* **`InterestBearing`**: the configuration, the clock, and the exponent's numerator of a display
  amount, in integers, with Rust's truncating division.
* **`Tlv`**: the bytes of one account: base state, padding, account type, entries. A function of
  the source that can fail is the set of its results. Its loops are recursive functions: `Found`
  searches for a type, `Walked` collects the types, `WithRequired` adds the required extensions
  (`Required`, in their order) to those asked for. `ExtensionMap` is the abstract
  specification (a map from extension types to values, of which an instruction sets one entry);
  `Tlv` maps its bytes to it (`INSTANCE ExtensionMap WITH ...`) and implements it.
* **`Ciphertext`**: an ElGamal ciphertext is the amount it encrypts and the randomness in it,
  which says how often each opening drawn (`Labels`) is in it; addition adds both, equality
  compares both. **`ConfidentialTransfer`**: every handler of the
  two confidential extensions on one mint, and the clients of `account_info.rs`: a client reads an
  account, proves a statement about the ciphertext it read (`drafts`), and the instruction is
  executed later, in any order, or dropped. A proof is the statement it makes. The client finds a
  pending half only up to `U32_MAX` (`decrypt_u32`), and drafts no ApplyPendingBalance beyond it.
* **`SplitProofs`**: TransferWithSplitProofs. `contexts` are proof contexts on chain, each written
  by a transaction of its own; an instruction names three (five with a fee), which may come from
  different transfers, and `verify_proof.rs` compares the commitments they share. Under the
  sender's key a ciphertext is a commitment and a decrypt handle, kept apart here, because the
  handles of the amount sent are plain data of the instruction: an instruction may carry those of
  any transfer, of the sender's own making (`HandleOffsets`), or whatever makes the balances fit
  (`RawHandles`). The pair decrypts to a number if the randomness cancels.
* **`Interface`**: for each instruction, the builder's list of accounts (signer and writable) and
  the handler's sequence of `next_account_info` with the roles it takes the accounts for. The
  program sees only list, tag and data. Proof locations, multisig signers, the number of fee
  sources and optional accounts change the list.
* **`Parts`**: seven instances that share no state (fee arithmetic, multisig, hook, identity,
  groups, interest, interface) as one specification with the constants of them all: the first
  state picks a part and only that one moves. It asks seven questions in one run and composes
  nothing. `MCParts` adds the values that a configuration file cannot write.
* **`Totals`**: sums of balances, as the number of units: the total of `f` over a set of holders is
  the cardinality of the union of `{h} \X 1..f[h]`. `Token`, `NativeToken`, `TransferHook` and
  `ConfidentialTransfer` add up what is held with it; defined by counting, a sum can be reasoned
  about with the facts on cardinalities, where a sum defined by recursion could not.
* **`FeeScheduleProofs`, `TotalsProofs`, `TokenProofs`, `NativeTokenProofs`, `TlvProofs`,
  `ConfidentialTransferProofs`, `SplitTransferProofs`, `PartsProofs`**: theorems and proofs.

### Abstractions

* An instruction that returns an error changes nothing, so an action is enabled exactly when the
  handler returns Ok. The exception is `TransferHook`, where the undoing is a step of its own.
* `validate_owner` is "the expected key signed" everywhere but in `Multisig`.
* `Token` leaves out decimals (a constant to compare with), lamports and rent (`NativeToken`),
  sysvar accounts, and the destination of the lamports in CloseAccount (some destination always
  passes its checks).
* In `Token` the bytes of an account are a record; which extensions fit is the constant
  `MintKinds` (InitializeMint requires that the extensions fill the allocated space exactly).
  MemoTransfer and CpiGuard are allocated by Reallocate or at creation: every account is assumed
  to have room. What room means is the subject of `Tlv`.
* The expected fee of TransferCheckedWithFee only restricts when a transfer succeeds.
* The list of accounts in a harvest is a set: an account listed twice yields 0 the second time.
* `Tlv` cuts a base state down to the byte that says whether it is initialized, and sizes are
  constants, chosen so that some sets of extensions add up to the size of a multisig.
* In `ConfidentialTransfer` an instruction is submitted by the owner of the account; signatures
  are the subject of `Multisig`. The required memo and the hook of a confidential transfer are the
  same calls as in a public one (`Token`, `TransferHook`) and are left out. The CPI guard is not
  consulted by the confidential handlers: `CpiGuardHolds` is about public instructions only.
  ElGamal keys agree: all statements of an account are made under its own key. The verification
  of proofs is external (a false statement has no proof).
* `Interface` models which account is where and the tag; the widths of data fields and the texts
  of errors are left out, and an extension's sub-tags are their names.
* Amounts, epochs, the number of initializations of an address, drafts, encryptions and switches
  are bounded by named constants.

## Runs

| Run | Question | Properties |
|---|---|---|
| `parts` | fee arithmetic: is it what it claims to be? | `PreFeeIsSmallest`, `SplittingSavesNothing`, `RoundTripLoss` |
| | multisig: does the loop decide what "m of n" means, with repeated keys? | `DecisionIsQuorum` |
| | hook: what can a hook conclude from the flags; can a stale client evade it? | `GenuineMeansTransfer`, `HookConsulted` |
| | identity: are member numbers unique, is a renounced authority gone? | `MembersNumbered`, `RenouncedIsFixed` |
| | interest: is the average one, does a change of rate leave the past alone? | `AverageBetweenRates`, `RateChangeIsContinuous` |
| | interface: does each handler get the accounts its builder meant? | `AccountsInTheirRoles`, `BuiltIsAccepted` |
| `fee_schedule` | can a fee surprise holders? | `TypeOK`, `WholeEpochNotice`, `FeeFixedWithinEpoch`, `RenouncedScheduleSettles` |
| `ledger` | are tokens created or lost; is the fee in force withheld, the memo there? | `TypeOK`, `SupplyConserved`, `TransferTerms` |
| `rights` | who takes tokens out of an account; can a CPI get around the guard? | `AllowanceRespected`, `DebitsAuthorized`, `CpiGuardHolds` |
| `freeze` | what do freezing and renouncing guarantee? | `FrozenInert`, `RenouncedForGood`, `NonTransferableStaysPut` |
| `native` | do lamports back the amounts, and who gets them? | `NativeBacked`, `LamportsConserved`, `WrappedLeavesByRight` |
| `tlv` | do the bytes behave as a map; do the sizes promised to clients suffice? | `WellFormed`, `PromisedFits`, `ImplementsMap` |
| `confidential` | are tokens conserved behind the encryption; what do stale reads do? | `TokensConserved`, `NothingOverdrawn`, `PendingWithinLimit`, `SpenderKnowsBalance`, `ConfidentialFeeWithheld`, `MissedCreditShows` |
| `split_proofs` | can contexts of two transfers be mixed to advantage? | `SenderSolvent`, `ExecutedOnceAllLanded`, `FeeNeverShort` |
| `reused_mint` (violation) | does it stay so when a mint's address is used again? | `NonTransferableStaysPut` |
| `confidential_counters` (violation) | do equal counters mean that the owner knows the balance? | `EqualCountersMeanConsistent` |
| `builders` (violation) | does each handler get the accounts its builder meant, for all builders? | `AccountsInTheirRoles` |

Two properties say less than their names may suggest. `TransferTerms` is about accounts opened
under a mint with fees, and `HookConsulted` exempts accounts left from an earlier mint at the
same address: such accounts lack the marks (see Findings).

### Bounds

* Fee arithmetic is uniform in its scale, so 12 basis points to the whole and 40 tokens meet
  every rounding residue, caps that bind early, late and never, and overflow.
* `fee_schedule`: three epochs more than a change needs to come into force (`MaxEpoch` = 5) let
  three changes overlap.
* `Token`: a transfer touches two accounts, so two accounts see every interaction of a pair; two
  incarnations make a re-created mint. In `ledger`, `U64_MAX` = 3 allows transfers with a fee,
  with a rounded fee and with overflow, and 3 basis points of 2 are refused. In `rights`, two
  keys can be owner, delegate and permanent delegate, different or the same, and `inc` owns an
  abandoned account; `RightsBounds` allows two tokens (allowances larger and smaller than a
  transfer) while no guard is locked, and one token but close authorities while one is. `freeze`
  needs only "some" and "none".
* `parts`: two keys in up to three positions, repeated on either side; two hook programs whose
  account lists change; two possible groups and two possible members, closed and re-created;
  rates from -3 to 3 over six seconds (truncation towards zero in both directions); every
  builder with up to two signers and two fee sources.
* `native`: two accounts of one or two units of size and a price of one or two lamports per unit:
  reserves that were sufficient and are not, and the reverse.
* `tlv`: a mint of one byte, an account of two, seven extension types with values of 0 to 4
  bytes, so that entries shrink, grow and overflow the u16 of the length.
* `confidential`: two accounts, halves of radix 2, and an owner who decrypts halves up to 1.
  `Bounds` gives each kind of mint the combination it needs. Without fees: one token with two
  instructions in flight, or with one and one switch thrown; or four tokens of one account,
  credited twice so that a half exceeds what its owner can decrypt. With fees: two tokens, so that
  both halves of a balance and of a fee are used, minted to one account before the other is there,
  one instruction in flight and one switch thrown.
* `split_proofs`: two prepared transfers of 2 or 3 tokens and one change of the rate; the second
  may carry decrypt handles of its sender's own making, one token off.
* `Labels` in both holds an opening for every encryption that the bounds let a client make.
* `reused_mint`: one key, one token and one mint, of either kind, initialized twice; two accounts, the second as in `ledger`.

Accounts and keys are interchangeable (`Symmetry`) in the runs that check safety only, and states
that differ in the history variable `tx` alone are identified (`View`), as no guard and no
property reads `tx` before the step.

Deadlock is not an error in these models (except `native` and `builders`, where something can
always be done): accounts and mints can all be closed, authorities renounced, the clock is
bounded.

Fairness is assumed once: `WF_vars(AdvanceEpoch)` in `FeeSchedule`, because epochs end by
themselves. No signer is ever obliged to send an instruction, so nothing else is fair and the
other modules have no liveness property.

## Findings

With a run:

* Tokens of a non-transferable mint can be transferred from an account left over from an earlier
  mint at the same address: a transfer looks at the account's mark, minting asks for
  `ImmutableOwner` only (`reused_mint`; `freeze` and the theorem `NonTransferableStays` are about
  addresses that become a mint once).
* Equal credit counters do not mean that `decryptable_available_balance` is consistent: after one
  missed credit, the next ApplyPendingBalance makes the counters equal again
  (`confidential_counters`). `MissedCreditShows` is what holds: directly after the
  ApplyPendingBalance that misses a credit, the counters differ.
* The builder `transfer_with_fee` swaps mint and destination, so that what it builds is refused
  (`builders`). Every other builder passes `AccountsInTheirRoles` and `BuiltIsAccepted`.

Met while modelling, without a run of their own:

* `calculate_pre_fee_amount` answers 0 for a 100% fee also where a cap makes the net amount
  reachable, and `calculate_inverse_fee` then answers 0 as well (`extension/transfer_fee/mod.rs:85`
  says that 0 is chosen at 100%); `PreFeeIsSmallest` and `RoundTripLoss` leave 100% out.
* The property test of the fee round trip asserts a difference below `amount / 10^12`, which is 0
  for small amounts; `RoundTripLoss` is a bound that holds.
* A mint may be closed while empty accounts of it exist, and its address initialized again with a
  fee or a hook. Such accounts lack the marks the new mint requires, contrary to a comment in
  `process_transfer`. `SupplyConserved` holds nevertheless.
* "Account is frozen; all account operations will fail" is more than the program does: an empty
  frozen account can be closed, its guards toggled and its fees harvested. `FrozenInert` states
  what does hold.
* The stored average interest rate is truncated at every update, so it drifts; it stays between
  the rates (`AverageBetweenRates`).
* A fee is subtracted from a pending balance half by half; the low half may become negative (as a
  group element), while the sum stays right (`TokensConserved`).
* An account of a multisig's size that was never initialized has m = n = 0, which
  `validate_owner` accepts without signers; `DecisionIsQuorum` states the rule with that case.
  The program accepts m > n at initialization, a multisig nobody can satisfy.
* UpdateMint and ApproveAccount of the confidential extension have builders that offer multisig
  signers which their handlers do not take.
* With split proofs, no proof covers the sender's decrypt handles, as the comment on
  `SourceDecryptHandles` regrets. What an instruction takes from
  the sender's balance is what arrives or is withheld if the handles are made from the openings of
  the amount, as `split_proof_generation.rs` makes them; for others `FeeNeverShort` claims only
  that the fee covers the rate, and `SenderSolvent` that the balance left still decrypts to a
  number that is not negative.
* The limit on credits keeps the low half of a pending balance within what `decrypt_u32` finds. One
  credit may add 2^32 - 1 to the high half, so after two credits `account_info.rs` may fail to
  decrypt it, whatever the limit; `PendingWithinLimit` states what holds.
* Both flags set tell a hook that a transfer of its two accounts is in progress, not that the token
  program is its caller (`GenuineMeansTransfer`).
* The handlers of confidential transfers do not consult the CPI guard.
* When a member's mint is closed its number is not given again, so numbers may have gaps;
  `MembersNumbered` says that they differ and are within the group's size.

## Proofs

Every safety invariant and every action property that the runs check is a theorem of its
specification, for every value of the constants; and `Tlv` is proved to implement
`ExtensionMap`.

Assumptions are those on the constants: `FeeAssumption`, `ScheduleAssumption`, `TokenAssumption`,
`NativeAssumption`, `LayoutAssumption`, `RadixAssumption`, `ConfidentialAssumption`,
`SplitAssumption`, `InterfaceAssumption` and `PartsAssumption` (sets of keys and addresses are
finite where something is added up over them and do not overlap, arguments are within their types,
bounds are natural numbers; for `FeeSchedule` also that the clock stays two epochs clear of the
largest u64, where `saturating_add` would shorten the notice). Three theorems have a hypothesis of
their own: `NonTransferableStays` assumes that no address becomes a mint twice, and the run
`reused_mint` shows that it fails otherwise; `RolesAsListed` and `BuildersSuffice` assume that
clients do not call the builder `transfer_with_fee`, and the run `builders` shows why.

* `TotalsProofs`: what a total is when one or two holders change, when all are zero, when the set
  of holders is split; division with remainder and rounding up.
* `FeeScheduleProofs`. `TypeCorrect`; `NoticeGiven`: the schedule in force was stored a whole
  epoch ago; `FeeFixed`: it does not change within an epoch. Notice is not inductive: the step to
  the next epoch needs to know that whatever may come into force then was stored when this epoch
  began. `IInv` adds `InForceStored` and `NewerStoredInTime`; the lemma `UpdatedFees` about what
  SetTransferFee stores carries the argument.
* `TokenProofs`, for all instructions of `Token` together. `TypeCorrect`: no amount leaves its
  u64; `DelegatesBounded`: `AllowanceRespected`; `FrozenStaysInert`: `FrozenInert`. `IInv` joins
  `TypeOK` and `AllowanceRespected`, since each needs the other (what was spent is a u64 because
  it is within the grant), and `WithheldMarked`: only accounts with `TransferFeeAmount` withhold.
  The last is what makes closing sound, as `closable` looks at withheld fees only where the
  extension is present. There is one lemma per group of instructions, and below it one step per
  instruction; `AccountStep` and `SettingStep` say once what writing a single account preserves.
* `TokenProofs`, the balances. `TokensConserved` is by `LInv`, which adds to `IInv` that an
  account that is not open and a mint that is not initialized hold nothing: otherwise creating one
  would create tokens. For a step it is enough that what an instruction adds to the accounts it
  names (`Share`) is what it adds to `Issued`, the part of a mint the accounts have to match;
  harvesting, which empties any set of accounts, is the one instruction that needs a sum over a
  set. `DebitsNeedAuthority`, `TransfersOnTerms` and `RenouncedStaysGone` follow from `LInv` by the
  action. `GuardProtectsOwner` needs `GInv`: a locked account has an owner who can lock it, and
  none of the burn owners. `NonTransferableStays` needs `NInv`: an account of a non-transferable
  mint carries the mark as long as no address is used twice, because a mint keeps its extensions
  and an account copies the marks when it is opened.
* `NativeTokenProofs`. `LamportsStay` and `WrappedIsBacked` support each other: that a payment
  takes no more than there is follows from what backs an amount. `WrappedLeaves` needs
  `NamedByOwner`: the close authority of a native account was named by its present owner.
* `TlvProofs`. That the bytes are well formed (`AlwaysWellFormed`) and that there is room for
  what was promised (`AlwaysPromisedFits`) are not inductive: both are said with the walk over the
  entries, and what a walk finds after a write depends on where every entry lies. `IInv` says that
  there are a kind of account, a map from extension types to values and an end such that the bytes
  are the layout of that map (`State`): its entries one after the other from 0 to the end
  without a gap or an overlap and zeros behind it (`Layout`), types of that kind only, values of a
  fixed length as long as they should be, the account exactly as long as its entries need as long
  as no value of variable length is there (`Packed`), and never as long as a multisig (`Promise`).
  The loops are unfolded from their recursive definitions (`FoundEq`, `WalkedEq`), and by a least
  counterexample they find the entry or the end (`IndicesFound`, `DataInfo`). An allocation or a
  change of length is a splice of the bytes (`Spliced`), whose result is the layout of the map with
  that one value put (`LayoutPut`); what the readers return is what the map holds (`StateReads`).
  So every step is one of `ExtensionMap` or leaves the map alone: `MapImplemented`.
* `ConfidentialTransferProofs`. The inductive invariant `ConfInv` has a part about every
  instruction in flight (`Statement`): what its proof says is about the ciphertexts in the
  instruction, so it stays true while the accounts change, and the handler has only to compare
  those ciphertexts with the ones in the accounts. From it follow conservation (`TokensStay`),
  solvency (`NeverOverdrawn`), that a spender knows the balance (`SpendersKnow`) and that the fee is
  the one in force (`FeesInForce`). `PendingStaysWithinLimit`, the bound on the pending halves and
  what of them can be decrypted, needs `HalvesNatural` besides: without fees the halves are natural
  numbers, as every step leaves them, empties them or adds a credit.
  `MissedCreditsShow` needs `PatientInv`, about owners with one instruction in flight: what an
  ApplyPendingBalance expected is never ahead of the account, and if the counter is the expected
  one then so is the balance.
* `SplitTransferProofs`. `SInv` says what each context proves, which openings a commitment can
  contain, and that the balance decrypts: a context of one transfer fits the balance only if the
  commitment of the balance is made of the openings that transfer was prepared for. The balance
  left, handle included, is then the one in the context, which decrypts, whatever handles the
  instruction carries. `SenderStaysSolvent`, `EveryLandingCounts` and `FeesCoverTheRate` follow.
* `PartsProofs`. A step of the composition is a step of one part and leaves the others alone
  (`PartSteps`), so each part has an invariant of its own. `QuorumDecides`: `QuorumInv` counts
  what the loop has matched so far. `SplittingNeverPays`, `PreFeeIsLeast` and `InverseLosesLittle`
  are facts about rounding: the fee before the cap is the one number pinned down by `Rounded`.
  `AverageStaysBetween`: the average is a weighted mean of numbers in the range, truncated;
  `RateChangesSmoothly`: what truncation can lose. `RenouncedStays` compares the records of one
  mint before and after. `MembersStayNumbered` needs `Standing`: a group that is being initialized
  has no members yet, because those of an earlier group at its address joined under a lower
  incarnation. `HookSeesOnlyTransfers` and `HooksAgree` need `HookInv`: the flags are on the
  accounts of the call in progress, the balances in between are those of the transfer, and only an
  account left over from an earlier mint lacks the mark (`AccountSound`). A direct call reads the
  flags at any moment, inside a hook too, and what it may conclude follows from whose they are.
* `PartsProofs`, the interface. `RolesAsListed` and `BuildersSuffice` hold for any number of
  signers and sources. `WireInv` says that the instruction sent has the tag the client asked for
  and a list of accounts that suits the handler of that tag (`Fitting`, `Suits`): what the handler
  takes one by one is what is listed at that position, and the rest are signers, members or
  sources as it expects; and that the accounts taken so far are the first of the list (`Reading`).
  `BuiltSound` compares, table by table and builder by builder, the list with what is taken, for
  every location of the proof. `AllSigned` finds the signers of a multisig in the rest of the
  list and counts them. The one error left is the missing signature of UpdateMint and
  ApproveAccount under a multisig (`Unsigned`), which `BuiltIsAccepted` states.

Only model-checked: `RenouncedScheduleSettles` (liveness, which this prover does not do). The three
violations are TLC's.

## Plan

Done: every component of the inventory but the client script, and every safety property proved.
Left: an abstract ledger (balances and supply only), implemented by `Token`.

## Not modelled

* The client script `src/main.ts`: a straight sequence of calls without state of its own. It uses
  `metaData` (line 132) before its declaration, so nothing behind that line runs.
* The cryptography: proofs are their statements, ciphertexts their amount and randomness.
* The floating-point exponential and the decimal formatting of display amounts.
* The byte widths of instruction data, serde helpers and error texts; Emit, which only reads.
* The runtime's own account and rent rules, except as external assumptions of `NativeToken`,
  `TransferHook` and `Interface`.
