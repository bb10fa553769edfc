----------------------------- MODULE Interface -----------------------------
(***************************************************************************)
(* How an instruction gets from the client's builder to its handler.  A    *)
(* builder lists accounts, each writable or not and signed or not, behind  *)
(* a tag; the program decodes the tag and its handler takes the accounts   *)
(* one by one, by position alone.  Which accounts there are depends on the *)
(* proof's location, on the multisig signers and on the flags in the data. *)
(* Both sides are tables here, one from instruction.rs, one from           *)
(* processor.rs (and the pairs of the extensions), and nothing but the     *)
(* list of accounts, the tag and the data passes between them.             *)
(*                                                                         *)
(* External: the runtime fails an instruction that changes an account not  *)
(* marked writable, and the order of instructions in a transaction is the  *)
(* client's where no builder fixes it.                                     *)
(***************************************************************************)
EXTENDS Integers, Sequences, FiniteSets

CONSTANTS
  Avoided,      \* builders that clients do not call
  MaxSigners,   \* bound: signers of a multisig authority
  MaxSources,   \* bound: accounts that fees are collected from
  MaxOffset     \* bound: distance of a proof instruction

InterfaceAssumption == MaxSigners \in Nat /\ MaxSources \in Nat /\ MaxOffset \in Nat

VARIABLES
  call,          \* what the client asked for
  transaction,   \* the instructions the client sends, as the program sees them
  handled,       \* the instruction as decoded by the program
  seen,          \* accounts taken so far, each with what the handler takes it for
  outcome

vars == <<call, transaction, handled, seen, outcome>>

-----------------------------------------------------------------------------
(* Builders.                                                               *)

AccountMeta(role, writable, signer) ==
  [role |-> role, is_writable |-> writable, is_signer |-> signer]
W(role) == AccountMeta(role, TRUE, FALSE)
R(role) == AccountMeta(role, FALSE, FALSE)

\* The authority, or the multisig and n of its signers.
authority(n) ==
  <<AccountMeta("authority", FALSE, n = 0)>>
    \o [i \in 1..n |-> AccountMeta("signer", FALSE, TRUE)]

sources(k) == [i \in 1..k |-> W("source")]

\* Where the proof is: a context state account, or an instruction found through
\* the sysvar.
proof_location(offset) ==
  <<R(IF offset = 0 THEN "context_state" ELSE "instructions_sysvar")>>

\* Tables by name, as one.
OneTable(tables) ==
  [name \in UNION {DOMAIN tables[i] : i \in 1..Len(tables)} |->
     LET i == CHOOSE i \in 1..Len(tables) : name \in DOMAIN tables[i] IN tables[i][name]]

I(tag, metas) == [tag |-> tag, sub |-> "", accounts |-> metas]
E(tag, sub, metas) == [tag |-> tag, sub |-> sub, accounts |-> metas]

InitializeBuilders(n) ==
  [initialize_mint      |-> I("InitializeMint", <<W("mint"), R("rent")>>),
   initialize_mint2     |-> I("InitializeMint2", <<W("mint")>>),
   initialize_account   |-> I("InitializeAccount", <<W("account"), R("mint"), R("owner"), R("rent")>>),
   initialize_account2  |-> I("InitializeAccount2", <<W("account"), R("mint"), R("rent")>>),
   initialize_account3  |-> I("InitializeAccount3", <<W("account"), R("mint")>>),
   initialize_multisig  |-> I("InitializeMultisig",
                              <<W("multisig"), R("rent")>> \o [i \in 1..n |-> R("member")]),
   initialize_multisig2 |-> I("InitializeMultisig2",
                              <<W("multisig")>> \o [i \in 1..n |-> R("member")])]

TransferBuilders(n) ==
  [transfer         |-> I("Transfer", <<W("source"), W("destination")>> \o authority(n)),
   approve          |-> I("Approve", <<W("source"), R("delegate")>> \o authority(n)),
   revoke           |-> I("Revoke", <<W("source")>> \o authority(n)),
   set_authority    |-> I("SetAuthority", <<W("owned")>> \o authority(n))]

CheckedBuilders(n) ==
  [transfer_checked |-> I("TransferChecked",
                          <<W("source"), R("mint"), W("destination")>> \o authority(n)),
   approve_checked  |-> I("ApproveChecked",
                          <<W("source"), R("mint"), R("delegate")>> \o authority(n)),
   mint_to_checked  |-> I("MintToChecked", <<W("mint"), W("account")>> \o authority(n)),
   burn_checked     |-> I("BurnChecked", <<W("account"), W("mint")>> \o authority(n))]

SupplyBuilders(n) ==
  [mint_to         |-> I("MintTo", <<W("mint"), W("account")>> \o authority(n)),
   burn            |-> I("Burn", <<W("account"), W("mint")>> \o authority(n)),
   close_account   |-> I("CloseAccount", <<W("account"), W("destination")>> \o authority(n)),
   freeze_account  |-> I("FreezeAccount", <<W("account"), R("mint")>> \o authority(n)),
   thaw_account    |-> I("ThawAccount", <<W("account"), R("mint")>> \o authority(n))]

OtherBuilders(n) ==
  [sync_native                    |-> I("SyncNative", <<W("account")>>),
   get_account_data_size          |-> I("GetAccountDataSize", <<R("mint")>>),
   initialize_mint_close_authority |-> I("InitializeMintCloseAuthority", <<W("mint")>>),
   initialize_immutable_owner     |-> I("InitializeImmutableOwner", <<W("account")>>),
   amount_to_ui_amount            |-> I("AmountToUiAmount", <<R("mint")>>),
   ui_amount_to_amount            |-> I("UiAmountToAmount", <<R("mint")>>),
   reallocate                     |-> I("Reallocate",
     <<W("account"), AccountMeta("payer", TRUE, TRUE), R("system_program")>> \o authority(n)),
   create_native_mint             |-> I("CreateNativeMint",
     <<AccountMeta("payer", TRUE, TRUE), W("native_mint"), R("system_program")>>),
   initialize_non_transferable_mint |-> I("InitializeNonTransferableMint", <<W("mint")>>),
   initialize_permanent_delegate  |-> I("InitializePermanentDelegate", <<W("mint")>>)]

withdraw_excess_lamports(n) ==
  I("WithdrawExcessLamports", <<W("account"), W("destination")>> \o authority(n))

TransferFeeBuilders(n, k) ==
  [initialize_transfer_fee_config |->
     E("TransferFeeExtension", "InitializeTransferFeeConfig", <<W("mint")>>),
   transfer_checked_with_fee |-> E("TransferFeeExtension", "TransferCheckedWithFee",
     <<W("source"), R("mint"), W("destination")>> \o authority(n)),
   withdraw_withheld_tokens_from_mint |->
     E("TransferFeeExtension", "WithdrawWithheldTokensFromMint",
       <<W("mint"), W("destination")>> \o authority(n)),
   withdraw_withheld_tokens_from_accounts |->
     E("TransferFeeExtension", "WithdrawWithheldTokensFromAccounts",
       <<R("mint"), W("destination")>> \o authority(n) \o sources(k)),
   harvest_withheld_tokens_to_mint |->
     E("TransferFeeExtension", "HarvestWithheldTokensToMint", <<W("mint")>> \o sources(k)),
   set_transfer_fee |->
     E("TransferFeeExtension", "SetTransferFee", <<W("mint")>> \o authority(n))]

\* Extensions whose configuration is one field of an account or a mint.
OfAccount(tag, sub, n) == E(tag, sub, <<W("account")>> \o authority(n))
OfBlankMint(tag) == E(tag, "Initialize", <<W("mint")>>)
OfMint(tag, sub, n) == E(tag, sub, <<W("mint")>> \o authority(n))

CpiGuardBuilders(n) ==
  [enable_cpi_guard  |-> OfAccount("CpiGuardExtension", "Enable", n),
   disable_cpi_guard |-> OfAccount("CpiGuardExtension", "Disable", n)]
MemoTransferBuilders(n) ==
  [enable_required_transfer_memos  |-> OfAccount("MemoTransferExtension", "Enable", n),
   disable_required_transfer_memos |-> OfAccount("MemoTransferExtension", "Disable", n)]
DefaultAccountStateBuilders(n) ==
  [initialize_default_account_state |-> OfBlankMint("DefaultAccountStateExtension"),
   update_default_account_state     |-> OfMint("DefaultAccountStateExtension", "Update", n)]
InterestBearingMintBuilders(n) ==
  [initialize_interest |-> OfBlankMint("InterestBearingMintExtension"),
   update_rate         |-> OfMint("InterestBearingMintExtension", "UpdateRate", n)]
MetadataPointerBuilders(n) ==
  [initialize_metadata_pointer |-> OfBlankMint("MetadataPointerExtension"),
   update_metadata_pointer     |-> OfMint("MetadataPointerExtension", "Update", n)]
GroupPointerBuilders(n) ==
  [initialize_group_pointer |-> OfBlankMint("GroupPointerExtension"),
   update_group_pointer     |-> OfMint("GroupPointerExtension", "Update", n)]
GroupMemberPointerBuilders(n) ==
  [initialize_member_pointer |-> OfBlankMint("GroupMemberPointerExtension"),
   update_member_pointer     |-> OfMint("GroupMemberPointerExtension", "Update", n)]
TransferHookBuilders(n) ==
  [initialize_transfer_hook |-> OfBlankMint("TransferHookExtension"),
   update_transfer_hook     |-> OfMint("TransferHookExtension", "Update", n)]
OneFieldBuilders(n) == OneTable(
  <<CpiGuardBuilders(n), MemoTransferBuilders(n), DefaultAccountStateBuilders(n),
    InterestBearingMintBuilders(n), MetadataPointerBuilders(n), GroupPointerBuilders(n),
    GroupMemberPointerBuilders(n), TransferHookBuilders(n)>>)

C(sub, metas) == E("ConfidentialTransferExtension", sub, metas)
ConfigureBuilders(n, offset) ==
  [confidential_initialize_mint |-> C("InitializeMint", <<W("mint")>>),
   update_mint             |-> C("UpdateMint", <<W("mint")>> \o authority(n)),
   inner_configure_account |-> C("ConfigureAccount",
     <<W("account"), R("mint")>> \o proof_location(offset) \o authority(n))]
ApproveBuilders(n, offset) ==
  [approve_account         |-> C("ApproveAccount", <<W("account"), R("mint")>> \o authority(n)),
   inner_empty_account     |-> C("EmptyAccount",
     <<W("account")>> \o proof_location(offset) \o authority(n))]
BalanceBuilders(n, offset) ==
  [deposit                 |-> C("Deposit", <<W("account"), R("mint")>> \o authority(n)),
   inner_withdraw          |-> C("Withdraw",
     <<W("account"), R("mint")>> \o proof_location(offset) \o authority(n))]
apply_pending_balance(n) == C("ApplyPendingBalance", <<W("account")>> \o authority(n))

\* enable_or_disable_balance_credits
CreditBuilders(n) ==
  LET credits(sub) == C(sub, <<W("account")>> \o authority(n)) IN
  [enable_confidential_credits      |-> credits("EnableConfidentialCredits"),
   disable_confidential_credits     |-> credits("DisableConfidentialCredits"),
   enable_non_confidential_credits  |-> credits("EnableNonConfidentialCredits"),
   disable_non_confidential_credits |-> credits("DisableNonConfidentialCredits")]

inner_transfer(source, mint, destination, n, offset) ==
  C("Transfer", <<W(source), R(mint), W(destination)>> \o proof_location(offset) \o authority(n))
inner_transfer_with_fee(source, mint, destination, n, offset) ==
  C("Transfer", <<W(source), R(mint), W(destination)>> \o proof_location(offset) \o authority(n))

InnerTransferBuilders(n, offset) ==
  [inner_transfer          |-> inner_transfer("source", "mint", "destination", n, offset),
   inner_transfer_with_fee |-> inner_transfer_with_fee("source", "mint", "destination", n, offset)]

\* The context state accounts of a split transfer and, when they are closed, the
\* accounts needed for that.
SplitContexts(fee) ==
  IF fee THEN <<"equality", "amount_validity", "fee_sigma", "fee_validity", "range">>
         ELSE <<"equality", "ciphertext_validity", "range">>

split_builder(fee, close) ==
  LET contexts == SplitContexts(fee) IN
  C("TransferWithSplitProofs",
    <<W("source"), R("mint"), W("destination")>>
      \o [i \in 1..Len(contexts) |-> AccountMeta(contexts[i], close, FALSE)]
      \o (IF close THEN <<W("lamport_destination"), AccountMeta("context_authority", FALSE, TRUE),
                          R("zk_token_proof_program")>> ELSE <<>>)
      \o <<AccountMeta("authority", FALSE, TRUE)>>)

SplitBuilders(close) ==
  [transfer_with_split_proofs         |-> split_builder(FALSE, close),
   transfer_with_fee_and_split_proofs |-> split_builder(TRUE, close)]

F(sub, metas) == E("ConfidentialTransferFeeExtension", sub, metas)
FeeConfigBuilders(n, offset) ==
  [initialize_confidential_transfer_fee_config |->
     F("InitializeConfidentialTransferFeeConfig", <<W("mint")>>),
   inner_withdraw_from_mint |-> F("WithdrawWithheldTokensFromMint",
     <<W("mint"), W("destination")>> \o proof_location(offset) \o authority(n))]
inner_withdraw_from_accounts(n, k, offset) ==
  F("WithdrawWithheldTokensFromAccounts",
    <<W("mint"), W("destination")>> \o proof_location(offset) \o authority(n) \o sources(k))
HarvestBuilders(n, k) ==
  [confidential_harvest    |-> F("HarvestWithheldTokensToMint", <<W("mint")>> \o sources(k)),
   enable_harvest_to_mint  |-> F("EnableHarvestToMint", <<W("mint")>> \o authority(n)),
   disable_harvest_to_mint |-> F("DisableHarvestToMint", <<W("mint")>> \o authority(n))]

\* Builders that append the proof instruction themselves.  transfer_with_fee passes
\* its accounts on in another order than the one inner_transfer_with_fee declares.
configure_account(n, offset) == ConfigureBuilders(n, offset).inner_configure_account
empty_account(n, offset) == ApproveBuilders(n, offset).inner_empty_account
withdraw(n, offset) == BalanceBuilders(n, offset).inner_withdraw
transfer(n, offset) == inner_transfer("source", "mint", "destination", n, offset)
transfer_with_fee(n, offset) ==
  inner_transfer_with_fee("source", "destination", "mint", n, offset)
withdraw_withheld_tokens_from_mint(n, offset) == FeeConfigBuilders(n, offset).inner_withdraw_from_mint
withdraw_withheld_tokens_from_accounts(n, k, offset) == inner_withdraw_from_accounts(n, k, offset)

OuterBuilders(n, k, offset) ==
  [configure_account     |-> configure_account(n, offset),
   empty_account         |-> empty_account(n, offset),
   confidential_withdraw |-> withdraw(n, offset),
   confidential_transfer |-> transfer(n, offset),
   transfer_with_fee     |-> transfer_with_fee(n, offset),
   confidential_withdraw_from_mint     |-> withdraw_withheld_tokens_from_mint(n, offset),
   confidential_withdraw_from_accounts |-> withdraw_withheld_tokens_from_accounts(n, k, offset)]
AppendedProof ==
  [configure_account     |-> "PubkeyValidity",
   empty_account         |-> "ZeroBalance",
   confidential_withdraw |-> "Withdraw",
   confidential_transfer |-> "Transfer",
   transfer_with_fee     |-> "TransferWithFee",
   confidential_withdraw_from_mint     |-> "CiphertextCiphertextEquality",
   confidential_withdraw_from_accounts |-> "CiphertextCiphertextEquality"]

Built(c) ==
  LET n == c.signers k == c.sources offset == c.offset IN
  OneTable(
    <<InitializeBuilders(n), TransferBuilders(n), SupplyBuilders(n), CheckedBuilders(n),
      OtherBuilders(n), [withdraw_excess_lamports |-> withdraw_excess_lamports(n)],
      TransferFeeBuilders(n, k), OneFieldBuilders(n),
      ConfigureBuilders(n, offset), ApproveBuilders(n, offset), BalanceBuilders(n, offset),
      [apply_pending_balance |-> apply_pending_balance(n)], CreditBuilders(n),
      InnerTransferBuilders(n, offset), SplitBuilders(c.close),
      FeeConfigBuilders(n, offset), HarvestBuilders(n, k),
      [inner_withdraw_from_accounts |-> inner_withdraw_from_accounts(n, k, offset)],
      OuterBuilders(n, k, offset)>>)

\* TokenInstruction::pack: the tag byte of each instruction is its place here, from 0.
pack ==
  <<"InitializeMint", "InitializeAccount", "InitializeMultisig", "Transfer", "Approve", "Revoke",
    "SetAuthority", "MintTo", "Burn", "CloseAccount", "FreezeAccount", "ThawAccount",
    "TransferChecked", "ApproveChecked", "MintToChecked", "BurnChecked", "InitializeAccount2",
    "SyncNative", "InitializeAccount3", "InitializeMultisig2", "InitializeMint2",
    "GetAccountDataSize", "InitializeImmutableOwner", "AmountToUiAmount", "UiAmountToAmount",
    "InitializeMintCloseAuthority", "TransferFeeExtension", "ConfidentialTransferExtension",
    "DefaultAccountStateExtension", "Reallocate", "MemoTransferExtension", "CreateNativeMint",
    "InitializeNonTransferableMint", "InterestBearingMintExtension", "CpiGuardExtension",
    "InitializePermanentDelegate", "TransferHookExtension", "ConfidentialTransferFeeExtension",
    "WithdrawExcessLamports", "MetadataPointerExtension", "GroupPointerExtension",
    "GroupMemberPointerExtension">>
Tag(name) == (CHOOSE i \in 1..Len(pack) : pack[i] = name) - 1

-----------------------------------------------------------------------------
(* Handlers.  What a handler takes an account for: its role, whether it    *)
(* changes the account, and whose signature it asks for.                   *)

Take(role, writes, signature) == [role |-> role, writes |-> writes, signature |-> signature]
Writes(role) == Take(role, TRUE, "none")
Reads(role)  == Take(role, FALSE, "none")
Signs(role)  == Take(role, FALSE, "own")          \* is_signer of this very account
validate_owner == Take("authority", FALSE, "owner")  \* of the account, or its signers

\* A handler takes some accounts and, as slices, the rest of the list.
H(takes, rest) == [takes |-> takes, rest |-> rest]
Owned(takes) == H(Append(takes, validate_owner), "signers")
Free(takes) == H(takes, "ignored")

InitializeHandlers ==
  [InitializeMint      |-> Free(<<Writes("mint"), Reads("rent")>>),
   InitializeMint2     |-> Free(<<Writes("mint")>>),
   InitializeAccount   |-> Free(<<Writes("account"), Reads("mint"), Reads("owner"), Reads("rent")>>),
   InitializeAccount2  |-> Free(<<Writes("account"), Reads("mint"), Reads("rent")>>),
   InitializeAccount3  |-> Free(<<Writes("account"), Reads("mint")>>),
   InitializeMultisig  |-> H(<<Writes("multisig"), Reads("rent")>>, "members"),
   InitializeMultisig2 |-> H(<<Writes("multisig")>>, "members"),
   InitializeMintCloseAuthority  |-> Free(<<Writes("mint")>>),
   InitializeImmutableOwner      |-> Free(<<Writes("account")>>),
   InitializeNonTransferableMint |-> Free(<<Writes("mint")>>),
   InitializePermanentDelegate   |-> Free(<<Writes("mint")>>),
   CreateNativeMint    |-> Free(<<Take("payer", TRUE, "own"), Writes("native_mint"),
                                  Reads("system_program")>>)]

\* Transfer, Approve, MintTo and Burn share a handler with their checked forms, which
\* take the mint as well where the others have none.
process_transfer(checked) ==
  Owned(<<Writes("source")>> \o (IF checked THEN <<Reads("mint")>> ELSE <<>>)
          \o <<Writes("destination")>>)
process_approve(checked) ==
  Owned(<<Writes("source")>> \o (IF checked THEN <<Reads("mint")>> ELSE <<>>)
          \o <<Reads("delegate")>>)
process_mint_to == Owned(<<Writes("mint"), Writes("account")>>)
process_burn == Owned(<<Writes("account"), Writes("mint")>>)
process_toggle_freeze_account == Owned(<<Writes("account"), Reads("mint")>>)
LedgerHandlers ==
  [Transfer      |-> process_transfer(FALSE), TransferChecked |-> process_transfer(TRUE),
   Approve       |-> process_approve(FALSE),  ApproveChecked  |-> process_approve(TRUE),
   Revoke        |-> Owned(<<Writes("source")>>),
   SetAuthority  |-> Owned(<<Writes("owned")>>),
   MintTo        |-> process_mint_to, MintToChecked |-> process_mint_to,
   Burn          |-> process_burn,    BurnChecked   |-> process_burn,
   CloseAccount  |-> Owned(<<Writes("account"), Writes("destination")>>),
   FreezeAccount |-> process_toggle_freeze_account, ThawAccount |-> process_toggle_freeze_account,
   SyncNative    |-> Free(<<Writes("account")>>),
   GetAccountDataSize |-> Free(<<Reads("mint")>>),
   AmountToUiAmount |-> Free(<<Reads("mint")>>), UiAmountToAmount |-> Free(<<Reads("mint")>>),
   Reallocate    |-> Owned(<<Writes("account"), Take("payer", TRUE, "own"), Reads("system_program")>>),
   WithdrawExcessLamports |-> Owned(<<Writes("account"), Writes("destination")>>)]

TransferFeeHandlers ==
  [InitializeTransferFeeConfig |-> Free(<<Writes("mint")>>),
   TransferCheckedWithFee |-> process_transfer(TRUE),
   WithdrawWithheldTokensFromMint |-> Owned(<<Writes("mint"), Writes("destination")>>),
   WithdrawWithheldTokensFromAccounts |->
     H(<<Reads("mint"), Writes("destination"), validate_owner>>, "signers_then_sources"),
   HarvestWithheldTokensToMint |-> H(<<Writes("mint")>>, "sources"),
   SetTransferFee |-> Owned(<<Writes("mint")>>)]

OnAccount == Owned(<<Writes("account")>>)
OnMint == Owned(<<Writes("mint")>>)
SwitchHandlers == [Enable |-> OnAccount, Disable |-> OnAccount]
MintHandlers == [Initialize |-> Free(<<Writes("mint")>>), Update |-> OnMint, UpdateRate |-> OnMint]

\* Where verify_*_proof looks for a single proof.
Proof(offset) == <<Reads(IF offset = 0 THEN "context_state" ELSE "instructions_sysvar")>>

\* verify_transfer_proof and verify_transfer_with_fee_proof with split contexts, and the
\* accounts process_transfer skips when there is nothing to close yet.
SplitProof(fee, close, ready) ==
  LET contexts == SplitContexts(fee) closes == close /\ ready IN
  [i \in 1..Len(contexts) |-> Take(contexts[i], closes, "none")]
    \o (IF close THEN <<Take("lamport_destination", closes, "none"),
                        Take("context_authority", FALSE, IF closes THEN "own" ELSE "none"),
                        Reads("zk_token_proof_program")>> ELSE <<>>)

ConfidentialHandlers(data) ==
  [InitializeMint   |-> Free(<<Writes("mint")>>),
   UpdateMint       |-> Free(<<Writes("mint"), Signs("authority")>>),
   ConfigureAccount |-> Owned(<<Writes("account"), Reads("mint")>> \o Proof(data.offset)),
   ApproveAccount   |-> Free(<<Writes("account"), Reads("mint"), Signs("authority")>>),
   EmptyAccount     |-> Owned(<<Writes("account")>> \o Proof(data.offset)),
   Deposit          |-> Owned(<<Writes("account"), Reads("mint")>>),
   Withdraw         |-> Owned(<<Writes("account"), Reads("mint")>> \o Proof(data.offset)),
   Transfer         |-> Owned(<<Writes("source"), Reads("mint"), Writes("destination")>>
                                \o Proof(data.offset)),
   TransferWithSplitProofs |->
     Owned(<<Writes("source"), Reads("mint"), Writes("destination")>>
             \o SplitProof(data.fee, data.close, data.ready)),
   ApplyPendingBalance        |-> OnAccount,
   EnableConfidentialCredits  |-> OnAccount, EnableNonConfidentialCredits  |-> OnAccount,
   DisableConfidentialCredits |-> OnAccount, DisableNonConfidentialCredits |-> OnAccount]
ConfidentialFeeHandlers(data) ==
  [InitializeConfidentialTransferFeeConfig |-> Free(<<Writes("mint")>>),
   WithdrawWithheldTokensFromMint |->
     Owned(<<Writes("mint"), Writes("destination")>> \o Proof(data.offset)),
   WithdrawWithheldTokensFromAccounts |->
     H(Append(<<Reads("mint"), Writes("destination")>> \o Proof(data.offset), validate_owner),
       "signers_then_sources"),
   HarvestWithheldTokensToMint |-> H(<<Writes("mint")>>, "sources"),
   EnableHarvestToMint |-> OnMint, DisableHarvestToMint |-> OnMint]

\* The kind of proof a handler asks for; a transfer's depends on the mint.
ExpectedProof(sub, fee) ==
  CASE sub = "ConfigureAccount" -> "PubkeyValidity"
    [] sub = "EmptyAccount" -> "ZeroBalance"
    [] sub = "Withdraw" -> "Withdraw"
    [] sub = "Transfer" -> IF fee THEN "TransferWithFee" ELSE "Transfer"
    [] OTHER -> "CiphertextCiphertextEquality"

\* The bytes that name an instruction, read as PodTokenInstruction and dispatched by
\* Processor::process and the process_instruction of each extension.
PodTokenInstruction ==
  <<"InitializeMint", "InitializeAccount", "InitializeMultisig", "Transfer", "Approve",
    "Revoke", "SetAuthority", "MintTo", "Burn", "CloseAccount",
    "FreezeAccount", "ThawAccount", "TransferChecked", "ApproveChecked", "MintToChecked",
    "BurnChecked", "InitializeAccount2", "SyncNative", "InitializeAccount3", "InitializeMultisig2",
    "InitializeMint2", "GetAccountDataSize", "InitializeImmutableOwner", "AmountToUiAmount",
    "UiAmountToAmount",
    "InitializeMintCloseAuthority", "TransferFeeExtension", "ConfidentialTransferExtension",
    "DefaultAccountStateExtension", "Reallocate",
    "MemoTransferExtension", "CreateNativeMint", "InitializeNonTransferableMint",
    "InterestBearingMintExtension", "CpiGuardExtension",
    "InitializePermanentDelegate", "TransferHookExtension", "ConfidentialTransferFeeExtension",
    "WithdrawExcessLamports", "MetadataPointerExtension",
    "GroupPointerExtension", "GroupMemberPointerExtension">>

process(tag, sub, data) ==
  LET name == PodTokenInstruction[tag + 1] IN
  CASE name = "TransferFeeExtension" -> TransferFeeHandlers[sub]
    [] name = "ConfidentialTransferExtension" -> ConfidentialHandlers(data)[sub]
    [] name = "ConfidentialTransferFeeExtension" -> ConfidentialFeeHandlers(data)[sub]
    [] name \in {"CpiGuardExtension", "MemoTransferExtension"} -> SwitchHandlers[sub]
    [] name \in {"DefaultAccountStateExtension", "InterestBearingMintExtension",
                 "MetadataPointerExtension", "GroupPointerExtension",
                 "GroupMemberPointerExtension", "TransferHookExtension"} -> MintHandlers[sub]
    [] OTHER -> OneTable(<<InitializeHandlers, LedgerHandlers>>)[name]

-----------------------------------------------------------------------------
(* One instruction from its builder to the end of its handler.             *)

Builders == DOMAIN Built([signers |-> 0, sources |-> 0, offset |-> 0, close |-> FALSE])
Calls ==
  [builder : Builders \ Avoided, signers : 0..MaxSigners, sources : 0..MaxSources, offset : 0..MaxOffset,
   close : BOOLEAN, no_op : BOOLEAN, ready : BOOLEAN]

\* The builders that have each argument; ready is a fact, whether the context state
\* accounts of a split transfer are initialized when the instruction is executed.
TakesProof ==
  DOMAIN AppendedProof \cup
  {"inner_configure_account", "inner_empty_account", "inner_withdraw", "inner_transfer",
   "inner_transfer_with_fee", "inner_withdraw_from_mint", "inner_withdraw_from_accounts"}
TakesSources ==
  {"withdraw_withheld_tokens_from_accounts", "harvest_withheld_tokens_to_mint",
   "inner_withdraw_from_accounts", "confidential_withdraw_from_accounts", "confidential_harvest"}
TakesFlags == {"transfer_with_split_proofs", "transfer_with_fee_and_split_proofs"}
OnFeeMint == {"inner_transfer_with_fee", "transfer_with_fee", "transfer_with_fee_and_split_proofs"}
Sensible(c) ==
  /\ c.builder \notin TakesProof => c.offset = 0
  /\ c.builder \notin TakesSources => c.sources = 0
  /\ c.builder \notin TakesFlags => ~c.close /\ ~c.no_op /\ c.ready
  /\ c.builder \in TakesFlags => c.signers = 0 /\ (c.ready \/ c.no_op)

\* Mutant: the builder that appends the proof takes any offset.
refused_any_offset_taken(c) ==
  c.builder \in {"initialize_multisig", "initialize_multisig2"} /\ c.signers = 0

\* A builder's own refusals: the proof it appends is the next instruction, and a
\* multisig has at least one signer.
refused(c) ==
  \/ c.builder \in DOMAIN AppendedProof /\ c.offset \notin {0, 1}
  \/ c.builder \in {"initialize_multisig", "initialize_multisig2"} /\ c.signers = 0

\* The instructions behind the one built: the proof a builder appends, or one the
\* client puts where it says.
Following(c, sub) ==
  IF c.offset = 0 THEN <<>>
  ELSE IF c.builder \in DOMAIN AppendedProof THEN <<AppendedProof[c.builder]>>
  ELSE [i \in 1..c.offset |-> IF i = c.offset THEN ExpectedProof(sub, c.builder \in OnFeeMint)
                                              ELSE "another"]

NoCall == [requested |-> "none", signers |-> 0]
NoInstruction == [tag |-> 0]
NoHandler == H(<<>>, "none")
Init ==
  /\ call = NoCall /\ transaction = NoInstruction
  /\ handled = NoHandler /\ seen = <<>>
  /\ outcome = "idle"

Build(c) ==
  /\ outcome = "idle"
  /\ Sensible(c) /\ ~refused(c)
  /\ LET built == Built(c)[c.builder] IN
     /\ call' = [requested |-> built.tag, signers |-> c.signers]
     /\ transaction' =
          [tag |-> Tag(built.tag), sub |-> built.sub, accounts |-> built.accounts,
           data |-> [offset |-> c.offset, num_token_accounts |-> c.sources, close |-> c.close,
                     fee |-> c.builder \in OnFeeMint, ready |-> c.ready],
           following |-> Following(c, built.sub)]
  /\ outcome' = "sent"
  /\ UNCHANGED <<handled, seen>>

Process ==
  /\ outcome = "sent"
  /\ handled' = process(transaction.tag, transaction.sub, transaction.data)
  /\ outcome' = "running"
  /\ UNCHANGED <<call, transaction, seen>>

Taken == Len(seen)
next_account_info ==
  /\ outcome = "running"
  /\ Taken < Len(handled.takes)
  /\ IF Taken < Len(transaction.accounts)
       THEN /\ seen' = Append(seen, [take |-> handled.takes[Taken + 1],
                                     meta |-> transaction.accounts[Taken + 1]])
            /\ UNCHANGED outcome
       ELSE outcome' = "NotEnoughAccountKeys" /\ UNCHANGED seen
  /\ UNCHANGED <<call, transaction, handled>>

\* Mutant: signers are told from sources one place too late.
num_signers_too_many(n) == n - transaction.data.num_token_accounts + 1

\* saturating_sub
num_signers(n) ==
  IF n < transaction.data.num_token_accounts THEN 0 ELSE n - transaction.data.num_token_accounts

\* as_slice: what a handler makes of the accounts behind those it took one by one.
Rest ==
  LET rest == SubSeq(transaction.accounts, Taken + 1, Len(transaction.accounts))
      take(i) == CASE handled.rest = "signers" -> Reads("signer")
                   [] handled.rest = "sources" -> Writes("source")
                   [] handled.rest = "members" -> Reads("member")
                   [] handled.rest = "signers_then_sources" ->
                        IF i <= num_signers(Len(rest)) THEN Reads("signer") ELSE Writes("source")
  IN  IF handled.rest = "ignored" THEN <<>>
      ELSE [i \in 1..Len(rest) |-> [take |-> take(i), meta |-> rest[i]]]

In(all) == {all[i] : i \in 1..Len(all)}

\* get_instruction_relative and decode_proof_instruction_context.
ProofFound ==
  LET offset == transaction.data.offset IN
  offset # 0 => /\ offset <= Len(transaction.following)
                /\ transaction.following[offset] = ExpectedProof(transaction.sub, transaction.data.fee)
Signed(all) ==
  /\ \A s \in In(all) : s.take.signature = "own" => s.meta.is_signer
  /\ \A s \in In(all) : s.take.signature = "owner" =>
       IF call.signers = 0 THEN s.meta.is_signer
       ELSE call.signers <= Cardinality({i \in 1..Len(all) : /\ all[i].take.role = "signer"
                                                             /\ all[i].meta.role = "signer"
                                                             /\ all[i].meta.is_signer})
Writable(all) == \A s \in In(all) : s.take.writes => s.meta.is_writable

Finish ==
  /\ outcome = "running"
  /\ Taken = Len(handled.takes)
  /\ seen' = seen \o Rest
  /\ outcome' = IF ~ProofFound THEN "InvalidInstructionData"
                ELSE IF ~Signed(seen') THEN "MissingRequiredSignature"
                ELSE IF ~Writable(seen') THEN "ReadonlyDataModified"
                ELSE "done"
  /\ UNCHANGED <<call, transaction, handled>>

Return ==
  /\ outcome \notin {"idle", "sent", "running"}
  /\ call' = NoCall /\ transaction' = NoInstruction
  /\ handled' = NoHandler /\ seen' = <<>>
  /\ outcome' = "idle"

Next ==
  \/ \E c \in Calls : Build(c)
  \/ Process
  \/ next_account_info
  \/ Finish
  \/ Return

Spec == Init /\ [][Next]_vars

-----------------------------------------------------------------------------
\* An instruction reaches the handler of the operation it was built for, and every
\* account the handler takes, one by one or in a slice, is the one the builder listed
\* for that purpose, wherever proofs are, however many signers and sources there are
\* and whether contexts are closed (builders in instruction.rs, next_account_info and
\* as_slice in the processors).
AccountsInTheirRoles ==
  outcome \in {"running", "done"} =>
    /\ PodTokenInstruction[transaction.tag + 1] = call.requested
    /\ \A s \in In(seen) : s.take.role = s.meta.role

\* What a builder returns is enough: its handler never lacks an account, a signature, a
\* proof or the right to write.  Excepted are UpdateMint and ApproveAccount under a
\* multisig, which their builders offer and their handlers do not know.
BuiltIsAccepted ==
  outcome \notin {"idle", "sent", "running", "done"} =>
    call.signers > 0 /\ transaction.sub \in {"UpdateMint", "ApproveAccount"}
=============================================================================
