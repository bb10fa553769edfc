---------------------------- MODULE TransferHook ----------------------------
(***************************************************************************)
(* Transfers of a mint with a transfer hook.  After the balances have      *)
(* moved, process_transfer flags both accounts, calls the mint's hook      *)
(* program, and clears the flags.  The hook is foreign code.  It may       *)
(* refuse, which undoes the instruction and whatever the hook did.  Anyone *)
(* may call a hook program directly, also from within a hook that the      *)
(* transfer has called, and all it can go by are the flags: they say that  *)
(* a transfer of the two accounts is in progress, not who is calling.  A   *)
(* client learns which accounts the hook wants by two separate reads, long *)
(* before the transfer is executed.                                        *)
(*                                                                         *)
(* External: the runtime undoes a failed instruction and does not let a    *)
(* hook call back into the token program.                                  *)
(***************************************************************************)
EXTENDS Totals

CONSTANTS
  Accounts,         \* token account addresses
  Keys,             \* hook authorities
  Programs,         \* hook programs
  TokenProgram,     \* this program, which must not be its own hook
  None,             \* the empty optional key
  MaxSupply,        \* bound on what is minted
  MaxVersions,      \* bound: how often a hook program changes the accounts it wants
  MaxIncarnations   \* bound: how often the mint's address is initialized

HookAssumption ==
  /\ IsFiniteSet(Accounts)
  /\ None \notin Keys \cup Programs \cup {TokenProgram}
  /\ TokenProgram \notin Programs
  /\ {MaxSupply, MaxVersions, MaxIncarnations} \subseteq Nat

VARIABLES
  mint,       \* the mint with its TransferHook extension
  accounts,   \* its token accounts, with TransferHookAccount where marked
  metas,      \* hook program -> version of the list of accounts it wants
  draft,      \* a client's instruction in preparation
  call,       \* the hook call in progress, if any
  seen        \* history: the hook's last look at its caller

vars == <<mint, accounts, metas, draft, call, seen>>

ProgramIds == Programs \cup {None}
AccountState == [live : BOOLEAN, amount : 0..MaxSupply, marked : BOOLEAN,
                 transferring : BOOLEAN, born : 0..MaxIncarnations]
NoAccount == [live |-> FALSE, amount |-> 0, marked |-> FALSE, transferring |-> FALSE, born |-> 0]
NoCall == [status |-> "idle"]
NoDraft == [stage |-> "none"]

Idle == call = NoCall
Supply == Total([a \in Accounts |-> accounts[a].amount], Accounts)

(***************************************************************************)
(* The extension on the mint.                                              *)
(***************************************************************************)
InitializeHook(authority, program_id) ==
  /\ Idle
  /\ ~mint.initialized
  /\ program_id # TokenProgram
  /\ program_id = None => authority # None
  /\ mint' = [mint EXCEPT !.hook = TRUE, !.authority = authority, !.program_id = program_id]
  /\ UNCHANGED <<accounts, metas, draft, call, seen>>

Update(new_program_id, signer) ==
  /\ Idle
  /\ mint.initialized /\ mint.hook
  /\ mint.authority # None /\ signer = mint.authority
  /\ new_program_id # TokenProgram
  /\ mint' = [mint EXCEPT !.program_id = new_program_id]
  /\ UNCHANGED <<accounts, metas, draft, call, seen>>

\* SetAuthority with AuthorityType::TransferHookProgramId.
SetAuthority(new, signer) ==
  /\ Idle
  /\ mint.initialized /\ mint.hook
  /\ mint.authority # None /\ signer = mint.authority
  /\ mint' = [mint EXCEPT !.authority = new]
  /\ UNCHANGED <<accounts, metas, draft, call, seen>>

InitializeMint ==
  /\ Idle
  /\ ~mint.initialized /\ mint.incarnation < MaxIncarnations
  /\ mint' = [mint EXCEPT !.initialized = TRUE, !.incarnation = @ + 1]
  /\ UNCHANGED <<accounts, metas, draft, call, seen>>

\* A mint with a close authority can go while empty accounts of it remain.
CloseMint ==
  /\ Idle
  /\ mint.initialized /\ Supply = 0
  /\ mint' = [mint EXCEPT !.initialized = FALSE, !.hook = FALSE,
                          !.authority = None, !.program_id = None]
  /\ UNCHANGED <<accounts, metas, draft, call, seen>>

\* Mutant: only mints with a program in place mark their accounts.
InitializeUnmarkedAccount(a) ==
  /\ Idle
  /\ mint.initialized /\ ~accounts[a].live
  /\ accounts' = [accounts EXCEPT ![a] = [live |-> TRUE, amount |-> 0,
                    marked |-> mint.hook /\ mint.program_id # None,
                    transferring |-> FALSE, born |-> mint.incarnation]]
  /\ UNCHANGED <<mint, metas, draft, call, seen>>

\* get_required_init_account_extensions marks accounts of a mint with the extension,
\* with a program in place or not.
InitializeAccount(a) ==
  /\ Idle
  /\ mint.initialized /\ ~accounts[a].live
  /\ accounts' = [accounts EXCEPT ![a] = [live |-> TRUE, amount |-> 0, marked |-> mint.hook,
                                          transferring |-> FALSE, born |-> mint.incarnation]]
  /\ UNCHANGED <<mint, metas, draft, call, seen>>

MintTo(a) ==
  /\ Idle
  /\ mint.initialized /\ accounts[a].live /\ Supply < MaxSupply
  /\ accounts' = [accounts EXCEPT ![a].amount = @ + 1]
  /\ UNCHANGED <<mint, metas, draft, call, seen>>

Burn(a) ==
  /\ Idle
  /\ mint.initialized /\ accounts[a].amount > 0
  /\ accounts' = [accounts EXCEPT ![a].amount = @ - 1]
  /\ UNCHANGED <<mint, metas, draft, call, seen>>

(***************************************************************************)
(* The client (offchain.rs): it awaits the mint, then the hook program's   *)
(* list, and has an instruction, which it may send again.  An on-chain     *)
(* caller (onchain.rs) reads both in the transaction that transfers.       *)
(***************************************************************************)
FetchMint ==
  /\ Idle
  /\ mint.initialized
  /\ draft' = [stage |-> IF mint.program_id = None THEN "ready" ELSE "mint_fetched",
               program |-> mint.program_id, version |-> 0]
  /\ UNCHANGED <<mint, accounts, metas, call, seen>>

FetchMetas ==
  /\ Idle
  /\ draft.stage = "mint_fetched"
  /\ draft' = [draft EXCEPT !.stage = "ready", !.version = metas[draft.program]]
  /\ UNCHANGED <<mint, accounts, metas, call, seen>>

\* A hook program rewrites its list of extra accounts, at any time.
ChangeMetas(p) ==
  /\ metas[p] < MaxVersions
  /\ metas' = [metas EXCEPT ![p] = @ + 1]
  /\ UNCHANGED <<mint, accounts, draft, call, seen>>

OffchainAccounts == [program |-> draft.program, version |-> draft.version]
OnchainAccounts ==
  [program |-> mint.program_id,
   version |-> IF mint.program_id = None THEN 0 ELSE metas[mint.program_id]]

(***************************************************************************)
(* The transfer.                                                           *)
(***************************************************************************)
Moved(src, dst) == [accounts EXCEPT ![src].amount = @ - 1, ![dst].amount = @ + 1]
CanMove(src, dst) ==
  /\ Idle
  /\ src # dst /\ accounts[src].live /\ accounts[dst].live /\ accounts[src].amount > 0

\* Transfer, which passes no mint: the mark on the source is all it can go by.
TransferWithoutMint(src, dst) ==
  /\ CanMove(src, dst)
  /\ ~accounts[src].marked
  /\ accounts' = Moved(src, dst)
  /\ UNCHANGED <<mint, metas, draft, call, seen>>

\* TransferChecked of a mint that has no hook program.
TransferUnhooked(src, dst) ==
  /\ CanMove(src, dst)
  /\ mint.initialized /\ mint.program_id = None
  /\ accounts' = Moved(src, dst)
  /\ UNCHANGED <<mint, metas, draft, call, seen>>

set_transferring(accs, a) == [accs EXCEPT ![a].transferring = TRUE]
unset_transferring(accs, a) == [accs EXCEPT ![a].transferring = FALSE]

\* The hook sees a transfer in progress when both flags are set.
Genuine(accs, src, dst) == accs[src].transferring /\ accs[dst].transferring

\* TransferChecked of a mint with a hook program, up to the call: invoke_execute
\* needs the program and the accounts on its list among those passed.
TransferHooked(src, dst, passed) ==
  LET flagged == set_transferring(set_transferring(Moved(src, dst), src), dst)
  IN  /\ CanMove(src, dst)
      /\ mint.initialized /\ mint.program_id # None
      /\ accounts[src].marked /\ accounts[dst].marked
      /\ passed = OnchainAccounts
      /\ accounts' = flagged
      /\ call' = [status |-> "in_hook", source |-> src, destination |-> dst,
                  program |-> mint.program_id, before |-> accounts, metas |-> metas]
      /\ seen' = [program |-> mint.program_id, direct |-> FALSE,
                  genuine |-> Genuine(flagged, src, dst), during |-> TRUE]
      /\ UNCHANGED <<mint, metas, draft>>

\* Mutant: the destination keeps its flag.
HookAcceptsHalfway ==
  /\ ~Idle
  /\ accounts' = unset_transferring(accounts, call.source)
  /\ call' = NoCall
  /\ UNCHANGED <<mint, metas, draft, seen>>

HookAccepts ==
  /\ ~Idle
  /\ accounts' = unset_transferring(unset_transferring(accounts, call.source), call.destination)
  /\ call' = NoCall
  /\ UNCHANGED <<mint, metas, draft, seen>>

\* The hook returns an error; the runtime undoes the instruction.
HookRefuses ==
  /\ ~Idle
  /\ accounts' = call.before
  /\ metas' = call.metas
  /\ call' = NoCall
  /\ UNCHANGED <<mint, draft, seen>>

\* A draft that no longer fits (the program or its list has changed) fails.
SendFails ==
  /\ Idle
  /\ draft.stage = "ready" /\ mint.program_id # None /\ OffchainAccounts # OnchainAccounts
  /\ draft' = NoDraft
  /\ UNCHANGED <<mint, accounts, metas, call, seen>>

\* A transfer of these accounts is in progress.
Transferring(src, dst) == ~Idle /\ {src, dst} \subseteq {call.source, call.destination}

\* Anyone invokes a hook program with accounts of their choice: between transfers,
\* or as part of what the hook of a transfer does.
DirectCall(p, src, dst) ==
  /\ seen' = [program |-> p, direct |-> TRUE, genuine |-> Genuine(accounts, src, dst),
              during |-> Transferring(src, dst)]
  /\ UNCHANGED <<mint, accounts, metas, draft, call>>

Init ==
  /\ mint = [initialized |-> FALSE, hook |-> FALSE, authority |-> None, program_id |-> None,
             incarnation |-> 0]
  /\ accounts = [a \in Accounts |-> NoAccount]
  /\ metas = [p \in Programs |-> 0]
  /\ draft = NoDraft
  /\ call = NoCall
  /\ seen = [program |-> None, direct |-> TRUE, genuine |-> FALSE, during |-> FALSE]

OnTheMint ==
  \/ \E authority \in Keys \cup {None}, p \in ProgramIds \cup {TokenProgram} :
       InitializeHook(authority, p)
  \/ \E signer \in Keys, p \in ProgramIds \cup {TokenProgram} : Update(p, signer)
  \/ \E signer \in Keys, new \in Keys \cup {None} : SetAuthority(new, signer)
  \/ InitializeMint
  \/ CloseMint
  \/ \E a \in Accounts : InitializeAccount(a) \/ MintTo(a) \/ Burn(a)

Client == FetchMint \/ FetchMetas \/ SendFails \/ \E p \in Programs : ChangeMetas(p)

Transfers ==
  \E src, dst \in Accounts :
    \/ TransferWithoutMint(src, dst)
    \/ TransferUnhooked(src, dst)
    \/ TransferHooked(src, dst, OnchainAccounts)
    \/ draft.stage = "ready" /\ TransferHooked(src, dst, OffchainAccounts)
    \/ \E p \in Programs : DirectCall(p, src, dst)

Next == OnTheMint \/ Client \/ Transfers \/ HookAccepts \/ HookRefuses

Spec == Init /\ [][Next]_vars

-----------------------------------------------------------------------------

\* Every variable has its type, and the mint never has this program as its hook.
TypeOK ==
  /\ mint \in [initialized : BOOLEAN, hook : BOOLEAN, authority : Keys \cup {None},
               program_id : ProgramIds, incarnation : 0..MaxIncarnations]
  /\ accounts \in [Accounts -> AccountState]
  /\ metas \in [Programs -> 0..MaxVersions]
  /\ draft = NoDraft \/ draft \in [stage : {"mint_fetched", "ready"}, program : ProgramIds,
                                   version : 0..MaxVersions]
  /\ Idle \/ call \in [status : {"in_hook"}, source : Accounts, destination : Accounts,
                       program : Programs, before : [Accounts -> AccountState],
                       metas : [Programs -> 0..MaxVersions]]
  /\ seen \in [program : ProgramIds, direct : BOOLEAN, genuine : BOOLEAN, during : BOOLEAN]

\* What a hook can conclude from the flags: if both its accounts carry one, a transfer of
\* them is in progress, whoever called; and a call by the token program always finds
\* them.  The flags are on the two accounts of the transfer whose hook, the program the
\* mint names, is running, and on none once it has returned, refused or accepted.  They
\* do not say that the token program is the caller: code that the running hook calls
\* can call any hook program with the same accounts.
GenuineMeansTransfer ==
  /\ TypeOK
  /\ {a \in Accounts : accounts[a].transferring} =
       IF Idle THEN {} ELSE {call.source, call.destination}
  /\ ~Idle => call.program = mint.program_id
  /\ seen.genuine => seen.during
  /\ ~seen.direct => seen.genuine

\* A step whose transfers the hook has agreed to.
AgreedStep ==
  \A src, dst \in Accounts :
     LET old == IF Idle THEN accounts ELSE call.before
     IN  (/\ call' = NoCall /\ mint.program_id # None
          /\ accounts'[src].amount < old[src].amount /\ accounts'[dst].amount > old[dst].amount
          /\ old[src].born = mint.incarnation) =>
           /\ ~Idle /\ call.program = mint.program_id
           /\ src = call.source /\ dst = call.destination

\* Tokens of a mint with a hook program move between two of its accounts only if that
\* program, as named by the mint when the transfer is executed, has been called and
\* has accepted: passing no mint, a stale draft or a refusing hook moves nothing.
\* Accounts left over from an earlier mint at the address carry no mark and are exempt.
HookConsulted == [][AgreedStep]_vars

=============================================================================
