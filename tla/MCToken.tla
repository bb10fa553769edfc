------------------------------ MODULE MCToken ------------------------------
(***************************************************************************)
(* Model-checking instances of Token.  The whole next-state relation is    *)
(* out of TLC's reach even on two accounts, so each specification below    *)
(* has the instructions that bear on one question; the theorems of         *)
(* TokenProofs are about all of them.                                      *)
(***************************************************************************)
EXTENDS Token, TLC

\* Transaction contexts.
TopLevel == {[cpi |-> FALSE, memo |-> FALSE]}
WithOrWithoutMemo == [cpi : {FALSE}, memo : BOOLEAN]
InOrOutsideCpi == [cpi : BOOLEAN, memo : {FALSE}]

Symmetry == Permutations(Accounts) \cup Permutations(Keys)

\* No action depends on tx and no property on its unprimed value, so states that
\* differ only in the last signer need not be told apart.
View == <<mints, accounts, epoch, grants>>

\* Parts of the groups of Token, for the specifications that need no more.
PlainMints == \E m \in Mints, k \in Keys : InitializeMint(m, k, None)
FeeMints ==
  \E m \in Mints, k \in Keys, bps \in BasisPoints, max \in MaximumFees :
    InitializeTransferFeeConfig(m, k, k, bps, max)
PermanentDelegates == \E m \in Mints, k \in Keys : InitializePermanentDelegate(m, k)
ClosableMints == \E m \in Mints, k \in Keys : InitializeMintCloseAuthority(m, k)
OpenAccounts ==
  \E a \in Accounts, m \in Mints, owner \in Owners : InitializeAccount(a, m, owner)
HandOver(k, ctx) ==
  \E a \in Accounts, new \in Owners : SetAccountOwner(a, new, k, ctx)
RequireMemos(k, ctx) ==
  \E a \in Accounts, enable \in BOOLEAN : ToggleRequiredMemoTransfers(a, enable, k, ctx)
LockCpi(k, ctx) ==
  \E a \in Accounts, enable \in BOOLEAN : ToggleCpiGuard(a, enable, k, ctx)
CloseTokenAccounts(k, ctx) == \E a \in Accounts : CloseTokenAccount(a, k, ctx)
CloseMints(k, ctx) == \E m \in Mints : CloseMint(m, k, ctx)

(***************************************************************************)
(* Where do the tokens go, and which fee applies?  Every instruction that  *)
(* touches an amount, a withheld amount or a supply, what creates and      *)
(* destroys their holders, and changes of the fee from epoch to epoch.     *)
(***************************************************************************)
LedgerNext ==
  \/ PlainMints
  \/ FeeMints
  \/ ClosableMints
  \/ OpenAccounts
  \/ Harvest
  \/ AdvanceEpoch
  \/ \E k \in Keys, ctx \in Contexts :
       \/ Move(k, ctx)
       \/ CollectFees(k, ctx)
       \/ ChangeFees(k, ctx)
       \/ RequireMemos(k, ctx)
       \/ CloseTokenAccounts(k, ctx)
       \/ CloseMints(k, ctx)

LedgerSpec == Init /\ [][LedgerNext]_vars

(***************************************************************************)
(* Who may take tokens out of an account, and what does the CPI guard      *)
(* stop?  Owners, delegates and the permanent delegate, inside a CPI and   *)
(* outside, while accounts change hands.                                   *)
(***************************************************************************)
RightsNext ==
  \/ PlainMints
  \/ PermanentDelegates
  \/ OpenAccounts
  \/ \E k \in Keys, ctx \in Contexts :
       \/ Move(k, ctx)
       \/ Delegate(k, ctx)
       \/ ChangeAccount(k, ctx)
       \/ LockCpi(k, ctx)

RightsSpec == Init /\ [][RightsNext]_vars

\* Two tokens while no guard is locked; one token, and close authorities that
\* differ from the owner, while one is.
RightsBounds ==
  IF \E a \in Accounts : accounts[a].lock_cpi
  THEN \A m \in Mints : mints[m].supply <= 1
  ELSE \A a \in Accounts : accounts[a].close_authority = None

(***************************************************************************)
(* What do freezing and renouncing an authority guarantee?                 *)
(***************************************************************************)
FreezeNext ==
  \/ InitMints
  \/ InitAccounts
  \/ Harvest
  \/ \E k \in Keys, ctx \in Contexts :
       \/ Move(k, ctx)
       \/ Delegate(k, ctx)
       \/ ChangeAccount(k, ctx)
       \/ ChangeMint(k, ctx)
       \/ Freeze(k, ctx)

FreezeSpec == Init /\ [][FreezeNext]_vars
=============================================================================
