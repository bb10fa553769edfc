---------------------------- MODULE NativeToken ----------------------------
(***************************************************************************)
(* Lamports under token accounts.  A native account wraps SOL: its amount  *)
(* stands for lamports the account itself holds above a reserve that is    *)
(* recorded in the account.  Lamports also move without the token program, *)
(* and the price of rent is not the program's to fix.                      *)
(***************************************************************************)
EXTENDS Totals

CONSTANTS
  Accounts,       \* addresses of token accounts
  Keys,           \* addresses of wallets: owners, payers, authorities
  Incinerator,    \* accounts it owns have no signer
  NativeMint,     \* address of the native mint
  PlainMint,      \* an initialized mint of this program
  None,           \* the empty COption
  MaxSize,        \* bound: sizes of account data, in units of one extension
  Rates,          \* bound: prices of rent per unit
  Lamports        \* bound: what each wallet starts with

Addresses == Accounts \cup Keys \cup {Incinerator, NativeMint, PlainMint}
Owners == Keys \cup {Incinerator}
Sizes == 1..MaxSize

ASSUME NativeAssumption ==
  /\ IsFiniteSet(Addresses)
  /\ Accounts \cap (Keys \cup {Incinerator, NativeMint, PlainMint}) = {}
  /\ Keys \cap {Incinerator, NativeMint, PlainMint} = {}
  /\ NativeMint # PlainMint /\ Incinerator \notin {NativeMint, PlainMint}
  /\ None \notin Owners /\ None \notin Nat
  /\ MaxSize \in Nat \ {0}
  /\ Rates \subseteq Nat
  /\ Lamports \in Nat

VARIABLES
  lamports,       \* of every address
  accounts,       \* the token accounts
  nativeMint,     \* is the native mint initialized?
  rate,           \* rent sysvar: lamports per unit of data
  grantedUnder,   \* history: the owner under whom an account's close authority was set
  tx              \* history: the last signer, and whether in a CPI

vars == <<lamports, accounts, nativeMint, rate, grantedUnder, tx>>

AccountState ==
  [live : BOOLEAN, size : Sizes, owner : Owners, amount : Nat, is_native : Nat \cup {None},
   close_authority : Keys \cup {None}, lock_cpi : BOOLEAN]

Deleted == [live |-> FALSE, size |-> 1, owner |-> Incinerator, amount |-> 0, is_native |-> None,
            close_authority |-> None, lock_cpi |-> FALSE]

minimum_balance(size) == rate * size
Live(a) == accounts[a].live
is_native(a) == accounts[a].is_native # None
is_owned_by_system_program_or_incinerator(a) == accounts[a].owner = Incinerator

\* Mutant: both balances are read before either is written.
PayOverlooking(from, to, x) ==
  [a \in Addresses |-> IF a = to THEN lamports[to] + x
                       ELSE IF a = from THEN lamports[from] - x ELSE lamports[a]]

\* x lamports from one address to another, the second read after the first is written.
Pay(from, to, x) ==
  [[lamports EXCEPT ![from] = @ - x] EXCEPT ![to] = @ + x]

(***************************************************************************)
(* Outside the program: wallets pay to any address, the price of rent is   *)
(* voted on.                                                               *)
(***************************************************************************)
SystemTransfer(from, to, x) ==
  /\ x \in 1..lamports[from]
  /\ lamports' = Pay(from, to, x)
  /\ UNCHANGED <<accounts, nativeMint, rate, grantedUnder>>

RentChanges(r) ==
  /\ rate' = r
  /\ UNCHANGED <<lamports, accounts, nativeMint, grantedUnder>>

\* The system program refuses to allocate an account that exists.
CreateNativeMint(payer) ==
  LET short == minimum_balance(1) - lamports[NativeMint]
      lamports_diff == IF short > 0 THEN short ELSE 0
  IN  /\ ~nativeMint
      /\ lamports_diff <= lamports[payer]
      /\ lamports' = Pay(payer, NativeMint, lamports_diff)
      /\ nativeMint' = TRUE
      /\ UNCHANGED <<accounts, rate, grantedUnder>>

InitializeAccount(a, size, owner, native) ==
  LET reserve == minimum_balance(size)
  IN  /\ ~Live(a)
      /\ lamports[a] >= reserve
      /\ native => nativeMint
      /\ accounts' = [accounts EXCEPT ![a] =
           [live |-> TRUE, size |-> size, owner |-> owner,
            amount |-> IF native THEN lamports[a] - reserve ELSE 0,
            is_native |-> IF native THEN reserve ELSE None,
            close_authority |-> None, lock_cpi |-> FALSE]]
      /\ UNCHANGED <<lamports, nativeMint, rate, grantedUnder>>

\* MintTo and Burn, whose ledger is the module Token, refuse native accounts.
ChangeBalance(a, amount) ==
  /\ Live(a) /\ ~is_native(a)
  /\ accounts' = [accounts EXCEPT ![a].amount = amount]
  /\ UNCHANGED <<lamports, nativeMint, rate, grantedUnder>>

SyncNative(a) ==
  LET new_amount == lamports[a] - accounts[a].is_native
  IN  /\ Live(a) /\ is_native(a)
      /\ new_amount >= accounts[a].amount
      /\ accounts' = [accounts EXCEPT ![a].amount = new_amount]
      /\ UNCHANGED <<lamports, nativeMint, rate, grantedUnder>>

\* A transfer by the owner between two native accounts: both have the native mint,
\* which has no extensions.  Delegates and frozen accounts are in Token.
Transfer(a, b, amount, signer) ==
  /\ Live(a) /\ Live(b) /\ a # b /\ is_native(a) /\ is_native(b)
  /\ signer = accounts[a].owner
  /\ amount <= accounts[a].amount
  /\ accounts' = [accounts EXCEPT ![a].amount = @ - amount, ![b].amount = @ + amount]
  /\ lamports' = Pay(a, b, amount)
  /\ UNCHANGED <<nativeMint, rate, grantedUnder>>

\* Mutant: as for other accounts, the close authority stays.
HandOver(a, new, signer) ==
  /\ Live(a)
  /\ signer = accounts[a].owner
  /\ ~accounts[a].lock_cpi
  /\ accounts' = [accounts EXCEPT ![a].owner = new]
  /\ UNCHANGED <<lamports, nativeMint, rate, grantedUnder>>

SetAccountOwner(a, new, signer) ==
  /\ Live(a)
  /\ signer = accounts[a].owner
  /\ ~accounts[a].lock_cpi
  /\ accounts' = [accounts EXCEPT ![a].owner = new,
                                  ![a].close_authority = IF is_native(a) THEN None ELSE @]
  /\ UNCHANGED <<lamports, nativeMint, rate, grantedUnder>>

Closer(a) ==
  IF accounts[a].close_authority = None THEN accounts[a].owner ELSE accounts[a].close_authority

SetCloseAuthority(a, new, signer, cpi) ==
  /\ Live(a)
  /\ signer = Closer(a)
  /\ ~(accounts[a].lock_cpi /\ cpi /\ new # None)
  /\ accounts' = [accounts EXCEPT ![a].close_authority = new]
  /\ grantedUnder' = [grantedUnder EXCEPT ![a] = accounts[a].owner]
  /\ UNCHANGED <<lamports, nativeMint, rate>>

ToggleCpiGuard(a, lock, signer) ==
  /\ Live(a)
  /\ signer = accounts[a].owner
  /\ accounts' = [accounts EXCEPT ![a].lock_cpi = lock]
  /\ UNCHANGED <<lamports, nativeMint, rate, grantedUnder>>

MayClose(a, dest, signer, cpi) ==
  IF is_owned_by_system_program_or_incinerator(a)
    THEN dest = Incinerator
    ELSE /\ (accounts[a].lock_cpi /\ cpi) => dest = accounts[a].owner
         /\ signer = Closer(a)

\* process_close_account on a token account: native accounts need not be empty.
CloseAccount(a, dest, signer, cpi) ==
  /\ a # dest
  /\ Live(a)
  /\ is_native(a) \/ accounts[a].amount = 0
  /\ MayClose(a, dest, signer, cpi)
  /\ lamports' = [lamports EXCEPT ![dest] = @ + lamports[a], ![a] = 0]
  /\ accounts' = [accounts EXCEPT ![a] = Deleted]
  /\ UNCHANGED <<nativeMint, rate, grantedUnder>>

\* Mutant: the recorded reserve is that of the smaller account.
ReallocateOnly(a, size, payer, signer) ==
  LET new_rent_exempt_reserve == minimum_balance(size)
      native_token_amount == IF is_native(a) THEN accounts[a].amount ELSE 0
      short == new_rent_exempt_reserve - (lamports[a] - native_token_amount)
      lamports_diff == IF short > 0 THEN short ELSE 0
  IN  /\ Live(a) /\ signer = accounts[a].owner
      /\ size > accounts[a].size
      /\ lamports_diff <= lamports[payer]
      /\ lamports' = Pay(payer, a, lamports_diff)
      /\ accounts' = [accounts EXCEPT ![a].size = size]
      /\ UNCHANGED <<nativeMint, rate, grantedUnder>>

\* Reallocate for extensions that need more room (otherwise it returns early).
Reallocate(a, size, payer, signer) ==
  LET new_rent_exempt_reserve == minimum_balance(size)
      native_token_amount == IF is_native(a) THEN accounts[a].amount ELSE 0
      short == new_rent_exempt_reserve - (lamports[a] - native_token_amount)
      lamports_diff == IF short > 0 THEN short ELSE 0
  IN  /\ Live(a) /\ signer = accounts[a].owner
      /\ size > accounts[a].size
      /\ lamports[a] >= native_token_amount
      /\ lamports_diff <= lamports[payer]
      /\ lamports' = Pay(payer, a, lamports_diff)
      /\ is_native(a) => lamports'[a] >= new_rent_exempt_reserve + native_token_amount
      /\ accounts' = [accounts EXCEPT ![a].size = size,
                        ![a].is_native = IF is_native(a) THEN new_rent_exempt_reserve ELSE @]
      /\ UNCHANGED <<nativeMint, rate, grantedUnder>>

WithdrawExcessFromAccount(a, dest, signer) ==
  LET transfer_amount == lamports[a] - minimum_balance(accounts[a].size)
  IN  /\ Live(a) /\ ~is_native(a)
      /\ signer = accounts[a].owner
      /\ transfer_amount >= 0
      /\ lamports' = Pay(a, dest, transfer_amount)
      /\ UNCHANGED <<accounts, nativeMint, rate, grantedUnder>>

\* From a mint, by its mint authority (any wallet); the native mint has none.
WithdrawExcessFromMint(dest) ==
  LET transfer_amount == lamports[PlainMint] - minimum_balance(1)
  IN  /\ transfer_amount >= 0
      /\ lamports' = Pay(PlainMint, dest, transfer_amount)
      /\ UNCHANGED <<accounts, nativeMint, rate, grantedUnder>>

Init ==
  /\ lamports = [x \in Addresses |-> IF x \in Keys THEN Lamports ELSE 0]
  /\ accounts = [a \in Accounts |-> Deleted]
  /\ nativeMint = FALSE
  /\ rate \in Rates
  /\ grantedUnder = [a \in Accounts |-> None]
  /\ tx = [signer |-> None, cpi |-> FALSE]

Outside ==
  \/ \E from \in Keys, to \in Addresses : \E x \in 1..lamports[from] : SystemTransfer(from, to, x)
  \/ \E r \in Rates : RentChanges(r)

Opening(k) ==
  \/ CreateNativeMint(k)
  \/ \E a \in Accounts, size \in Sizes, owner \in Owners, native \in BOOLEAN :
       InitializeAccount(a, size, owner, native)

Moving(k) ==
  \/ \E a \in Accounts : SyncNative(a)
  \/ \E a \in Accounts, amount \in 0..1 : ChangeBalance(a, amount)
  \/ \E a, b \in Accounts : \E amount \in 0..accounts[a].amount : Transfer(a, b, amount, k)
  \/ \E a \in Accounts, dest \in Addresses : WithdrawExcessFromAccount(a, dest, k)
  \/ \E dest \in Addresses : WithdrawExcessFromMint(dest)

Governing(k, cpi) ==
  \E a \in Accounts :
    \/ \E new \in Owners : SetAccountOwner(a, new, k)
    \/ \E new \in Keys \cup {None} : SetCloseAuthority(a, new, k, cpi)
    \/ \E lock \in BOOLEAN : ~cpi /\ ToggleCpiGuard(a, lock, k)
    \/ \E size \in Sizes, payer \in Keys : Reallocate(a, size, payer, k)
    \/ \E dest \in Addresses : CloseAccount(a, dest, k, cpi)

Next ==
  \/ Outside /\ UNCHANGED tx
  \/ \E k \in Keys, cpi \in BOOLEAN :
       /\ tx' = [signer |-> k, cpi |-> cpi]
       /\ Opening(k) \/ Moving(k) \/ Governing(k, cpi)

Spec == Init /\ [][Next]_vars

-----------------------------------------------------------------------------

\* Every variable has its type; lamports and amounts never go below zero.
TypeOK ==
  /\ lamports \in [Addresses -> Nat]
  /\ accounts \in [Accounts -> AccountState]
  /\ nativeMint \in BOOLEAN
  /\ rate \in Rates
  /\ grantedUnder \in [Accounts -> Owners \cup {None}]
  /\ tx \in [signer : Keys \cup {None}, cpi : BOOLEAN]

\* A native account always holds the lamports its amount and its recorded reserve
\* stand for, whatever the price of rent and in whatever order lamports arrive,
\* transfers, Reallocate and SyncNative happen; so SyncNative's two errors (Overflow,
\* InvalidState) and the sanity check of Reallocate cannot occur.  The reserve is that of
\* the account's present size at some price of rent (Reallocate records it anew), so
\* that the next SyncNative does not take rent for tokens.
NativeBacked ==
  \A a \in Accounts : Live(a) /\ is_native(a) =>
    /\ lamports[a] >= accounts[a].is_native + accounts[a].amount
    /\ \E r \in Rates : accounts[a].is_native = r * accounts[a].size

\* No instruction of the program creates or loses lamports, or takes more than there are,
\* also where the two accounts it moves them between are the same.
LamportsConserved ==
  /\ TypeOK
  /\ Total(lamports, Addresses) = Lamports * Cardinality(Keys)

\* What a native account wraps leaves it only by the owner's transfer, amount and
\* lamports together, or by closing: by the close authority, to the owner if the CPI
\* guard is locked and another program calls, or by anyone to the incinerator if the
\* account has no signer.  A close authority that closes it was named under the present
\* owner, since process_set_authority takes it off an account that changes hands.
WrappedLeavesByRight ==
  [][\A a \in Accounts : (Live(a) /\ is_native(a) /\ lamports'[a] < lamports[a]) =>
       LET sentTo(x) == lamports'[x] = lamports[x] + lamports[a]
       IN  \/ /\ Live(a)' /\ tx'.signer = accounts[a].owner
              /\ accounts[a].amount - accounts'[a].amount = lamports[a] - lamports'[a]
           \/ ~Live(a)' /\ accounts[a].owner = Incinerator /\ sentTo(Incinerator)
           \/ /\ ~Live(a)' /\ tx'.signer = Closer(a)
              /\ accounts[a].close_authority # None => grantedUnder[a] = accounts[a].owner
              /\ (accounts[a].lock_cpi /\ tx'.cpi) => sentTo(accounts[a].owner)]_vars

=============================================================================
