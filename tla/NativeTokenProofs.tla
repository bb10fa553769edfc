-------------------------- MODULE NativeTokenProofs --------------------------
(***************************************************************************)
(* Proofs about NativeToken: no instruction makes or loses lamports, a     *)
(* native account holds what its amount and its recorded reserve stand     *)
(* for, and wrapped lamports leave only by right.                          *)
(***************************************************************************)
EXTENDS NativeToken, TotalsProofs

(***************************************************************************)
(* The inductive invariant.  NativeBacked is about the lamports, which     *)
(* only LamportsConserved keeps from being overdrawn; the close authority  *)
(* of a native account was named by its present owner, since the others    *)
(* keep theirs when they change hands.                                     *)
(***************************************************************************)
NamedByOwner ==
  \A a \in Accounts :
    Live(a) /\ is_native(a) /\ accounts[a].close_authority # None
      => grantedUnder[a] = accounts[a].owner

NativeInv == LamportsConserved /\ NativeBacked /\ NamedByOwner

\* What lamports[a] and accounts[a] become.
Backed(x, acc) ==
  acc.live /\ acc.is_native # None =>
    /\ x >= acc.is_native + acc.amount
    /\ \E r \in Rates : acc.is_native = r * acc.size

Named(acc, granted) ==
  acc.live /\ acc.is_native # None /\ acc.close_authority # None => granted = acc.owner

LEMMA InvParts ==
  NativeBacked /\ NamedByOwner
    <=> \A a \in Accounts : /\ Backed(lamports[a], accounts[a])
                            /\ Named(accounts[a], grantedUnder[a])
BY DEF NativeBacked, NamedByOwner, Backed, Named, Live, is_native

LEMMA InvPartsNext ==
  NativeBacked' /\ NamedByOwner'
    <=> \A a \in Accounts : /\ Backed(lamports'[a], accounts'[a])
                            /\ Named(accounts'[a], grantedUnder'[a])
BY DEF NativeBacked, NamedByOwner, Backed, Named, Live, is_native

LEMMA AddressFacts ==
  /\ Accounts \subseteq Addresses /\ Keys \subseteq Addresses /\ Owners \subseteq Addresses
  /\ PlainMint \in Addresses /\ NativeMint \in Addresses
  /\ IsFiniteSet(Addresses) /\ IsFiniteSet(Keys)
  /\ None \notin Nat /\ None \notin Owners /\ Rates \subseteq Nat /\ Sizes \subseteq Nat
<1>1. IsFiniteSet(Addresses) /\ Keys \subseteq Addresses
  BY NativeAssumption DEF Addresses
<1>2. IsFiniteSet(Keys)
  BY <1>1, FS_Subset
<1> QED
  BY <1>1, <1>2, NativeAssumption DEF Addresses, Owners, Sizes

-----------------------------------------------------------------------------
(***************************************************************************)
(* Lamports.                                                               *)
(***************************************************************************)
\* A payment that the payer can afford moves lamports and makes none.
LEMMA PayEffect ==
  ASSUME TypeOK, NEW from \in Addresses, NEW to \in Addresses, NEW x \in 0 .. lamports[from]
  PROVE  /\ Pay(from, to, x) \in [Addresses -> Nat]
         /\ Total(Pay(from, to, x), Addresses) = Total(lamports, Addresses)
         /\ \A y \in Addresses \ {from, to} : Pay(from, to, x)[y] = lamports[y]
         /\ from # to => /\ Pay(from, to, x)[from] = lamports[from] - x
                         /\ Pay(from, to, x)[to] = lamports[to] + x
         /\ from = to => Pay(from, to, x)[to] = lamports[to]
<1> DEFINE paid == Pay(from, to, x)
<1>1. lamports \in [Addresses -> Nat]
  BY DEF TypeOK
<1>2. lamports[from] \in Nat /\ lamports[to] \in Nat /\ x \in Nat /\ lamports[from] - x \in Nat
  BY <1>1
<1>3. /\ DOMAIN paid = Addresses
      /\ \A y \in Addresses \ {from, to} : paid[y] = lamports[y]
      /\ from # to => paid[from] = lamports[from] - x /\ paid[to] = lamports[to] + x
      /\ from = to => paid[to] = lamports[to]
  BY <1>1, <1>2 DEF Pay
<1>4. paid = [y \in Addresses |-> paid[y]]
  BY <1>1 DEF Pay
<1> HIDE DEF paid
<1>5. \A y \in Addresses : paid[y] \in Nat
  BY <1>1, <1>2, <1>3
<1>6. paid \in [Addresses -> Nat]
  BY <1>4, <1>5
<1>7. Total(paid, Addresses) = Total(lamports, Addresses)
  <2>1. \A y \in Addresses : lamports[y] \in Nat /\ paid[y] \in Nat
    BY <1>1, <1>5
  <2>2. CASE from = to
    BY <1>3, <2>2, TotalSame
  <2>3. CASE from # to
    <3>1. Total(paid, Addresses) =
            Total(lamports, Addresses) - lamports[from] - lamports[to] + paid[from] + paid[to]
      BY <1>3, <2>1, <2>3, AddressFacts, TotalUpdateTwo
    <3>2. Total(lamports, Addresses) \in Nat
      BY <2>1, AddressFacts, TotalType
    <3>3. paid[from] = lamports[from] - x /\ paid[to] = lamports[to] + x
      BY <1>3, <2>3
    <3> QED
      BY <1>2, <3>1, <3>2, <3>3
  <2> QED
    BY <2>2, <2>3
<1> QED
  BY <1>3, <1>6, <1>7 DEF paid

LEMMA StateFacts ==
  ASSUME TypeOK
  PROVE  /\ lamports \in [Addresses -> Nat] /\ rate \in Nat /\ rate \in Rates
         /\ accounts \in [Accounts -> AccountState]
         /\ \A a \in Accounts :
              /\ a \in Addresses /\ accounts[a] \in AccountState /\ lamports[a] \in Nat
              /\ accounts[a].amount \in Nat /\ accounts[a].size \in Nat
              /\ accounts[a].owner \in Owners
              /\ is_native(a) => accounts[a].is_native \in Nat
         /\ \A size \in Nat : minimum_balance(size) \in Nat
<1>1. \A a \in Accounts : a \in Addresses /\ accounts[a] \in AccountState
  BY AddressFacts DEF TypeOK
<1>2. lamports \in [Addresses -> Nat] /\ rate \in Nat /\ rate \in Rates
  BY AddressFacts DEF TypeOK
<1>3. \A size \in Nat : minimum_balance(size) \in Nat
  BY <1>2 DEF minimum_balance
<1> QED
  BY <1>1, <1>2, <1>3, AddressFacts DEF TypeOK, AccountState, is_native

\* All that an instruction or the outside does to lamports is to pay.
Payment ==
  \/ lamports' = lamports
  \/ \E from, to \in Addresses : \E x \in 0 .. lamports[from] : lamports' = Pay(from, to, x)

LEMMA LamportsMove ==
  ASSUME NativeInv, Next
  PROVE  Payment
<1>1. TypeOK /\ NativeBacked
  BY DEF NativeInv, LamportsConserved
<1>2. lamports \in [Addresses -> Nat] /\ \A x \in Addresses : lamports[x] \in Nat
  BY <1>1, StateFacts
<1>3. ASSUME NEW from \in Addresses, NEW to \in Addresses, NEW x \in 0 .. lamports[from],
             lamports' = Pay(from, to, x)
      PROVE  Payment
  BY <1>3 DEF Payment
<1>4. CASE Outside
  <2>1. ASSUME NEW from \in Keys, NEW to \in Addresses, NEW x \in 1 .. lamports[from],
               SystemTransfer(from, to, x)
        PROVE  Payment
    <3>1. from \in Addresses /\ x \in 0 .. lamports[from]
      BY <1>2, AddressFacts
    <3> QED
      BY <1>3, <2>1, <3>1 DEF SystemTransfer
  <2> QED
    BY <1>4, <2>1 DEF Outside, RentChanges, Payment
<1>5. ASSUME NEW k \in Keys, Opening(k) PROVE Payment
  <2>1. CASE CreateNativeMint(k)
    <3> DEFINE short == minimum_balance(1) - lamports[NativeMint]
               diff == IF short > 0 THEN short ELSE 0
    <3>1. lamports' = Pay(k, NativeMint, diff) /\ diff <= lamports[k]
      BY <2>1 DEF CreateNativeMint
    <3>2. lamports[NativeMint] \in Nat /\ minimum_balance(1) \in Int /\ lamports[k] \in Nat
      BY <1>1, <1>2, StateFacts, AddressFacts
    <3>3. diff \in Nat
      BY <3>2
    <3> HIDE DEF diff
    <3>4. diff \in 0 .. lamports[k]
      BY <3>1, <3>2, <3>3
    <3> QED
      BY <1>3, <3>1, <3>4, AddressFacts
  <2> QED
    BY <1>5, <2>1 DEF Opening, InitializeAccount, Payment
<1>6. ASSUME NEW k \in Keys, Moving(k) PROVE Payment
  <2>1. ASSUME NEW a \in Accounts, NEW b \in Accounts, NEW amount \in 0 .. accounts[a].amount,
               Transfer(a, b, amount, k)
        PROVE  Payment
    <3>1. /\ accounts[a].amount \in Nat /\ accounts[a].is_native \in Nat
          /\ lamports[a] \in Nat
      BY <1>1, <2>1, StateFacts DEF Transfer
    <3>2. lamports[a] >= accounts[a].is_native + accounts[a].amount
      BY <1>1, <2>1 DEF NativeBacked, Transfer
    <3>3. amount \in 0 .. lamports[a]
      BY <3>1, <3>2
    <3>4. lamports' = Pay(a, b, amount)
      BY <2>1 DEF Transfer
    <3> QED
      BY <1>3, <3>3, <3>4, AddressFacts
  <2>2. ASSUME NEW a \in Accounts, NEW dest \in Addresses, WithdrawExcessFromAccount(a, dest, k)
        PROVE  Payment
    <3> DEFINE x == lamports[a] - minimum_balance(accounts[a].size)
    <3>1. lamports' = Pay(a, dest, x) /\ x >= 0
      BY <2>2 DEF WithdrawExcessFromAccount
    <3>2. lamports[a] \in Nat /\ minimum_balance(accounts[a].size) \in Nat
      BY <1>1, StateFacts
    <3>3. x \in 0 .. lamports[a]
      BY <3>1, <3>2
    <3> QED
      BY <1>3, <3>1, <3>3, AddressFacts
  <2>3. ASSUME NEW dest \in Addresses, WithdrawExcessFromMint(dest) PROVE Payment
    <3> DEFINE x == lamports[PlainMint] - minimum_balance(1)
    <3>1. lamports' = Pay(PlainMint, dest, x) /\ x >= 0
      BY <2>3 DEF WithdrawExcessFromMint
    <3>2. lamports[PlainMint] \in Nat /\ minimum_balance(1) \in Nat
      BY <1>1, <1>2, StateFacts, AddressFacts
    <3>3. x \in 0 .. lamports[PlainMint]
      BY <3>1, <3>2
    <3> QED
      BY <1>3, <3>1, <3>3, AddressFacts
  <2>4. ASSUME NEW a \in Accounts, NEW amount \in 0 .. 1, SyncNative(a) \/ ChangeBalance(a, amount)
        PROVE  Payment
    BY <2>4 DEF SyncNative, ChangeBalance, Payment
  <2> QED
    BY <1>6, <2>1, <2>2, <2>3, <2>4 DEF Moving
<1>7. ASSUME NEW k \in Keys, NEW cpi \in BOOLEAN, Governing(k, cpi) PROVE Payment
  <2>1. ASSUME NEW a \in Accounts, NEW size \in Sizes, NEW payer \in Keys,
               Reallocate(a, size, payer, k)
        PROVE  Payment
    <3> DEFINE kept == IF is_native(a) THEN accounts[a].amount ELSE 0
               short == minimum_balance(size) - (lamports[a] - kept)
               diff == IF short > 0 THEN short ELSE 0
    <3>1. lamports' = Pay(payer, a, diff) /\ diff <= lamports[payer]
      BY <2>1 DEF Reallocate
    <3>2. /\ minimum_balance(size) \in Nat /\ lamports[a] \in Nat /\ kept \in Nat
          /\ lamports[payer] \in Nat
      BY <1>1, <1>2, StateFacts, AddressFacts
    <3>3. short \in Int
      BY <3>2
    <3> HIDE DEF short
    <3>4. diff \in Nat
      BY <3>3
    <3> HIDE DEF diff
    <3>5. diff \in 0 .. lamports[payer]
      BY <3>1, <3>2, <3>4
    <3> QED
      BY <1>3, <3>1, <3>5, AddressFacts
  <2>2. ASSUME NEW a \in Accounts, NEW dest \in Addresses, CloseAccount(a, dest, k, cpi)
        PROVE  Payment
    <3>1. /\ a # dest
          /\ lamports' = [lamports EXCEPT ![dest] = @ + lamports[a], ![a] = 0]
      BY <2>2 DEF CloseAccount
    <3>2. lamports[a] \in Nat /\ a \in Addresses
      BY <1>1, StateFacts
    <3>3. \A y \in Addresses : lamports'[y] = Pay(a, dest, lamports[a])[y]
      BY <1>2, <3>1, <3>2 DEF Pay
    <3>4. lamports' = [y \in Addresses |-> lamports'[y]]
      BY <1>2, <3>1
    <3>5. Pay(a, dest, lamports[a]) \in [Addresses -> Nat]
      BY <1>1, <3>2, PayEffect
    <3>6. lamports' = Pay(a, dest, lamports[a])
      BY <3>3, <3>4, <3>5
    <3> QED
      BY <1>3, <3>2, <3>6
  <2>3. ASSUME NEW a \in Accounts, NEW new, NEW lock,
               \/ SetAccountOwner(a, new, k) \/ SetCloseAuthority(a, new, k, cpi)
               \/ ToggleCpiGuard(a, lock, k)
        PROVE  Payment
    BY <2>3 DEF SetAccountOwner, SetCloseAuthority, ToggleCpiGuard, Payment
  <2> QED
    BY <1>7, <2>1, <2>2, <2>3 DEF Governing
<1> QED
  BY <1>4, <1>5, <1>6, <1>7 DEF Next

-----------------------------------------------------------------------------
(***************************************************************************)
(* Accounts.                                                               *)
(***************************************************************************)
AccountsFine ==
  /\ accounts' \in [Accounts -> AccountState]
  /\ grantedUnder' \in [Accounts -> Owners \cup {None}]
  /\ NativeBacked' /\ NamedByOwner'

\* Nothing but the close authority of b is renamed, and only b may lose lamports.
LEMMA OneAccount ==
  ASSUME NativeInv, NEW b \in Accounts, NEW acc \in AccountState,
         accounts' = [accounts EXCEPT ![b] = acc],
         NEW g \in Owners \cup {None}, grantedUnder' = [grantedUnder EXCEPT ![b] = g],
         Backed(lamports'[b], acc), Named(acc, g), rate' \in Rates,
         \A c \in Accounts \ {b} : lamports'[c] \in Nat /\ lamports'[c] >= lamports[c]
  PROVE  AccountsFine
<1>1. /\ TypeOK /\ accounts \in [Accounts -> AccountState]
      /\ grantedUnder \in [Accounts -> Owners \cup {None}]
  BY DEF NativeInv, LamportsConserved, TypeOK
<1>2. /\ accounts' \in [Accounts -> AccountState]
      /\ grantedUnder' \in [Accounts -> Owners \cup {None}]
      /\ accounts'[b] = acc /\ grantedUnder'[b] = g
      /\ \A c \in Accounts \ {b} : /\ accounts'[c] = accounts[c]
                                   /\ grantedUnder'[c] = grantedUnder[c]
  BY <1>1
<1>3. ASSUME NEW c \in Accounts
      PROVE  Backed(lamports'[c], accounts'[c]) /\ Named(accounts'[c], grantedUnder'[c])
  <2>1. CASE c = b
    BY <1>2, <2>1
  <2>2. CASE c # b
    <3>1. Backed(lamports[c], accounts[c]) /\ Named(accounts[c], grantedUnder[c])
      BY InvParts DEF NativeInv
    <3>2. /\ lamports[c] \in Nat /\ lamports'[c] \in Nat /\ lamports'[c] >= lamports[c]
          /\ accounts[c].amount \in Nat
          /\ accounts[c].is_native # None => accounts[c].is_native \in Nat
      BY <1>1, <2>2, StateFacts DEF is_native
    <3>3. Backed(lamports'[c], accounts[c])
      BY <3>1, <3>2 DEF Backed
    <3> QED
      BY <1>2, <2>2, <3>1, <3>3
  <2> QED
    BY <2>1, <2>2
<1> QED
  BY <1>2, <1>3, InvPartsNext DEF AccountsFine

\* An instruction on b that pays nothing out of a token account and names no
\* close authority.
LEMMA OneAccountKept ==
  ASSUME NativeInv, NEW b \in Accounts, NEW acc \in AccountState,
         accounts' = [accounts EXCEPT ![b] = acc], UNCHANGED grantedUnder,
         Backed(lamports'[b], acc), Named(acc, grantedUnder[b]), rate' \in Rates,
         \A c \in Accounts \ {b} : lamports'[c] \in Nat /\ lamports'[c] >= lamports[c]
  PROVE  AccountsFine
<1>1. grantedUnder \in [Accounts -> Owners \cup {None}]
  BY DEF NativeInv, LamportsConserved, TypeOK
<1>2. grantedUnder' = [grantedUnder EXCEPT ![b] = grantedUnder[b]]
  BY <1>1
<1> QED
  BY <1>1, <1>2, OneAccount

\* Nothing happens to the accounts but that they are given lamports.
LEMMA NoAccount ==
  ASSUME NativeInv, UNCHANGED <<accounts, grantedUnder>>, rate' \in Rates,
         \A c \in Accounts : lamports'[c] \in Nat /\ lamports'[c] >= lamports[c]
  PROVE  AccountsFine
<1>1. TypeOK /\ accounts \in [Accounts -> AccountState]
      /\ grantedUnder \in [Accounts -> Owners \cup {None}]
  BY DEF NativeInv, LamportsConserved, TypeOK
<1>2. ASSUME NEW b \in Accounts PROVE AccountsFine
  <2>1. accounts' = [accounts EXCEPT ![b] = accounts[b]] /\ accounts[b] \in AccountState
    BY <1>1
  <2>2. Backed(lamports[b], accounts[b]) /\ Named(accounts[b], grantedUnder[b])
    BY InvParts DEF NativeInv
  <2>3. /\ lamports[b] \in Nat /\ lamports'[b] \in Nat /\ lamports'[b] >= lamports[b]
        /\ accounts[b].amount \in Nat
        /\ accounts[b].is_native # None => accounts[b].is_native \in Nat
    BY <1>1, StateFacts DEF is_native
  <2>4. Backed(lamports'[b], accounts[b])
    BY <2>2, <2>3 DEF Backed
  <2> QED
    BY <2>1, <2>2, <2>4, OneAccountKept
<1>3. CASE Accounts = {}
  BY <1>1, <1>3 DEF AccountsFine, NativeBacked, NamedByOwner
<1> QED
  BY <1>2, <1>3

\* A payment by another address than a.
LEMMA PaidElsewhere ==
  ASSUME TypeOK, NEW from \in Addresses, NEW to \in Addresses, NEW x \in 0 .. lamports[from],
         lamports' = Pay(from, to, x), NEW a \in Accounts, a # from
  PROVE  lamports'[a] \in Nat /\ lamports'[a] >= lamports[a]
<1>1. /\ lamports' \in [Addresses -> Nat] /\ a \in Addresses /\ lamports[a] \in Nat
      /\ x \in Nat
  BY PayEffect, StateFacts
<1>2. lamports'[a] = lamports[a] \/ lamports'[a] = lamports[a] + x
  BY <1>1, PayEffect
<1> QED
  BY <1>1, <1>2

\* The lamports of an account that no action pays out of.
LEMMA LamportsKept ==
  ASSUME TypeOK, UNCHANGED lamports, NEW a \in Accounts
  PROVE  lamports'[a] \in Nat /\ lamports'[a] >= lamports[a]
<1>1. lamports[a] \in Nat
  BY StateFacts
<1> QED
  BY <1>1

\* The instructions that open accounts, and the outside.
LEMMA OpeningFine ==
  ASSUME NativeInv, Outside \/ \E k \in Keys : Opening(k)
  PROVE  AccountsFine
<1>1. TypeOK /\ rate \in Rates /\ rate \in Nat
  BY StateFacts DEF NativeInv, LamportsConserved
<1>2. \A k \in Keys : k \in Addresses /\ k \notin Accounts
  BY AddressFacts, NativeAssumption
<1>3. ASSUME NEW from \in Keys, NEW to \in Addresses, NEW x \in 1 .. lamports[from],
             SystemTransfer(from, to, x)
      PROVE  AccountsFine
  <2>1. x \in 0 .. lamports[from] /\ lamports' = Pay(from, to, x)
    BY <1>1, <1>2, <1>3, StateFacts DEF SystemTransfer
  <2>2. \A a \in Accounts : lamports'[a] \in Nat /\ lamports'[a] >= lamports[a]
    BY <1>1, <1>2, <2>1, PaidElsewhere
  <2> QED
    BY <1>1, <1>3, <2>2, NoAccount DEF SystemTransfer
<1>4. ASSUME NEW r \in Rates, RentChanges(r) PROVE AccountsFine
  BY <1>1, <1>4, NoAccount, LamportsKept DEF RentChanges
<1>5. ASSUME NEW k \in Keys, CreateNativeMint(k) PROVE AccountsFine
  <2> DEFINE short == minimum_balance(1) - lamports[NativeMint]
             diff == IF short > 0 THEN short ELSE 0
  <2>1. lamports' = Pay(k, NativeMint, diff) /\ diff <= lamports[k]
    BY <1>5 DEF CreateNativeMint
  <2>2. lamports[NativeMint] \in Nat /\ minimum_balance(1) \in Int /\ lamports[k] \in Nat
    BY <1>1, <1>2, StateFacts, AddressFacts
  <2>3. diff \in Nat
    BY <2>2
  <2> HIDE DEF diff
  <2>4. diff \in 0 .. lamports[k]
    BY <2>1, <2>2, <2>3
  <2>5. \A a \in Accounts : lamports'[a] \in Nat /\ lamports'[a] >= lamports[a]
    BY <1>1, <1>2, <2>1, <2>4, AddressFacts, PaidElsewhere
  <2> QED
    BY <1>1, <1>5, <2>5, NoAccount DEF CreateNativeMint
<1>6. ASSUME NEW k \in Keys, NEW a \in Accounts, NEW size \in Sizes, NEW owner \in Owners,
             NEW native \in BOOLEAN, InitializeAccount(a, size, owner, native)
      PROVE  AccountsFine
  <2> DEFINE reserve == minimum_balance(size)
             acc == [live |-> TRUE, size |-> size, owner |-> owner,
                     amount |-> IF native THEN lamports[a] - reserve ELSE 0,
                     is_native |-> IF native THEN reserve ELSE None,
                     close_authority |-> None, lock_cpi |-> FALSE]
  <2>1. /\ accounts' = [accounts EXCEPT ![a] = acc] /\ lamports[a] >= reserve
        /\ UNCHANGED <<lamports, rate, grantedUnder>>
    BY <1>6 DEF InitializeAccount
  <2>2. lamports[a] \in Nat /\ reserve \in Nat /\ size \in Nat
    BY <1>1, StateFacts, AddressFacts
  <2>3. lamports[a] - reserve \in Nat
    BY <2>1, <2>2
  <2>4. acc \in AccountState
    BY <2>2, <2>3 DEF AccountState
  <2>5. Named(acc, grantedUnder[a])
    BY DEF Named
  <2>6. Backed(lamports[a], acc)
    <3>1. reserve = rate * size
      BY DEF minimum_balance
    <3>2. lamports[a] >= reserve + (lamports[a] - reserve)
      BY <2>2
    <3>3. native => acc.is_native = reserve /\ acc.amount = lamports[a] - reserve
                    /\ acc.size = size
      OBVIOUS
    <3>4. ~native => acc.is_native = None
      OBVIOUS
    <3> HIDE DEF acc, reserve
    <3> QED
      BY <1>1, <3>1, <3>2, <3>3, <3>4 DEF Backed
  <2> HIDE DEF acc
  <2> QED
    BY <1>1, <2>1, <2>4, <2>5, <2>6, OneAccountKept, LamportsKept
<1> QED
  BY <1>3, <1>4, <1>5, <1>6 DEF Outside, Opening

LEMMA MovingFine ==
  ASSUME NativeInv, NEW k \in Keys, Moving(k)
  PROVE  AccountsFine
<1>1. TypeOK /\ rate \in Rates
  BY StateFacts DEF NativeInv, LamportsConserved
<1>2. \A a \in Accounts :
        /\ a \in Addresses /\ accounts[a] \in AccountState /\ lamports[a] \in Nat
        /\ accounts[a].amount \in Nat /\ accounts[a].size \in Nat
        /\ accounts[a].is_native # None => accounts[a].is_native \in Nat
        /\ Backed(lamports[a], accounts[a]) /\ Named(accounts[a], grantedUnder[a])
  BY <1>1, StateFacts, InvParts DEF is_native, NativeInv
<1>3. ASSUME NEW a \in Accounts, SyncNative(a) PROVE AccountsFine
  <2> DEFINE new == lamports[a] - accounts[a].is_native
             acc == [accounts[a] EXCEPT !.amount = new]
  <2>1. /\ accounts' = [accounts EXCEPT ![a] = acc] /\ new >= accounts[a].amount
        /\ accounts[a].is_native \in Nat /\ UNCHANGED <<lamports, rate, grantedUnder>>
    BY <1>2, <1>3 DEF SyncNative, is_native
  <2>2. new \in Nat
    BY <1>2, <2>1
  <2>3. lamports[a] >= accounts[a].is_native + new
    BY <1>2, <2>1
  <2> HIDE DEF new
  <2>4. /\ acc \in AccountState /\ acc.live = accounts[a].live
        /\ acc.is_native = accounts[a].is_native /\ acc.size = accounts[a].size
        /\ acc.amount = new /\ acc.owner = accounts[a].owner
        /\ acc.close_authority = accounts[a].close_authority
    BY <1>2, <2>2 DEF AccountState
  <2> HIDE DEF acc
  <2>5. Backed(lamports[a], acc) /\ Named(acc, grantedUnder[a])
    BY <1>2, <2>3, <2>4 DEF Backed, Named
  <2> QED
    BY <1>1, <2>1, <2>4, <2>5, OneAccountKept, LamportsKept
<1>4. ASSUME NEW a \in Accounts, NEW amount \in 0 .. 1, ChangeBalance(a, amount)
      PROVE  AccountsFine
  <2> DEFINE acc == [accounts[a] EXCEPT !.amount = amount]
  <2>1. /\ accounts' = [accounts EXCEPT ![a] = acc] /\ accounts[a].is_native = None
        /\ UNCHANGED <<lamports, rate, grantedUnder>>
    BY <1>4 DEF ChangeBalance, is_native
  <2>2. acc \in AccountState /\ acc.is_native = None
    BY <1>2, <2>1 DEF AccountState
  <2> HIDE DEF acc
  <2>3. Backed(lamports[a], acc) /\ Named(acc, grantedUnder[a])
    BY <2>2 DEF Backed, Named
  <2> QED
    BY <1>1, <2>1, <2>2, <2>3, OneAccountKept, LamportsKept
<1>5. ASSUME NEW a \in Accounts, NEW b \in Accounts, NEW amount \in 0 .. accounts[a].amount,
             Transfer(a, b, amount, k)
      PROVE  AccountsFine
  <2> DEFINE src == [accounts[a] EXCEPT !.amount = @ - amount]
             dst == [accounts[b] EXCEPT !.amount = @ + amount]
  <2>1. /\ a # b /\ accounts[a].is_native # None /\ accounts[b].is_native # None
        /\ accounts[a].live /\ accounts[b].live
        /\ lamports' = Pay(a, b, amount) /\ UNCHANGED <<rate, grantedUnder>>
        /\ accounts' = [accounts EXCEPT ![a].amount = @ - amount, ![b].amount = @ + amount]
    BY <1>5 DEF Transfer, is_native, Live
  <2>2. accounts \in [Accounts -> AccountState] /\ accounts[a] \in AccountState
        /\ accounts[b] \in AccountState
    BY <1>1, StateFacts
  <2>3. accounts' = [accounts EXCEPT ![a] = src, ![b] = dst]
    BY <2>1, <2>2
  <2>4. amount \in Nat /\ accounts[a].amount - amount \in Nat
    BY <1>2
  <2>5. /\ src \in AccountState /\ src.live = accounts[a].live
        /\ src.is_native = accounts[a].is_native /\ src.size = accounts[a].size
        /\ src.amount = accounts[a].amount - amount /\ src.owner = accounts[a].owner
        /\ src.close_authority = accounts[a].close_authority
    BY <2>2, <2>4 DEF AccountState
  <2>6. /\ dst \in AccountState /\ dst.live = accounts[b].live
        /\ dst.is_native = accounts[b].is_native /\ dst.size = accounts[b].size
        /\ dst.amount = accounts[b].amount + amount /\ dst.owner = accounts[b].owner
        /\ dst.close_authority = accounts[b].close_authority
    BY <1>2, <2>2, <2>4 DEF AccountState
  <2> HIDE DEF src, dst
  <2>7. /\ accounts' \in [Accounts -> AccountState] /\ accounts'[a] = src /\ accounts'[b] = dst
        /\ \A c \in Accounts \ {a, b} : accounts'[c] = accounts[c]
    BY <2>1, <2>2, <2>3, <2>5, <2>6
  <2>8. amount \in 0 .. lamports[a]
    <3>1. lamports[a] >= accounts[a].is_native + accounts[a].amount
      BY <1>2, <2>1 DEF Backed
    <3> QED
      BY <1>2, <2>1, <3>1
  <2>9. /\ lamports'[a] = lamports[a] - amount /\ lamports'[b] = lamports[b] + amount
        /\ \A c \in Accounts \ {a, b} : lamports'[c] = lamports[c]
    BY <1>1, <1>2, <2>1, <2>8, PayEffect
  <2>10. Backed(lamports'[a], src) /\ Named(src, grantedUnder[a])
    BY <1>2, <2>1, <2>4, <2>5, <2>9 DEF Backed, Named
  <2>11. Backed(lamports'[b], dst) /\ Named(dst, grantedUnder[b])
    BY <1>2, <2>1, <2>4, <2>6, <2>9 DEF Backed, Named
  <2>12. \A c \in Accounts : /\ Backed(lamports'[c], accounts'[c])
                             /\ Named(accounts'[c], grantedUnder'[c])
    BY <1>2, <2>1, <2>7, <2>9, <2>10, <2>11
  <2>13. grantedUnder' \in [Accounts -> Owners \cup {None}]
    BY <1>1, <2>1 DEF TypeOK
  <2> QED
    BY <2>7, <2>12, <2>13, InvPartsNext DEF AccountsFine
<1>6. ASSUME NEW a \in Accounts, NEW dest \in Addresses, WithdrawExcessFromAccount(a, dest, k)
      PROVE  AccountsFine
  <2> DEFINE x == lamports[a] - minimum_balance(accounts[a].size)
  <2>1. /\ lamports' = Pay(a, dest, x) /\ x >= 0 /\ accounts[a].is_native = None
        /\ UNCHANGED <<accounts, rate, grantedUnder>>
    BY <1>6 DEF WithdrawExcessFromAccount, is_native
  <2>2. minimum_balance(accounts[a].size) \in Nat
    BY <1>1, StateFacts
  <2>3. x \in 0 .. lamports[a]
    BY <1>2, <2>1, <2>2
  <2> HIDE DEF x
  <2>4. \A c \in Accounts \ {a} : lamports'[c] \in Nat /\ lamports'[c] >= lamports[c]
    BY <1>1, <1>2, <2>1, <2>3, PaidElsewhere
  <2>5. accounts' = [accounts EXCEPT ![a] = accounts[a]]
    BY <1>1, <2>1, StateFacts
  <2>6. Backed(lamports'[a], accounts[a])
    BY <2>1 DEF Backed
  <2> QED
    BY <1>1, <1>2, <2>1, <2>4, <2>5, <2>6, OneAccountKept
<1>7. ASSUME NEW dest \in Addresses, WithdrawExcessFromMint(dest) PROVE AccountsFine
  <2> DEFINE x == lamports[PlainMint] - minimum_balance(1)
  <2>1. /\ lamports' = Pay(PlainMint, dest, x) /\ x >= 0
        /\ UNCHANGED <<accounts, rate, grantedUnder>>
    BY <1>7 DEF WithdrawExcessFromMint
  <2>2. lamports[PlainMint] \in Nat /\ minimum_balance(1) \in Nat
    BY <1>1, StateFacts, AddressFacts
  <2>3. x \in 0 .. lamports[PlainMint]
    BY <2>1, <2>2
  <2> HIDE DEF x
  <2>4. PlainMint \in Addresses /\ PlainMint \notin Accounts
    BY AddressFacts, NativeAssumption
  <2>5. \A c \in Accounts : lamports'[c] \in Nat /\ lamports'[c] >= lamports[c]
    BY <1>1, <2>1, <2>3, <2>4, PaidElsewhere
  <2> QED
    BY <1>1, <2>1, <2>5, NoAccount
<1> QED
  BY <1>3, <1>4, <1>5, <1>6, <1>7 DEF Moving

\* What Reallocate pays into the account makes up for its new reserve.
LEMMA ReallocatePays ==
  ASSUME TypeOK, NEW a \in Accounts, NEW size \in Sizes, NEW payer \in Keys, NEW k,
         Reallocate(a, size, payer, k)
  PROVE  /\ \A c \in Accounts : lamports'[c] \in Nat /\ lamports'[c] >= lamports[c]
         /\ is_native(a) => lamports'[a] >= rate * size + accounts[a].amount
<1> DEFINE kept == IF is_native(a) THEN accounts[a].amount ELSE 0
           short == minimum_balance(size) - (lamports[a] - kept)
           diff == IF short > 0 THEN short ELSE 0
<1>1. /\ lamports' = Pay(payer, a, diff) /\ diff <= lamports[payer]
      /\ is_native(a) => lamports'[a] >= minimum_balance(size) + kept
  BY DEF Reallocate
<1>2. /\ minimum_balance(size) \in Nat /\ lamports[a] \in Nat /\ kept \in Nat
      /\ payer \in Addresses /\ payer \notin Accounts /\ lamports[payer] \in Nat
  BY StateFacts, AddressFacts, NativeAssumption
<1>3. is_native(a) => lamports'[a] >= rate * size + accounts[a].amount
  BY <1>1 DEF minimum_balance
<1>4. short \in Int
  BY <1>2
<1> HIDE DEF short
<1>5. diff \in Nat
  BY <1>4
<1> HIDE DEF diff
<1>6. diff \in 0 .. lamports[payer]
  BY <1>1, <1>2, <1>5
<1>7. \A c \in Accounts : lamports'[c] \in Nat /\ lamports'[c] >= lamports[c]
  BY <1>1, <1>2, <1>6, AddressFacts, PaidElsewhere
<1> QED
  BY <1>3, <1>7

LEMMA GoverningFine ==
  ASSUME NativeInv, NEW k \in Keys, NEW cpi \in BOOLEAN, Governing(k, cpi)
  PROVE  AccountsFine
<1>1. TypeOK /\ rate \in Rates /\ None \notin Nat
  BY StateFacts, AddressFacts DEF NativeInv, LamportsConserved
<1>2. \A a \in Accounts :
        /\ a \in Addresses /\ accounts[a] \in AccountState /\ lamports[a] \in Nat
        /\ accounts[a].amount \in Nat /\ accounts[a].size \in Nat
        /\ accounts[a].is_native # None => accounts[a].is_native \in Nat
        /\ Backed(lamports[a], accounts[a]) /\ Named(accounts[a], grantedUnder[a])
  BY <1>1, StateFacts, InvParts DEF is_native, NativeInv
<1>3. ASSUME NEW a \in Accounts, NEW new \in Owners, SetAccountOwner(a, new, k)
      PROVE  AccountsFine
  <2> DEFINE closer == IF is_native(a) THEN None ELSE accounts[a].close_authority
             acc == [accounts[a] EXCEPT !.owner = new, !.close_authority = closer]
  <2>1. accounts' = [accounts EXCEPT ![a] = acc] /\ UNCHANGED <<lamports, rate, grantedUnder>>
    BY <1>1, <1>3, StateFacts DEF SetAccountOwner
  <2>2. closer \in Keys \cup {None} /\ (accounts[a].is_native # None => closer = None)
    BY <1>2 DEF AccountState, is_native
  <2> HIDE DEF closer
  <2>3. /\ acc \in AccountState /\ acc.live = accounts[a].live
        /\ acc.is_native = accounts[a].is_native /\ acc.size = accounts[a].size
        /\ acc.amount = accounts[a].amount /\ acc.close_authority = closer
    BY <1>2, <2>2 DEF AccountState
  <2> HIDE DEF acc
  <2>4. Backed(lamports[a], acc) /\ Named(acc, grantedUnder[a])
    BY <1>2, <2>2, <2>3 DEF Backed, Named
  <2> QED
    BY <1>1, <2>1, <2>3, <2>4, OneAccountKept, LamportsKept
<1>4. ASSUME NEW a \in Accounts, NEW new \in Keys \cup {None}, SetCloseAuthority(a, new, k, cpi)
      PROVE  AccountsFine
  <2> DEFINE acc == [accounts[a] EXCEPT !.close_authority = new]
             g == accounts[a].owner
  <2>1. /\ accounts' = [accounts EXCEPT ![a] = acc] /\ UNCHANGED <<lamports, rate>>
        /\ grantedUnder' = [grantedUnder EXCEPT ![a] = g]
    BY <1>4 DEF SetCloseAuthority
  <2>2. /\ acc \in AccountState /\ acc.live = accounts[a].live
        /\ acc.is_native = accounts[a].is_native /\ acc.size = accounts[a].size
        /\ acc.amount = accounts[a].amount /\ acc.owner = g /\ g \in Owners
    BY <1>2 DEF AccountState
  <2> HIDE DEF acc, g
  <2>3. Backed(lamports[a], acc) /\ Named(acc, g)
    BY <1>2, <2>2 DEF Backed, Named
  <2> QED
    BY <1>1, <2>1, <2>2, <2>3, OneAccount, LamportsKept
<1>5. ASSUME NEW a \in Accounts, NEW lock \in BOOLEAN, ToggleCpiGuard(a, lock, k)
      PROVE  AccountsFine
  <2> DEFINE acc == [accounts[a] EXCEPT !.lock_cpi = lock]
  <2>1. accounts' = [accounts EXCEPT ![a] = acc] /\ UNCHANGED <<lamports, rate, grantedUnder>>
    BY <1>5 DEF ToggleCpiGuard
  <2>2. /\ acc \in AccountState /\ acc.live = accounts[a].live
        /\ acc.is_native = accounts[a].is_native /\ acc.size = accounts[a].size
        /\ acc.amount = accounts[a].amount /\ acc.owner = accounts[a].owner
        /\ acc.close_authority = accounts[a].close_authority
    BY <1>2 DEF AccountState
  <2> HIDE DEF acc
  <2>3. Backed(lamports[a], acc) /\ Named(acc, grantedUnder[a])
    BY <1>2, <2>2 DEF Backed, Named
  <2> QED
    BY <1>1, <2>1, <2>2, <2>3, OneAccountKept, LamportsKept
<1>6. ASSUME NEW a \in Accounts, NEW size \in Sizes, NEW payer \in Keys,
             Reallocate(a, size, payer, k)
      PROVE  AccountsFine
  <2> DEFINE reserve == IF is_native(a) THEN minimum_balance(size) ELSE accounts[a].is_native
             acc == [accounts[a] EXCEPT !.size = size, !.is_native = reserve]
  <2>1. accounts' = [accounts EXCEPT ![a] = acc] /\ UNCHANGED <<rate, grantedUnder>>
    BY <1>1, <1>6, StateFacts DEF Reallocate
  <2>2. size \in Nat /\ minimum_balance(size) \in Nat
    BY <1>1, StateFacts, AddressFacts
  <2>3. /\ reserve \in Nat \cup {None}
        /\ accounts[a].is_native # None => reserve = rate * size
        /\ reserve # None => accounts[a].is_native # None
    BY <1>2, <2>2 DEF is_native, minimum_balance
  <2> HIDE DEF reserve
  <2>4. /\ acc \in AccountState /\ acc.live = accounts[a].live
        /\ acc.is_native = reserve /\ acc.size = size
        /\ acc.amount = accounts[a].amount /\ acc.owner = accounts[a].owner
        /\ acc.close_authority = accounts[a].close_authority
    BY <1>2, <2>3 DEF AccountState
  <2> HIDE DEF acc
  <2>5. /\ \A c \in Accounts : lamports'[c] \in Nat /\ lamports'[c] >= lamports[c]
        /\ accounts[a].is_native # None => lamports'[a] >= rate * size + accounts[a].amount
    BY <1>1, <1>6, ReallocatePays DEF is_native
  <2>6. Backed(lamports'[a], acc) /\ Named(acc, grantedUnder[a])
    BY <1>1, <1>2, <2>3, <2>4, <2>5 DEF Backed, Named
  <2> QED
    BY <1>1, <2>1, <2>4, <2>5, <2>6, OneAccountKept
<1>7. ASSUME NEW a \in Accounts, NEW dest \in Addresses, CloseAccount(a, dest, k, cpi)
      PROVE  AccountsFine
  <2>1. /\ accounts' = [accounts EXCEPT ![a] = Deleted] /\ UNCHANGED <<rate, grantedUnder>>
        /\ lamports' = [lamports EXCEPT ![dest] = @ + lamports[a], ![a] = 0]
    BY <1>7 DEF CloseAccount
  <2>2. Deleted \in AccountState
    BY NativeAssumption DEF Deleted, AccountState, Sizes, Owners
  <2>3. Backed(lamports'[a], Deleted) /\ Named(Deleted, grantedUnder[a])
    BY DEF Deleted, Backed, Named
  <2>4. ASSUME NEW c \in Accounts \ {a}
        PROVE  lamports'[c] \in Nat /\ lamports'[c] >= lamports[c]
    <3>1. lamports \in [Addresses -> Nat]
      BY <1>1, StateFacts
    <3>2. lamports'[c] \in {lamports[c], lamports[c] + lamports[a]}
      BY <1>2, <2>1, <3>1
    <3> QED
      BY <1>2, <3>2
  <2> QED
    BY <1>1, <2>1, <2>2, <2>3, <2>4, OneAccountKept
<1> QED
  BY <1>3, <1>4, <1>5, <1>6, <1>7 DEF Governing

-----------------------------------------------------------------------------
LEMMA InitNative == Init => NativeInv
<1> SUFFICES ASSUME Init PROVE NativeInv
  OBVIOUS
<1>1. Deleted \in AccountState
  BY NativeAssumption DEF Deleted, AccountState, Sizes, Owners
<1>2. TypeOK
  BY <1>1, NativeAssumption DEF Init, TypeOK
<1>3. Total(lamports, Addresses) = Lamports * Cardinality(Keys)
  <2> DEFINE rest == Addresses \ Keys
  <2>1. /\ \A k \in Keys : lamports[k] = Lamports
        /\ \A x \in rest : lamports[x] = 0
    BY AddressFacts DEF Init
  <2>2. /\ IsFiniteSet(Keys) /\ IsFiniteSet(rest) /\ Addresses = Keys \cup rest
        /\ Keys \cap rest = {}
    BY AddressFacts, FS_Difference
  <2>3. Total(lamports, rest) = 0
    BY <2>1, TotalZero
  <2>4. Total(lamports, Keys) = Cardinality(Keys) * Lamports
    <3>1. Units(lamports, Keys) = Keys \X (1 .. Lamports)
      <4>1. \A u : u \in Units(lamports, Keys)
                     <=> \E k \in Keys : \E i \in 1 .. Lamports : u = <<k, i>>
        BY <2>1, UnitsOf
      <4> QED
        BY <4>1
    <3>2. IsFiniteSet(1 .. Lamports) /\ Cardinality(1 .. Lamports) = Lamports
      BY NativeAssumption, FS_Interval
    <3> QED
      BY <2>2, <3>1, <3>2, FS_Product DEF Total
  <2>5. \A x \in Keys \cup rest : lamports[x] \in Nat
    BY <2>1, NativeAssumption
  <2>6. Total(lamports, Keys \cup rest) = Total(lamports, Keys) + Total(lamports, rest)
    BY <2>2, <2>5, TotalSplit
  <2>7. Cardinality(Keys) \in Nat /\ Lamports \in Nat
    BY <2>2, FS_CardinalityType, NativeAssumption
  <2> DEFINE c == Cardinality(Keys)
  <2> HIDE DEF rest, c
  <2>8. Total(lamports, Addresses) = c * Lamports + 0
    BY <2>2, <2>3, <2>4, <2>6 DEF c
  <2>9. c \in Nat /\ c * Lamports + 0 = Lamports * c
    BY <2>7 DEF c
  <2> QED
    BY <2>8, <2>9 DEF c
<1>4. NativeBacked /\ NamedByOwner
  BY DEF Init, NativeBacked, NamedByOwner, Live, Deleted
<1> QED
  BY <1>2, <1>3, <1>4 DEF NativeInv, LamportsConserved

LEMMA NextNative == NativeInv /\ [Next]_vars => NativeInv'
<1> SUFFICES ASSUME NativeInv, [Next]_vars PROVE NativeInv'
  OBVIOUS
<1>1. CASE Next
  <2>1. AccountsFine
    BY <1>1, OpeningFine, MovingFine, GoverningFine DEF Next
  <2>2. /\ lamports' \in [Addresses -> Nat]
        /\ Total(lamports', Addresses) = Total(lamports, Addresses)
    BY <1>1, LamportsMove, PayEffect DEF Payment, NativeInv, LamportsConserved, TypeOK
  <2>3. rate' \in Rates /\ nativeMint' \in BOOLEAN
    <3>1. rate \in Rates /\ nativeMint \in BOOLEAN
      BY DEF NativeInv, LamportsConserved, TypeOK
    <3>2. CASE Outside
      BY <3>1, <3>2 DEF Outside, SystemTransfer, RentChanges
    <3>3. ASSUME NEW k \in Keys, Opening(k)
          PROVE  rate' \in Rates /\ nativeMint' \in BOOLEAN
      BY <3>1, <3>3 DEF Opening, CreateNativeMint, InitializeAccount
    <3>4. ASSUME NEW k \in Keys, Moving(k)
          PROVE  rate' \in Rates /\ nativeMint' \in BOOLEAN
      BY <3>1, <3>4 DEF Moving, SyncNative, ChangeBalance, Transfer,
                        WithdrawExcessFromAccount, WithdrawExcessFromMint
    <3>5. ASSUME NEW k \in Keys, NEW cpi \in BOOLEAN, Governing(k, cpi)
          PROVE  rate' \in Rates /\ nativeMint' \in BOOLEAN
      BY <3>1, <3>5 DEF Governing, SetAccountOwner, SetCloseAuthority, ToggleCpiGuard,
                        Reallocate, CloseAccount
    <3> QED
      BY <1>1, <3>2, <3>3, <3>4, <3>5 DEF Next
  <2>4. tx' \in [signer : Keys \cup {None}, cpi : BOOLEAN]
    BY <1>1 DEF Next, NativeInv, LamportsConserved, TypeOK
  <2> QED
    BY <2>1, <2>2, <2>3, <2>4 DEF AccountsFine, NativeInv, LamportsConserved, TypeOK
<1>2. CASE UNCHANGED vars
  BY <1>2 DEF vars, NativeInv, LamportsConserved, TypeOK, NativeBacked, NamedByOwner,
              Live, is_native
<1> QED
  BY <1>1, <1>2

LEMMA NativeInvariant == Spec => []NativeInv
BY InitNative, NextNative, PTL DEF Spec

(***************************************************************************)
(* Whatever the price of rent, and in whatever order lamports arrive,      *)
(* transfers, SyncNative and Reallocate happen, a native account holds its *)
(* recorded reserve and its amount in lamports.                            *)
(***************************************************************************)
THEOREM WrappedIsBacked == Spec => []NativeBacked
<1>1. NativeInv => NativeBacked
  BY DEF NativeInv
<1> QED
  BY <1>1, NativeInvariant, PTL

(***************************************************************************)
(* Opening, transferring, reallocating, withdrawing and closing neither    *)
(* make nor lose lamports, nor take more than an address has, also where   *)
(* payer and payee are the same.                                           *)
(***************************************************************************)
THEOREM LamportsStay == Spec => []LamportsConserved
<1>1. NativeInv => LamportsConserved
  BY DEF NativeInv
<1> QED
  BY <1>1, NativeInvariant, PTL

-----------------------------------------------------------------------------
LeavesByRight(a) ==
  (Live(a) /\ is_native(a) /\ lamports'[a] < lamports[a]) =>
    LET sentTo(x) == lamports'[x] = lamports[x] + lamports[a]
    IN  \/ /\ Live(a)' /\ tx'.signer = accounts[a].owner
           /\ accounts[a].amount - accounts'[a].amount = lamports[a] - lamports'[a]
        \/ ~Live(a)' /\ accounts[a].owner = Incinerator /\ sentTo(Incinerator)
        \/ /\ ~Live(a)' /\ tx'.signer = Closer(a)
           /\ accounts[a].close_authority # None => grantedUnder[a] = accounts[a].owner
           /\ (accounts[a].lock_cpi /\ tx'.cpi) => sentTo(accounts[a].owner)

\* The instructions that take lamports from a native account: a transfer from
\* it and closing it.
LEMMA LossCause ==
  ASSUME NativeInv, Next, NEW a \in Accounts,
         Live(a), is_native(a), lamports'[a] < lamports[a]
  PROVE  \E k \in Keys, cpi \in BOOLEAN :
           /\ tx' = [signer |-> k, cpi |-> cpi]
           /\ \/ \E b \in Accounts : \E amount \in 0 .. accounts[a].amount :
                   Transfer(a, b, amount, k)
              \/ \E dest \in Addresses : CloseAccount(a, dest, k, cpi)
<1> DEFINE Goal == \E k \in Keys, cpi \in BOOLEAN :
           /\ tx' = [signer |-> k, cpi |-> cpi]
           /\ \/ \E b \in Accounts : \E amount \in 0 .. accounts[a].amount :
                   Transfer(a, b, amount, k)
              \/ \E dest \in Addresses : CloseAccount(a, dest, k, cpi)
<1>1. /\ TypeOK /\ lamports[a] \in Nat /\ a \in Addresses
      /\ \A k \in Keys : k \in Addresses /\ k # a
      /\ lamports \in [Addresses -> Nat]
  BY StateFacts, AddressFacts, NativeAssumption DEF NativeInv, LamportsConserved
<1>2. ASSUME lamports'[a] \in Nat /\ lamports'[a] >= lamports[a] PROVE FALSE
  BY <1>1, <1>2
<1>3. ASSUME UNCHANGED lamports PROVE FALSE
  BY <1>1, <1>2, <1>3
<1>4. ASSUME Outside \/ \E k \in Keys : Opening(k) PROVE FALSE
  <2>1. ASSUME NEW from \in Keys, NEW to \in Addresses, NEW x \in 1 .. lamports[from],
               SystemTransfer(from, to, x)
        PROVE  FALSE
    <3>1. x \in 0 .. lamports[from] /\ lamports' = Pay(from, to, x)
      BY <1>1, <2>1 DEF SystemTransfer
    <3> QED
      BY <1>1, <1>2, <3>1, PaidElsewhere
  <2>2. ASSUME NEW k \in Keys, CreateNativeMint(k) PROVE FALSE
    <3> DEFINE short == minimum_balance(1) - lamports[NativeMint]
               diff == IF short > 0 THEN short ELSE 0
    <3>1. lamports' = Pay(k, NativeMint, diff) /\ diff <= lamports[k]
      BY <2>2 DEF CreateNativeMint
    <3>2. lamports[NativeMint] \in Nat /\ minimum_balance(1) \in Int /\ lamports[k] \in Nat
      BY <1>1, StateFacts, AddressFacts
    <3>3. diff \in Nat
      BY <3>2
    <3> HIDE DEF diff
    <3>4. diff \in 0 .. lamports[k]
      BY <3>1, <3>2, <3>3
    <3> QED
      BY <1>1, <1>2, <3>1, <3>4, AddressFacts, PaidElsewhere
  <2> QED
    BY <1>3, <1>4, <2>1, <2>2 DEF Outside, Opening, RentChanges, InitializeAccount
<1>5. ASSUME NEW k \in Keys, NEW cpi \in BOOLEAN, tx' = [signer |-> k, cpi |-> cpi], Moving(k)
      PROVE  Goal
  <2>1. ASSUME NEW b \in Accounts, NEW c \in Accounts, NEW amount \in 0 .. accounts[b].amount,
               Transfer(b, c, amount, k)
        PROVE  Goal
    <3>1. CASE b = a
      BY <1>5, <2>1, <3>1
    <3>2. CASE b # a
      <4>1. lamports' = Pay(b, c, amount) /\ accounts[b].is_native # None /\ accounts[b].live
        BY <2>1 DEF Transfer, is_native, Live
      <4>2. lamports[b] >= accounts[b].is_native + accounts[b].amount
        BY <4>1 DEF NativeInv, NativeBacked, Live, is_native
      <4>3. /\ accounts[b].amount \in Nat /\ accounts[b].is_native \in Nat
            /\ lamports[b] \in Nat
        BY <1>1, <4>1, StateFacts DEF is_native
      <4>4. amount \in 0 .. lamports[b]
        BY <4>2, <4>3
      <4> QED
        BY <1>1, <1>2, <3>2, <4>1, <4>4, AddressFacts, PaidElsewhere
    <3> QED
      BY <3>1, <3>2
  <2>2. ASSUME NEW b \in Accounts, NEW dest \in Addresses, WithdrawExcessFromAccount(b, dest, k)
        PROVE  FALSE
    <3> DEFINE x == lamports[b] - minimum_balance(accounts[b].size)
    <3>1. lamports' = Pay(b, dest, x) /\ x >= 0 /\ b # a
      BY <2>2 DEF WithdrawExcessFromAccount
    <3>2. minimum_balance(accounts[b].size) \in Nat /\ lamports[b] \in Nat
      BY <1>1, StateFacts
    <3>3. x \in 0 .. lamports[b]
      BY <3>1, <3>2
    <3> HIDE DEF x
    <3> QED
      BY <1>1, <1>2, <3>1, <3>3, AddressFacts, PaidElsewhere
  <2>3. ASSUME NEW dest \in Addresses, WithdrawExcessFromMint(dest) PROVE FALSE
    <3> DEFINE x == lamports[PlainMint] - minimum_balance(1)
    <3>1. lamports' = Pay(PlainMint, dest, x) /\ x >= 0
      BY <2>3 DEF WithdrawExcessFromMint
    <3>2. lamports[PlainMint] \in Nat /\ minimum_balance(1) \in Nat
      BY <1>1, StateFacts, AddressFacts
    <3>3. x \in 0 .. lamports[PlainMint]
      BY <3>1, <3>2
    <3> HIDE DEF x
    <3>4. PlainMint \in Addresses /\ PlainMint # a
      BY AddressFacts, NativeAssumption
    <3> QED
      BY <1>1, <1>2, <3>1, <3>3, <3>4, PaidElsewhere
  <2>4. ASSUME NEW b \in Accounts, NEW amount, SyncNative(b) \/ ChangeBalance(b, amount)
        PROVE  FALSE
    BY <1>3, <2>4 DEF SyncNative, ChangeBalance
  <2> HIDE DEF Goal
  <2> QED
    BY <1>5, <2>1, <2>2, <2>3, <2>4 DEF Moving
<1>6. ASSUME NEW k \in Keys, NEW cpi \in BOOLEAN, tx' = [signer |-> k, cpi |-> cpi],
             Governing(k, cpi)
      PROVE  Goal
  <2>1. ASSUME NEW b \in Accounts, NEW size \in Sizes, NEW payer \in Keys,
               Reallocate(b, size, payer, k)
        PROVE  FALSE
    BY <1>1, <1>2, <2>1, ReallocatePays
  <2>2. ASSUME NEW b \in Accounts, NEW dest \in Addresses, CloseAccount(b, dest, k, cpi)
        PROVE  Goal
    <3>1. CASE b = a
      BY <1>6, <2>2, <3>1
    <3>2. CASE b # a
      <4>1. lamports' = [lamports EXCEPT ![dest] = @ + lamports[b], ![b] = 0]
        BY <2>2 DEF CloseAccount
      <4>2. lamports'[a] \in {lamports[a], lamports[a] + lamports[b]} /\ lamports[b] \in Nat
        BY <1>1, <3>2, <4>1, StateFacts
      <4> QED
        BY <1>1, <1>2, <4>2
    <3> QED
      BY <3>1, <3>2
  <2>3. ASSUME NEW b \in Accounts, NEW new, NEW lock,
               \/ SetAccountOwner(b, new, k) \/ SetCloseAuthority(b, new, k, cpi)
               \/ ToggleCpiGuard(b, lock, k)
        PROVE  FALSE
    BY <1>3, <2>3 DEF SetAccountOwner, SetCloseAuthority, ToggleCpiGuard
  <2> HIDE DEF Goal
  <2> QED
    BY <1>6, <2>1, <2>2, <2>3 DEF Governing
<1> HIDE DEF Goal
<1>7. Goal
  BY <1>4, <1>5, <1>6 DEF Next
<1> QED
  BY <1>7 DEF Goal

(***************************************************************************)
(* Wrapped lamports leave a native account by the owner's transfer, or     *)
(* when it is closed: by its owner or a close authority the present owner  *)
(* named, to the owner under a locked CPI guard, or to the incinerator     *)
(* (process_transfer, process_close_account, process_set_authority).       *)
(***************************************************************************)
THEOREM WrappedLeaves == Spec => WrappedLeavesByRight
<1>1. ASSUME NativeInv, Next, NEW a \in Accounts PROVE LeavesByRight(a)
  <2>1. SUFFICES ASSUME Live(a), is_native(a), lamports'[a] < lamports[a]
                 PROVE  LeavesByRight(a)
    BY DEF LeavesByRight
  <2>2. PICK k \in Keys, cpi \in BOOLEAN :
          /\ tx' = [signer |-> k, cpi |-> cpi]
          /\ \/ \E b \in Accounts : \E amount \in 0 .. accounts[a].amount :
                  Transfer(a, b, amount, k)
             \/ \E dest \in Addresses : CloseAccount(a, dest, k, cpi)
    BY <1>1, <2>1, LossCause
  <2>3. tx'.signer = k /\ tx'.cpi = cpi
    BY <2>2
  <2>4. /\ TypeOK /\ lamports \in [Addresses -> Nat] /\ a \in Addresses
        /\ accounts \in [Accounts -> AccountState] /\ accounts[a] \in AccountState
        /\ accounts[a].amount \in Nat /\ lamports[a] \in Nat
    BY <1>1, StateFacts DEF NativeInv, LamportsConserved
  <2>5. ASSUME NEW b \in Accounts, NEW amount \in 0 .. accounts[a].amount,
               Transfer(a, b, amount, k)
        PROVE  LeavesByRight(a)
    <3>1. /\ a # b /\ k = accounts[a].owner /\ accounts[a].live
          /\ lamports' = Pay(a, b, amount)
          /\ accounts' = [accounts EXCEPT ![a].amount = @ - amount, ![b].amount = @ + amount]
      BY <2>5 DEF Transfer, Live
    <3>2. /\ accounts'[a].amount = accounts[a].amount - amount
          /\ accounts'[a].live = accounts[a].live
      BY <2>4, <3>1 DEF AccountState
    <3>3. lamports'[a] = lamports[a] - amount
      BY <2>4, <3>1, AddressFacts DEF Pay
    <3>4. accounts[a].amount - accounts'[a].amount = lamports[a] - lamports'[a]
      BY <2>4, <3>2, <3>3
    <3> QED
      BY <2>3, <3>1, <3>2, <3>4 DEF LeavesByRight, Live
  <2>6. ASSUME NEW dest \in Addresses, CloseAccount(a, dest, k, cpi)
        PROVE  LeavesByRight(a)
    <3>1. /\ a # dest /\ MayClose(a, dest, k, cpi)
          /\ lamports' = [lamports EXCEPT ![dest] = @ + lamports[a], ![a] = 0]
          /\ accounts' = [accounts EXCEPT ![a] = Deleted]
      BY <2>6 DEF CloseAccount
    <3>2. ~accounts'[a].live
      BY <2>4, <3>1 DEF Deleted
    <3>3. lamports'[dest] = lamports[dest] + lamports[a]
      BY <2>4, <3>1
    <3>4. accounts[a].close_authority # None => grantedUnder[a] = accounts[a].owner
      BY <1>1, <2>1 DEF NativeInv, NamedByOwner
    <3>5. CASE accounts[a].owner = Incinerator
      BY <3>1, <3>2, <3>3, <3>5
         DEF LeavesByRight, Live, MayClose, is_owned_by_system_program_or_incinerator
    <3>6. CASE accounts[a].owner # Incinerator
      BY <2>3, <3>1, <3>2, <3>3, <3>4, <3>6
         DEF LeavesByRight, Live, MayClose, is_owned_by_system_program_or_incinerator
    <3> QED
      BY <3>5, <3>6
  <2> QED
    BY <2>2, <2>5, <2>6
<1>2. NativeInv /\ [Next]_vars => [\A a \in Accounts : LeavesByRight(a)]_vars
  BY <1>1
<1> QED
  BY <1>2, NativeInvariant, PTL DEF Spec, WrappedLeavesByRight, LeavesByRight

=============================================================================
