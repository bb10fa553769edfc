--------------------- MODULE ConfidentialTransferProofs ---------------------
(***************************************************************************)
(* Proofs about ConfidentialTransfer, for any accounts, keys, rates and    *)
(* number of instructions in flight: no handler makes or loses a token, no *)
(* encrypted balance is overdrawn, pending balances stay within limits,    *)
(* fees are those in force, a spender knows what is left, and an owner     *)
(* whose ApplyPendingBalance raced a credit can tell.                      *)
(***************************************************************************)
EXTENDS ConfidentialTransfer, TotalsProofs

(***************************************************************************)
(* The inductive invariant.                                                *)
(*                                                                         *)
(* Of an account: what it holds in public and in ciphertexts is natural,   *)
(* though the two halves of a pending balance may not be (a fee leaves     *)
(* them half by half); pending halves are bounded by the counter and it by *)
(* the limit; what has not been configured is empty.                       *)
(***************************************************************************)
WideAccount ==
  [open : BOOLEAN, amount : Nat, frozen : BOOLEAN,
   configured : BOOLEAN, approved : BOOLEAN, key : Keys \cup {NoKey},
   lo : Ciphertexts, hi : Ciphertexts, available : Ciphertexts,
   decryptable : Nat, allow_confidential : BOOLEAN, allow_public : BOOLEAN,
   counter : Nat, limit : CreditLimits \cup {0}, expected : Nat,
   actual : Nat, withheld : Ciphertexts, public_withheld : Nat]

NatCiphertexts == [v : Nat, r : [Labels -> Nat]]

MaxHigh == High(MAXIMUM_DEPOSIT_TRANSFER_AMOUNT)

Sound(x) ==
  /\ x \in WideAccount
  /\ x.available.v \in Nat
  /\ LoHi(x.lo, x.hi).v \in Nat
  /\ x.withheld \in NatCiphertexts
  /\ x.counter <= x.limit
  /\ x.lo.v <= x.counter * (RADIX - 1)
  /\ x.hi.v <= x.counter * MaxHigh
  /\ x.configured => x.open
  /\ ~x.configured => closable(x) /\ fee_closable(x)
  /\ ~x.open => x.amount = 0 /\ x.public_withheld = 0

MintSound(m) ==
  /\ m \in MintState
  /\ m.withheld \in NatCiphertexts
  /\ ~m.initialized => m.withheld = Zeroed
  /\ ~m.has_fees => m.fee = NoFee
  /\ m.initialized => check_for_invalid_mint_extension_combinations(m)

(***************************************************************************)
(* Of an instruction in flight: what the client proved when it built it,   *)
(* which is about the ciphertexts in the instruction and remains true      *)
(* whatever happens to the accounts.                                       *)
(***************************************************************************)
Halves(n, lo, hi) == lo.v = Low(n) /\ hi.v = High(n)

Statement(d) ==
  /\ d.by \in Accounts \cup {"authority"}
  /\ d.op = "apply" =>
       d.by \in Accounts /\ d.expected \in Nat /\ d.decryptable \in Nat
  /\ d.op = "empty" => d.by \in Accounts /\ d.ciphertext.v = 0
  /\ d.op = "withdraw" =>
       /\ d.by \in Accounts
       /\ d.amount \in Nat
       /\ d.decryptable \in Nat /\ d.final.v = d.decryptable
  /\ d.op = "transfer" =>
       /\ d.by \in Accounts /\ d.to \in Accounts
       /\ d.lo \in Ciphertexts /\ d.hi \in Ciphertexts
       /\ d.fee_lo \in NatCiphertexts /\ d.fee_hi \in NatCiphertexts
       /\ \E n \in Amounts : /\ n <= MAXIMUM_DEPOSIT_TRANSFER_AMOUNT
                             /\ Halves(n, d.lo, d.hi)
                             /\ Halves(calculate_fee(d.rate, n), d.fee_lo, d.fee_hi)
       /\ d.rate \in Rates \cup {NoFee}
       /\ d.decryptable \in Nat /\ d.final.v = d.decryptable
  /\ d.op = "withheld" =>
       /\ d.to \in Accounts /\ d.from \in SUBSET Accounts
       /\ d.withheld.v \in Nat
       /\ d.moved \in NatCiphertexts /\ d.moved.v = d.withheld.v
       /\ d.decryptable \in Nat

AllSound(acc) == acc \in [Accounts -> WideAccount] /\ \A a \in Accounts : Sound(acc[a])

Sum(acc) == Total([a \in Accounts |-> Holdings(acc[a])], Accounts)

ConfInv ==
  /\ MintSound(mint)
  /\ AllSound(account)
  /\ ~mint.initialized => \A a \in Accounts : ~account[a].open
  /\ \A d \in drafts : Statement(d)
  /\ fresh \in 0 .. MaxFresh
  /\ switches \in 0 .. MaxSwitches
  /\ TokensConserved

-----------------------------------------------------------------------------
(***************************************************************************)
(* Ciphertexts and amounts.                                                *)
(***************************************************************************)
LEMMA NumberFacts ==
  /\ U64 \subseteq Nat
  /\ Supply \in U64
  /\ IsFiniteSet(Accounts)
  /\ RADIX \in Nat \ {0, 1}
  /\ MAXIMUM_DEPOSIT_TRANSFER_AMOUNT \in Nat /\ U32_MAX \in Nat
  /\ CreditLimits \cup {0} \subseteq Nat
BY FeeAssumption, ConfidentialAssumption, RadixAssumption DEF U64

LEMMA HalvesOfAmount ==
  ASSUME NEW n \in Nat
  PROVE  /\ Low(n) \in 0 .. RADIX - 1
         /\ High(n) \in Nat
         /\ Low(n) + RADIX * High(n) = n
         /\ n <= MAXIMUM_DEPOSIT_TRANSFER_AMOUNT => High(n) <= MaxHigh
         /\ MaxHigh \in Nat
<1>1. RADIX \in Nat \ {0} /\ MAXIMUM_DEPOSIT_TRANSFER_AMOUNT \in Nat
  BY NumberFacts
<1>2. /\ n \div RADIX \in Nat /\ n % RADIX \in 0 .. RADIX - 1
      /\ n = RADIX * (n \div RADIX) + (n % RADIX)
      /\ MAXIMUM_DEPOSIT_TRANSFER_AMOUNT \div RADIX \in Nat
  BY <1>1, Division
<1>3. n <= MAXIMUM_DEPOSIT_TRANSFER_AMOUNT
        => n \div RADIX <= MAXIMUM_DEPOSIT_TRANSFER_AMOUNT \div RADIX
  BY <1>1, DivisionMonotone
<1> QED
  BY <1>1, <1>2, <1>3 DEF Low, High, MaxHigh

LEMMA LargestHalves == RADIX - 1 \in Nat /\ MaxHigh \in Nat
<1>1. \A n \in Nat : MaxHigh \in Nat
  BY HalvesOfAmount
<1>2. MaxHigh \in Nat
  <2>1. 0 \in Nat
    OBVIOUS
  <2> QED
    BY <1>1, <2>1
<1> QED
  BY <1>2, NumberFacts

LEMMA AmountFacts == Amounts \subseteq U64 /\ Amounts \subseteq Nat
BY FeeAssumption, NumberFacts DEF Amounts, U64

LEMMA FeeBound ==
  ASSUME NEW f \in Rates \cup {NoFee}, NEW n \in U64
  PROVE  calculate_fee(f, n) \in 0 .. n
<1> DEFINE bps == f.transfer_fee_basis_points
           raw == ceil_div(n * bps, ONE_IN_BASIS_POINTS)
<1>1. bps \in 0 .. ONE_IN_BASIS_POINTS /\ f.maximum_fee \in Nat
  BY FeeAssumption, ConfidentialAssumption DEF NoFee
<1>2. n \in Nat /\ ONE_IN_BASIS_POINTS \in Nat \ {0}
  BY FeeAssumption, NumberFacts
<1> HIDE DEF bps
<1>3. raw \in 0 .. n
  BY <1>1, <1>2, CeilBound DEF ceil_div
<1>4. raw \in U64 /\ raw # NoAmount
  BY <1>2, <1>3, FeeAssumption DEF U64, NoAmount
<1>5. calculate_fee(f, n) \in {0, LesserOf(raw, f.maximum_fee)}
  BY <1>4 DEF calculate_fee, CheckedU64, bps
<1> HIDE DEF raw
<1> QED
  BY <1>1, <1>2, <1>3, <1>5 DEF LesserOf

LEMMA CiphertextFacts ==
  /\ Zeroed \in Ciphertexts /\ Zeroed.v = 0 /\ Zeroed \in NatCiphertexts
  /\ NatCiphertexts \subseteq Ciphertexts
  /\ \A c, d \in Ciphertexts :
       /\ Plus(c, d) \in Ciphertexts /\ Plus(c, d).v = c.v + d.v
       /\ Minus(c, d) \in Ciphertexts /\ Minus(c, d).v = c.v - d.v
       /\ LoHi(c, d) \in Ciphertexts /\ LoHi(c, d).v = c.v + RADIX * d.v
       /\ c.v \in Int
  /\ \A c, d \in NatCiphertexts :
       Plus(c, d) \in NatCiphertexts /\ LoHi(c, d) \in NatCiphertexts
  /\ \A c \in Ciphertexts, n \in Int :
       PlusAmount(c, n) \in Ciphertexts /\ PlusAmount(c, n).v = c.v + n
  /\ \A n \in Nat : \A l : Encrypt(n, l) \in NatCiphertexts /\ Encrypt(n, l).v = n
<1>1. RADIX \in Nat
  BY NumberFacts
<1>2. ASSUME NEW c \in Ciphertexts, NEW d \in Ciphertexts
      PROVE  /\ Plus(c, d) \in Ciphertexts /\ Plus(c, d).v = c.v + d.v
             /\ Minus(c, d) \in Ciphertexts /\ Minus(c, d).v = c.v - d.v
             /\ Times(RADIX, d) \in Ciphertexts /\ Times(RADIX, d).v = RADIX * d.v
             /\ c.v \in Int
  BY <1>1 DEF Plus, Minus, Times, Ciphertexts
<1>3. ASSUME NEW c \in Ciphertexts, NEW d \in Ciphertexts
      PROVE  LoHi(c, d) \in Ciphertexts /\ LoHi(c, d).v = c.v + RADIX * d.v
  <2>1. Times(RADIX, d) \in Ciphertexts /\ Times(RADIX, d).v = RADIX * d.v
    BY <1>2
  <2> QED
    BY <1>2, <2>1 DEF LoHi
<1>4. ASSUME NEW c \in NatCiphertexts, NEW d \in NatCiphertexts
      PROVE  /\ Plus(c, d) \in NatCiphertexts
             /\ Times(RADIX, d) \in NatCiphertexts
  BY <1>1 DEF Plus, Times, NatCiphertexts
<1>5. ASSUME NEW c \in NatCiphertexts, NEW d \in NatCiphertexts
      PROVE  LoHi(c, d) \in NatCiphertexts
  BY <1>4 DEF LoHi
<1>6. Zeroed \in Ciphertexts /\ Zeroed.v = 0 /\ Zeroed \in NatCiphertexts
  BY DEF Zeroed, Ciphertexts, NatCiphertexts
<1>7. NatCiphertexts \subseteq Ciphertexts
  BY DEF NatCiphertexts, Ciphertexts
<1>8. ASSUME NEW c \in Ciphertexts, NEW n \in Int
      PROVE  PlusAmount(c, n) \in Ciphertexts /\ PlusAmount(c, n).v = c.v + n
  BY DEF PlusAmount, Ciphertexts
<1>9. ASSUME NEW n \in Nat, NEW l
      PROVE  Encrypt(n, l) \in NatCiphertexts /\ Encrypt(n, l).v = n
  BY DEF Encrypt, NatCiphertexts
<1> QED
  BY <1>2, <1>3, <1>4, <1>5, <1>6, <1>7, <1>8, <1>9

-----------------------------------------------------------------------------
(***************************************************************************)
(* Accounts.                                                               *)
(***************************************************************************)
Pending(x) == LoHi(x.lo, x.hi)

LEMMA SoundFacts ==
  ASSUME NEW x, Sound(x)
  PROVE  /\ x \in WideAccount
         /\ x.lo \in Ciphertexts /\ x.hi \in Ciphertexts
         /\ x.available \in Ciphertexts /\ x.withheld \in Ciphertexts
         /\ x.withheld \in NatCiphertexts
         /\ x.lo.v \in Int /\ x.hi.v \in Int
         /\ x.available.v \in Nat /\ x.withheld.v \in Nat
         /\ Pending(x) \in Ciphertexts
         /\ Pending(x).v = x.lo.v + RADIX * x.hi.v /\ Pending(x).v \in Nat
         /\ x.amount \in Nat /\ x.public_withheld \in Nat
         /\ x.counter \in Nat /\ x.limit \in Nat
         /\ Holdings(x) \in Nat
         /\ Holdings(x) = x.amount + x.public_withheld + Pending(x).v
                            + x.available.v + x.withheld.v
<1>1. /\ x \in WideAccount
      /\ x.lo \in Ciphertexts /\ x.hi \in Ciphertexts
      /\ x.available \in Ciphertexts /\ x.withheld \in Ciphertexts
      /\ x.withheld \in NatCiphertexts
      /\ x.amount \in Nat /\ x.public_withheld \in Nat
      /\ x.counter \in Nat /\ x.limit \in Nat
  BY NumberFacts DEF Sound, WideAccount
<1>2. x.available.v \in Nat /\ Pending(x).v \in Nat
  BY DEF Sound, Pending
<1>3. /\ x.lo.v \in Int /\ x.hi.v \in Int
      /\ Pending(x) \in Ciphertexts /\ Pending(x).v = x.lo.v + RADIX * x.hi.v
  BY <1>1, CiphertextFacts DEF Pending
<1>4. x.withheld.v \in Nat
  BY <1>1 DEF NatCiphertexts
<1>5. Holdings(x) = x.amount + x.public_withheld + Pending(x).v
                      + x.available.v + x.withheld.v
  BY DEF Holdings, Pending
<1>6. Holdings(x) \in Nat
  BY <1>1, <1>2, <1>4, <1>5
<1> QED
  BY <1>1, <1>2, <1>3, <1>4, <1>5, <1>6

\* What is not open, or not configured, holds nothing there.
LEMMA EmptyHoldings ==
  ASSUME NEW x, Sound(x)
  PROVE  /\ ~x.configured => Holdings(x) = x.amount + x.public_withheld
         /\ ~x.open => Holdings(x) = 0
         /\ closable(x) /\ fee_closable(x) => Holdings(x) = x.amount + x.public_withheld
<1>1. Zeroed.v = 0 /\ Zeroed \in Ciphertexts /\ LoHi(Zeroed, Zeroed).v = 0
  <2>1. Zeroed.v = 0 /\ Zeroed \in Ciphertexts /\ RADIX \in Nat
    BY CiphertextFacts, NumberFacts
  <2>2. LoHi(Zeroed, Zeroed).v = Zeroed.v + RADIX * Zeroed.v
    BY <2>1, CiphertextFacts
  <2> QED
    BY <2>1, <2>2
<1>2. closable(x) /\ fee_closable(x) => Holdings(x) = x.amount + x.public_withheld
  BY <1>1, SoundFacts DEF closable, fee_closable, Pending
<1>3. /\ ~x.configured => closable(x) /\ fee_closable(x)
      /\ ~x.open => ~x.configured /\ x.amount = 0 /\ x.public_withheld = 0
  BY DEF Sound
<1> QED
  BY <1>2, <1>3

\* Without confidential amounts.
LEMMA BareSound ==
  ASSUME NEW x \in WideAccount, closable(x), fee_closable(x), x.counter = 0,
         x.configured => x.open,
         ~x.open => x.amount = 0 /\ x.public_withheld = 0
  PROVE  Sound(x) /\ Holdings(x) = x.amount + x.public_withheld
<1>1. Zeroed.v = 0 /\ Zeroed \in Ciphertexts /\ Zeroed \in NatCiphertexts /\ RADIX \in Nat
  BY CiphertextFacts, NumberFacts
<1>2. LoHi(Zeroed, Zeroed).v = Zeroed.v + RADIX * Zeroed.v
  BY <1>1, CiphertextFacts
<1>3. MaxHigh \in Nat /\ RADIX - 1 \in Nat /\ x.limit \in Nat
  <2>1. MaxHigh \in Nat
    BY HalvesOfAmount, NumberFacts
  <2>2. x.limit \in Nat
    BY NumberFacts DEF WideAccount
  <2> QED
    BY <2>1, <2>2, NumberFacts
<1>4. 0 * MaxHigh = 0 /\ 0 * (RADIX - 1) = 0 /\ RADIX * 0 = 0
  BY <1>1, <1>3
<1>5. Sound(x)
  BY <1>1, <1>2, <1>3, <1>4 DEF Sound, closable, fee_closable
<1> QED
  BY <1>5, EmptyHoldings

LEMMA FreshSound == Sound(Fresh) /\ Holdings(Fresh) = 0
<1>1. Fresh \in WideAccount
  BY CiphertextFacts DEF Fresh, WideAccount
<1>2. closable(Fresh) /\ fee_closable(Fresh)
  BY DEF Fresh, closable, fee_closable
<1> QED
  BY <1>1, <1>2, BareSound DEF Fresh

\* What leaves the confidential amounts and the credits alone.
LEMMA KeptSound ==
  ASSUME NEW x, Sound(x), NEW y \in WideAccount,
         y.lo = x.lo, y.hi = x.hi, y.available = x.available, y.withheld = x.withheld,
         y.counter = x.counter, y.limit = x.limit,
         y.open = x.open, y.configured = x.configured,
         ~x.open => y.amount = x.amount /\ y.public_withheld = x.public_withheld
  PROVE  /\ Sound(y)
         /\ Holdings(y) = Holdings(x) - x.amount - x.public_withheld
                            + y.amount + y.public_withheld
<1>1. Sound(y)
  BY DEF Sound, closable, fee_closable
<1>2. Pending(y) = Pending(x)
  BY DEF Pending
<1> QED
  BY <1>1, <1>2, SoundFacts

LEMMA SumType ==
  ASSUME NEW acc, AllSound(acc)
  PROVE  Sum(acc) \in Nat
<1> DEFINE f == [a \in Accounts |-> Holdings(acc[a])]
<1>1. \A a \in Accounts : f[a] \in Nat
  BY SoundFacts DEF AllSound
<1> HIDE DEF f
<1>2. Total(f, Accounts) \in Nat
  BY <1>1, NumberFacts, TotalType
<1> QED
  BY <1>2 DEF Sum, f

LEMMA Replace ==
  ASSUME NEW acc, AllSound(acc), NEW b \in Accounts, NEW y, Sound(y)
  PROVE  /\ AllSound([acc EXCEPT ![b] = y])
         /\ Sum([acc EXCEPT ![b] = y]) = Sum(acc) - Holdings(acc[b]) + Holdings(y)
         /\ Sum(acc) \in Nat /\ Holdings(acc[b]) \in Nat /\ Holdings(y) \in Nat
<1> DEFINE new == [acc EXCEPT ![b] = y]
           f == [a \in Accounts |-> Holdings(acc[a])]
           g == [a \in Accounts |-> Holdings(new[a])]
<1>1. acc \in [Accounts -> WideAccount] /\ \A a \in Accounts : Sound(acc[a])
  BY DEF AllSound
<1>2. y \in WideAccount
  BY DEF Sound
<1>3. /\ new \in [Accounts -> WideAccount]
      /\ new[b] = y
      /\ \A a \in Accounts \ {b} : new[a] = acc[a]
  BY <1>1, <1>2
<1> HIDE DEF new
<1>4. \A a \in Accounts : Sound(new[a])
  BY <1>1, <1>3
<1>5. AllSound(new)
  BY <1>3, <1>4 DEF AllSound
<1>6. /\ \A a \in Accounts : f[a] \in Nat /\ g[a] \in Nat
      /\ \A a \in Accounts \ {b} : g[a] = f[a]
      /\ f[b] = Holdings(acc[b]) /\ g[b] = Holdings(y)
  BY <1>1, <1>3, <1>4, SoundFacts
<1>7. Sum(acc) = Total(f, Accounts) /\ Sum(new) = Total(g, Accounts)
  BY DEF Sum
<1> HIDE DEF f, g
<1>8. Total(g, Accounts) = Total(f, Accounts) - f[b] + g[b]
  BY <1>6, NumberFacts, TotalUpdate
<1>9. Total(f, Accounts) \in Nat
  BY <1>6, NumberFacts, TotalType
<1> QED
  BY <1>5, <1>6, <1>7, <1>8, <1>9 DEF new

-----------------------------------------------------------------------------
(***************************************************************************)
(* The initial state, and the ways a step can go.                          *)
(***************************************************************************)
LEMMA ConservedSum ==
  /\ TokensConserved <=> Sum(account) + mint.withheld.v = mint.minted
  /\ TokensConserved' <=> Sum(account') + mint'.withheld.v = mint'.minted
BY DEF TokensConserved, Sum

LEMMA MintFacts ==
  ASSUME NEW m, MintSound(m)
  PROVE  /\ m \in MintState
         /\ m.withheld \in NatCiphertexts /\ m.withheld \in Ciphertexts
         /\ m.withheld.v \in Nat
         /\ m.minted \in Nat /\ m.minted <= Supply
         /\ m.fee \in Rates \cup {NoFee}
<1>1. m \in MintState /\ m.withheld \in NatCiphertexts
  BY DEF MintSound
<1>2. Supply \in Nat
  BY NumberFacts
<1> QED
  BY <1>1, <1>2, CiphertextFacts DEF MintState, NatCiphertexts

LEMMA InitConfInv == Init => ConfInv
<1> SUFFICES ASSUME Init PROVE ConfInv
  OBVIOUS
<1>1. MintSound(mint)
  <2>1. NoMint \in MintState
    BY CiphertextFacts, NumberFacts DEF NoMint, MintState
  <2>2. NoMint.withheld \in NatCiphertexts
    BY CiphertextFacts DEF NoMint
  <2> QED
    BY <2>1, <2>2 DEF Init, MintSound, NoMint
<1>2. AllSound(account)
  BY FreshSound DEF Init, AllSound, Sound
<1>3. TokensConserved
  <2> DEFINE f == [a \in Accounts |-> Holdings(account[a])]
  <2>1. \A a \in Accounts : f[a] = 0
    BY FreshSound DEF Init
  <2> HIDE DEF f
  <2>2. Total(f, Accounts) = 0
    BY <2>1, TotalZero
  <2>3. mint.withheld.v = 0 /\ mint.minted = 0
    BY CiphertextFacts DEF Init, NoMint
  <2> QED
    BY <2>2, <2>3 DEF TokensConserved, f
<1>4. \A a \in Accounts : ~account[a].open
  BY DEF Init, Fresh
<1> QED
  BY <1>1, <1>2, <1>3, <1>4, ConfidentialAssumption DEF Init, ConfInv

LEMMA SwitchType ==
  ASSUME switches \in 0 .. MaxSwitches, NEW what, Switch(what)
  PROVE  switches' \in 0 .. MaxSwitches
BY ConfidentialAssumption DEF Switch

\* Another mint, with the same tokens and withheld fees.
LEMMA MintChange ==
  ASSUME ConfInv, UNCHANGED account, drafts' \subseteq drafts,
         fresh' \in 0 .. MaxFresh, switches' \in 0 .. MaxSwitches,
         MintSound(mint'), mint.initialized => mint'.initialized,
         mint'.minted = mint.minted, mint'.withheld.v = mint.withheld.v
  PROVE  ConfInv'
<1>1. AllSound(account') /\ (~mint'.initialized => \A a \in Accounts : ~account'[a].open)
  BY DEF ConfInv
<1>2. TokensConserved'
  BY ConservedSum DEF ConfInv
<1>3. \A d \in drafts' : Statement(d)
  BY DEF ConfInv
<1> QED
  BY <1>1, <1>2, <1>3 DEF ConfInv, AllSound, MintSound, Statement

\* Other accounts that add up with the mint as before.
LEMMA StateChange ==
  ASSUME ConfInv, AllSound(account'),
         \A a \in Accounts : account'[a].open => mint.initialized,
         drafts' \subseteq drafts,
         fresh' \in 0 .. MaxFresh, switches' \in 0 .. MaxSwitches,
         MintSound(mint'), mint'.initialized = mint.initialized,
         mint'.minted - mint'.withheld.v - Sum(account')
           = mint.minted - mint.withheld.v - Sum(account)
  PROVE  ConfInv'
<1>1. TokensConserved'
  <2>1. /\ mint.minted \in Nat /\ mint.withheld.v \in Nat
        /\ mint'.minted \in Nat /\ mint'.withheld.v \in Nat
    BY MintFacts DEF ConfInv
  <2>2. Sum(account) + mint.withheld.v = mint.minted
    BY ConservedSum DEF ConfInv
  <2>3. Sum(account) \in Nat /\ Sum(account') \in Nat
    BY SumType DEF ConfInv
  <2>4. Sum(account') + mint'.withheld.v = mint'.minted
    BY <2>1, <2>2, <2>3
  <2> QED
    BY <2>4, ConservedSum
<1>2. \A d \in drafts' : Statement(d)
  BY DEF ConfInv
<1> QED
  BY <1>1, <1>2 DEF ConfInv, AllSound, MintSound, Statement

\* Another account b.
LEMMA AccountChange ==
  ASSUME ConfInv, NEW b \in Accounts, NEW y, Sound(y),
         account' = [account EXCEPT ![b] = y], y.open => mint.initialized,
         drafts' \subseteq drafts,
         fresh' \in 0 .. MaxFresh, switches' \in 0 .. MaxSwitches,
         MintSound(mint'), mint'.initialized = mint.initialized,
         mint'.minted - mint'.withheld.v - Holdings(y)
           = mint.minted - mint.withheld.v - Holdings(account[b])
  PROVE  ConfInv'
<1>1. AllSound(account) /\ \A a \in Accounts : account[a].open => mint.initialized
  BY DEF ConfInv
<1>2. /\ AllSound(account')
      /\ Sum(account') = Sum(account) - Holdings(account[b]) + Holdings(y)
      /\ Sum(account) \in Nat /\ Holdings(account[b]) \in Nat /\ Holdings(y) \in Nat
  BY <1>1, Replace
<1>3. Sum(account') \in Nat
  BY <1>2, SumType
<1>4. \A a \in Accounts : account'[a].open => mint.initialized
  BY <1>1 DEF AllSound
<1>5. /\ mint.minted \in Nat /\ mint.withheld.v \in Nat
      /\ mint'.minted \in Nat /\ mint'.withheld.v \in Nat
  BY MintFacts DEF ConfInv
<1>6. mint'.minted - mint'.withheld.v - Sum(account')
        = mint.minted - mint.withheld.v - Sum(account)
  BY <1>2, <1>5
<1> QED
  BY <1>2, <1>4, <1>6, StateChange

LEMMA Drafting ==
  ASSUME ConfInv, NEW d, Statement(d), NEW n \in Nat, Drafts(d, n)
  PROVE  ConfInv'
<1>1. /\ drafts' = drafts \cup {d}
      /\ fresh' \in 0 .. MaxFresh
      /\ UNCHANGED <<mint, account, switches>>
  BY ConfidentialAssumption DEF Drafts, ConfInv
<1>2. \A e \in drafts' : Statement(e)
  BY <1>1 DEF ConfInv
<1>3. TokensConserved'
  BY <1>1, ConservedSum DEF ConfInv
<1> QED
  BY <1>1, <1>2, <1>3 DEF ConfInv, AllSound, MintSound, Statement

\* An instruction in flight is executed.
LEMMA ExecutionFacts ==
  ASSUME ConfInv, NEW d, Executes(d)
  PROVE  /\ Statement(d)
         /\ drafts' \subseteq drafts /\ UNCHANGED <<fresh, switches>>
         /\ fresh' \in 0 .. MaxFresh /\ switches' \in 0 .. MaxSwitches
BY DEF ConfInv, Executes

LEMMA StateFacts ==
  ASSUME ConfInv, NEW a \in Accounts
  PROVE  /\ Sound(account[a])
         /\ account \in [Accounts -> WideAccount] /\ account[a] \in WideAccount
         /\ account[a].open => mint.initialized
         /\ account[a].configured => account[a].open
         /\ MintSound(mint)
BY DEF ConfInv, AllSound, Sound

-----------------------------------------------------------------------------
(***************************************************************************)
(* Every instruction keeps the invariant.  First those on the mint.        *)
(***************************************************************************)
MintActions ==
  \/ \E auto \in AutoApprovals, key \in Auditors :
       InitializeConfidentialMint(auto, key) \/ UpdateMint(auto, key)
  \/ \E key \in Keys : InitializeConfidentialTransferFeeConfig(key)
  \/ \E fee \in Rates : InitializeTransferFeeConfig(fee) \/ ChangeFee(fee)
  \/ InitializeMint
  \/ \E which \in {"authority", "fee_authority"} : RenounceAuthority(which)
  \/ \E enabled \in BOOLEAN : SetHarvestToMint(enabled)

LEMMA MintActionsConfInv == ConfInv /\ MintActions => ConfInv'
<1> SUFFICES ASSUME ConfInv, MintActions PROVE ConfInv'
  OBVIOUS
<1>1. /\ MintSound(mint) /\ mint \in MintState
      /\ mint.withheld \in NatCiphertexts
      /\ fresh \in 0 .. MaxFresh /\ switches \in 0 .. MaxSwitches
  BY MintFacts DEF ConfInv
<1>2. /\ UNCHANGED <<account, drafts, fresh>>
      /\ switches' \in 0 .. MaxSwitches
  BY <1>1, SwitchType
     DEF MintActions, InitializeConfidentialMint, UpdateMint, InitializeTransferFeeConfig,
         InitializeConfidentialTransferFeeConfig, ChangeFee, InitializeMint,
         RenounceAuthority, SetHarvestToMint
<1> DEFINE Goal == /\ MintSound(mint')
                   /\ mint.initialized => mint'.initialized
                   /\ mint'.minted = mint.minted
                   /\ mint'.withheld.v = mint.withheld.v
<1>3. ASSUME NEW auto \in AutoApprovals, NEW key \in Auditors,
             InitializeConfidentialMint(auto, key) \/ UpdateMint(auto, key)
      PROVE  Goal
  <2>1. auto \in BOOLEAN /\ key \in Keys \cup {NoKey}
    BY ConfidentialAssumption
  <2>2. mint' \in MintState
    BY <1>1, <1>3, <2>1 DEF InitializeConfidentialMint, UpdateMint, MintState
  <2>3. /\ mint'.initialized = mint.initialized /\ mint'.minted = mint.minted
        /\ mint'.withheld = mint.withheld /\ mint'.fee = mint.fee
        /\ mint'.has_fees = mint.has_fees
        /\ mint.initialized =>
             /\ mint'.confidential = mint.confidential
             /\ mint'.confidential_fee = mint.confidential_fee
    BY <1>1, <1>3 DEF InitializeConfidentialMint, UpdateMint, MintState
  <2> QED
    BY <1>1, <2>2, <2>3 DEF MintSound, check_for_invalid_mint_extension_combinations
<1>4. ASSUME NEW key \in Keys, InitializeConfidentialTransferFeeConfig(key)
      PROVE  Goal
  <2>1. mint' \in MintState
    BY <1>1, <1>4, CiphertextFacts DEF InitializeConfidentialTransferFeeConfig, MintState
  <2>2. /\ ~mint.initialized /\ ~mint'.initialized /\ mint'.minted = mint.minted
        /\ mint'.withheld = Zeroed
        /\ mint'.has_fees = mint.has_fees /\ mint'.fee = mint.fee
    BY <1>1, <1>4 DEF InitializeConfidentialTransferFeeConfig, MintState
  <2>3. mint.withheld = Zeroed
    BY <1>1, <2>2 DEF MintSound
  <2> QED
    BY <1>1, <2>1, <2>2, <2>3, CiphertextFacts DEF MintSound
<1>5. ASSUME NEW fee \in Rates, InitializeTransferFeeConfig(fee)
      PROVE  Goal
  <2>1. mint' \in MintState
    BY <1>1, <1>5 DEF InitializeTransferFeeConfig, MintState
  <2>2. /\ ~mint.initialized /\ ~mint'.initialized /\ mint'.minted = mint.minted
        /\ mint'.withheld = mint.withheld /\ mint'.has_fees
    BY <1>1, <1>5 DEF InitializeTransferFeeConfig, MintState
  <2> QED
    BY <1>1, <2>1, <2>2 DEF MintSound
<1>6. ASSUME InitializeMint PROVE Goal
  <2>1. mint' \in MintState
    BY <1>1, <1>6 DEF InitializeMint, MintState
  <2>2. /\ mint'.initialized /\ mint'.minted = mint.minted
        /\ mint'.withheld = mint.withheld
        /\ mint'.has_fees = mint.has_fees /\ mint'.fee = mint.fee
        /\ check_for_invalid_mint_extension_combinations(mint')
    BY <1>1, <1>6
       DEF InitializeMint, MintState, check_for_invalid_mint_extension_combinations
  <2>3. MintSound(mint')
    BY <1>1, <2>1, <2>2 DEF MintSound, check_for_invalid_mint_extension_combinations
  <2> QED
    BY <2>2, <2>3
<1>7. ASSUME \/ \E fee \in Rates : ChangeFee(fee)
             \/ \E which \in {"authority", "fee_authority"} : RenounceAuthority(which)
             \/ \E enabled \in BOOLEAN : SetHarvestToMint(enabled)
      PROVE  Goal
  <2>1. mint' \in MintState
    <3>1. CASE \E fee \in Rates : ChangeFee(fee)
      BY <1>1, <3>1 DEF ChangeFee, MintState
    <3>2. CASE RenounceAuthority("authority")
      BY <1>1, <3>2 DEF RenounceAuthority, MintState
    <3>3. CASE RenounceAuthority("fee_authority")
      BY <1>1, <3>3 DEF RenounceAuthority, MintState
    <3>4. CASE \E enabled \in BOOLEAN : SetHarvestToMint(enabled)
      BY <1>1, <3>4 DEF SetHarvestToMint, MintState
    <3> QED
      BY <1>7, <3>1, <3>2, <3>3, <3>4
  <2>2. /\ mint'.initialized /\ mint.initialized /\ mint'.minted = mint.minted
        /\ mint'.withheld = mint.withheld
        /\ mint'.confidential = mint.confidential
        /\ mint'.confidential_fee = mint.confidential_fee
        /\ mint'.has_fees = mint.has_fees
        /\ ~mint.has_fees => mint'.fee = mint.fee
    BY <1>1, <1>7 DEF ChangeFee, RenounceAuthority, SetHarvestToMint, MintState
  <2> QED
    BY <1>1, <2>1, <2>2 DEF MintSound, check_for_invalid_mint_extension_combinations
<1> HIDE DEF Goal
<1>8. Goal
  BY <1>3, <1>4, <1>5, <1>6, <1>7 DEF MintActions
<1> QED
  BY <1>1, <1>2, <1>8, MintChange DEF Goal

-----------------------------------------------------------------------------
(***************************************************************************)
(* Instructions on accounts that no client has to prove anything for.      *)
(***************************************************************************)
LEMMA InitializeAccountConfInv ==
  ASSUME ConfInv, NEW a \in Accounts, InitializeAccount(a)
  PROVE  ConfInv'
<1> DEFINE y == [Fresh EXCEPT !.open = TRUE]
<1>1. y \in WideAccount
  <2>1. Fresh \in WideAccount
    BY FreshSound DEF Sound
  <2> QED
    BY <2>1 DEF WideAccount
<1>2. /\ closable(y) /\ fee_closable(y) /\ y.counter = 0 /\ y.open /\ ~y.configured
      /\ y.amount = 0 /\ y.public_withheld = 0
  BY DEF Fresh, closable, fee_closable
<1>3. account' = [account EXCEPT ![a] = y] /\ ~account[a].open /\ mint.initialized
  BY DEF InitializeAccount
<1>4. UNCHANGED <<mint, drafts, fresh, switches>>
  BY DEF InitializeAccount
<1> HIDE DEF y
<1>5. Sound(y) /\ Holdings(y) = 0
  BY <1>1, <1>2, BareSound
<1>6. Holdings(account[a]) = 0
  BY <1>3, StateFacts, EmptyHoldings
<1>7. MintSound(mint) /\ fresh \in 0 .. MaxFresh /\ switches \in 0 .. MaxSwitches
  BY DEF ConfInv
<1> QED
  BY <1>3, <1>4, <1>5, <1>6, <1>7, AccountChange

LEMMA CloseAccountConfInv ==
  ASSUME ConfInv, NEW a \in Accounts, CloseAccount(a)
  PROVE  ConfInv'
<1>1. account' = [account EXCEPT ![a] = Fresh] /\ ~Fresh.open
  BY DEF CloseAccount, Fresh
<1>2. UNCHANGED <<mint, drafts, fresh, switches>>
  BY DEF CloseAccount
<1>3. Holdings(account[a]) = 0
  BY StateFacts, EmptyHoldings, SoundFacts DEF CloseAccount
<1>4. MintSound(mint) /\ fresh \in 0 .. MaxFresh /\ switches \in 0 .. MaxSwitches
  BY DEF ConfInv
<1> QED
  BY <1>1, <1>2, <1>3, <1>4, FreshSound, AccountChange

LEMMA MintToConfInv ==
  ASSUME ConfInv, NEW a \in Accounts, NEW n \in Amounts, MintTo(a, n)
  PROVE  ConfInv'
<1> DEFINE x == account[a]
           y == [account[a] EXCEPT !.amount = @ + n]
<1>1. n \in Nat /\ mint \in MintState /\ MintSound(mint) /\ mint.minted \in Nat
  BY NumberFacts, MintFacts DEF Amounts, ConfInv
<1>2. Sound(x) /\ x.amount \in Nat /\ x \in WideAccount /\ x.open /\ mint.initialized
  BY StateFacts, SoundFacts DEF MintTo
<1>3. y \in WideAccount
  BY <1>1, <1>2 DEF WideAccount
<1>4. /\ y.lo = x.lo /\ y.hi = x.hi /\ y.available = x.available /\ y.withheld = x.withheld
      /\ y.counter = x.counter /\ y.limit = x.limit
      /\ y.open = x.open /\ y.configured = x.configured
      /\ y.amount = x.amount + n /\ y.public_withheld = x.public_withheld
  BY <1>2 DEF WideAccount
<1>5. account' = [account EXCEPT ![a] = y]
  BY DEF MintTo
<1>6. /\ mint' \in MintState /\ mint'.minted = mint.minted + n
      /\ mint'.initialized = mint.initialized /\ mint'.withheld = mint.withheld
      /\ mint'.confidential = mint.confidential
      /\ mint'.confidential_fee = mint.confidential_fee
      /\ mint'.has_fees = mint.has_fees /\ mint'.fee = mint.fee
  BY <1>1, NumberFacts DEF MintTo, MintState
<1>7. MintSound(mint')
  BY <1>1, <1>6 DEF MintSound, check_for_invalid_mint_extension_combinations
<1> HIDE DEF x, y
<1>8. /\ Sound(y)
      /\ Holdings(y) = Holdings(x) - x.amount - x.public_withheld
                         + y.amount + y.public_withheld
  BY <1>2, <1>3, <1>4, KeptSound
<1>9. Holdings(y) = Holdings(x) + n
  BY <1>1, <1>2, <1>4, <1>8, SoundFacts
<1>10. /\ drafts' = drafts /\ fresh' \in 0 .. MaxFresh /\ switches' \in 0 .. MaxSwitches
  BY DEF MintTo, ConfInv
<1>11. Holdings(x) \in Nat /\ mint.withheld.v \in Nat
  BY <1>1, <1>2, SoundFacts, MintFacts
<1>12. mint'.minted - mint'.withheld.v - Holdings(y)
          = mint.minted - mint.withheld.v - Holdings(account[a])
  BY <1>1, <1>6, <1>9, <1>11 DEF x
<1>13. Sound(y) /\ (y.open => mint.initialized)
  BY <1>2, <1>8
<1> QED
  BY <1>5, <1>6, <1>7, <1>10, <1>12, <1>13, AccountChange

\* Only flags and the public amount change.
LEMMA SettingConfInv ==
  ASSUME ConfInv, NEW a \in Accounts, NEW y \in WideAccount,
         account' = [account EXCEPT ![a] = y],
         y.lo = account[a].lo, y.hi = account[a].hi,
         y.available = account[a].available, y.withheld = account[a].withheld,
         y.counter = account[a].counter, y.limit = account[a].limit,
         y.open = account[a].open, y.configured = account[a].configured,
         y.amount = account[a].amount, y.public_withheld = account[a].public_withheld,
         UNCHANGED <<mint, drafts, fresh>>, switches' \in 0 .. MaxSwitches
  PROVE  ConfInv'
<1> DEFINE x == account[a]
<1>1. Sound(x) /\ (x.open => mint.initialized) /\ MintSound(mint)
  BY StateFacts
<1>2. /\ Sound(y)
      /\ Holdings(y) = Holdings(x) - x.amount - x.public_withheld
                         + y.amount + y.public_withheld
  BY <1>1, KeptSound
<1>3. Holdings(y) = Holdings(x)
  BY <1>1, <1>2, SoundFacts
<1>4. fresh \in 0 .. MaxFresh
  BY DEF ConfInv
<1> QED
  BY <1>1, <1>2, <1>3, <1>4, AccountChange

LEMMA SettingsConfInv ==
  ASSUME ConfInv, NEW a \in Accounts,
         \/ ToggleFreeze(a)
         \/ ApproveAccount(a)
         \/ \E which \in {"allow_confidential", "allow_public"}, allow \in BOOLEAN :
              AllowCredits(a, which, allow)
  PROVE  ConfInv'
<1>1. account \in [Accounts -> WideAccount] /\ account[a] \in WideAccount
  BY StateFacts
<1>2. UNCHANGED <<mint, drafts, fresh>> /\ switches' \in 0 .. MaxSwitches
  BY SwitchType DEF ToggleFreeze, ApproveAccount, AllowCredits, ConfInv
<1>3. CASE ToggleFreeze(a)
  <2> DEFINE y == [account[a] EXCEPT !.frozen = ~@]
  <2>1. y \in WideAccount /\ account' = [account EXCEPT ![a] = y]
    BY <1>1, <1>3 DEF ToggleFreeze, WideAccount
  <2> QED
    BY <1>1, <1>2, <2>1, SettingConfInv DEF WideAccount
<1>4. CASE ApproveAccount(a)
  <2> DEFINE y == [account[a] EXCEPT !.approved = TRUE]
  <2>1. y \in WideAccount /\ account' = [account EXCEPT ![a] = y]
    BY <1>1, <1>4 DEF ApproveAccount, WideAccount
  <2> QED
    BY <1>1, <1>2, <2>1, SettingConfInv DEF WideAccount
<1>5. ASSUME NEW which \in {"allow_confidential", "allow_public"}, NEW allow \in BOOLEAN,
             AllowCredits(a, which, allow)
      PROVE  ConfInv'
  <2> DEFINE y == [account[a] EXCEPT ![which] = allow]
  <2>1. y \in WideAccount /\ account' = [account EXCEPT ![a] = y]
    BY <1>1, <1>5 DEF AllowCredits, WideAccount
  <2>2. \A f \in {"lo", "hi", "available", "withheld", "counter", "limit", "open",
                  "configured", "amount", "public_withheld"} : y[f] = account[a][f]
    BY <1>1 DEF WideAccount
  <2> HIDE DEF y
  <2> QED
    BY <1>1, <1>2, <2>1, <2>2, SettingConfInv
<1> QED
  BY <1>3, <1>4, <1>5

LEMMA TransferConfInv ==
  ASSUME ConfInv, NEW a \in Accounts, NEW b \in Accounts, NEW n \in Amounts,
         Transfer(a, b, n)
  PROVE  ConfInv'
<1> DEFINE fee == calculate_fee(mint.fee, n)
           x == account[a]
           z == account[b]
           y == [x EXCEPT !.amount = @ - n]
           w == [z EXCEPT !.amount = @ + n - fee, !.public_withheld = @ + fee]
<1>1. /\ Sound(x) /\ Sound(z) /\ x \in WideAccount /\ z \in WideAccount
      /\ mint.initialized /\ a # b
      /\ MintSound(mint) /\ account \in [Accounts -> WideAccount] /\ AllSound(account)
  <2>1. a # b /\ x.open /\ z.open
    BY DEF Transfer
  <2>2. AllSound(account)
    BY DEF ConfInv
  <2> QED
    BY <2>1, <2>2, StateFacts
<1>2. /\ x.open /\ z.open
      /\ n \in U64 /\ n \in Nat /\ n <= x.amount
  BY AmountFacts DEF Transfer
<1>3. fee \in 0 .. n
  BY <1>1, <1>2, MintFacts, FeeBound
<1>4. account' = [[account EXCEPT ![a] = y] EXCEPT ![b] = w]
  BY <1>1 DEF Transfer
<1>5. UNCHANGED <<mint, drafts, fresh, switches>>
  BY DEF Transfer
<1> HIDE DEF fee, x, z
<1>6. x.amount \in Nat /\ z.amount \in Nat /\ z.public_withheld \in Nat
  BY <1>1, SoundFacts
<1>7. /\ y \in WideAccount
      /\ y.lo = x.lo /\ y.hi = x.hi /\ y.available = x.available /\ y.withheld = x.withheld
      /\ y.counter = x.counter /\ y.limit = x.limit
      /\ y.open = x.open /\ y.configured = x.configured
      /\ y.amount = x.amount - n /\ y.public_withheld = x.public_withheld
  <2>1. x.amount - n \in Nat
    BY <1>2, <1>6
  <2> QED
    BY <1>1, <2>1 DEF WideAccount
<1>8. /\ w \in WideAccount
      /\ w.lo = z.lo /\ w.hi = z.hi /\ w.available = z.available /\ w.withheld = z.withheld
      /\ w.counter = z.counter /\ w.limit = z.limit
      /\ w.open = z.open /\ w.configured = z.configured
      /\ w.amount = z.amount + n - fee /\ w.public_withheld = z.public_withheld + fee
  <2>1. z.amount + n - fee \in Nat /\ z.public_withheld + fee \in Nat
    BY <1>2, <1>3, <1>6
  <2> QED
    BY <1>1, <2>1 DEF WideAccount
<1> HIDE DEF y, w
<1>9. Sound(y) /\ Holdings(y) = Holdings(x) - n
  <2>1. Sound(y)
    BY <1>1, <1>2, <1>7, KeptSound
  <2>2. Holdings(y) = Holdings(x) - x.amount - x.public_withheld + y.amount + y.public_withheld
    BY <1>1, <1>2, <1>7, KeptSound
  <2> QED
    BY <1>1, <1>2, <1>7, <2>1, <2>2, SoundFacts
<1>10. Sound(w) /\ Holdings(w) = Holdings(z) + n
  <2>1. Sound(w)
    BY <1>1, <1>2, <1>8, KeptSound
  <2>2. Holdings(w) = Holdings(z) - z.amount - z.public_withheld + w.amount + w.public_withheld
    BY <1>1, <1>2, <1>8, KeptSound
  <2> QED
    BY <1>1, <1>2, <1>3, <1>6, <1>8, <2>1, <2>2, SoundFacts
<1> DEFINE debited == [account EXCEPT ![a] = y]
<1>11. /\ AllSound(debited)
       /\ Sum(debited) = Sum(account) - Holdings(x) + Holdings(y)
       /\ Sum(account) \in Nat /\ Holdings(x) \in Nat
  BY <1>1, <1>9, Replace DEF x
<1>12. debited[b] = z
  BY <1>1 DEF z
<1>13. account' = [debited EXCEPT ![b] = w]
  BY <1>4
<1> HIDE DEF debited
<1>14. /\ AllSound(account')
       /\ Sum(account') = Sum(debited) - Holdings(z) + Holdings(w)
       /\ Holdings(z) \in Nat
  BY <1>10, <1>11, <1>12, <1>13, Replace
<1>15. Sum(account') = Sum(account)
  BY <1>2, <1>9, <1>10, <1>11, <1>14
<1>16. \A c \in Accounts : account'[c].open => mint.initialized
  BY <1>1
<1>17. fresh \in 0 .. MaxFresh /\ switches \in 0 .. MaxSwitches
  BY DEF ConfInv
<1> QED
  BY <1>1, <1>5, <1>14, <1>15, <1>16, <1>17, StateChange

LEMMA ConfigureAccountConfInv ==
  ASSUME ConfInv, NEW a \in Accounts, NEW key \in Keys, NEW limit \in CreditLimits,
         ConfigureAccount(a, key, limit)
  PROVE  ConfInv'
<1> DEFINE x == account[a]
           y == [x EXCEPT !.configured = TRUE, !.approved = mint.auto_approve,
                          !.key = key, !.limit = limit,
                          !.lo = Zeroed, !.hi = Zeroed, !.available = Zeroed,
                          !.decryptable = 0, !.allow_confidential = TRUE,
                          !.counter = 0, !.expected = 0, !.actual = 0,
                          !.allow_public = TRUE, !.withheld = Zeroed]
<1>1. /\ Sound(x) /\ x \in WideAccount /\ x.open /\ ~x.configured
      /\ mint.initialized /\ MintSound(mint)
  BY StateFacts DEF ConfigureAccount
<1>2. account' = [account EXCEPT ![a] = y] /\ UNCHANGED <<mint, drafts, fresh, switches>>
  BY DEF ConfigureAccount
<1>3. mint.auto_approve \in BOOLEAN
  BY <1>1 DEF MintSound, MintState
<1> HIDE DEF x
<1>4. /\ y \in WideAccount
      /\ y.lo = Zeroed /\ y.hi = Zeroed /\ y.available = Zeroed /\ y.withheld = Zeroed
      /\ y.counter = 0 /\ y.open = x.open
      /\ y.amount = x.amount /\ y.public_withheld = x.public_withheld
  <2>1. Zeroed \in Ciphertexts
    BY CiphertextFacts
  <2>2. y \in WideAccount
    BY <1>1, <1>3, <2>1 DEF WideAccount
  <2> QED
    BY <1>1, <2>2 DEF WideAccount
<1> HIDE DEF y
<1>5. closable(y) /\ fee_closable(y)
  BY <1>4 DEF closable, fee_closable
<1>6. Sound(y) /\ Holdings(y) = x.amount + x.public_withheld
  BY <1>1, <1>4, <1>5, BareSound
<1>7. Holdings(x) = x.amount + x.public_withheld
  BY <1>1, EmptyHoldings
<1>8. fresh \in 0 .. MaxFresh /\ switches \in 0 .. MaxSwitches
  BY DEF ConfInv
<1> QED
  BY <1>1, <1>2, <1>6, <1>7, <1>8, AccountChange DEF x

-----------------------------------------------------------------------------
(***************************************************************************)
(* Credits to pending balances.                                            *)
(***************************************************************************)
\* A credit of n in two halves.
LEMMA CreditSound ==
  ASSUME NEW x, Sound(x), valid_as_destination(x), NEW n \in Nat,
         n <= MAXIMUM_DEPOSIT_TRANSFER_AMOUNT,
         NEW lo \in Ciphertexts, NEW hi \in Ciphertexts, Halves(n, lo, hi)
  PROVE  /\ Sound(Credited(x, lo, hi))
         /\ Holdings(Credited(x, lo, hi)) = Holdings(x) + n
         /\ \A f \in {"amount", "public_withheld", "open", "configured", "available",
                      "withheld", "decryptable"} : Credited(x, lo, hi)[f] = x[f]
         /\ Credited(x, lo, hi).counter = x.counter + 1
         /\ Pending(Credited(x, lo, hi)).v = Pending(x).v + n
<1> DEFINE y == Credited(x, lo, hi)
<1>1. /\ x \in WideAccount /\ x.configured /\ x.open /\ x.counter + 1 <= x.limit
      /\ x.counter \in Nat /\ x.limit \in Nat
      /\ x.lo \in Ciphertexts /\ x.hi \in Ciphertexts
      /\ x.lo.v \in Int /\ x.hi.v \in Int
  BY SoundFacts DEF valid_as_destination, Sound
<1>2. /\ lo.v \in 0 .. RADIX - 1 /\ hi.v \in 0 .. MaxHigh
      /\ lo.v + RADIX * hi.v = n /\ MaxHigh \in Nat /\ RADIX \in Nat \ {0, 1}
  <2>1. /\ Low(n) \in 0 .. RADIX - 1 /\ High(n) \in Nat /\ High(n) <= MaxHigh
        /\ Low(n) + RADIX * High(n) = n /\ MaxHigh \in Nat
    BY HalvesOfAmount
  <2>2. lo.v = Low(n) /\ hi.v = High(n)
    BY DEF Halves
  <2> QED
    BY <2>1, <2>2, NumberFacts
<1>3. /\ Plus(x.lo, lo) \in Ciphertexts /\ Plus(x.lo, lo).v = x.lo.v + lo.v
      /\ Plus(x.hi, hi) \in Ciphertexts /\ Plus(x.hi, hi).v = x.hi.v + hi.v
  BY <1>1, CiphertextFacts
<1>4. /\ y \in WideAccount
      /\ y.lo = Plus(x.lo, lo) /\ y.hi = Plus(x.hi, hi) /\ y.counter = x.counter + 1
      /\ y.limit = x.limit /\ y.open = x.open /\ y.configured = x.configured
      /\ y.available = x.available /\ y.withheld = x.withheld
      /\ y.amount = x.amount /\ y.public_withheld = x.public_withheld
      /\ y.decryptable = x.decryptable
  <2>1. y = [x EXCEPT !.lo = Plus(x.lo, lo), !.hi = Plus(x.hi, hi), !.counter = x.counter + 1]
    BY DEF Credited
  <2>2. x.counter + 1 \in Nat
    BY <1>1
  <2> HIDE DEF y
  <2>3. y \in WideAccount
    BY <1>1, <1>3, <2>1, <2>2 DEF WideAccount
  <2> QED
    BY <1>1, <2>1, <2>3 DEF WideAccount
<1> HIDE DEF y
<1>5. Pending(y).v = Pending(x).v + n
  <2>1. Pending(y).v = y.lo.v + RADIX * y.hi.v
    <3>1. y.lo \in Ciphertexts /\ y.hi \in Ciphertexts
      BY <1>3, <1>4
    <3> QED
      BY <3>1, CiphertextFacts DEF Pending
  <2>2. Pending(x).v = x.lo.v + RADIX * x.hi.v
    BY SoundFacts
  <2>3. y.lo.v = x.lo.v + lo.v /\ y.hi.v = x.hi.v + hi.v
    BY <1>3, <1>4
  <2>4. RADIX * (x.hi.v + hi.v) = RADIX * x.hi.v + RADIX * hi.v
    BY <1>1, <1>2
  <2> QED
    BY <1>1, <1>2, <2>1, <2>2, <2>3, <2>4
<1>6. /\ y.lo.v <= y.counter * (RADIX - 1)
      /\ y.hi.v <= y.counter * MaxHigh
  <2>1. /\ (x.counter + 1) * (RADIX - 1) = x.counter * (RADIX - 1) + (RADIX - 1)
        /\ (x.counter + 1) * MaxHigh = x.counter * MaxHigh + MaxHigh
    <3>1. \A k \in Nat, m \in Nat : (k + 1) * m = k * m + m
      OBVIOUS
    <3>2. RADIX - 1 \in Nat /\ MaxHigh \in Nat /\ x.counter \in Nat
      BY <1>1, <1>2
    <3> QED
      BY <3>1, <3>2
  <2>2. x.lo.v <= x.counter * (RADIX - 1) /\ x.hi.v <= x.counter * MaxHigh
    BY DEF Sound
  <2>3. y.lo.v = x.lo.v + lo.v /\ y.hi.v = x.hi.v + hi.v
    BY <1>3, <1>4
  <2> QED
    BY <1>1, <1>2, <1>4, <2>1, <2>2, <2>3
<1>7. Sound(y)
  <2>1. Pending(y).v \in Nat
    BY <1>5, SoundFacts
  <2>2. y.available.v \in Nat /\ y.withheld \in NatCiphertexts
    BY <1>4, SoundFacts
  <2> QED
    BY <1>1, <1>4, <1>6, <2>1, <2>2 DEF Sound, Pending
<1>8. Holdings(y) = Holdings(x) + n
  BY <1>4, <1>5, <1>7, SoundFacts
<1> QED
  BY <1>4, <1>5, <1>7, <1>8 DEF y

\* The pending balance of a grows by n, of which a fee may be kept.
CreditedWith(a, n) ==
  LET x == account[a]  y == account'[a]
  IN  /\ x.configured /\ y.configured
      /\ y.available.v = x.available.v /\ y.decryptable = x.decryptable
      /\ y.counter = x.counter + 1
      /\ ~mint.has_fees => Pending(y).v = Pending(x).v + n

LEMMA DepositConfInv ==
  ASSUME ConfInv, NEW a \in Accounts, NEW n \in Amounts, Deposit(a, n)
  PROVE  /\ ConfInv'
         /\ CreditedWith(a, n)
         /\ \A c \in Accounts \ {a} : account'[c] = account[c]
<1> DEFINE x == account[a]
           lo == PlusAmount(Zeroed, Low(n))
           hi == PlusAmount(Zeroed, High(n))
           z == Credited(x, lo, hi)
           y == [z EXCEPT !.amount = @ - n]
<1>1. /\ Sound(x) /\ x.open /\ mint.initialized /\ MintSound(mint)
      /\ valid_as_destination(x) /\ n <= x.amount /\ n <= MAXIMUM_DEPOSIT_TRANSFER_AMOUNT
  BY StateFacts DEF Deposit
<1>2. account' = [account EXCEPT ![a] = y] /\ UNCHANGED <<mint, drafts, fresh, switches>>
  BY DEF Deposit
<1>3. n \in Nat
  BY NumberFacts DEF Amounts
<1>4. lo \in Ciphertexts /\ hi \in Ciphertexts /\ Halves(n, lo, hi)
  <2>1. Low(n) \in Int /\ High(n) \in Int
    BY <1>3, HalvesOfAmount
  <2>2. Zeroed \in Ciphertexts /\ Zeroed.v = 0
    BY CiphertextFacts
  <2>3. \A k \in Int : PlusAmount(Zeroed, k) \in Ciphertexts /\ PlusAmount(Zeroed, k).v = k
    BY <2>2 DEF PlusAmount, Ciphertexts
  <2> QED
    BY <2>1, <2>3 DEF Halves
<1> HIDE DEF x, lo, hi
<1>5. /\ Sound(z) /\ Holdings(z) = Holdings(x) + n
      /\ z.amount = x.amount /\ z.open = x.open
      /\ \A f \in {"configured", "available", "decryptable"} : z[f] = x[f]
      /\ z.counter = x.counter + 1 /\ Pending(z).v = Pending(x).v + n
  <2>1. /\ Sound(z) /\ Holdings(z) = Holdings(x) + n
        /\ \A f \in {"amount", "public_withheld", "open", "configured", "available",
                     "withheld", "decryptable"} : z[f] = x[f]
        /\ z.counter = x.counter + 1 /\ Pending(z).v = Pending(x).v + n
    BY <1>1, <1>3, <1>4, CreditSound
  <2> QED
    BY <2>1
<1>6. z \in WideAccount /\ x.amount \in Nat /\ z.open /\ Holdings(x) \in Nat
  BY <1>1, <1>5, SoundFacts
<1> HIDE DEF z
<1>7. /\ y \in WideAccount
      /\ y.lo = z.lo /\ y.hi = z.hi /\ y.available = z.available /\ y.withheld = z.withheld
      /\ y.counter = z.counter /\ y.limit = z.limit /\ y.decryptable = z.decryptable
      /\ y.open = z.open /\ y.configured = z.configured
      /\ y.amount = z.amount - n /\ y.public_withheld = z.public_withheld
  <2>1. z.amount - n \in Nat
    BY <1>1, <1>3, <1>5, <1>6
  <2> QED
    BY <1>6, <2>1 DEF WideAccount
<1> HIDE DEF y
<1>8. Sound(y)
  BY <1>5, <1>6, <1>7, KeptSound
<1>9. Holdings(y) = Holdings(z) - z.amount - z.public_withheld + y.amount + y.public_withheld
  BY <1>5, <1>6, <1>7, KeptSound
<1>10. Holdings(y) = Holdings(x)
  BY <1>3, <1>5, <1>6, <1>7, <1>9, SoundFacts
<1>11. fresh \in 0 .. MaxFresh /\ switches \in 0 .. MaxSwitches
  BY DEF ConfInv
<1>12. ConfInv'
  BY <1>1, <1>2, <1>8, <1>10, <1>11, AccountChange DEF x
<1>13. account'[a] = y /\ \A c \in Accounts \ {a} : account'[c] = account[c]
  BY <1>2, StateFacts
<1>14. x.configured /\ x = account[a]
  BY <1>1 DEF valid_as_destination, x
<1>15. Pending(y) = Pending(z)
  BY <1>7 DEF Pending
<1>16. CreditedWith(a, n)
  BY <1>5, <1>7, <1>13, <1>14, <1>15 DEF CreditedWith
<1> QED
  BY <1>12, <1>13, <1>16

-----------------------------------------------------------------------------
(***************************************************************************)
(* Clients prove what Statement says.                                      *)
(***************************************************************************)
LEMMA DraftApplyConfInv ==
  ASSUME ConfInv, NEW a \in Accounts, DraftApply(a)
  PROVE  ConfInv'
<1> DEFINE x == account[a]
           d == [op |-> "apply", by |-> a, expected |-> x.counter,
                 decryptable |-> x.decryptable + LoHi(x.lo, x.hi).v]
<1>1. x.counter \in Nat /\ x.decryptable + LoHi(x.lo, x.hi).v \in Nat
  BY StateFacts, SoundFacts, NumberFacts DEF DraftApply
<1>2. Statement(d)
  BY <1>1 DEF Statement
<1>3. Drafts(d, 0)
  BY DEF DraftApply
<1> HIDE DEF d
<1> QED
  BY <1>2, <1>3, Drafting

LEMMA DraftEmptyConfInv ==
  ASSUME ConfInv, NEW a \in Accounts, DraftEmpty(a)
  PROVE  ConfInv'
<1> DEFINE x == account[a]
           d == [op |-> "empty", by |-> a, key |-> x.key, ciphertext |-> x.available]
<1>1. Statement(d)
  BY DEF Statement, DraftEmpty
<1>2. Drafts(d, 0)
  BY DEF DraftEmpty
<1> HIDE DEF d
<1> QED
  BY <1>1, <1>2, Drafting

LEMMA DraftWithdrawConfInv ==
  ASSUME ConfInv, NEW a \in Accounts, NEW n \in Amounts, DraftWithdraw(a, n)
  PROVE  ConfInv'
<1> DEFINE x == account[a]
           d == [op |-> "withdraw", by |-> a, key |-> x.key, amount |-> n,
                 final |-> PlusAmount(x.available, -n),
                 decryptable |-> x.decryptable - n]
<1>1. /\ x \in WideAccount /\ x.available \in Ciphertexts /\ n \in Nat
      /\ x.decryptable >= n /\ x.decryptable = x.available.v
  BY StateFacts, SoundFacts, AmountFacts DEF DraftWithdraw
<1>2. x.decryptable - n \in Nat
  BY <1>1 DEF WideAccount
<1>3. PlusAmount(x.available, -n).v = x.available.v + (-n)
  BY <1>1 DEF PlusAmount, Ciphertexts
<1>4. PlusAmount(x.available, -n).v = x.decryptable - n
  BY <1>1, <1>3 DEF WideAccount
<1>5. Statement(d)
  BY <1>1, <1>2, <1>4 DEF Statement
<1>6. Drafts(d, 0)
  BY DEF DraftWithdraw
<1> HIDE DEF d
<1> QED
  BY <1>5, <1>6, Drafting

LEMMA DraftTransferConfInv ==
  ASSUME ConfInv, NEW a \in Accounts, NEW b \in Accounts, NEW n \in Amounts,
         DraftTransfer(a, b, n)
  PROVE  ConfInv'
<1> DEFINE x == account[a]
           fee == calculate_fee(mint.fee, n)
           lo == Encrypt(Low(n), fresh)
           hi == Encrypt(High(n), fresh)
           fee_lo == Encrypt(Low(fee), fresh + 1)
           fee_hi == Encrypt(High(fee), fresh + 1)
           final == Minus(x.available, LoHi(lo, hi))
           d == [op |-> "transfer", by |-> a, to |-> b,
                 source |-> x.key, destination |-> account[b].key,
                 auditor |-> mint.auditor, fee_key |-> mint.fee_key,
                 rate |-> mint.fee, lo |-> lo, hi |-> hi,
                 fee_lo |-> fee_lo, fee_hi |-> fee_hi, final |-> final,
                 decryptable |-> x.decryptable - n]
<1>1. /\ x \in WideAccount /\ x.available \in Ciphertexts /\ n \in U64 /\ n \in Nat
      /\ x.decryptable \in Nat
      /\ x.decryptable >= n /\ x.decryptable = x.available.v
      /\ n <= MAXIMUM_DEPOSIT_TRANSFER_AMOUNT
      /\ mint.fee \in Rates \cup {NoFee}
  <2>1. x \in WideAccount /\ x.available \in Ciphertexts /\ mint.fee \in Rates \cup {NoFee}
    BY StateFacts, SoundFacts, MintFacts
  <2>2. /\ x.decryptable >= n /\ x.decryptable = x.available.v
        /\ n <= MAXIMUM_DEPOSIT_TRANSFER_AMOUNT
    BY DEF DraftTransfer
  <2> QED
    BY <2>1, <2>2, AmountFacts DEF WideAccount
<1>2. fee \in Nat
  BY <1>1, FeeBound
<1>3. Drafts(d, IF mint.has_fees THEN 2 ELSE 1)
  BY DEF DraftTransfer
<1> HIDE DEF fee
<1>4. /\ Low(n) \in Nat /\ High(n) \in Nat /\ Low(n) + RADIX * High(n) = n
      /\ Low(fee) \in Nat /\ High(fee) \in Nat
  <2>1. \A k \in 0 .. RADIX - 1 : k \in Nat
    BY NumberFacts
  <2>2. Low(n) \in 0 .. RADIX - 1 /\ High(n) \in Nat /\ Low(n) + RADIX * High(n) = n
    BY <1>1, HalvesOfAmount
  <2>3. Low(fee) \in 0 .. RADIX - 1 /\ High(fee) \in Nat
    BY <1>2, HalvesOfAmount
  <2> QED
    BY <2>1, <2>2, <2>3
<1>5. /\ lo \in Ciphertexts /\ lo.v = Low(n) /\ hi \in Ciphertexts /\ hi.v = High(n)
      /\ fee_lo \in NatCiphertexts /\ fee_lo.v = Low(fee)
      /\ fee_hi \in NatCiphertexts /\ fee_hi.v = High(fee)
  BY <1>4, CiphertextFacts
<1> HIDE DEF lo, hi, fee_lo, fee_hi
<1>6. final.v = x.decryptable - n
  <2>1. LoHi(lo, hi) \in Ciphertexts /\ LoHi(lo, hi).v = n
    <3>1. LoHi(lo, hi) \in Ciphertexts /\ LoHi(lo, hi).v = lo.v + RADIX * hi.v
      BY <1>5, CiphertextFacts
    <3> QED
      BY <1>4, <1>5, <3>1
  <2>2. final.v = x.available.v - n
    BY <1>1, <2>1, CiphertextFacts
  <2> QED
    BY <1>1, <2>2
<1>7. x.decryptable - n \in Nat
  BY <1>1
<1> HIDE DEF final
<1>8. Halves(n, lo, hi) /\ Halves(calculate_fee(mint.fee, n), fee_lo, fee_hi)
  BY <1>5 DEF Halves, fee
<1>9. /\ d.op = "transfer" /\ d.by = a /\ d.to = b /\ d.rate = mint.fee
      /\ d.lo = lo /\ d.hi = hi /\ d.fee_lo = fee_lo /\ d.fee_hi = fee_hi
      /\ d.final = final /\ d.decryptable = x.decryptable - n
  OBVIOUS
<1> HIDE DEF d, x
<1>10. Statement(d)
  BY <1>1, <1>5, <1>6, <1>7, <1>8, <1>9 DEF Statement
<1> QED
  BY <1>3, <1>10, Drafting

LEMMA HarvestableSet ==
  ASSUME ConfInv, NEW S \in SUBSET Accounts
  PROVE  /\ Harvestable(S) \subseteq Accounts /\ IsFiniteSet(Harvestable(S))
         /\ Aggregate(S) \in NatCiphertexts /\ Aggregate(S).v \in Nat
<1>1. Harvestable(S) \subseteq Accounts
  BY DEF Harvestable
<1>2. IsFiniteSet(Harvestable(S))
  BY <1>1, NumberFacts, FS_Subset
<1>3. \A a \in Accounts : account[a].withheld \in NatCiphertexts
  BY StateFacts, SoundFacts
<1> DEFINE v == [a \in Accounts |-> account[a].withheld.v]
           r(l) == [a \in Accounts |-> account[a].withheld.r[l]]
<1>4. /\ \A a \in Harvestable(S) : v[a] \in Nat
      /\ \A l \in Labels : \A a \in Harvestable(S) : r(l)[a] \in Nat
  BY <1>1, <1>3 DEF NatCiphertexts
<1> HIDE DEF v, r
<1>5. /\ Total(v, Harvestable(S)) \in Nat
      /\ \A l \in Labels : Total(r(l), Harvestable(S)) \in Nat
  BY <1>2, <1>4, TotalType
<1>6. Aggregate(S) = [v |-> Total(v, Harvestable(S)),
                      r |-> [l \in Labels |-> Total(r(l), Harvestable(S))]]
  BY DEF Aggregate, v, r
<1>7. Aggregate(S) \in NatCiphertexts /\ Aggregate(S).v \in Nat
  BY <1>5, <1>6 DEF NatCiphertexts
<1> QED
  BY <1>1, <1>2, <1>7

LEMMA DraftWithdrawWithheldConfInv ==
  ASSUME ConfInv, NEW S \in SUBSET Accounts, NEW b \in Accounts,
         DraftWithdrawWithheld(S, b)
  PROVE  ConfInv'
<1> DEFINE withheld == IF S = {} THEN mint.withheld ELSE Aggregate(S)
           moved == Encrypt(withheld.v, fresh)
           d == [op |-> "withheld", by |-> "authority", from |-> S, to |-> b,
                 source |-> mint.fee_key, destination |-> account[b].key,
                 withheld |-> withheld, moved |-> moved,
                 decryptable |-> account[b].decryptable + withheld.v]
<1>1. withheld.v \in Nat
  BY HarvestableSet, StateFacts, MintFacts
<1>2. Drafts(d, 1)
  BY DEF DraftWithdrawWithheld
<1> HIDE DEF withheld
<1>3. moved \in NatCiphertexts /\ moved.v = withheld.v
  BY <1>1, CiphertextFacts
<1> HIDE DEF moved
<1>4. account[b].decryptable + withheld.v \in Nat
  BY <1>1, StateFacts DEF WideAccount
<1>5. Statement(d)
  BY <1>1, <1>3, <1>4 DEF Statement
<1> HIDE DEF d
<1> QED
  BY <1>2, <1>5, Drafting

-----------------------------------------------------------------------------
(***************************************************************************)
(* Executions.                                                             *)
(***************************************************************************)
\* A configured account whose available balance or public amount changes.
LEMMA AvailableSound ==
  ASSUME NEW x, Sound(x), x.configured, NEW y \in WideAccount,
         y.lo = x.lo, y.hi = x.hi, y.withheld = x.withheld,
         y.counter = x.counter, y.limit = x.limit,
         y.open = x.open, y.configured = x.configured,
         y.public_withheld = x.public_withheld, y.available.v \in Nat
  PROVE  /\ Sound(y)
         /\ Holdings(y) = Holdings(x) - x.amount - x.available.v
                            + y.amount + y.available.v
<1>1. Sound(y)
  BY DEF Sound
<1>2. Pending(y) = Pending(x)
  BY DEF Pending
<1> QED
  BY <1>1, <1>2, SoundFacts

Applied(x, expected, decryptable) ==
  [x EXCEPT !.available = Plus(@, LoHi(x.lo, x.hi)),
            !.actual = x.counter, !.expected = expected,
            !.decryptable = decryptable, !.counter = 0,
            !.lo = Zeroed, !.hi = Zeroed]

LEMMA AppliedSound ==
  ASSUME NEW x, Sound(x), x.configured, NEW e \in Nat, NEW n \in Nat
  PROVE  /\ Sound(Applied(x, e, n))
         /\ Holdings(Applied(x, e, n)) = Holdings(x)
         /\ Applied(x, e, n).available.v = x.available.v + Pending(x).v
         /\ Applied(x, e, n).decryptable = n
         /\ Applied(x, e, n).expected = e /\ Applied(x, e, n).actual = x.counter
         /\ Applied(x, e, n).counter = 0 /\ Pending(Applied(x, e, n)).v = 0
         /\ \A f \in {"open", "configured", "withheld", "amount", "public_withheld"} :
              Applied(x, e, n)[f] = x[f]
<1> DEFINE y == Applied(x, e, n)
           sum == Plus(x.available, LoHi(x.lo, x.hi))
<1>1. /\ x \in WideAccount /\ x.available \in Ciphertexts /\ Pending(x) \in Ciphertexts
      /\ x.available.v \in Nat /\ Pending(x).v \in Nat /\ x.counter \in Nat /\ x.open
  BY SoundFacts DEF Sound
<1>2. sum \in Ciphertexts /\ sum.v = x.available.v + Pending(x).v
  BY <1>1, CiphertextFacts DEF Pending
<1>3. y = [x EXCEPT !.available = sum, !.actual = x.counter, !.expected = e,
                    !.decryptable = n, !.counter = 0, !.lo = Zeroed, !.hi = Zeroed]
  BY DEF Applied
<1> HIDE DEF sum, y
<1>4. Zeroed \in Ciphertexts /\ Zeroed.v = 0
  BY CiphertextFacts
<1>5. y \in WideAccount
  BY <1>1, <1>2, <1>3, <1>4 DEF WideAccount
<1>6. /\ y.available = sum /\ y.lo = Zeroed /\ y.hi = Zeroed /\ y.counter = 0
      /\ y.decryptable = n /\ y.expected = e /\ y.actual = x.counter
      /\ y.limit = x.limit /\ y.open = x.open /\ y.configured = x.configured
      /\ y.withheld = x.withheld /\ y.amount = x.amount
      /\ y.public_withheld = x.public_withheld
  BY <1>1, <1>3 DEF WideAccount
<1>7. Pending(y).v = 0
  <2>1. RADIX * 0 = 0
    BY NumberFacts
  <2>2. LoHi(Zeroed, Zeroed).v = Zeroed.v + RADIX * Zeroed.v
    BY <1>4, CiphertextFacts
  <2> QED
    BY <1>4, <1>6, <2>1, <2>2 DEF Pending
<1>8. Sound(y)
  <2>1. 0 * (RADIX - 1) = 0 /\ 0 * MaxHigh = 0
    <3>1. RADIX - 1 \in Nat /\ MaxHigh \in Nat
      BY LargestHalves
    <3> QED
      BY <3>1
  <2>2. x.limit \in Nat /\ y.withheld \in NatCiphertexts /\ y.available.v \in Nat
    BY <1>1, <1>2, <1>6, SoundFacts
  <2> QED
    BY <1>1, <1>4, <1>5, <1>6, <1>7, <2>1, <2>2 DEF Sound, Pending
<1>9. Holdings(y) = Holdings(x)
  BY <1>1, <1>2, <1>6, <1>7, <1>8, SoundFacts
<1> QED
  BY <1>2, <1>6, <1>7, <1>8, <1>9 DEF y

LEMMA ApplyConfInv ==
  ASSUME ConfInv, NEW d \in drafts, ApplyPendingBalance(d)
  PROVE  ConfInv'
<1> DEFINE x == account[d.by]
           y == Applied(x, d.expected, d.decryptable)
<1>1. /\ d.op = "apply" /\ x.configured /\ Executes(d) /\ UNCHANGED mint
      /\ account' = [account EXCEPT ![d.by] = y]
  BY DEF ApplyPendingBalance, Applied
<1>2. /\ d.by \in Accounts /\ d.expected \in Nat /\ d.decryptable \in Nat
      /\ drafts' \subseteq drafts
      /\ fresh' \in 0 .. MaxFresh /\ switches' \in 0 .. MaxSwitches
  BY <1>1, ExecutionFacts DEF Statement
<1>3. Sound(x) /\ x.open /\ mint.initialized /\ MintSound(mint)
  BY <1>1, <1>2, StateFacts
<1>4. Sound(y) /\ Holdings(y) = Holdings(x)
  BY <1>1, <1>2, <1>3, AppliedSound
<1> HIDE DEF y
<1> QED
  BY <1>1, <1>2, <1>3, <1>4, AccountChange

LEMMA EmptyConfInv ==
  ASSUME ConfInv, NEW d \in drafts, EmptyAccount(d)
  PROVE  /\ ConfInv'
         /\ d.by \in Accounts /\ account[d.by].available.v = 0
<1> DEFINE x == account[d.by]
           y == [x EXCEPT !.available = Zeroed]
<1>1. /\ d.op = "empty" /\ x.configured /\ Executes(d) /\ UNCHANGED mint
      /\ account' = [account EXCEPT ![d.by] = y] /\ x.available = d.ciphertext
  BY DEF EmptyAccount
<1>2. /\ d.by \in Accounts /\ d.ciphertext.v = 0
      /\ drafts' \subseteq drafts
      /\ fresh' \in 0 .. MaxFresh /\ switches' \in 0 .. MaxSwitches
  BY <1>1, ExecutionFacts DEF Statement
<1>3. Sound(x) /\ x \in WideAccount /\ x.open /\ mint.initialized /\ MintSound(mint)
  BY <1>1, <1>2, StateFacts
<1>4. Zeroed \in Ciphertexts /\ Zeroed.v = 0 /\ x.available.v = 0
  BY <1>1, <1>2, CiphertextFacts
<1> HIDE DEF x
<1>5. y \in WideAccount
  BY <1>3, <1>4 DEF WideAccount
<1>6. /\ y.lo = x.lo /\ y.hi = x.hi /\ y.withheld = x.withheld
      /\ y.counter = x.counter /\ y.limit = x.limit
      /\ y.open = x.open /\ y.configured = x.configured
      /\ y.public_withheld = x.public_withheld
      /\ y.amount = x.amount /\ y.available = Zeroed
  BY <1>3, <1>4 DEF WideAccount
<1> HIDE DEF y
<1>7. y.available.v \in Nat
  BY <1>6 DEF Zeroed
<1>8. Sound(y)
  BY <1>1, <1>3, <1>5, <1>6, <1>7, AvailableSound
<1>9. Holdings(y) = Holdings(x) - x.amount - x.available.v + y.amount + y.available.v
  BY <1>1, <1>3, <1>5, <1>6, <1>7, AvailableSound
<1>10. Holdings(y) = Holdings(x)
  BY <1>3, <1>4, <1>6, <1>9, SoundFacts
<1> QED
  BY <1>1, <1>2, <1>3, <1>4, <1>6, <1>8, <1>10, AccountChange DEF x

LEMMA WithdrawConfInv ==
  ASSUME ConfInv, NEW d \in drafts, Withdraw(d)
  PROVE  /\ ConfInv'
         /\ d.by \in Accounts
         /\ account'[d.by].decryptable = account'[d.by].available.v
<1> DEFINE x == account[d.by]
           final == PlusAmount(x.available, -d.amount)
           y == [x EXCEPT !.available = final, !.decryptable = d.decryptable,
                          !.amount = @ + d.amount]
<1>1. /\ d.op = "withdraw" /\ x.configured /\ Executes(d) /\ UNCHANGED mint
      /\ account' = [account EXCEPT ![d.by] = y] /\ final = d.final
  BY DEF Withdraw, valid_as_source
<1>2. /\ d.by \in Accounts /\ d.amount \in Nat
      /\ d.decryptable \in Nat /\ d.final.v = d.decryptable
      /\ drafts' \subseteq drafts
      /\ fresh' \in 0 .. MaxFresh /\ switches' \in 0 .. MaxSwitches
  BY <1>1, ExecutionFacts DEF Statement
<1>3. Sound(x) /\ x \in WideAccount /\ x.open /\ mint.initialized /\ MintSound(mint)
  BY <1>1, <1>2, StateFacts
<1>4. x.available \in Ciphertexts /\ x.available.v \in Nat /\ x.amount \in Nat
  BY <1>3, SoundFacts
<1>5. final \in Ciphertexts /\ final.v = x.available.v - d.amount
  <2>1. -d.amount \in Int
    BY <1>2
  <2>2. final \in Ciphertexts /\ final.v = x.available.v + (-d.amount)
    BY <1>4, <2>1 DEF PlusAmount, Ciphertexts
  <2> QED
    BY <1>2, <1>4, <2>2
<1>6. account[d.by] = x
  OBVIOUS
<1> HIDE DEF x, final
<1>7. y \in WideAccount
  <2>1. x.amount + d.amount \in Nat
    BY <1>2, <1>4
  <2> QED
    BY <1>2, <1>3, <1>5, <2>1 DEF WideAccount
<1>8. /\ y.lo = x.lo /\ y.hi = x.hi /\ y.withheld = x.withheld
      /\ y.counter = x.counter /\ y.limit = x.limit
      /\ y.open = x.open /\ y.configured = x.configured
      /\ y.public_withheld = x.public_withheld
      /\ y.amount = x.amount + d.amount /\ y.available = final
      /\ y.decryptable = d.decryptable
  BY <1>3 DEF WideAccount
<1> HIDE DEF y
<1>9. y.available.v = d.decryptable /\ y.available.v = x.available.v - d.amount
  BY <1>1, <1>2, <1>5, <1>8
<1>10. Sound(y)
  BY <1>1, <1>2, <1>3, <1>7, <1>8, <1>9, AvailableSound
<1>11. Holdings(y) = Holdings(x) - x.amount - x.available.v + y.amount + y.available.v
  BY <1>1, <1>2, <1>3, <1>7, <1>8, <1>9, AvailableSound
<1>12. Holdings(y) = Holdings(x)
  BY <1>2, <1>3, <1>4, <1>8, <1>9, <1>11, SoundFacts
<1>13. account'[d.by] = y
  BY <1>1, <1>2, StateFacts
<1>14. ConfInv'
  BY <1>1, <1>2, <1>3, <1>6, <1>8, <1>10, <1>12, AccountChange
<1> QED
  BY <1>2, <1>8, <1>9, <1>13, <1>14

\* The fee of a credit leaves its pending balance again.
LEMMA FeeChargedSound ==
  ASSUME NEW x, Sound(x), x.configured, NEW fee \in Nat, fee <= Pending(x).v,
         NEW d, d.fee_lo \in NatCiphertexts, d.fee_hi \in NatCiphertexts,
         Halves(fee, d.fee_lo, d.fee_hi)
  PROVE  /\ Sound(FeeCharged(x, d))
         /\ Holdings(FeeCharged(x, d)) = Holdings(x)
         /\ FeeCharged(x, d).withheld.v = x.withheld.v + fee
         /\ \A f \in {"open", "configured", "available", "decryptable", "counter"} :
              FeeCharged(x, d)[f] = x[f]
<1> DEFINE y == FeeCharged(x, d)
           lo == Minus(x.lo, d.fee_lo)
           hi == Minus(x.hi, d.fee_hi)
           withheld == Plus(x.withheld, LoHi(d.fee_lo, d.fee_hi))
<1>1. /\ x \in WideAccount /\ x.lo \in Ciphertexts /\ x.hi \in Ciphertexts
      /\ x.lo.v \in Int /\ x.hi.v \in Int
      /\ x.withheld \in NatCiphertexts /\ x.withheld \in Ciphertexts /\ x.withheld.v \in Nat
      /\ x.available.v \in Nat /\ x.counter \in Nat
      /\ Pending(x).v = x.lo.v + RADIX * x.hi.v /\ Pending(x).v \in Nat
  BY SoundFacts
<1>2. /\ d.fee_lo \in Ciphertexts /\ d.fee_hi \in Ciphertexts
      /\ d.fee_lo.v \in Nat /\ d.fee_hi.v \in Nat /\ RADIX \in Nat
      /\ d.fee_lo.v + RADIX * d.fee_hi.v = fee
  <2>1. Low(fee) + RADIX * High(fee) = fee
    BY HalvesOfAmount
  <2>2. d.fee_lo.v \in Nat /\ d.fee_hi.v \in Nat
    BY DEF NatCiphertexts
  <2> QED
    BY <2>1, <2>2, CiphertextFacts, NumberFacts DEF Halves
<1>3. /\ lo \in Ciphertexts /\ lo.v = x.lo.v - d.fee_lo.v
      /\ hi \in Ciphertexts /\ hi.v = x.hi.v - d.fee_hi.v
  BY <1>1, <1>2, CiphertextFacts
<1>4. withheld \in NatCiphertexts /\ withheld \in Ciphertexts /\ withheld.v = x.withheld.v + fee
  <2>1. LoHi(d.fee_lo, d.fee_hi) \in NatCiphertexts
    BY CiphertextFacts
  <2>2. LoHi(d.fee_lo, d.fee_hi) \in Ciphertexts /\ LoHi(d.fee_lo, d.fee_hi).v = fee
    BY <1>2, CiphertextFacts
  <2>3. withheld \in NatCiphertexts
    BY <1>1, <2>1, CiphertextFacts
  <2>4. withheld \in Ciphertexts /\ withheld.v = x.withheld.v + LoHi(d.fee_lo, d.fee_hi).v
    BY <1>1, <2>2, CiphertextFacts
  <2> QED
    BY <2>2, <2>3, <2>4
<1>5. y = [x EXCEPT !.lo = lo, !.hi = hi, !.withheld = withheld]
  BY DEF FeeCharged
<1> HIDE DEF lo, hi, withheld, y
<1>6. y \in WideAccount
  BY <1>1, <1>3, <1>4, <1>5 DEF WideAccount
<1>7. /\ y.lo = lo /\ y.hi = hi /\ y.withheld = withheld
      /\ y.counter = x.counter /\ y.limit = x.limit /\ y.available = x.available
      /\ y.open = x.open /\ y.configured = x.configured
      /\ y.decryptable = x.decryptable
      /\ y.amount = x.amount /\ y.public_withheld = x.public_withheld
  BY <1>1, <1>5 DEF WideAccount
<1>8. Pending(y).v = Pending(x).v - fee
  <2>1. Pending(y).v = y.lo.v + RADIX * y.hi.v
    <3>1. y.lo \in Ciphertexts /\ y.hi \in Ciphertexts
      BY <1>3, <1>7
    <3> QED
      BY <3>1, CiphertextFacts DEF Pending
  <2>2. RADIX * (x.hi.v - d.fee_hi.v) = RADIX * x.hi.v - RADIX * d.fee_hi.v
    BY <1>1, <1>2
  <2>3. RADIX * x.hi.v \in Int /\ RADIX * d.fee_hi.v \in Int
    BY <1>1, <1>2
  <2> QED
    BY <1>1, <1>2, <1>3, <1>7, <2>1, <2>2, <2>3
<1>9. Sound(y)
  <2>1. /\ y.lo.v <= x.lo.v /\ y.hi.v <= x.hi.v
        /\ y.lo.v \in Int /\ y.hi.v \in Int
    BY <1>1, <1>2, <1>3, <1>7
  <2>2. /\ x.lo.v <= x.counter * (RADIX - 1) /\ x.hi.v <= x.counter * MaxHigh
        /\ x.counter * (RADIX - 1) \in Int /\ x.counter * MaxHigh \in Int
    <3>1. RADIX - 1 \in Nat /\ MaxHigh \in Nat
      BY LargestHalves
    <3> QED
      BY <1>1, <3>1 DEF Sound
  <2>3. /\ y.lo.v <= y.counter * (RADIX - 1)
        /\ y.hi.v <= y.counter * MaxHigh
    BY <1>1, <1>7, <2>1, <2>2
  <2>4. Pending(y).v \in Nat
    BY <1>1, <1>8
  <2> QED
    BY <1>1, <1>4, <1>6, <1>7, <2>3, <2>4 DEF Sound, Pending
<1>10. Holdings(y) = Holdings(x)
  BY <1>1, <1>4, <1>7, <1>8, <1>9, SoundFacts
<1> QED
  BY <1>4, <1>7, <1>9, <1>10 DEF y

\* What a confidential transfer of n does.
Transferred(d, n) ==
  /\ d.by \in Accounts /\ d.to \in Accounts
  /\ account[d.by].configured
  /\ n <= account[d.by].available.v
  /\ account'[d.by].available.v = account[d.by].available.v - n
  /\ account'[d.by].decryptable = account'[d.by].available.v
  /\ \A a \in Accounts \ {d.by, d.to} : account'[a] = account[a]
  /\ account'[d.to].counter = account[d.to].counter + 1
  /\ ~mint.has_fees => Pending(account'[d.to]).v = Pending(account[d.to]).v + n
  /\ account'[d.by].configured
  /\ account[d.to].configured /\ account'[d.to].configured
  /\ d.by # d.to =>
       /\ account'[d.to].available = account[d.to].available
       /\ account'[d.to].decryptable = account[d.to].decryptable
       /\ account'[d.by].counter = account[d.by].counter
       /\ Pending(account'[d.by]) = Pending(account[d.by])
       /\ account'[d.to].withheld.v - account[d.to].withheld.v = calculate_fee(mint.fee, n)

LEMMA ConfidentialTransferConfInv ==
  ASSUME ConfInv, NEW d \in drafts, ConfidentialTransfer(d)
  PROVE  ConfInv' /\ \E n \in Amounts : Transferred(d, n)
<1> DEFINE a == d.by
           b == d.to
           x == account[a]
           balance == new_source_available_balance(x, d)
           y == [x EXCEPT !.available = balance, !.decryptable = d.decryptable]
           debited == [account EXCEPT ![a] = y]
           z == debited[b]
           c == Credited(z, d.lo, d.hi)
           w == IF mint.has_fees /\ a # b THEN FeeCharged(c, d) ELSE c
<1>1. d.op = "transfer" /\ Executes(d) /\ UNCHANGED mint
  BY DEF ConfidentialTransfer
<1>2. /\ a \in Accounts /\ b \in Accounts
      /\ d.lo \in Ciphertexts /\ d.hi \in Ciphertexts
      /\ d.fee_lo \in NatCiphertexts /\ d.fee_hi \in NatCiphertexts
      /\ d.rate \in Rates \cup {NoFee}
      /\ d.decryptable \in Nat /\ d.final.v = d.decryptable
      /\ drafts' \subseteq drafts
      /\ fresh' \in 0 .. MaxFresh /\ switches' \in 0 .. MaxSwitches
  BY <1>1, ExecutionFacts DEF Statement
<1>3. PICK n \in Amounts : /\ n <= MAXIMUM_DEPOSIT_TRANSFER_AMOUNT
                           /\ Halves(n, d.lo, d.hi)
                           /\ Halves(calculate_fee(d.rate, n), d.fee_lo, d.fee_hi)
  BY <1>1, ExecutionFacts DEF Statement
<1>4. n \in U64 /\ n \in Nat
  BY AmountFacts
<1>5. calculate_fee(d.rate, n) \in 0 .. n
  BY <1>2, <1>4, FeeBound
<1>6. /\ account \in [Accounts -> WideAccount] /\ AllSound(account)
      /\ Sound(x) /\ x \in WideAccount /\ MintSound(mint)
      /\ \A e \in Accounts : account[e].open => mint.initialized
  BY <1>2, StateFacts DEF ConfInv
<1>7. /\ x.open /\ x.configured /\ balance = d.final
      /\ mint.has_fees => d.rate = mint.fee
      /\ process_destination_for_transfer(z, d)
      /\ account' = [debited EXCEPT ![b] = w]
  <2>1. debited = [account EXCEPT ![a].available = balance, ![a].decryptable = d.decryptable]
    BY <1>2, <1>6
  <2> HIDE DEF debited
  <2> QED
    BY <2>1 DEF ConfidentialTransfer, process_source_for_transfer, valid_as_source,
                verify_transfer_with_fee_proof
<1>8. balance \in Ciphertexts /\ balance.v = x.available.v - n
  <2>1. x.available \in Ciphertexts
    BY <1>6, SoundFacts
  <2>2. LoHi(d.lo, d.hi) \in Ciphertexts /\ LoHi(d.lo, d.hi).v = d.lo.v + RADIX * d.hi.v
    BY <1>2, CiphertextFacts
  <2>3. LoHi(d.lo, d.hi).v = n
    BY <1>3, <1>4, <2>2, HalvesOfAmount DEF Halves
  <2> QED
    BY <2>1, <2>2, <2>3, CiphertextFacts DEF new_source_available_balance
<1>9. account[a] = x
  OBVIOUS
<1> HIDE DEF x, balance
<1>10. /\ y \in WideAccount
       /\ y.lo = x.lo /\ y.hi = x.hi /\ y.withheld = x.withheld
       /\ y.counter = x.counter /\ y.limit = x.limit
       /\ y.open = x.open /\ y.configured = x.configured
       /\ y.public_withheld = x.public_withheld /\ y.amount = x.amount
       /\ y.available = balance /\ y.decryptable = d.decryptable
  BY <1>2, <1>6, <1>8 DEF WideAccount
<1> HIDE DEF y
<1>11. y.available.v = d.decryptable /\ y.available.v = x.available.v - n
  BY <1>2, <1>7, <1>8, <1>10
<1>12. Sound(y)
  BY <1>2, <1>6, <1>7, <1>10, <1>11, AvailableSound
<1>13. Holdings(y) = Holdings(x) - n
  <2>1. Holdings(y) = Holdings(x) - x.amount - x.available.v + y.amount + y.available.v
    BY <1>2, <1>6, <1>7, <1>10, <1>11, AvailableSound
  <2> QED
    BY <1>4, <1>6, <1>10, <1>11, <2>1, SoundFacts
<1>14. /\ AllSound(debited)
       /\ Sum(debited) = Sum(account) - Holdings(x) + Holdings(y)
       /\ Sum(account) \in Nat /\ Holdings(x) \in Nat /\ Holdings(y) \in Nat
  BY <1>2, <1>6, <1>9, <1>12, Replace
<1>15. /\ debited[a] = y
       /\ \A e \in Accounts \ {a} : debited[e] = account[e]
       /\ DOMAIN debited = Accounts
  BY <1>2, <1>6
<1> HIDE DEF debited
<1>16. Sound(z) /\ z.open /\ z.configured /\ valid_as_destination(z)
  BY <1>2, <1>7, <1>14 DEF AllSound, process_destination_for_transfer, valid_as_destination
<1> HIDE DEF z
<1>17. /\ Sound(c) /\ Holdings(c) = Holdings(z) + n
       /\ \A f \in {"amount", "public_withheld", "open", "configured", "available",
                    "withheld", "decryptable"} : c[f] = z[f]
       /\ c.counter = z.counter + 1
       /\ Pending(c).v = Pending(z).v + n
  BY <1>2, <1>3, <1>4, <1>16, CreditSound
<1> HIDE DEF c
<1>18. /\ Sound(w) /\ Holdings(w) = Holdings(c)
       /\ \A f \in {"open", "configured", "available", "decryptable", "counter"} : w[f] = c[f]
       /\ a # b => w.withheld.v = c.withheld.v + calculate_fee(mint.fee, n)
       /\ ~mint.has_fees => w = c
  <2>1. CASE mint.has_fees /\ a # b
    <3>1. Pending(c).v \in Nat /\ Pending(c).v >= n
      BY <1>4, <1>16, <1>17, SoundFacts
    <3>2. c.configured
      BY <1>16, <1>17
    <3> DEFINE fee == calculate_fee(d.rate, n)
    <3>3. fee \in Nat /\ fee <= Pending(c).v /\ Halves(fee, d.fee_lo, d.fee_hi)
      BY <1>3, <1>4, <1>5, <3>1
    <3>4. fee = calculate_fee(mint.fee, n)
      BY <1>7, <2>1
    <3> HIDE DEF fee
    <3>5. /\ Sound(FeeCharged(c, d)) /\ Holdings(FeeCharged(c, d)) = Holdings(c)
          /\ FeeCharged(c, d).withheld.v = c.withheld.v + fee
          /\ \A f \in {"open", "configured", "available", "decryptable", "counter"} :
               FeeCharged(c, d)[f] = c[f]
      BY <1>2, <1>17, <3>2, <3>3, FeeChargedSound
    <3> QED
      BY <2>1, <3>4, <3>5
  <2>2. CASE ~(mint.has_fees /\ a # b)
    <3>1. w = c
      BY <2>2
    <3>2. ASSUME a # b PROVE calculate_fee(mint.fee, n) = 0
      <4>1. mint.fee = NoFee
        BY <1>6, <2>2, <3>2 DEF MintSound
      <4> QED
        BY <4>1 DEF calculate_fee, NoFee
    <3>3. c.withheld.v \in Nat
      BY <1>17, SoundFacts
    <3> QED
      BY <1>17, <3>1, <3>2, <3>3
  <2> QED
    BY <2>1, <2>2
<1> HIDE DEF w
<1>19. /\ AllSound(account')
       /\ Sum(account') = Sum(debited) - Holdings(z) + Holdings(w)
       /\ Holdings(z) \in Nat
  BY <1>2, <1>7, <1>14, <1>18, Replace DEF z
<1>20. Sum(account') = Sum(account)
  BY <1>4, <1>13, <1>14, <1>17, <1>18, <1>19
<1>21. /\ account'[b] = w
       /\ \A e \in Accounts \ {b} : account'[e] = debited[e]
  BY <1>2, <1>7, <1>15
<1>22. mint.initialized
  BY <1>2, <1>6, <1>7, <1>9
<1>23. ConfInv'
  BY <1>1, <1>2, <1>6, <1>19, <1>20, <1>22, StateChange
<1>24. Transferred(d, n)
  <2>1. /\ \A e \in Accounts \ {a, b} : account'[e] = account[e]
        /\ a # b => account'[a] = y /\ z = account[b]
        /\ a = b => z = y
    BY <1>2, <1>15, <1>21 DEF z
  <2>2. /\ w.available = z.available /\ w.decryptable = z.decryptable
        /\ w.counter = z.counter + 1
        /\ c.withheld = z.withheld
    BY <1>17, <1>18
  <2>3. account'[a].available = y.available /\ account'[a].decryptable = y.decryptable
    BY <1>21, <2>1, <2>2
  <2>4. n <= x.available.v
    BY <1>2, <1>4, <1>6, <1>11, SoundFacts
  <2>5. z.counter = account[b].counter /\ Pending(z) = Pending(account[b])
    BY <1>9, <1>10, <2>1 DEF Pending
  <2>6. ~mint.has_fees => Pending(w).v = Pending(z).v + n
    BY <1>17, <1>18
  <2>7. ASSUME a # b
        PROVE  /\ account'[b].available = account[b].available
               /\ account'[b].decryptable = account[b].decryptable
               /\ account'[a].counter = account[a].counter
               /\ Pending(account'[a]) = Pending(account[a])
               /\ account'[b].withheld.v - account[b].withheld.v = calculate_fee(mint.fee, n)
    <3>1. account'[a] = y /\ z = account[b]
      BY <2>1, <2>7
    <3>2. w.withheld.v = z.withheld.v + calculate_fee(mint.fee, n)
      BY <1>18, <2>2, <2>7
    <3>3. z.withheld.v \in Nat /\ calculate_fee(mint.fee, n) \in Nat
      BY <1>4, <1>6, <1>16, SoundFacts, MintFacts, FeeBound
    <3>4. w.withheld.v - z.withheld.v = calculate_fee(mint.fee, n)
      BY <3>2, <3>3
    <3> QED
      BY <1>9, <1>10, <1>21, <2>2, <3>1, <3>4 DEF Pending
  <2>8. /\ account'[a].available.v = account[a].available.v - n
        /\ account'[a].decryptable = account'[a].available.v
        /\ n <= account[a].available.v /\ account[a].configured
    BY <1>7, <1>9, <1>10, <1>11, <2>3, <2>4
  <2>9. /\ account'[b].counter = account[b].counter + 1
        /\ ~mint.has_fees => Pending(account'[b]).v = Pending(account[b]).v + n
    BY <1>21, <2>2, <2>5, <2>6
  <2>10. account[b].configured /\ account'[b].configured /\ account'[a].configured
    <3>1. w.configured /\ y.configured /\ account'[b] = w
      BY <1>7, <1>10, <1>16, <1>17, <1>18, <1>21
    <3>2. account[b].configured
      BY <1>7, <1>9, <1>16, <2>1
    <3>3. account'[a] = w \/ account'[a] = y
      BY <2>1, <3>1
    <3> QED
      BY <3>1, <3>2, <3>3
  <2> QED
    BY <1>2, <2>1, <2>7, <2>8, <2>9, <2>10 DEF Transferred
<1> QED
  BY <1>23, <1>24

-----------------------------------------------------------------------------
(***************************************************************************)
(* Harvests: what the accounts in S withheld, and no more, leaves them.    *)
(***************************************************************************)
LEMMA EmptiedSound ==
  ASSUME NEW x, Sound(x)
  PROVE  /\ Sound([x EXCEPT !.withheld = Zeroed])
         /\ Holdings(x) = Holdings([x EXCEPT !.withheld = Zeroed]) + x.withheld.v
<1> DEFINE y == [x EXCEPT !.withheld = Zeroed]
<1>1. x \in WideAccount
  BY SoundFacts
<1>2. Zeroed \in Ciphertexts /\ Zeroed \in NatCiphertexts /\ Zeroed.v = 0
  BY CiphertextFacts
<1>3. y \in WideAccount
  BY <1>1, <1>2 DEF WideAccount
<1>4. /\ y.withheld = Zeroed
      /\ \A f \in {"open", "amount", "configured", "lo", "hi", "available", "counter",
                   "limit", "public_withheld"} : y[f] = x[f]
  BY <1>1 DEF WideAccount
<1> HIDE DEF y
<1>5. Sound(y)
  BY <1>2, <1>3, <1>4 DEF Sound, closable, fee_closable
<1>6. Pending(y) = Pending(x)
  BY <1>4 DEF Pending
<1>7. Holdings(x) = Holdings(y) + x.withheld.v
  BY <1>2, <1>4, <1>5, <1>6, SoundFacts
<1> QED
  BY <1>5, <1>7 DEF y

LEMMA HarvestedFacts ==
  ASSUME ConfInv, NEW S \in SUBSET Accounts
  PROVE  /\ AllSound(Harvested(account, S))
         /\ Sum(Harvested(account, S)) = Sum(account) - Aggregate(S).v
         /\ Sum(account) \in Nat
         /\ Aggregate(S) \in NatCiphertexts /\ Aggregate(S).v \in Nat
         /\ \A a \in Accounts :
              \A f \in {"open", "configured", "amount", "available", "decryptable",
                        "lo", "hi", "counter", "limit", "public_withheld"} :
                Harvested(account, S)[a][f] = account[a][f]
<1> DEFINE T == Harvestable(S)
           new == Harvested(account, S)
           y(a) == [account[a] EXCEPT !.withheld = Zeroed]
<1>1. /\ AllSound(account) /\ IsFiniteSet(Accounts)
      /\ \A a \in Accounts : Sound(account[a]) /\ account[a] \in WideAccount
  BY StateFacts, NumberFacts DEF ConfInv
<1>2. /\ T \subseteq Accounts /\ IsFiniteSet(T)
      /\ Aggregate(S) \in NatCiphertexts /\ Aggregate(S).v \in Nat
  BY HarvestableSet
<1>3. /\ \A a \in T : new[a] = y(a)
      /\ \A a \in Accounts \ T : new[a] = account[a]
  BY <1>2 DEF Harvested
<1>4. \A a \in Accounts :
        Sound(y(a)) /\ Holdings(account[a]) = Holdings(y(a)) + account[a].withheld.v
  BY <1>1, EmptiedSound
<1>5. \A a \in Accounts : Sound(new[a])
  BY <1>1, <1>2, <1>3, <1>4
<1>6. AllSound(new)
  <2>1. DOMAIN new = Accounts /\ new = [a \in Accounts |-> new[a]]
    BY DEF Harvested
  <2>2. \A a \in Accounts : new[a] \in WideAccount
    BY <1>5 DEF Sound
  <2> HIDE DEF new
  <2> QED
    BY <1>5, <2>1, <2>2 DEF AllSound
<1>7. \A a \in Accounts :
        \A f \in {"open", "configured", "amount", "available", "decryptable",
                  "lo", "hi", "counter", "limit", "public_withheld"} :
          new[a][f] = account[a][f]
  <2> SUFFICES ASSUME NEW a \in Accounts
               PROVE  \A f \in {"open", "configured", "amount", "available", "decryptable",
                                "lo", "hi", "counter", "limit", "public_withheld"} :
                        new[a][f] = account[a][f]
    OBVIOUS
  <2>1. \A f \in {"open", "configured", "amount", "available", "decryptable",
                  "lo", "hi", "counter", "limit", "public_withheld"} :
          y(a)[f] = account[a][f]
    BY <1>1 DEF WideAccount
  <2> HIDE DEF new, y
  <2> QED
    BY <1>2, <1>3, <2>1
<1> DEFINE f == [a \in Accounts |-> Holdings(account[a])]
           g == [a \in Accounts |-> Holdings(new[a])]
           v == [a \in Accounts |-> account[a].withheld.v]
<1>8. /\ \A a \in Accounts : f[a] \in Nat /\ g[a] \in Nat /\ v[a] \in Nat
      /\ \A a \in T : f[a] = g[a] + v[a]
      /\ \A a \in Accounts \ T : f[a] = g[a]
  <2> HIDE DEF new, y
  <2>1. \A a \in Accounts : f[a] \in Nat /\ g[a] \in Nat /\ v[a] \in Nat
    BY <1>1, <1>5, SoundFacts
  <2>2. \A a \in T : f[a] = g[a] + v[a]
    BY <1>2, <1>3, <1>4
  <2>3. \A a \in Accounts \ T : f[a] = g[a]
    BY <1>3
  <2> QED
    BY <2>1, <2>2, <2>3
<1>9. /\ Sum(account) = Total(f, Accounts) /\ Sum(new) = Total(g, Accounts)
      /\ Aggregate(S).v = Total(v, T)
  BY DEF Sum, Aggregate
<1> HIDE DEF f, g, v, new, T, y
<1>10. /\ \A a \in Accounts : f[a] \in Nat
       /\ \A a \in Accounts : g[a] \in Nat
  BY <1>8
<1>11. Total(f, Accounts) = Total(f, T) + Total(f, Accounts \ T)
  BY <1>1, <1>2, <1>10, TotalPart
<1>12. Total(f, Accounts \ T) \in Nat
  BY <1>1, <1>2, <1>10, TotalPart
<1>13. Total(g, Accounts) = Total(g, T) + Total(g, Accounts \ T)
  BY <1>1, <1>2, <1>10, TotalPart
<1>14. /\ Total(f, T) = Total(g, T) + Total(v, T)
       /\ Total(g, T) \in Nat /\ Total(v, T) \in Nat
  <2>1. \A a \in T : g[a] \in Nat /\ v[a] \in Nat /\ f[a] = g[a] + v[a]
    BY <1>2, <1>8
  <2> QED
    BY <1>2, <2>1, TotalPlus
<1>15. Total(f, Accounts \ T) = Total(g, Accounts \ T)
  BY <1>8, TotalSame
<1>16. Sum(new) = Sum(account) - Aggregate(S).v /\ Sum(account) \in Nat
  BY <1>9, <1>11, <1>13, <1>14, <1>15, <1>12
<1> QED
  BY <1>2, <1>6, <1>7, <1>16 DEF new

LEMMA HarvestConfInv ==
  ASSUME ConfInv, NEW S \in SUBSET Accounts, HarvestWithheldTokensToMint(S)
  PROVE  ConfInv'
<1> DEFINE sum == Plus(mint.withheld, Aggregate(S))
<1>1. /\ mint.initialized
      /\ mint' = [mint EXCEPT !.withheld = sum]
      /\ account' = Harvested(account, S)
      /\ UNCHANGED <<drafts, fresh, switches>>
  BY DEF HarvestWithheldTokensToMint
<1>2. /\ AllSound(account') /\ Sum(account') = Sum(account) - Aggregate(S).v
      /\ Sum(account) \in Nat
      /\ Aggregate(S) \in NatCiphertexts /\ Aggregate(S).v \in Nat
      /\ \A a \in Accounts : account'[a].open => mint.initialized
  BY <1>1, HarvestedFacts
<1>3. /\ MintSound(mint) /\ mint \in MintState
      /\ mint.withheld \in NatCiphertexts /\ mint.withheld.v \in Nat
      /\ mint.minted \in Nat
  BY MintFacts DEF ConfInv
<1>4. /\ sum \in NatCiphertexts /\ sum \in Ciphertexts
      /\ sum.v = mint.withheld.v + Aggregate(S).v
  BY <1>2, <1>3, CiphertextFacts
<1> HIDE DEF sum
<1>5. /\ mint' \in MintState /\ mint'.withheld = sum
      /\ \A f \in {"initialized", "has_fees", "fee", "confidential", "confidential_fee",
                   "minted"} : mint'[f] = mint[f]
  BY <1>1, <1>3, <1>4 DEF MintState
<1>6. MintSound(mint')
  BY <1>1, <1>3, <1>4, <1>5 DEF MintSound, check_for_invalid_mint_extension_combinations
<1>7. mint'.minted - mint'.withheld.v - Sum(account')
        = mint.minted - mint.withheld.v - Sum(account)
  BY <1>2, <1>3, <1>4, <1>5
<1>8. fresh' \in 0 .. MaxFresh /\ switches' \in 0 .. MaxSwitches /\ drafts' \subseteq drafts
  BY <1>1 DEF ConfInv
<1> QED
  BY <1>2, <1>5, <1>6, <1>7, <1>8, StateChange

\* The withheld amount reaches the available balance of d.to.
LEMMA ReceivedFacts ==
  ASSUME ConfInv, NEW d \in drafts, NEW withheld, NEW acc,
         WithdrawWithheld(d, withheld, acc),
         AllSound(acc),
         \A a \in Accounts : \A f \in {"open", "configured"} : acc[a][f] = account[a][f]
  PROVE  /\ d.to \in Accounts /\ d.from \in SUBSET Accounts
         /\ AllSound(account')
         /\ Sum(account') = Sum(acc) + withheld.v
         /\ Sum(acc) \in Nat
         /\ account'[d.to].available.v = acc[d.to].available.v + withheld.v
         /\ account'[d.to].counter = acc[d.to].counter
         /\ Pending(account'[d.to]) = Pending(acc[d.to])
         /\ \A a \in Accounts \ {d.to} : account'[a] = acc[a]
         /\ \A a \in Accounts : account'[a].open = account[a].open
         /\ mint.initialized /\ mint.confidential_fee
         /\ account[d.to].configured /\ account'[d.to].configured
         /\ drafts' \subseteq drafts
         /\ fresh' \in 0 .. MaxFresh /\ switches' \in 0 .. MaxSwitches
         /\ withheld.v \in Nat
<1> DEFINE b == d.to
           x == acc[b]
           sum == Plus(x.available, d.moved)
           y == [x EXCEPT !.available = sum, !.decryptable = d.decryptable]
<1>1. /\ d.op = "withheld" /\ Executes(d) /\ account[b].open /\ account[b].configured
      /\ d.withheld = withheld /\ mint.confidential_fee
  BY DEF WithdrawWithheld, valid_as_destination
<1>2. /\ b \in Accounts /\ d.from \in SUBSET Accounts
      /\ d.moved \in NatCiphertexts /\ d.moved.v = withheld.v /\ withheld.v \in Nat
      /\ d.decryptable \in Nat
      /\ drafts' \subseteq drafts
      /\ fresh' \in 0 .. MaxFresh /\ switches' \in 0 .. MaxSwitches
  BY <1>1, ExecutionFacts DEF Statement
<1>3. /\ acc \in [Accounts -> WideAccount] /\ Sound(x) /\ x \in WideAccount
      /\ x.open /\ x.configured
  BY <1>1, <1>2 DEF AllSound
<1>4. account' = [acc EXCEPT ![b] = y]
  <2>1. account' = [acc EXCEPT ![b].available = Plus(@, d.moved),
                               ![b].decryptable = d.decryptable]
    BY DEF WithdrawWithheld
  <2> QED
    BY <1>2, <1>3, <2>1
<1>5. mint.initialized
  BY <1>1, <1>2, StateFacts
<1>6. x.available \in Ciphertexts /\ x.available.v \in Nat
  BY <1>3, SoundFacts
<1>7. sum \in Ciphertexts /\ sum.v = x.available.v + withheld.v
  <2>1. d.moved \in Ciphertexts
    BY <1>2, CiphertextFacts
  <2> HIDE DEF x
  <2>2. sum \in Ciphertexts /\ sum.v = x.available.v + d.moved.v
    BY <1>6, <2>1, CiphertextFacts
  <2> QED
    BY <1>2, <2>2
<1>8. acc[b] = x
  OBVIOUS
<1> HIDE DEF x, sum
<1>9. /\ y \in WideAccount
      /\ y.lo = x.lo /\ y.hi = x.hi /\ y.withheld = x.withheld
      /\ y.counter = x.counter /\ y.limit = x.limit
      /\ y.open = x.open /\ y.configured = x.configured
      /\ y.public_withheld = x.public_withheld /\ y.amount = x.amount
      /\ y.available = sum /\ y.decryptable = d.decryptable
  BY <1>2, <1>3, <1>7 DEF WideAccount
<1> HIDE DEF y
<1>10. y.available.v \in Nat /\ y.available.v = x.available.v + withheld.v
  BY <1>2, <1>6, <1>7, <1>9
<1>11. Sound(y)
  BY <1>3, <1>9, <1>10, AvailableSound
<1>12. Holdings(y) = Holdings(x) - x.amount - x.available.v + y.amount + y.available.v
  BY <1>3, <1>9, <1>10, AvailableSound
<1>13. Holdings(y) = Holdings(x) + withheld.v
  BY <1>2, <1>3, <1>9, <1>10, <1>12, SoundFacts
<1>14. /\ AllSound(account')
       /\ Sum(account') = Sum(acc) - Holdings(x) + Holdings(y)
       /\ Sum(acc) \in Nat /\ Holdings(x) \in Nat
  BY <1>2, <1>4, <1>8, <1>11, Replace
<1>15. account'[b] = y /\ \A a \in Accounts \ {b} : account'[a] = acc[a]
  BY <1>2, <1>3, <1>4
<1>16. \A a \in Accounts : account'[a].open = account[a].open
  BY <1>2, <1>8, <1>9, <1>15
<1>17. Pending(y) = Pending(x)
  BY <1>9 DEF Pending
<1>18. Sum(account') = Sum(acc) + withheld.v
  BY <1>2, <1>13, <1>14
<1> QED
  BY <1>1, <1>2, <1>3, <1>5, <1>8, <1>9, <1>10, <1>14, <1>15, <1>16, <1>17, <1>18

LEMMA WithdrawFromMintConfInv ==
  ASSUME ConfInv, NEW d \in drafts, WithdrawWithheldTokensFromMint(d)
  PROVE  ConfInv'
<1>1. /\ WithdrawWithheld(d, mint.withheld, account)
      /\ mint' = [mint EXCEPT !.withheld = Zeroed]
  BY DEF WithdrawWithheldTokensFromMint
<1>2. AllSound(account)
  BY DEF ConfInv
<1>3. /\ AllSound(account') /\ Sum(account') = Sum(account) + mint.withheld.v
      /\ Sum(account) \in Nat
      /\ \A a \in Accounts : account'[a].open => mint.initialized
      /\ mint.initialized /\ drafts' \subseteq drafts
      /\ fresh' \in 0 .. MaxFresh /\ switches' \in 0 .. MaxSwitches
  BY <1>1, <1>2, ReceivedFacts
<1>4. /\ MintSound(mint) /\ mint \in MintState
      /\ mint.withheld.v \in Nat /\ mint.minted \in Nat
  BY MintFacts DEF ConfInv
<1>5. Zeroed \in Ciphertexts /\ Zeroed \in NatCiphertexts /\ Zeroed.v = 0
  BY CiphertextFacts
<1>6. /\ mint' \in MintState /\ mint'.withheld = Zeroed
      /\ \A f \in {"initialized", "has_fees", "fee", "confidential", "confidential_fee",
                   "minted"} : mint'[f] = mint[f]
  BY <1>1, <1>4, <1>5 DEF MintState
<1>7. MintSound(mint')
  BY <1>4, <1>5, <1>6 DEF MintSound, check_for_invalid_mint_extension_combinations
<1>8. mint'.minted - mint'.withheld.v - Sum(account')
        = mint.minted - mint.withheld.v - Sum(account)
  BY <1>3, <1>4, <1>5, <1>6
<1> QED
  BY <1>3, <1>6, <1>7, <1>8, StateChange

LEMMA WithdrawFromAccountsConfInv ==
  ASSUME ConfInv, NEW d \in drafts, WithdrawWithheldTokensFromAccounts(d)
  PROVE  ConfInv'
<1> DEFINE S == d.from
           acc == Harvested(account, S)
<1>1. /\ WithdrawWithheld(d, Aggregate(S), acc) /\ UNCHANGED mint
      /\ d.op = "withheld"
  BY DEF WithdrawWithheldTokensFromAccounts
<1>2. S \in SUBSET Accounts
  BY <1>1 DEF ConfInv, Statement
<1>3. /\ AllSound(acc) /\ Sum(acc) = Sum(account) - Aggregate(S).v
      /\ Sum(account) \in Nat /\ Aggregate(S).v \in Nat
      /\ \A a \in Accounts : \A f \in {"open", "configured"} : acc[a][f] = account[a][f]
  BY <1>2, HarvestedFacts
<1> HIDE DEF S, acc
<1>4. /\ AllSound(account') /\ Sum(account') = Sum(acc) + Aggregate(S).v
      /\ Sum(acc) \in Nat
      /\ \A a \in Accounts : account'[a].open => mint.initialized
      /\ drafts' \subseteq drafts
      /\ fresh' \in 0 .. MaxFresh /\ switches' \in 0 .. MaxSwitches
  BY <1>1, <1>3, ReceivedFacts
<1>5. Sum(account') = Sum(account)
  BY <1>3, <1>4
<1>6. MintSound(mint) /\ mint.withheld.v \in Nat /\ mint.minted \in Nat
  BY MintFacts DEF ConfInv
<1> QED
  BY <1>1, <1>4, <1>5, <1>6, StateChange

-----------------------------------------------------------------------------
(***************************************************************************)
(* Every step keeps the invariant.                                         *)
(***************************************************************************)
AccountActions(a) ==
  \/ InitializeAccount(a)
  \/ CloseAccount(a)
  \/ ToggleFreeze(a)
  \/ ApproveAccount(a)
  \/ \E n \in Amounts : MintTo(a, n) \/ Deposit(a, n)
  \/ \E b \in Accounts, n \in Amounts : Transfer(a, b, n)
  \/ \E key \in Keys, limit \in CreditLimits : ConfigureAccount(a, key, limit)
  \/ \E which \in {"allow_confidential", "allow_public"}, allow \in BOOLEAN :
       AllowCredits(a, which, allow)

DraftActions ==
  \/ \E S \in SUBSET Accounts, b \in Accounts : DraftWithdrawWithheld(S, b)
  \/ \E a \in Accounts :
       \/ DraftApply(a)
       \/ DraftEmpty(a)
       \/ \E n \in Amounts : DraftWithdraw(a, n)
       \/ \E b \in Accounts, n \in Amounts : DraftTransfer(a, b, n)

LEMMA StepKinds ==
  ASSUME Next
  PROVE  \/ MintActions
         \/ \E a \in Accounts : AccountActions(a)
         \/ DraftActions
         \/ \E S \in SUBSET Accounts : HarvestWithheldTokensToMint(S)
         \/ ExecuteDraft
BY DEF Next, MintActions, AccountActions, DraftActions

LEMMA NextConfInv == ConfInv /\ [Next]_vars => ConfInv'
<1> SUFFICES ASSUME ConfInv, [Next]_vars PROVE ConfInv'
  OBVIOUS
<1> DEFINE Goal == ConfInv'
<1> HIDE DEF Goal
<1>1. ASSUME UNCHANGED <<mint, account, fresh, switches>>, drafts' \subseteq drafts
      PROVE  Goal
  <2>1. MintSound(mint) /\ fresh \in 0 .. MaxFresh /\ switches \in 0 .. MaxSwitches
    BY DEF ConfInv
  <2> QED
    BY <1>1, <2>1, MintChange DEF Goal
<1>2. ASSUME NEW a \in Accounts, AccountActions(a) PROVE Goal
  BY <1>2, InitializeAccountConfInv, CloseAccountConfInv, SettingsConfInv, MintToConfInv,
     DepositConfInv, TransferConfInv, ConfigureAccountConfInv DEF AccountActions, Goal
<1>3. ASSUME DraftActions PROVE Goal
  BY <1>3, DraftApplyConfInv, DraftEmptyConfInv, DraftWithdrawConfInv,
     DraftTransferConfInv, DraftWithdrawWithheldConfInv DEF DraftActions, Goal
<1>4. ASSUME NEW S \in SUBSET Accounts, HarvestWithheldTokensToMint(S) PROVE Goal
  BY <1>4, HarvestConfInv DEF Goal
<1>5. ASSUME NEW d \in drafts, Drop(d) PROVE Goal
  BY <1>1, <1>5 DEF Drop, Executes
<1>6. ASSUME ExecuteDraft PROVE Goal
  <2> SUFFICES ASSUME NEW d \in drafts,
                      \/ ApplyPendingBalance(d)
                      \/ EmptyAccount(d)
                      \/ Withdraw(d)
                      \/ ConfidentialTransfer(d)
                      \/ WithdrawWithheldTokensFromMint(d)
                      \/ WithdrawWithheldTokensFromAccounts(d)
               PROVE  Goal
    BY <1>5, <1>6 DEF ExecuteDraft
  <2> QED
    BY ApplyConfInv, EmptyConfInv, WithdrawConfInv, ConfidentialTransferConfInv,
       WithdrawFromMintConfInv, WithdrawFromAccountsConfInv DEF Goal
<1>7. ASSUME UNCHANGED vars PROVE Goal
  BY <1>1, <1>7 DEF vars
<1>8. ASSUME Next PROVE Goal
  BY <1>2, <1>3, <1>4, <1>6, <1>8, StepKinds, MintActionsConfInv DEF Goal
<1> QED
  BY <1>7, <1>8 DEF Goal

\* No account holds more than was minted, so the types hold.
LEMMA ConfInvTypeOK == ConfInv => TypeOK
<1> SUFFICES ASSUME ConfInv PROVE TypeOK
  OBVIOUS
<1> DEFINE f == [a \in Accounts |-> Holdings(account[a])]
<1>1. \A a \in Accounts : Sound(account[a]) /\ f[a] \in Nat /\ f[a] = Holdings(account[a])
  BY StateFacts, SoundFacts
<1>2. Sum(account) = Total(f, Accounts)
  BY DEF Sum
<1>3. /\ Sum(account) + mint.withheld.v = mint.minted
      /\ mint.withheld.v \in Nat /\ mint.minted \in Nat /\ mint.minted <= Supply
      /\ Supply \in Nat /\ mint \in MintState
  BY ConservedSum, MintFacts, NumberFacts DEF ConfInv
<1>4. Sum(account) \in Nat
  BY SumType DEF ConfInv
<1> HIDE DEF f
<1>5. \A a \in Accounts : f[a] <= Total(f, Accounts)
  BY <1>1, NumberFacts, TotalBound
<1>6. \A a \in Accounts : Holdings(account[a]) <= Supply
  BY <1>1, <1>2, <1>3, <1>4, <1>5
<1>7. ASSUME NEW a \in Accounts
      PROVE  account[a] \in AccountState
  <2> DEFINE x == account[a]
  <2>1. x \in WideAccount /\ Sound(x) /\ Holdings(x) <= Supply
    BY <1>1, <1>6, StateFacts
  <2> HIDE DEF x
  <2>2. x.amount \in 0 .. Supply /\ x.public_withheld \in 0 .. Supply
    BY <1>3, <2>1, SoundFacts
  <2>3. x \in AccountState
    BY <2>1, <2>2 DEF WideAccount, AccountState
  <2> QED
    BY <2>3 DEF x
<1>8. account \in [Accounts -> AccountState]
  BY <1>7 DEF ConfInv, AllSound
<1> QED
  BY <1>3, <1>8 DEF ConfInv, TypeOK, Statement

LEMMA SpecConfInv == Spec => []ConfInv
BY InitConfInv, NextConfInv, PTL DEF Spec

-----------------------------------------------------------------------------
(***************************************************************************)
(* What a step can do to the encrypted balance of one account: nothing;    *)
(* open, close or configure it, empty; credit what is pending; receive     *)
(* withheld fees; or execute an instruction of its owner.                  *)
(***************************************************************************)
Left(a) ==
  LET x == account[a]  y == account'[a]
  IN  /\ y.available.v = x.available.v /\ y.decryptable = x.decryptable
      /\ Pending(y).v = Pending(x).v /\ y.counter = x.counter
      /\ y.configured = x.configured

Cleared(a) ==
  LET x == account[a]  y == account'[a]
  IN  /\ x.available.v = 0 /\ Pending(x).v = 0
      /\ y.available.v = 0 /\ Pending(y).v = 0
      /\ y.decryptable = 0 /\ y.counter = 0

Received(a) ==
  LET x == account[a]  y == account'[a]
  IN  /\ y.available.v >= x.available.v
      /\ y.counter = x.counter
      /\ y.configured /\ x.configured
      /\ mint.has_fees

OwnStep(a) ==
  \E d \in drafts : /\ d.by = a
                    /\ \/ ApplyPendingBalance(d)
                       \/ EmptyAccount(d)
                       \/ Withdraw(d)
                       \/ ConfidentialTransfer(d)

Moved(a) ==
  \/ Left(a)
  \/ Cleared(a)
  \/ \E n \in Amounts : CreditedWith(a, n)
  \/ Received(a)
  \/ OwnStep(a)

LEMMA SameAccountLeft ==
  ASSUME NEW a, account'[a] = account[a]
  PROVE  Left(a)
BY DEF Left

\* Empty accounts, before and after.
LEMMA ClosableFacts ==
  ASSUME NEW x, closable(x)
  PROVE  x.available.v = 0 /\ Pending(x).v = 0
<1>1. Zeroed \in Ciphertexts /\ Zeroed.v = 0 /\ RADIX * 0 = 0
  BY CiphertextFacts, NumberFacts
<1>2. LoHi(Zeroed, Zeroed).v = Zeroed.v + RADIX * Zeroed.v
  BY <1>1, CiphertextFacts
<1> QED
  BY <1>1, <1>2 DEF closable, Pending

LEMMA FreshFacts ==
  /\ Fresh.available.v = 0 /\ Pending(Fresh).v = 0
  /\ Fresh.decryptable = 0 /\ Fresh.counter = 0 /\ ~Fresh.configured
<1>1. closable(Fresh)
  BY DEF closable, Fresh
<1> QED
  BY <1>1, ClosableFacts DEF Fresh

LEMMA AccountActionMoves ==
  ASSUME ConfInv, NEW b \in Accounts, AccountActions(b), NEW a \in Accounts
  PROVE  Moved(a)
<1> DEFINE Goal == Left(a) \/ Cleared(a) \/ \E n \in Amounts : CreditedWith(a, n)
<1>1. account \in [Accounts -> WideAccount] /\ \A c \in Accounts : Sound(account[c])
  BY StateFacts
<1>2. \A c \in Accounts : account[c] \in WideAccount
  BY <1>1
<1>3. ASSUME InitializeAccount(b) PROVE Goal
  <2> DEFINE y == [Fresh EXCEPT !.open = TRUE]
  <2>1. account' = [account EXCEPT ![b] = y] /\ ~account[b].open
    BY <1>3 DEF InitializeAccount
  <2>2. y.available.v = 0 /\ Pending(y).v = 0 /\ y.decryptable = 0 /\ y.counter = 0
    <3>1. closable(y) /\ y.decryptable = 0 /\ y.counter = 0
      BY DEF Fresh, closable
    <3> HIDE DEF y
    <3> QED
      BY <3>1, ClosableFacts
  <2>3. closable(account[b])
    BY <1>1, <2>1 DEF Sound
  <2> HIDE DEF y
  <2>4. a = b => Cleared(a)
    BY <1>1, <2>1, <2>2, <2>3, ClosableFacts DEF Cleared
  <2>5. a # b => Left(a)
    BY <1>1, <2>1, SameAccountLeft
  <2> QED
    BY <2>4, <2>5
<1>4. ASSUME CloseAccount(b) PROVE Goal
  <2>1. account' = [account EXCEPT ![b] = Fresh] /\ closable(account[b])
    BY <1>4 DEF CloseAccount
  <2>2. a = b => Cleared(a)
    BY <1>1, <2>1, FreshFacts, ClosableFacts DEF Cleared
  <2>3. a # b => Left(a)
    BY <1>1, <2>1, SameAccountLeft
  <2> QED
    BY <2>2, <2>3
<1>5. ASSUME NEW key \in Keys, NEW limit \in CreditLimits, ConfigureAccount(b, key, limit)
      PROVE  Goal
  <2>1. /\ account'[b].available = Zeroed /\ account'[b].decryptable = 0
        /\ account'[b].counter = 0 /\ closable(account'[b])
        /\ ~account[b].configured
        /\ \A c \in Accounts \ {b} : account'[c] = account[c]
    BY <1>1, <1>2, <1>5 DEF ConfigureAccount, WideAccount, closable
  <2>2. closable(account[b])
    BY <1>1, <2>1 DEF Sound
  <2>3. a = b => Cleared(a)
    BY <2>1, <2>2, ClosableFacts DEF Cleared
  <2>4. a # b => Left(a)
    BY <2>1, SameAccountLeft
  <2> QED
    BY <2>3, <2>4
<1>6. ASSUME NEW n \in Amounts, Deposit(b, n) PROVE Goal
  BY <1>6, DepositConfInv, SameAccountLeft
<1>7. ASSUME \/ ToggleFreeze(b)
             \/ ApproveAccount(b)
             \/ \E n \in Amounts : MintTo(b, n)
             \/ \E c \in Accounts, n \in Amounts : Transfer(b, c, n)
             \/ \E which \in {"allow_confidential", "allow_public"}, allow \in BOOLEAN :
                  AllowCredits(b, which, allow)
      PROVE  Goal
  <2>1. /\ account'[a].available = account[a].available
        /\ account'[a].decryptable = account[a].decryptable
        /\ account'[a].lo = account[a].lo /\ account'[a].hi = account[a].hi
        /\ account'[a].counter = account[a].counter
        /\ account'[a].configured = account[a].configured
    <3>1. CASE ToggleFreeze(b) \/ ApproveAccount(b) \/ \E n \in Amounts : MintTo(b, n)
      BY <1>1, <1>2, <3>1 DEF ToggleFreeze, ApproveAccount, MintTo, WideAccount
    <3>2. CASE \E which \in {"allow_confidential", "allow_public"}, allow \in BOOLEAN :
                   AllowCredits(b, which, allow)
      BY <1>1, <1>2, <3>2 DEF AllowCredits, WideAccount
    <3>3. ASSUME NEW c \in Accounts, NEW n \in Amounts, Transfer(b, c, n)
          PROVE  /\ account'[a].available = account[a].available
                 /\ account'[a].decryptable = account[a].decryptable
                 /\ account'[a].lo = account[a].lo /\ account'[a].hi = account[a].hi
                 /\ account'[a].counter = account[a].counter
                 /\ account'[a].configured = account[a].configured
      BY <1>1, <1>2, <3>3 DEF Transfer, WideAccount
    <3> QED
      BY <1>7, <3>1, <3>2, <3>3
  <2> QED
    BY <2>1 DEF Left, Pending
<1> QED
  BY <1>3, <1>4, <1>5, <1>6, <1>7 DEF AccountActions, Moved

\* Fees withheld in confidence exist only on a mint with fees.
LEMMA WithheldMoves ==
  ASSUME ConfInv, NEW d \in drafts, NEW withheld, NEW acc,
         WithdrawWithheld(d, withheld, acc), AllSound(acc), NEW a \in Accounts,
         \A c \in Accounts :
           \A f \in {"open", "configured", "available", "decryptable", "lo", "hi",
                     "counter"} : acc[c][f] = account[c][f]
  PROVE  Left(a) \/ Received(a)
<1>1. /\ d.to \in Accounts
      /\ account'[d.to].available.v = acc[d.to].available.v + withheld.v
      /\ account'[d.to].counter = acc[d.to].counter
      /\ \A c \in Accounts \ {d.to} : account'[c] = acc[c]
      /\ mint.initialized /\ mint.confidential_fee
      /\ account[d.to].configured /\ account'[d.to].configured
      /\ withheld.v \in Nat
  BY ReceivedFacts
<1>2. mint.has_fees
  BY <1>1 DEF ConfInv, MintSound, check_for_invalid_mint_extension_combinations
<1>3. account[d.to].available.v \in Nat
  BY <1>1, StateFacts, SoundFacts
<1>4. a = d.to => Received(a)
  BY <1>1, <1>2, <1>3 DEF Received
<1>5. a # d.to => Left(a)
  BY <1>1 DEF Left, Pending
<1> QED
  BY <1>4, <1>5

LEMMA ExecuteDraftMoves ==
  ASSUME ConfInv, NEW d \in drafts, NEW a \in Accounts,
         \/ Drop(d)
         \/ ApplyPendingBalance(d)
         \/ EmptyAccount(d)
         \/ Withdraw(d)
         \/ ConfidentialTransfer(d)
         \/ WithdrawWithheldTokensFromMint(d)
         \/ WithdrawWithheldTokensFromAccounts(d)
  PROVE  Moved(a)
<1>1. account \in [Accounts -> WideAccount] /\ AllSound(account)
  BY DEF ConfInv, AllSound
<1>2. CASE Drop(d)
  BY <1>2, SameAccountLeft DEF Drop, Moved
<1>3. CASE ApplyPendingBalance(d) \/ EmptyAccount(d) \/ Withdraw(d)
  <2>1. d.by # a => account'[a] = account[a]
    BY <1>1, <1>3 DEF ApplyPendingBalance, EmptyAccount, Withdraw
  <2> QED
    BY <1>3, <2>1, SameAccountLeft DEF Moved, OwnStep
<1>4. CASE ConfidentialTransfer(d)
  <2>1. PICK n \in Amounts : Transferred(d, n)
    BY <1>4, ConfidentialTransferConfInv
  <2>2. d.by = a => OwnStep(a)
    BY <1>4 DEF OwnStep
  <2>3. ASSUME d.by # a, d.to = a PROVE CreditedWith(a, n)
    <3>1. /\ account'[a].available = account[a].available
          /\ account'[a].decryptable = account[a].decryptable
          /\ account'[a].counter = account[a].counter + 1
          /\ ~mint.has_fees => Pending(account'[a]).v = Pending(account[a]).v + n
      BY <2>1, <2>3 DEF Transferred
    <3>2. account[a].configured /\ account'[a].configured
      BY <2>1, <2>3 DEF Transferred
    <3> QED
      BY <3>1, <3>2 DEF CreditedWith
  <2>4. d.by # a /\ d.to # a => account'[a] = account[a]
    BY <2>1 DEF Transferred
  <2> QED
    BY <2>2, <2>3, <2>4, SameAccountLeft DEF Moved
<1>5. CASE WithdrawWithheldTokensFromMint(d)
  <2>1. WithdrawWithheld(d, mint.withheld, account)
    BY <1>5 DEF WithdrawWithheldTokensFromMint
  <2> QED
    BY <1>1, <2>1, WithheldMoves DEF Moved
<1>6. CASE WithdrawWithheldTokensFromAccounts(d)
  <2> DEFINE acc == Harvested(account, d.from)
  <2>1. WithdrawWithheld(d, Aggregate(d.from), acc) /\ d.op = "withheld"
    BY <1>6 DEF WithdrawWithheldTokensFromAccounts
  <2>2. d.from \in SUBSET Accounts
    BY <2>1 DEF ConfInv, Statement
  <2>3. /\ AllSound(acc)
        /\ \A c \in Accounts :
             \A f \in {"open", "configured", "available", "decryptable", "lo", "hi",
                       "counter"} : acc[c][f] = account[c][f]
    BY <2>2, HarvestedFacts
  <2> HIDE DEF acc
  <2> QED
    BY <2>1, <2>3, WithheldMoves DEF Moved
<1> QED
  BY <1>2, <1>3, <1>4, <1>5, <1>6

LEMMA MintAndDraftActionsKeep ==
  ASSUME MintActions \/ DraftActions
  PROVE  UNCHANGED account
<1>1. MintActions => UNCHANGED account
  BY DEF MintActions, InitializeConfidentialMint, UpdateMint, ChangeFee, InitializeMint,
     InitializeConfidentialTransferFeeConfig, InitializeTransferFeeConfig,
     RenounceAuthority, SetHarvestToMint
<1>2. DraftActions => UNCHANGED account
  <2>1. \A d, n : Drafts(d, n) => UNCHANGED account
    BY DEF Drafts
  <2>2. ASSUME NEW c \in Accounts
        PROVE  /\ DraftApply(c) => UNCHANGED account
               /\ DraftEmpty(c) => UNCHANGED account
               /\ \A n \in Amounts : DraftWithdraw(c, n) => UNCHANGED account
               /\ \A b \in Accounts, n \in Amounts : DraftTransfer(c, b, n) => UNCHANGED account
               /\ \A S \in SUBSET Accounts : DraftWithdrawWithheld(S, c) => UNCHANGED account
    BY <2>1, Zenon DEF DraftApply, DraftEmpty, DraftWithdraw, DraftTransfer,
                       DraftWithdrawWithheld
  <2> QED
    BY <2>2 DEF DraftActions
<1> QED
  BY <1>1, <1>2

LEMMA StepMoves ==
  ASSUME ConfInv, [Next]_vars, NEW a \in Accounts
  PROVE  Moved(a)
<1>1. CASE UNCHANGED account
  BY <1>1, SameAccountLeft DEF Moved
<1>2. ASSUME NEW S \in SUBSET Accounts, HarvestWithheldTokensToMint(S) PROVE Moved(a)
  <2>1. account' = Harvested(account, S)
    BY <1>2 DEF HarvestWithheldTokensToMint
  <2>2. \A f \in {"configured", "available", "decryptable", "lo", "hi", "counter"} :
          account'[a][f] = account[a][f]
    BY <2>1, HarvestedFacts
  <2> QED
    BY <2>2 DEF Left, Pending, Moved
<1>3. MintActions \/ DraftActions => UNCHANGED account
  BY MintAndDraftActionsKeep
<1>4. CASE Next
  BY <1>1, <1>2, <1>3, <1>4, StepKinds, AccountActionMoves, ExecuteDraftMoves
     DEF ExecuteDraft
<1> QED
  BY <1>1, <1>4 DEF vars

-----------------------------------------------------------------------------
(***************************************************************************)
(* The theorems.                                                           *)
(***************************************************************************)
\* No order of instructions, prompt or late, makes or loses a token, public,
\* encrypted or withheld.
THEOREM TokensStay == Spec => []TokensConserved
<1>1. ConfInv => TokensConserved
  BY DEF ConfInv
<1> QED
  BY <1>1, SpecConfInv, PTL

\* No encrypted balance is ever negative, though no handler can look into it.
THEOREM NeverOverdrawn == Spec => []NothingOverdrawn
<1>1. ConfInv => NothingOverdrawn
  BY ConfInvTypeOK, MintFacts, StateFacts, SoundFacts
     DEF NothingOverdrawn, ConfInv, Pending
<1> QED
  BY <1>1, SpecConfInv, PTL

\* What lowers an encrypted balance is an instruction of its owner.
LEMMA Spending ==
  ASSUME ConfInv, [Next]_vars, NEW a \in Accounts,
         account'[a].available.v < account[a].available.v
  PROVE  \E d \in drafts : d.by = a /\ (Withdraw(d) \/ ConfidentialTransfer(d))
<1>1. ConfInv' /\ account[a].available.v \in Nat /\ account'[a].available.v \in Nat
  <2>1. ConfInv'
    BY NextConfInv
  <2>2. Sound(account[a]) /\ Sound(account'[a])
    BY <2>1, StateFacts DEF ConfInv, AllSound
  <2> QED
    BY <2>1, <2>2, SoundFacts
<1>2. OwnStep(a)
  BY <1>1, StepMoves DEF Moved, Left, Cleared, CreditedWith, Received
<1>3. ASSUME NEW d \in drafts, d.by = a, ApplyPendingBalance(d) PROVE FALSE
  <2>1. /\ account' = [account EXCEPT ![a] = Applied(account[a], d.expected, d.decryptable)]
        /\ d.op = "apply" /\ account[a].configured
    BY <1>3 DEF ApplyPendingBalance, Applied
  <2>2. d.expected \in Nat /\ d.decryptable \in Nat
    BY <2>1 DEF ConfInv, Statement
  <2>3. Sound(account[a]) /\ Pending(account[a]).v \in Nat
    BY StateFacts, SoundFacts
  <2>4. account'[a] = Applied(account[a], d.expected, d.decryptable)
    BY <2>1, StateFacts
  <2>5. account'[a].available.v = account[a].available.v + Pending(account[a]).v
    BY <2>1, <2>2, <2>3, <2>4, AppliedSound
  <2> QED
    BY <1>1, <2>3, <2>5
<1>4. ASSUME NEW d \in drafts, d.by = a, EmptyAccount(d) PROVE FALSE
  <2>1. account[a].available.v = 0
    BY <1>4, EmptyConfInv
  <2> QED
    BY <1>1, <2>1
<1> QED
  BY <1>2, <1>3, <1>4 DEF OwnStep

\* After a withdrawal or a confidential transfer the balance its owner can
\* decrypt is the encrypted one, whatever came between proof and execution.
THEOREM SpendersKnow == Spec => SpenderKnowsBalance
<1>1. ASSUME ConfInv, [Next]_vars
      PROVE  [\A a \in Accounts :
                account'[a].available.v < account[a].available.v
                  => account'[a].decryptable = account'[a].available.v]_vars
  <2> SUFFICES ASSUME NEW a \in Accounts,
                      account'[a].available.v < account[a].available.v
               PROVE  account'[a].decryptable = account'[a].available.v
    OBVIOUS
  <2>1. PICK d \in drafts : d.by = a /\ (Withdraw(d) \/ ConfidentialTransfer(d))
    BY <1>1, Spending
  <2> QED
    BY <1>1, <2>1, WithdrawConfInv, ConfidentialTransferConfInv DEF Transferred
<1> QED
  BY <1>1, SpecConfInv, PTL DEF Spec, SpenderKnowsBalance

\* A confidential transfer withholds the fee in force when it executes.
THEOREM FeesInForce == Spec => ConfidentialFeeWithheld
<1> DEFINE Charged(a, b) ==
      /\ a # b
      /\ account'[a].available.v < account[a].available.v
      /\ account'[b].counter > account[b].counter
      => account'[b].withheld.v - account[b].withheld.v
           = calculate_fee(mint.fee, account[a].available.v - account'[a].available.v)
<1>1. ASSUME ConfInv, [Next]_vars
      PROVE  [\A a, b \in Accounts : Charged(a, b)]_vars
  <2> SUFFICES ASSUME NEW a \in Accounts, NEW b \in Accounts, a # b,
                      account'[a].available.v < account[a].available.v,
                      account'[b].counter > account[b].counter
               PROVE  account'[b].withheld.v - account[b].withheld.v
                        = calculate_fee(mint.fee, account[a].available.v
                                                    - account'[a].available.v)
    OBVIOUS
  <2>1. PICK d \in drafts : d.by = a /\ (Withdraw(d) \/ ConfidentialTransfer(d))
    BY <1>1, Spending
  <2>2. /\ account[b].counter \in Nat /\ account[a].available.v \in Nat
        /\ account \in [Accounts -> WideAccount]
    BY <1>1, StateFacts, SoundFacts
  <2>3. ~Withdraw(d)
    <3> SUFFICES ASSUME Withdraw(d) PROVE FALSE
      OBVIOUS
    <3>1. account'[b] = account[b]
      BY <2>1, <2>2 DEF Withdraw
    <3> QED
      BY <2>2, <3>1
  <2>4. PICK n \in Amounts : Transferred(d, n)
    BY <1>1, <2>1, <2>3, ConfidentialTransferConfInv
  <2>5. d.to = b
    <3> SUFFICES ASSUME d.to # b PROVE FALSE
      OBVIOUS
    <3>1. account'[b] = account[b]
      BY <2>1, <2>4 DEF Transferred
    <3> QED
      BY <2>2, <3>1
  <2>6. /\ account'[b].withheld.v - account[b].withheld.v = calculate_fee(mint.fee, n)
        /\ account'[a].available.v = account[a].available.v - n
    BY <2>1, <2>4, <2>5 DEF Transferred
  <2>7. account[a].available.v - account'[a].available.v = n
    BY <2>2, <2>6, AmountFacts
  <2> QED
    BY <2>6, <2>7
<1> QED
  BY <1>1, SpecConfInv, PTL DEF Spec, ConfidentialFeeWithheld

-----------------------------------------------------------------------------
(***************************************************************************)
(* Missed credits.  The invariant, on a mint without fees: a patient owner *)
(* has one instruction in flight; every credit counted is at least one     *)
(* unit of pending balance; the decryptable balance is never above the     *)
(* encrypted one; and what an ApplyPendingBalance in flight says about     *)
(* balance and counter was true when it was built, and since then only     *)
(* credits came, so that an equal counter means an equal balance.          *)
(***************************************************************************)
OneInFlight ==
  /\ IsFiniteSet(drafts)
  /\ \A d, e \in drafts : d.by \in Patient /\ d.by = e.by => d = e

Quoted(d) ==
  LET x == account[d.by]
  IN  /\ d.expected <= x.counter
      /\ d.decryptable <= x.decryptable + Pending(x).v
      /\ d.expected = x.counter => d.decryptable = x.decryptable + Pending(x).v

PatientInv ==
  /\ OneInFlight
  /\ \A a \in Accounts :
       ~account[a].configured => account[a].counter = 0 /\ account[a].decryptable = 0
  /\ ~mint.has_fees =>
       /\ \A a \in Accounts : account[a].counter <= Pending(account[a]).v
       /\ \A a \in Patient : account[a].decryptable <= account[a].available.v
       /\ \A d \in drafts : d.op = "apply" /\ d.by \in Patient => Quoted(d)

LEMMA InitPatientInv == Init => PatientInv
<1> SUFFICES ASSUME Init PROVE PatientInv
  OBVIOUS
<1>1. drafts = {} /\ \A a \in Accounts : account[a] = Fresh
  BY DEF Init
<1>2. OneInFlight
  BY <1>1, FS_EmptySet DEF OneInFlight
<1> QED
  BY <1>1, <1>2, FreshFacts, ConfidentialAssumption DEF PatientInv

\* What the instructions of its owner do to an account.
LEMMA OwnStepFacts ==
  ASSUME ConfInv, NEW d \in drafts, NEW a \in Accounts, d.by = a,
         \/ ApplyPendingBalance(d)
         \/ EmptyAccount(d)
         \/ Withdraw(d)
         \/ ConfidentialTransfer(d)
  PROVE  LET x == account[a]  y == account'[a]
         IN  /\ y.configured
             /\ drafts' = drafts \ {d}
             /\ \/ /\ d.op = "apply"
                   /\ y.available.v = x.available.v + Pending(x).v
                   /\ y.decryptable = d.decryptable
                   /\ y.expected = d.expected /\ y.actual = x.counter
                   /\ y.counter = 0 /\ Pending(y).v = 0
                \/ /\ \/ y.decryptable = y.available.v
                      \/ y.decryptable = x.decryptable /\ y.available.v = x.available.v
                   /\ \/ y.counter = x.counter /\ Pending(y).v = Pending(x).v
                      \/ /\ y.counter = x.counter + 1
                         /\ ~mint.has_fees
                              => \E n \in Amounts : Pending(y).v = Pending(x).v + n
<1> DEFINE x == account[a]
           y == account'[a]
<1>1. account \in [Accounts -> WideAccount] /\ Sound(x) /\ x \in WideAccount
  BY StateFacts
<1>2. drafts' = drafts \ {d}
  BY DEF ApplyPendingBalance, EmptyAccount, Withdraw, ConfidentialTransfer, Executes
<1>3. ASSUME ApplyPendingBalance(d)
      PROVE  /\ y.configured
             /\ d.op = "apply"
             /\ y.available.v = x.available.v + Pending(x).v
             /\ y.decryptable = d.decryptable
             /\ y.expected = d.expected /\ y.actual = x.counter
             /\ y.counter = 0 /\ Pending(y).v = 0
  <2>1. /\ account' = [account EXCEPT ![a] = Applied(x, d.expected, d.decryptable)]
        /\ d.op = "apply" /\ x.configured
    BY <1>3 DEF ApplyPendingBalance, Applied
  <2>2. d.expected \in Nat /\ d.decryptable \in Nat
    BY <2>1 DEF ConfInv, Statement
  <2>3. y = Applied(x, d.expected, d.decryptable)
    BY <1>1, <2>1
  <2> HIDE DEF x, y
  <2> QED
    BY <1>1, <2>1, <2>2, <2>3, AppliedSound
<1>4. ASSUME EmptyAccount(d)
      PROVE  /\ y.configured /\ y.decryptable = x.decryptable
             /\ y.available.v = x.available.v
             /\ y.counter = x.counter /\ Pending(y).v = Pending(x).v
  <2>1. account' = [account EXCEPT ![a] = [x EXCEPT !.available = Zeroed]] /\ x.configured
    BY <1>4 DEF EmptyAccount
  <2>2. x.available.v = 0
    BY <1>4, EmptyConfInv
  <2>3. /\ y.available = Zeroed /\ y.decryptable = x.decryptable /\ y.configured
        /\ y.counter = x.counter /\ y.lo = x.lo /\ y.hi = x.hi
    BY <1>1, <2>1 DEF WideAccount
  <2> QED
    BY <2>2, <2>3, CiphertextFacts DEF Pending
<1>5. ASSUME Withdraw(d)
      PROVE  /\ y.configured /\ y.decryptable = y.available.v
             /\ y.counter = x.counter /\ Pending(y).v = Pending(x).v
  <2>1. y.decryptable = y.available.v
    BY <1>5, WithdrawConfInv
  <2>2. /\ y.configured /\ y.counter = x.counter /\ y.lo = x.lo /\ y.hi = x.hi
    BY <1>1, <1>5 DEF Withdraw, valid_as_source, WideAccount
  <2> QED
    BY <2>1, <2>2 DEF Pending
<1>6. ASSUME ConfidentialTransfer(d)
      PROVE  /\ y.configured /\ y.decryptable = y.available.v
             /\ \/ y.counter = x.counter /\ Pending(y).v = Pending(x).v
                \/ /\ y.counter = x.counter + 1
                   /\ ~mint.has_fees
                        => \E n \in Amounts : Pending(y).v = Pending(x).v + n
  <2>1. PICK n \in Amounts : Transferred(d, n)
    BY <1>6, ConfidentialTransferConfInv
  <2> QED
    BY <2>1 DEF Transferred
<1> HIDE DEF x, y
<1>7. /\ y.configured
      /\ drafts' = drafts \ {d}
      /\ \/ /\ d.op = "apply"
            /\ y.available.v = x.available.v + Pending(x).v
            /\ y.decryptable = d.decryptable
            /\ y.expected = d.expected /\ y.actual = x.counter
            /\ y.counter = 0 /\ Pending(y).v = 0
         \/ /\ \/ y.decryptable = y.available.v
               \/ y.decryptable = x.decryptable /\ y.available.v = x.available.v
            /\ \/ y.counter = x.counter /\ Pending(y).v = Pending(x).v
               \/ /\ y.counter = x.counter + 1
                  /\ ~mint.has_fees
                       => \E n \in Amounts : Pending(y).v = Pending(x).v + n
  BY <1>2, <1>3, <1>4, <1>5, <1>6
<1> QED
  BY <1>7 DEF x, y

\* How the instructions in flight change.
Quotes(d) ==
  d.op = "apply" =>
    /\ d.by \in Accounts
    /\ d.expected = account[d.by].counter
    /\ d.decryptable = account[d.by].decryptable + Pending(account[d.by]).v

Drafted(d) ==
  /\ drafts' = drafts \cup {d}
  /\ d.by \in Patient => InFlight(d.by) < 1
  /\ UNCHANGED <<mint, account>>
  /\ Quotes(d)

LEMMA StepDrafts ==
  ASSUME [Next]_vars
  PROVE  drafts' \subseteq drafts \/ \E d : Drafted(d)
<1> DEFINE Goal == drafts' \subseteq drafts \/ \E d : Drafted(d)
<1>1. ASSUME NEW d, NEW n, Drafts(d, n), Quotes(d) PROVE Goal
  BY <1>1 DEF Drafts, Drafted
<1>2. ASSUME NEW d, NEW n, Drafts(d, n), d.op # "apply" PROVE Goal
  BY <1>1, <1>2 DEF Quotes
<1> HIDE DEF Goal
<1>3. ASSUME NEW a \in Accounts, DraftApply(a) PROVE Goal
  <2> DEFINE d == [op |-> "apply", by |-> a, expected |-> account[a].counter,
                   decryptable |-> account[a].decryptable
                                     + LoHi(account[a].lo, account[a].hi).v]
  <2>1. Drafts(d, 0)
    BY <1>3 DEF DraftApply
  <2>2. Quotes(d)
    BY DEF Quotes, Pending
  <2> HIDE DEF d
  <2> QED
    BY <1>1, <2>1, <2>2
<1>4. ASSUME NEW a \in Accounts, DraftEmpty(a) PROVE Goal
  <2> DEFINE d == [op |-> "empty", by |-> a, key |-> account[a].key,
                   ciphertext |-> account[a].available]
  <2>1. Drafts(d, 0) /\ d.op # "apply"
    BY <1>4 DEF DraftEmpty
  <2> HIDE DEF d
  <2> QED
    BY <1>2, <2>1
<1>5. ASSUME NEW a \in Accounts, NEW n \in Amounts, DraftWithdraw(a, n) PROVE Goal
  <2> DEFINE d == [op |-> "withdraw", by |-> a, key |-> account[a].key, amount |-> n,
                   final |-> PlusAmount(account[a].available, -n),
                   decryptable |-> account[a].decryptable - n]
  <2>1. Drafts(d, 0) /\ d.op # "apply"
    BY <1>5 DEF DraftWithdraw
  <2> HIDE DEF d
  <2> QED
    BY <1>2, <2>1
<1>6. ASSUME NEW a \in Accounts, NEW b \in Accounts, NEW n \in Amounts, DraftTransfer(a, b, n)
      PROVE  Goal
  <2> DEFINE fee == calculate_fee(mint.fee, n)
             lo == Encrypt(Low(n), fresh)
             hi == Encrypt(High(n), fresh)
             d == [op |-> "transfer", by |-> a, to |-> b,
                   source |-> account[a].key, destination |-> account[b].key,
                   auditor |-> mint.auditor, fee_key |-> mint.fee_key,
                   rate |-> mint.fee, lo |-> lo, hi |-> hi,
                   fee_lo |-> Encrypt(Low(fee), fresh + 1),
                   fee_hi |-> Encrypt(High(fee), fresh + 1),
                   final |-> Minus(account[a].available, LoHi(lo, hi)),
                   decryptable |-> account[a].decryptable - n]
             k == IF mint.has_fees THEN 2 ELSE 1
  <2>1. Drafts(d, k) /\ d.op # "apply"
    BY <1>6 DEF DraftTransfer
  <2> HIDE DEF d, k
  <2> QED
    BY <1>2, <2>1
<1>7. ASSUME NEW S \in SUBSET Accounts, NEW b \in Accounts, DraftWithdrawWithheld(S, b)
      PROVE  Goal
  <2> DEFINE withheld == IF S = {} THEN mint.withheld ELSE Aggregate(S)
             d == [op |-> "withheld", by |-> "authority", from |-> S, to |-> b,
                   source |-> mint.fee_key, destination |-> account[b].key,
                   withheld |-> withheld, moved |-> Encrypt(withheld.v, fresh),
                   decryptable |-> account[b].decryptable + withheld.v]
  <2>1. Drafts(d, 1) /\ d.op # "apply"
    BY <1>7 DEF DraftWithdrawWithheld
  <2> HIDE DEF d
  <2> QED
    BY <1>2, <2>1
<1>8. DraftActions => Goal
  BY <1>3, <1>4, <1>5, <1>6, <1>7 DEF DraftActions
<1>9. ASSUME UNCHANGED drafts PROVE Goal
  BY <1>9 DEF Goal
<1>10. ASSUME MintActions PROVE Goal
  BY <1>9, <1>10 DEF MintActions, InitializeConfidentialMint, UpdateMint, ChangeFee,
     InitializeMint, InitializeConfidentialTransferFeeConfig, InitializeTransferFeeConfig,
     RenounceAuthority, SetHarvestToMint
<1>11. ASSUME NEW a \in Accounts, AccountActions(a) PROVE Goal
  BY <1>9, <1>11 DEF AccountActions, InitializeAccount, CloseAccount, ToggleFreeze,
     ApproveAccount, MintTo, Deposit, Transfer, ConfigureAccount, AllowCredits
<1>12. ASSUME NEW S \in SUBSET Accounts, HarvestWithheldTokensToMint(S) PROVE Goal
  BY <1>9, <1>12 DEF HarvestWithheldTokensToMint
<1>13. ASSUME NEW d \in drafts, Executes(d) PROVE Goal
  BY <1>13 DEF Executes, Goal
<1>14. ASSUME ExecuteDraft PROVE Goal
  BY <1>13, <1>14 DEF ExecuteDraft, Drop, ApplyPendingBalance, EmptyAccount, Withdraw,
     ConfidentialTransfer, WithdrawWithheldTokensFromMint,
     WithdrawWithheldTokensFromAccounts, WithdrawWithheld
<1>15. Next => Goal
  BY <1>8, <1>10, <1>11, <1>12, <1>14, StepKinds
<1> QED
  BY <1>9, <1>15 DEF vars, Goal

\* The balances of an account are natural numbers.
LEMMA BalanceFacts ==
  ASSUME ConfInv, NEW a \in Accounts
  PROVE  /\ account[a].available.v \in Nat /\ Pending(account[a]).v \in Nat
         /\ account[a].counter \in Nat /\ account[a].decryptable \in Nat
<1>1. Sound(account[a]) /\ account[a] \in WideAccount
  BY StateFacts
<1>2. account[a].decryptable \in Nat
  BY <1>1 DEF WideAccount
<1> QED
  BY <1>1, <1>2, SoundFacts

LEMMA HasFeesStays ==
  ASSUME ConfInv, [Next]_vars, mint.has_fees
  PROVE  mint'.has_fees
<1> DEFINE Goal == mint'.has_fees
<1> HIDE DEF Goal
<1>1. mint \in MintState
  BY DEF ConfInv, MintSound
<1>2. ASSUME mint'.has_fees = mint.has_fees PROVE Goal
  BY <1>2 DEF Goal
<1>3. ASSUME UNCHANGED mint PROVE Goal
  BY <1>2, <1>3
<1>4. ASSUME NEW fee \in Rates, InitializeTransferFeeConfig(fee) PROVE Goal
  BY <1>1, <1>4 DEF InitializeTransferFeeConfig, MintState, Goal
<1>5. ASSUME MintActions PROVE Goal
  <2>1. ASSUME NEW which \in {"authority", "fee_authority"}, RenounceAuthority(which)
        PROVE  mint'.has_fees = mint.has_fees
    BY <1>1, <2>1 DEF RenounceAuthority, MintState
  <2>2. ASSUME NEW auto, NEW key, InitializeConfidentialMint(auto, key) \/ UpdateMint(auto, key)
        PROVE  mint'.has_fees = mint.has_fees
    BY <1>1, <2>2 DEF InitializeConfidentialMint, UpdateMint, MintState
  <2>3. ASSUME NEW key, InitializeConfidentialTransferFeeConfig(key)
        PROVE  mint'.has_fees = mint.has_fees
    BY <1>1, <2>3 DEF InitializeConfidentialTransferFeeConfig, MintState
  <2>4. ASSUME NEW fee, ChangeFee(fee)
        PROVE  mint'.has_fees = mint.has_fees
    BY <1>1, <2>4 DEF ChangeFee, MintState
  <2>5. ASSUME NEW enabled, SetHarvestToMint(enabled)
        PROVE  mint'.has_fees = mint.has_fees
    BY <1>1, <2>5 DEF SetHarvestToMint, MintState
  <2>6. InitializeMint => mint'.has_fees = mint.has_fees
    BY <1>1 DEF InitializeMint, MintState
  <2> QED
    BY <1>2, <1>4, <1>5, <2>1, <2>2, <2>3, <2>4, <2>5, <2>6 DEF MintActions
<1>6. ASSUME NEW a \in Accounts, AccountActions(a) PROVE Goal
  <2>1. ASSUME NEW n \in Amounts, MintTo(a, n) PROVE mint'.has_fees = mint.has_fees
    BY <1>1, <2>1 DEF MintTo, MintState
  <2> QED
    BY <1>2, <1>3, <1>6, <2>1 DEF AccountActions, InitializeAccount, CloseAccount,
       ToggleFreeze, ApproveAccount, Deposit, Transfer, ConfigureAccount, AllowCredits
<1>7. ASSUME NEW S, HarvestWithheldTokensToMint(S) PROVE Goal
  BY <1>1, <1>2, <1>7 DEF HarvestWithheldTokensToMint, MintState
<1>8. ASSUME NEW d \in drafts,
             \/ Drop(d)
             \/ ApplyPendingBalance(d)
             \/ EmptyAccount(d)
             \/ Withdraw(d)
             \/ ConfidentialTransfer(d)
             \/ WithdrawWithheldTokensFromMint(d)
             \/ WithdrawWithheldTokensFromAccounts(d)
      PROVE  Goal
  <2>1. ASSUME WithdrawWithheldTokensFromMint(d) PROVE mint'.has_fees = mint.has_fees
    BY <1>1, <2>1 DEF WithdrawWithheldTokensFromMint, MintState
  <2> QED
    BY <1>2, <1>3, <1>8, <2>1 DEF Drop, ApplyPendingBalance, EmptyAccount, Withdraw,
       ConfidentialTransfer, WithdrawWithheldTokensFromAccounts
<1>9. DraftActions => UNCHANGED mint
  <2>1. \A d, n : Drafts(d, n) => UNCHANGED mint
    BY DEF Drafts
  <2>2. ASSUME NEW c \in Accounts
        PROVE  /\ DraftApply(c) => UNCHANGED mint
               /\ DraftEmpty(c) => UNCHANGED mint
               /\ \A n \in Amounts : DraftWithdraw(c, n) => UNCHANGED mint
               /\ \A b \in Accounts, n \in Amounts : DraftTransfer(c, b, n) => UNCHANGED mint
               /\ \A S \in SUBSET Accounts : DraftWithdrawWithheld(S, c) => UNCHANGED mint
    BY <2>1, Zenon DEF DraftApply, DraftEmpty, DraftWithdraw, DraftTransfer,
                       DraftWithdrawWithheld
  <2> QED
    BY <2>2 DEF DraftActions
<1>10. ASSUME Next PROVE Goal
  BY <1>3, <1>5, <1>6, <1>7, <1>8, <1>9, <1>10, StepKinds DEF ExecuteDraft
<1> QED
  BY <1>3, <1>10 DEF vars, Goal

LEMMA NextPatientInv ==
  ASSUME ConfInv, PatientInv, [Next]_vars
  PROVE  PatientInv'
<1> DEFINE x(a) == account[a]
           y(a) == account'[a]
<1>1. ConfInv' /\ \A a \in Accounts : Moved(a)
  BY NextConfInv, StepMoves
<1>2. \A a \in Accounts :
        /\ x(a).available.v \in Nat /\ Pending(x(a)).v \in Nat
        /\ x(a).counter \in Nat /\ x(a).decryptable \in Nat
  BY BalanceFacts
<1>3. Patient \subseteq Accounts /\ Amounts \subseteq Nat /\ \A n \in Amounts : n >= 1
  BY ConfidentialAssumption, AmountFacts DEF Amounts
<1>4. OneInFlight'
  <2>1. CASE drafts' \subseteq drafts
    BY <2>1, FS_Subset DEF PatientInv, OneInFlight
  <2>2. ASSUME NEW d, Drafted(d) PROVE OneInFlight'
    <3> DEFINE mine == {e \in drafts : e.by = d.by}
    <3>1. IsFiniteSet(drafts) /\ drafts' = drafts \cup {d}
      BY <2>2 DEF PatientInv, OneInFlight, Drafted
    <3>2. IsFiniteSet(drafts')
      BY <3>1, FS_AddElement
    <3>3. ASSUME d.by \in Patient PROVE mine = {}
      <4>1. IsFiniteSet(mine) /\ Cardinality(mine) < 1
        BY <2>2, <3>1, <3>3, FS_Subset DEF Drafted, InFlight
      <4>2. Cardinality(mine) = 0
        BY <4>1, FS_CardinalityType
      <4> QED
        BY <4>1, <4>2, FS_EmptySet
    <3> QED
      BY <3>1, <3>2, <3>3 DEF PatientInv, OneInFlight
  <2> QED
    BY <2>1, <2>2, StepDrafts
<1>5. ASSUME NEW a \in Accounts, ~y(a).configured
      PROVE  y(a).counter = 0 /\ y(a).decryptable = 0
  <2>1. ~OwnStep(a)
    BY <1>5, OwnStepFacts DEF OwnStep
  <2> QED
    BY <1>1, <1>5, <2>1 DEF Moved, Left, Cleared, CreditedWith, Received, PatientInv
<1>6. ASSUME ~mint'.has_fees, NEW a \in Accounts
      PROVE  y(a).counter <= Pending(y(a)).v
  <2>1. ~mint.has_fees /\ x(a).counter <= Pending(x(a)).v
    BY <1>6, HasFeesStays DEF PatientInv
  <2>2. CASE OwnStep(a)
    <3> SUFFICES ASSUME y(a).counter = x(a).counter + 1,
                        \E n \in Amounts : Pending(y(a)).v = Pending(x(a)).v + n
                 PROVE  y(a).counter <= Pending(y(a)).v
      BY <2>1, <2>2, OwnStepFacts DEF OwnStep
    <3> QED
      BY <1>2, <1>3, <2>1
  <2>3. CASE \E n \in Amounts : CreditedWith(a, n)
    BY <1>2, <1>3, <2>1, <2>3 DEF CreditedWith
  <2> QED
    BY <1>1, <2>1, <2>2, <2>3 DEF Moved, Left, Cleared, Received
<1>7. ASSUME ~mint'.has_fees, NEW a \in Patient
      PROVE  y(a).decryptable <= y(a).available.v
  <2>1. ~mint.has_fees /\ x(a).decryptable <= x(a).available.v /\ a \in Accounts
    BY <1>3, <1>7, HasFeesStays DEF PatientInv
  <2>2. CASE OwnStep(a)
    <3>1. PICK d \in drafts : /\ d.by = a
                              /\ \/ ApplyPendingBalance(d)
                                 \/ EmptyAccount(d)
                                 \/ Withdraw(d)
                                 \/ ConfidentialTransfer(d)
      BY <2>2 DEF OwnStep
    <3>2. \/ /\ d.op = "apply"
             /\ y(a).available.v = x(a).available.v + Pending(x(a)).v
             /\ y(a).decryptable = d.decryptable
          \/ y(a).decryptable = y(a).available.v
          \/ y(a).decryptable = x(a).decryptable /\ y(a).available.v = x(a).available.v
      BY <2>1, <3>1, OwnStepFacts
    <3>3. d.op = "apply" => /\ d.decryptable <= x(a).decryptable + Pending(x(a)).v
                            /\ d.decryptable \in Nat
      BY <2>1, <3>1 DEF PatientInv, Quoted, ConfInv, Statement
    <3>4. y(a).available.v \in Nat
      BY <1>1, <2>1 DEF ConfInv, AllSound, Sound
    <3> HIDE DEF x, y
    <3> QED
      BY <1>2, <2>1, <3>2, <3>3, <3>4
  <2> QED
    BY <1>1, <1>2, <2>1, <2>2 DEF Moved, Left, Cleared, CreditedWith, Received
<1>8. ASSUME ~mint'.has_fees, NEW d \in drafts', d.op = "apply", d.by \in Patient
      PROVE  /\ d.expected <= y(d.by).counter
             /\ d.decryptable <= y(d.by).decryptable + Pending(y(d.by)).v
             /\ d.expected = y(d.by).counter
                  => d.decryptable = y(d.by).decryptable + Pending(y(d.by)).v
  <2> DEFINE a == d.by
  <2>1. /\ ~mint.has_fees /\ a \in Accounts
        /\ x(a).counter <= Pending(x(a)).v
        /\ x(a).decryptable <= x(a).available.v
    BY <1>3, <1>8, HasFeesStays DEF PatientInv
  <2>2. ASSUME d \notin drafts
        PROVE  /\ d.expected = x(a).counter
               /\ d.decryptable = x(a).decryptable + Pending(x(a)).v
               /\ y(a) = x(a)
    <3>1. PICK e : Drafted(e)
      BY <1>8, <2>2, StepDrafts
    <3>2. d = e
      BY <1>8, <2>2, <3>1 DEF Drafted
    <3> QED
      BY <1>8, <3>1, <3>2 DEF Drafted, Quotes
  <2>3. ASSUME d \in drafts
        PROVE  /\ d.expected \in Nat /\ d.decryptable \in Nat
               /\ d.expected <= x(a).counter
               /\ d.decryptable <= x(a).decryptable + Pending(x(a)).v
               /\ d.expected = x(a).counter
                    => d.decryptable = x(a).decryptable + Pending(x(a)).v
    BY <1>8, <2>1, <2>3 DEF PatientInv, Quoted, ConfInv, Statement
  <2>4. ASSUME d \in drafts PROVE ~OwnStep(a)
    <3> SUFFICES ASSUME OwnStep(a) PROVE FALSE
      OBVIOUS
    <3>1. PICK e \in drafts : e.by = a /\ drafts' = drafts \ {e}
      BY <2>1, OwnStepFacts DEF OwnStep
    <3>2. d = e
      BY <1>8, <2>4, <3>1 DEF PatientInv, OneInFlight
    <3> QED
      BY <1>8, <3>1, <3>2
  <2>5. ASSUME d \in drafts
        PROVE  \/ /\ y(a).decryptable = x(a).decryptable
                  /\ Pending(y(a)).v = Pending(x(a)).v /\ y(a).counter = x(a).counter
               \/ /\ x(a).available.v = 0 /\ Pending(x(a)).v = 0 /\ Pending(y(a)).v = 0
                  /\ y(a).decryptable = 0 /\ y(a).counter = 0
               \/ /\ y(a).decryptable = x(a).decryptable /\ y(a).counter = x(a).counter + 1
                  /\ \E n \in Amounts : Pending(y(a)).v = Pending(x(a)).v + n
    BY <1>1, <2>1, <2>4, <2>5 DEF Moved, Left, Cleared, CreditedWith, Received
  <2>6. /\ x(a).counter \in Nat /\ x(a).decryptable \in Nat
        /\ x(a).available.v \in Nat /\ Pending(x(a)).v \in Nat
    BY <1>2, <2>1
  <2> DEFINE Goal == /\ d.expected <= y(a).counter
                     /\ d.decryptable <= y(a).decryptable + Pending(y(a)).v
                     /\ d.expected = y(a).counter
                          => d.decryptable = y(a).decryptable + Pending(y(a)).v
  <2>7. ASSUME d \notin drafts PROVE Goal
    BY <2>2, <2>6, <2>7
  <2> HIDE DEF x, y, a
  <2>8. ASSUME d \in drafts PROVE Goal
    BY <1>3, <2>1, <2>3, <2>5, <2>6, <2>8
  <2> QED
    BY <2>7, <2>8 DEF a
<1> QED
  BY <1>4, <1>5, <1>6, <1>7, <1>8 DEF PatientInv, Quoted

\* On a mint without fees, a patient owner whose ApplyPendingBalance raced a
\* credit finds the expected and the actual counter different.
THEOREM MissedCreditsShow == Spec => MissedCreditShows
<1> DEFINE Shows(a) ==
      /\ ~mint.has_fees
      /\ account[a].decryptable = account[a].available.v
      /\ account'[a].decryptable # account'[a].available.v
      => account'[a].expected # account'[a].actual
<1>1. ASSUME ConfInv, PatientInv, [Next]_vars
      PROVE  [\A a \in Patient : Shows(a)]_vars
  <2> SUFFICES ASSUME NEW a \in Patient, ~mint.has_fees,
                      account[a].decryptable = account[a].available.v,
                      account'[a].decryptable # account'[a].available.v
               PROVE  account'[a].expected # account'[a].actual
    OBVIOUS
  <2>1. a \in Accounts
    BY ConfidentialAssumption
  <2>2. OwnStep(a)
    BY <1>1, <2>1, StepMoves DEF Moved, Left, Cleared, CreditedWith, Received
  <2>3. PICK d \in drafts : /\ d.by = a
                            /\ \/ ApplyPendingBalance(d)
                               \/ EmptyAccount(d)
                               \/ Withdraw(d)
                               \/ ConfidentialTransfer(d)
    BY <2>2 DEF OwnStep
  <2>4. /\ d.op = "apply"
        /\ account'[a].available.v = account[a].available.v + Pending(account[a]).v
        /\ account'[a].decryptable = d.decryptable
        /\ account'[a].expected = d.expected /\ account'[a].actual = account[a].counter
    BY <1>1, <2>1, <2>3, OwnStepFacts
  <2>5. d.expected = account[a].counter
          => d.decryptable = account[a].decryptable + Pending(account[a]).v
    BY <1>1, <2>3, <2>4 DEF PatientInv, Quoted
  <2> QED
    BY <2>4, <2>5
<1>2. ConfInv /\ PatientInv /\ [Next]_vars => PatientInv'
  BY NextPatientInv
<1>3. Spec => []PatientInv
  BY <1>2, SpecConfInv, InitPatientInv, PTL DEF Spec
<1> QED
  BY <1>1, <1>3, SpecConfInv, PTL DEF Spec, MissedCreditShows

-----------------------------------------------------------------------------
(***************************************************************************)
(* The halves of a pending balance.  Without fees a step leaves them,      *)
(* empties them, or adds something natural to each, so both are natural    *)
(* numbers.                                                                *)
(***************************************************************************)
NaturalHalves(x) == x.lo.v \in Nat /\ x.hi.v \in Nat

HalvesNatural == ~mint.has_fees => \A a \in Accounts : NaturalHalves(account[a])

Added(x, y) ==
  \E lo, hi \in Ciphertexts : /\ lo.v \in Nat /\ hi.v \in Nat
                              /\ y.lo = Plus(x.lo, lo) /\ y.hi = Plus(x.hi, hi)

HalvesMoved(x, y) ==
  \/ y.lo = x.lo /\ y.hi = x.hi
  \/ y.lo = Zeroed /\ y.hi = Zeroed
  \/ Added(x, y)

LEMMA MovedHalvesNatural ==
  ASSUME NEW x, Sound(x), NaturalHalves(x), NEW y, HalvesMoved(x, y)
  PROVE  NaturalHalves(y)
<1>1. x.lo \in Ciphertexts /\ x.hi \in Ciphertexts /\ Zeroed.v = 0
  BY SoundFacts, CiphertextFacts
<1>2. CASE Added(x, y)
  <2>1. PICK lo, hi \in Ciphertexts :
          /\ lo.v \in Nat /\ hi.v \in Nat
          /\ y.lo = Plus(x.lo, lo) /\ y.hi = Plus(x.hi, hi)
    BY <1>2 DEF Added
  <2>2. y.lo.v = x.lo.v + lo.v /\ y.hi.v = x.hi.v + hi.v
    <3>1. \A c, d \in Ciphertexts : Plus(c, d).v = c.v + d.v
      BY CiphertextFacts
    <3> QED
      BY <1>1, <2>1, <3>1
  <2> QED
    BY <2>1, <2>2 DEF NaturalHalves
<1> QED
  BY <1>1, <1>2 DEF HalvesMoved, NaturalHalves

\* An amount in two halves is added half by half.
LEMMA CreditedHalves ==
  ASSUME NEW x \in WideAccount, NEW n \in Nat,
         NEW lo \in Ciphertexts, NEW hi \in Ciphertexts, Halves(n, lo, hi)
  PROVE  Added(x, Credited(x, lo, hi))
<1>1. lo.v \in Nat /\ hi.v \in Nat
  BY HalvesOfAmount, NumberFacts DEF Halves
<1>2. Credited(x, lo, hi).lo = Plus(x.lo, lo) /\ Credited(x, lo, hi).hi = Plus(x.hi, hi)
  BY DEF Credited, WideAccount
<1> QED
  BY <1>1, <1>2 DEF Added

LEMMA AccountActionHalves ==
  ASSUME ConfInv, NEW b \in Accounts, AccountActions(b), NEW a \in Accounts
  PROVE  HalvesMoved(account[a], account'[a])
<1> DEFINE Goal == HalvesMoved(account[a], account'[a])
<1>1. /\ account \in [Accounts -> WideAccount]
      /\ account[a] \in WideAccount /\ account[b] \in WideAccount
  BY StateFacts
<1>2. ASSUME account'[a].lo = account[a].lo, account'[a].hi = account[a].hi PROVE Goal
  BY <1>2 DEF HalvesMoved
<1>3. ASSUME NEW y, account' = [account EXCEPT ![b] = y], y.lo = Zeroed, y.hi = Zeroed
      PROVE  Goal
  <2>1. a = b => account'[a] = y
    BY <1>1, <1>3
  <2>2. a # b => account'[a] = account[a]
    BY <1>1, <1>3
  <2> QED
    BY <1>3, <2>1, <2>2 DEF HalvesMoved
<1> HIDE DEF Goal
<1>4. ASSUME InitializeAccount(b) PROVE Goal
  <2> DEFINE y == [Fresh EXCEPT !.open = TRUE]
  <2>1. y.lo = Zeroed /\ y.hi = Zeroed
    BY DEF Fresh
  <2>2. account' = [account EXCEPT ![b] = y]
    BY <1>4 DEF InitializeAccount
  <2> HIDE DEF y
  <2> QED
    BY <1>3, <2>1, <2>2
<1>5. ASSUME CloseAccount(b) PROVE Goal
  <2>1. account' = [account EXCEPT ![b] = Fresh] /\ Fresh.lo = Zeroed /\ Fresh.hi = Zeroed
    BY <1>5 DEF CloseAccount, Fresh
  <2> QED
    BY <1>3, <2>1
<1>6. ASSUME NEW key \in Keys, NEW limit \in CreditLimits, ConfigureAccount(b, key, limit)
      PROVE  Goal
  <2> DEFINE y == [account[b] EXCEPT !.configured = TRUE, !.approved = mint.auto_approve,
                     !.key = key, !.limit = limit,
                     !.lo = Zeroed, !.hi = Zeroed, !.available = Zeroed,
                     !.decryptable = 0, !.allow_confidential = TRUE,
                     !.counter = 0, !.expected = 0, !.actual = 0,
                     !.allow_public = TRUE, !.withheld = Zeroed]
  <2>1. account' = [account EXCEPT ![b] = y]
    BY <1>1, <1>6 DEF ConfigureAccount
  <2>2. y.lo = Zeroed /\ y.hi = Zeroed
    BY <1>1 DEF WideAccount
  <2> HIDE DEF y
  <2> QED
    BY <1>3, <2>1, <2>2
<1>7. ASSUME NEW n \in Amounts, Deposit(b, n) PROVE Goal
  <2> DEFINE lo == PlusAmount(Zeroed, Low(n))
             hi == PlusAmount(Zeroed, High(n))
             z == Credited(account[b], lo, hi)
             y == [z EXCEPT !.amount = @ - n]
  <2>1. account' = [account EXCEPT ![b] = y]
    BY <1>7 DEF Deposit
  <2>2. lo \in Ciphertexts /\ hi \in Ciphertexts /\ Halves(n, lo, hi) /\ n \in Nat
    <3>1. n \in Nat /\ Low(n) \in Int /\ High(n) \in Int
      BY AmountFacts, HalvesOfAmount
    <3>2. Zeroed \in Ciphertexts /\ Zeroed.v = 0
      BY CiphertextFacts
    <3>3. \A k \in Int : PlusAmount(Zeroed, k) \in Ciphertexts /\ PlusAmount(Zeroed, k).v = k
      BY <3>2 DEF PlusAmount, Ciphertexts
    <3> QED
      BY <3>1, <3>3 DEF Halves
  <2> HIDE DEF lo, hi
  <2>3. Added(account[b], z)
    BY <1>1, <2>2, CreditedHalves
  <2>4. y.lo = z.lo /\ y.hi = z.hi
    BY DEF Credited
  <2> HIDE DEF z
  <2>5. Added(account[b], y)
    BY <2>3, <2>4 DEF Added
  <2> HIDE DEF y
  <2>6. a = b => account'[a] = y
    BY <1>1, <2>1
  <2>7. a # b => account'[a] = account[a]
    BY <1>1, <2>1
  <2> QED
    BY <2>5, <2>6, <2>7 DEF HalvesMoved, Goal
<1>8. ASSUME ToggleFreeze(b) \/ ApproveAccount(b) \/ \E n \in Amounts : MintTo(b, n)
      PROVE  account'[a].lo = account[a].lo /\ account'[a].hi = account[a].hi
  BY <1>1, <1>8 DEF ToggleFreeze, ApproveAccount, MintTo, WideAccount
<1>9. ASSUME NEW which \in {"allow_confidential", "allow_public"}, NEW allow \in BOOLEAN,
             AllowCredits(b, which, allow)
      PROVE  account'[a].lo = account[a].lo /\ account'[a].hi = account[a].hi
  BY <1>1, <1>9 DEF AllowCredits, WideAccount
<1>10. ASSUME NEW c \in Accounts, NEW n \in Amounts, Transfer(b, c, n)
       PROVE  account'[a].lo = account[a].lo /\ account'[a].hi = account[a].hi
  BY <1>1, <1>10 DEF Transfer, WideAccount
<1>11. Goal
  BY <1>2, <1>4, <1>5, <1>6, <1>7, <1>8, <1>9, <1>10 DEF AccountActions
<1> QED
  BY <1>11 DEF Goal

LEMMA ExecuteDraftHalves ==
  ASSUME ConfInv, ~mint.has_fees, NEW d \in drafts, NEW a \in Accounts,
         \/ Drop(d)
         \/ ApplyPendingBalance(d)
         \/ EmptyAccount(d)
         \/ Withdraw(d)
         \/ ConfidentialTransfer(d)
         \/ WithdrawWithheldTokensFromMint(d)
         \/ WithdrawWithheldTokensFromAccounts(d)
  PROVE  HalvesMoved(account[a], account'[a])
<1> DEFINE Goal == HalvesMoved(account[a], account'[a])
<1>1. account \in [Accounts -> WideAccount] /\ account[a] \in WideAccount
  BY StateFacts
<1>2. ASSUME account'[a].lo = account[a].lo, account'[a].hi = account[a].hi PROVE Goal
  BY <1>2 DEF HalvesMoved
<1>3. ASSUME Drop(d) PROVE Goal
  BY <1>2, <1>3 DEF Drop
<1>4. ASSUME ApplyPendingBalance(d) PROVE Goal
  <2>1. d.by = a => account'[a].lo = Zeroed /\ account'[a].hi = Zeroed
    BY <1>1, <1>4 DEF ApplyPendingBalance, WideAccount
  <2>2. d.by # a => account'[a] = account[a]
    BY <1>1, <1>4 DEF ApplyPendingBalance
  <2> QED
    BY <2>1, <2>2 DEF HalvesMoved
<1>5. ASSUME EmptyAccount(d) \/ Withdraw(d)
      PROVE  account'[a].lo = account[a].lo /\ account'[a].hi = account[a].hi
  <2>1. d.by # a => account'[a] = account[a]
    BY <1>1, <1>5 DEF EmptyAccount, Withdraw
  <2>2. ASSUME d.by = a, EmptyAccount(d)
        PROVE  account'[a] = [account[a] EXCEPT !.available = Zeroed]
    BY <1>1, <2>2 DEF EmptyAccount
  <2>3. ASSUME d.by = a, Withdraw(d)
        PROVE  \E final, n, k : account'[a] = [account[a] EXCEPT !.available = final,
                                                 !.decryptable = n, !.amount = k]
    BY <1>1, <2>3, Zenon DEF Withdraw
  <2> QED
    BY <1>1, <1>5, <2>1, <2>2, <2>3 DEF WideAccount
<1>6. ASSUME ConfidentialTransfer(d) PROVE Goal
  <2> DEFINE balance == new_source_available_balance(account[d.by], d)
             debited == [account EXCEPT ![d.by].available = balance,
                                        ![d.by].decryptable = d.decryptable]
             z == debited[d.to]
             c == Credited(z, d.lo, d.hi)
  <2>1. d.op = "transfer" /\ account' = [debited EXCEPT ![d.to] = c]
    BY <1>6 DEF ConfidentialTransfer
  <2>2. /\ d.by \in Accounts /\ d.to \in Accounts
        /\ d.lo \in Ciphertexts /\ d.hi \in Ciphertexts /\ d.decryptable \in Nat
    BY <2>1 DEF ConfInv, Statement
  <2>3. PICK n \in Amounts : Halves(n, d.lo, d.hi)
    BY <2>1 DEF ConfInv, Statement
  <2>4. n \in Nat
    BY AmountFacts
  <2>5. balance \in Ciphertexts
    <3>1. account[d.by].available \in Ciphertexts
      BY <2>2, StateFacts, SoundFacts
    <3> QED
      BY <2>2, <3>1, CiphertextFacts DEF new_source_available_balance
  <2> HIDE DEF balance
  <2>6. /\ debited \in [Accounts -> WideAccount]
        /\ \A e \in Accounts : debited[e].lo = account[e].lo /\ debited[e].hi = account[e].hi
    BY <1>1, <2>2, <2>5 DEF WideAccount
  <2> HIDE DEF debited
  <2>7. Added(z, c) /\ z.lo = account[d.to].lo /\ z.hi = account[d.to].hi
    BY <2>2, <2>3, <2>4, <2>6, CreditedHalves
  <2>8. Added(account[d.to], c)
    BY <2>7 DEF Added
  <2> HIDE DEF c
  <2>9. a = d.to => account'[a] = c
    BY <2>1, <2>6
  <2>10. a # d.to => account'[a] = debited[a]
    BY <2>1, <2>6
  <2> QED
    BY <1>2, <2>6, <2>8, <2>9, <2>10 DEF HalvesMoved
<1>7. ASSUME NEW withheld, NEW acc \in [Accounts -> WideAccount],
             WithdrawWithheld(d, withheld, acc),
             acc[a].lo = account[a].lo, acc[a].hi = account[a].hi
      PROVE  account'[a].lo = account[a].lo /\ account'[a].hi = account[a].hi
  BY <1>7 DEF WithdrawWithheld, WideAccount
<1>8. ASSUME WithdrawWithheldTokensFromMint(d) PROVE Goal
  <2>1. WithdrawWithheld(d, mint.withheld, account)
    BY <1>8 DEF WithdrawWithheldTokensFromMint
  <2> QED
    BY <1>1, <1>2, <1>7, <2>1
<1>9. ASSUME WithdrawWithheldTokensFromAccounts(d) PROVE Goal
  <2> DEFINE acc == Harvested(account, d.from)
  <2>1. WithdrawWithheld(d, Aggregate(d.from), acc) /\ d.op = "withheld"
    BY <1>9 DEF WithdrawWithheldTokensFromAccounts
  <2>2. d.from \in SUBSET Accounts
    BY <2>1 DEF ConfInv, Statement
  <2>3. AllSound(acc) /\ \A f \in {"lo", "hi"} : acc[a][f] = account[a][f]
    BY <2>2, HarvestedFacts
  <2> HIDE DEF acc
  <2>4. acc \in [Accounts -> WideAccount] /\ acc[a].lo = account[a].lo /\ acc[a].hi = account[a].hi
    BY <2>3 DEF AllSound
  <2> QED
    BY <1>2, <1>7, <2>1, <2>4
<1> HIDE DEF Goal
<1>10. Goal
  BY <1>2, <1>3, <1>4, <1>5, <1>6, <1>8, <1>9
<1> QED
  BY <1>10 DEF Goal

LEMMA StepHalves ==
  ASSUME ConfInv, [Next]_vars, ~mint.has_fees, NEW a \in Accounts
  PROVE  HalvesMoved(account[a], account'[a])
<1> DEFINE Goal == HalvesMoved(account[a], account'[a])
<1>1. ASSUME UNCHANGED account PROVE Goal
  BY <1>1 DEF HalvesMoved
<1>2. ASSUME NEW S \in SUBSET Accounts, HarvestWithheldTokensToMint(S) PROVE Goal
  <2>1. account' = Harvested(account, S)
    BY <1>2 DEF HarvestWithheldTokensToMint
  <2>2. \A f \in {"lo", "hi"} : account'[a][f] = account[a][f]
    BY <2>1, HarvestedFacts
  <2> QED
    BY <2>2 DEF HalvesMoved
<1> HIDE DEF Goal
<1>3. ASSUME NEW b \in Accounts, AccountActions(b) PROVE Goal
  BY <1>3, AccountActionHalves DEF Goal
<1>4. ASSUME ExecuteDraft PROVE Goal
  BY <1>4, ExecuteDraftHalves DEF ExecuteDraft, Goal
<1>5. ASSUME Next PROVE Goal
  BY <1>1, <1>2, <1>3, <1>4, <1>5, StepKinds, MintAndDraftActionsKeep
<1> QED
  BY <1>1, <1>5 DEF vars, Goal

LEMMA SpecHalvesNatural == Spec => []HalvesNatural
<1>1. Init => HalvesNatural
  BY CiphertextFacts DEF Init, HalvesNatural, NaturalHalves, Fresh
<1>2. ASSUME ConfInv, HalvesNatural, [Next]_vars PROVE HalvesNatural'
  <2> SUFFICES ASSUME ~mint'.has_fees, NEW a \in Accounts
               PROVE  NaturalHalves(account'[a])
    BY DEF HalvesNatural, NaturalHalves
  <2>1. ~mint.has_fees
    BY <1>2, HasFeesStays
  <2>2. HalvesMoved(account[a], account'[a])
    BY <1>2, <2>1, StepHalves
  <2>3. Sound(account[a]) /\ NaturalHalves(account[a])
    BY <1>2, <2>1, StateFacts DEF HalvesNatural
  <2> QED
    BY <2>2, <2>3, MovedHalvesNatural
<1> QED
  BY <1>1, <1>2, SpecConfInv, PTL DEF Spec

\* A pending balance stays within the credits the owner allowed; on a mint
\* without fees decrypt_u32 finds its low half if the limit is small enough,
\* and its high half while the credits counted cannot exceed a u32.
THEOREM PendingStaysWithinLimit == Spec => []PendingWithinLimit
<1>1. ASSUME ConfInv, HalvesNatural PROVE PendingWithinLimit
  <2> SUFFICES ASSUME NEW a \in Accounts
               PROVE  LET x == account[a]
                      IN  /\ x.counter <= x.limit
                          /\ x.lo.v <= x.counter * (RADIX - 1)
                          /\ x.hi.v <= x.counter * MaxHigh
                          /\ ~mint.has_fees =>
                               /\ x.limit * (RADIX - 1) <= U32_MAX => decrypt_u32(x.lo)
                               /\ x.counter * MaxHigh <= U32_MAX => decrypt_u32(x.hi)
    BY DEF PendingWithinLimit, MaxHigh
  <2> DEFINE x == account[a]
  <2>1. /\ x.counter <= x.limit
        /\ x.lo.v <= x.counter * (RADIX - 1) /\ x.hi.v <= x.counter * MaxHigh
        /\ x.counter \in Nat /\ x.limit \in Nat
        /\ x.lo.v \in Int /\ x.hi.v \in Int
    BY <1>1, StateFacts, SoundFacts DEF Sound
  <2>2. ~mint.has_fees => x.lo.v \in Nat /\ x.hi.v \in Nat
    BY <1>1 DEF HalvesNatural, NaturalHalves
  <2> HIDE DEF x
  <2>3. RADIX - 1 \in Nat /\ MaxHigh \in Nat /\ U32_MAX \in Nat
    BY NumberFacts, LargestHalves
  <2>4. x.counter * (RADIX - 1) <= x.limit * (RADIX - 1)
    <3>1. \A i, j, k \in Nat : i <= j => i * k <= j * k
      OBVIOUS
    <3> QED
      BY <2>1, <2>3, <3>1
  <2>5. /\ x.counter * (RADIX - 1) \in Nat /\ x.limit * (RADIX - 1) \in Nat
        /\ x.counter * MaxHigh \in Nat
    BY <2>1, <2>3
  <2>6. ~mint.has_fees /\ x.limit * (RADIX - 1) <= U32_MAX => decrypt_u32(x.lo)
    BY <2>1, <2>2, <2>3, <2>4, <2>5 DEF decrypt_u32
  <2>7. ~mint.has_fees /\ x.counter * MaxHigh <= U32_MAX => decrypt_u32(x.hi)
    BY <2>1, <2>2, <2>3, <2>5 DEF decrypt_u32
  <2> QED
    BY <2>1, <2>6, <2>7 DEF x
<1> QED
  BY <1>1, SpecConfInv, SpecHalvesNatural, PTL
=============================================================================
