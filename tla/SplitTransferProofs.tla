------------------------- MODULE SplitTransferProofs -------------------------
(***************************************************************************)
(* Proofs about SplitProofs, for any number of intents, amounts and rates: *)
(* contexts that pass the program's comparisons all come from one intent,  *)
(* prepared from the balance that is there now, so the sender stays        *)
(* solvent, no transfer is executed twice or with too low a fee, and one   *)
(* tried step by step has been executed once its last transaction landed.  *)
(***************************************************************************)
EXTENDS SplitProofs, TotalsProofs

-----------------------------------------------------------------------------
(***************************************************************************)
(* Ciphertexts and the openings of an intent.                              *)
(***************************************************************************)
LEMMA NumberFacts ==
  /\ RADIX \in Nat \ {0, 1}
  /\ Intents \subseteq Nat /\ Amounts \subseteq Nat /\ Supply \in Nat
  /\ \A i \in Intents : 2 * i \in Labels /\ 2 * i + 1 \in Labels
  /\ U64 \subseteq Nat
  /\ ONE_IN_BASIS_POINTS \in Nat \ {0}
BY RadixAssumption, SplitAssumption, FeeAssumption DEF U64

LEMMA HalvesOfAmount ==
  ASSUME NEW n \in Nat
  PROVE  Low(n) \in Nat /\ High(n) \in Nat /\ Low(n) + RADIX * High(n) = n
<1>1. /\ n \div RADIX \in Nat /\ n % RADIX \in 0 .. RADIX - 1
      /\ n = RADIX * (n \div RADIX) + (n % RADIX)
  BY NumberFacts, Division
<1> QED
  BY <1>1, NumberFacts DEF Low, High

LEMMA ZeroFacts == Zeroed \in Ciphertexts /\ Zeroed.v = 0
BY DEF Zeroed, Ciphertexts

LEMMA EntryFacts ==
  ASSUME NEW c \in Ciphertexts
  PROVE  c.v \in Int /\ \A l \in Labels : c.r[l] \in Int
BY DEF Ciphertexts

LEMMA PlusFacts ==
  ASSUME NEW c \in Ciphertexts, NEW d \in Ciphertexts
  PROVE  /\ Plus(c, d) \in Ciphertexts
         /\ Plus(c, d).v = c.v + d.v
         /\ \A l \in Labels : Plus(c, d).r[l] = c.r[l] + d.r[l]
BY DEF Plus, Ciphertexts

LEMMA MinusFacts ==
  ASSUME NEW c \in Ciphertexts, NEW d \in Ciphertexts
  PROVE  /\ Minus(c, d) \in Ciphertexts
         /\ Minus(c, d).v = c.v - d.v
         /\ \A l \in Labels : Minus(c, d).r[l] = c.r[l] - d.r[l]
BY DEF Minus, Ciphertexts

LEMMA TimesFacts ==
  ASSUME NEW n \in Nat, NEW c \in Ciphertexts
  PROVE  /\ Times(n, c) \in Ciphertexts
         /\ Times(n, c).v = n * c.v
         /\ \A l \in Labels : Times(n, c).r[l] = n * c.r[l]
BY DEF Times, Ciphertexts

LEMMA LoHiFacts ==
  ASSUME NEW c \in Ciphertexts, NEW d \in Ciphertexts
  PROVE  /\ LoHi(c, d) \in Ciphertexts
         /\ LoHi(c, d).v = c.v + RADIX * d.v
         /\ \A l \in Labels : LoHi(c, d).r[l] = c.r[l] + RADIX * d.r[l]
<1>1. RADIX \in Nat
  BY NumberFacts
<1> DEFINE t == Times(RADIX, d)
<1>2. /\ t \in Ciphertexts /\ t.v = RADIX * d.v
      /\ \A l \in Labels : t.r[l] = RADIX * d.r[l]
  BY <1>1, TimesFacts
<1>3. LoHi(c, d) = Plus(c, t)
  BY DEF LoHi
<1> HIDE DEF t
<1>4. /\ Plus(c, t) \in Ciphertexts /\ Plus(c, t).v = c.v + t.v
      /\ \A l \in Labels : Plus(c, t).r[l] = c.r[l] + t.r[l]
  BY <1>2, PlusFacts
<1> QED
  BY <1>2, <1>3, <1>4

LEMMA PlusAmountFacts ==
  ASSUME NEW c \in Ciphertexts, NEW n \in Int
  PROVE  /\ PlusAmount(c, n) \in Ciphertexts
         /\ PlusAmount(c, n).v = c.v + n
         /\ PlusAmount(c, n).r = c.r
BY DEF PlusAmount, Ciphertexts

LEMMA EncryptFacts ==
  ASSUME NEW n \in Int, NEW k
  PROVE  /\ Encrypt(n, k) \in Ciphertexts
         /\ Encrypt(n, k).v = n
         /\ \A l \in Labels : Encrypt(n, k).r[l] = IF l = k THEN 1 ELSE 0
BY DEF Encrypt, Ciphertexts

LEMMA BalanceFacts ==
  ASSUME NEW b \in Balances
  PROVE  /\ b.commitment \in Ciphertexts /\ b.handle \in Ciphertexts
         /\ Plain(b) = b.commitment.v - b.handle.v /\ Plain(b) \in Int
         /\ b = [commitment |-> b.commitment, handle |-> b.handle]
<1>1. /\ b.commitment \in Ciphertexts /\ b.handle \in Ciphertexts
      /\ b = [commitment |-> b.commitment, handle |-> b.handle]
  BY DEF Balances
<1> QED
  BY <1>1, EntryFacts DEF Plain

\* Taking the halves of an amount from a balance, commitments and handles.
LEMMA SubtractFacts ==
  ASSUME NEW b \in Balances, NEW c, NEW d, NEW h, NEW g
  PROVE  LET left == subtract_with_lo_hi(b,
                       transfer_amount_encryption_from_decrypt_handle(c, h),
                       transfer_amount_encryption_from_decrypt_handle(d, g))
         IN  /\ left.commitment = Minus(b.commitment, LoHi(c, d))
             /\ left.handle = Minus(b.handle, LoHi(h, g))
BY DEF subtract_with_lo_hi, transfer_amount_encryption_from_decrypt_handle

\* What a transfer with opening k takes from the randomness of a balance.
Used(k) == [l \in Labels |-> IF l = k THEN 1 + RADIX ELSE 0]

LEMMA HalvesTogether ==
  ASSUME NEW n \in Nat, NEW k
  PROVE  LET both == LoHi(Encrypt(Low(n), k), Encrypt(High(n), k))
         IN  /\ both \in Ciphertexts /\ both.v = n
             /\ \A l \in Labels : both.r[l] = Used(k)[l] /\ Used(k)[l] \in Nat
<1> DEFINE lo == Encrypt(Low(n), k)
           hi == Encrypt(High(n), k)
<1>1. Low(n) \in Nat /\ High(n) \in Nat /\ Low(n) + RADIX * High(n) = n
  BY HalvesOfAmount
<1>2. /\ lo \in Ciphertexts /\ lo.v = Low(n) /\ hi \in Ciphertexts /\ hi.v = High(n)
      /\ \A l \in Labels : /\ lo.r[l] = IF l = k THEN 1 ELSE 0
                           /\ hi.r[l] = IF l = k THEN 1 ELSE 0
  BY <1>1, EncryptFacts
<1> HIDE DEF lo, hi
<1>3. LoHi(lo, hi) \in Ciphertexts /\ LoHi(lo, hi).v = n
  BY <1>1, <1>2, LoHiFacts
<1>4. RADIX * 0 = 0 /\ RADIX * 1 = RADIX /\ RADIX \in Nat
  BY NumberFacts
<1>5. ASSUME NEW l \in Labels
      PROVE  LoHi(lo, hi).r[l] = Used(k)[l] /\ Used(k)[l] \in Nat
  <2>1. LoHi(lo, hi).r[l] = lo.r[l] + RADIX * hi.r[l]
    BY <1>2, LoHiFacts
  <2> QED
    BY <1>2, <1>4, <2>1 DEF Used
<1> QED
  BY <1>3, <1>5 DEF lo, hi

-----------------------------------------------------------------------------
(***************************************************************************)
(* The inductive invariant.  An intent was prepared from a balance with    *)
(* randomness Origin.  Balances only ever lose openings, so the balance    *)
(* has no more of any opening than an origin, less of its own once the     *)
(* intent is executed, and origins are comparable.                         *)
(***************************************************************************)
Origin(i) ==
  [l \in Labels |-> intent[i].new_source.commitment.r[l] + Used(2 * i)[l]]

Types ==
  /\ available \in Balances
  /\ Decrypts(available) /\ Plain(available) >= 0
  /\ pending \in [lo : Ciphertexts, hi : Ciphertexts]
  /\ withheld \in Ciphertexts
  /\ rate \in Rates \cup {NoFee}
  /\ frozen \in BOOLEAN
  /\ contexts \subseteq Intents \X Roles
  /\ landed \in [Intents -> SUBSET Roles]
  /\ executed \in [Intents -> 0 .. 1]
  /\ changes \in 0 .. MaxChanges
  /\ DOMAIN intent = Intents

WellPrepared(i) ==
  LET t == intent[i]
  IN  /\ t.amount \in Amounts
      /\ t.lo = Encrypt(Low(t.amount), 2 * i) /\ t.hi = Encrypt(High(t.amount), 2 * i)
      /\ t.new_source \in Balances /\ Decrypts(t.new_source)
      /\ t.handles.lo.v \in Int /\ t.handles.hi.v = 0
      /\ t.fee \in Nat
      /\ t.fee_lo = Encrypt(Low(t.fee), 2 * i + 1)
      /\ t.fee_hi = Encrypt(High(t.fee), 2 * i + 1)
      /\ t.rate \in Rates \cup {NoFee}
      /\ HasFees => FeeProvable(t.rate, t.amount, t.fee)

IntentsTrue ==
  \A i \in Intents : IF Prepared(i) THEN WellPrepared(i) ELSE executed[i] = 0

ContextsTrue ==
  \A c \in contexts : Prepared(c[1]) /\ Provable(c[1], c[2])

Openings ==
  /\ \A i \in Intents : Prepared(i) =>
       /\ \A l \in Labels : available.commitment.r[l] <= Origin(i)[l]
       /\ executed[i] = 1 => available.commitment.r[2 * i] < Origin(i)[2 * i]
  /\ \A i, j \in Intents : Prepared(i) /\ Prepared(j) =>
       \/ \A l \in Labels : Origin(i)[l] <= Origin(j)[l]
       \/ \A l \in Labels : Origin(j)[l] <= Origin(i)[l]

\* Where the balance still has the randomness an intent was prepared from, it
\* has its decrypt handle too.
HandlesTrue ==
  \A i \in Intents :
    Prepared(i) /\ (\A l \in Labels : available.commitment.r[l] = Origin(i)[l])
      => available.handle.v = intent[i].new_source.handle.v + intent[i].handles.lo.v

Landings ==
  \A i \in Intents :
    /\ executed[i] = 0 => \A role \in landed[i] : <<i, role>> \in contexts
    /\ landed[i] = Roles => executed[i] = 1

SInv ==
  Types /\ IntentsTrue /\ ContextsTrue /\ Openings /\ HandlesTrue /\ Landings

LEMMA IntentFacts ==
  ASSUME SInv, NEW i \in Intents, Prepared(i)
  PROVE  /\ intent[i].amount \in Nat /\ intent[i].fee \in Nat
         /\ intent[i].new_source \in Balances /\ Decrypts(intent[i].new_source)
         /\ intent[i].handles.lo.v \in Int /\ intent[i].handles.hi.v = 0
         /\ intent[i].lo \in Ciphertexts /\ intent[i].hi \in Ciphertexts
         /\ LoHi(intent[i].lo, intent[i].hi) \in Ciphertexts
         /\ LoHi(intent[i].lo, intent[i].hi).v = intent[i].amount
         /\ \A l \in Labels :
              /\ LoHi(intent[i].lo, intent[i].hi).r[l] = Used(2 * i)[l]
              /\ intent[i].lo.r[l] = IF l = 2 * i THEN 1 ELSE 0
              /\ intent[i].hi.r[l] = IF l = 2 * i THEN 1 ELSE 0
              /\ intent[i].fee_lo.r[l] = IF l = 2 * i + 1 THEN 1 ELSE 0
              /\ Used(2 * i)[l] \in Nat
              /\ intent[i].new_source.commitment.r[l] \in Int
              /\ Origin(i)[l] = intent[i].new_source.commitment.r[l] + Used(2 * i)[l]
         /\ intent[i].fee_lo \in Ciphertexts /\ intent[i].fee_hi \in Ciphertexts
         /\ LoHi(intent[i].fee_lo, intent[i].fee_hi) \in Ciphertexts
         /\ LoHi(intent[i].fee_lo, intent[i].fee_hi).v = intent[i].fee
<1> DEFINE t == intent[i]
<1>1. /\ t.amount \in Nat /\ t.fee \in Nat
      /\ t.lo = Encrypt(Low(t.amount), 2 * i) /\ t.hi = Encrypt(High(t.amount), 2 * i)
      /\ t.fee_lo = Encrypt(Low(t.fee), 2 * i + 1)
      /\ t.fee_hi = Encrypt(High(t.fee), 2 * i + 1)
      /\ t.new_source \in Balances /\ Decrypts(t.new_source)
      /\ t.handles.lo.v \in Int /\ t.handles.hi.v = 0
  BY NumberFacts DEF SInv, IntentsTrue, WellPrepared
<1> HIDE DEF t
<1>2. /\ Low(t.amount) \in Int /\ High(t.amount) \in Int
      /\ Low(t.fee) \in Int /\ High(t.fee) \in Int
  BY <1>1, HalvesOfAmount
<1>3. /\ t.lo \in Ciphertexts /\ t.hi \in Ciphertexts
      /\ t.fee_lo \in Ciphertexts /\ t.fee_hi \in Ciphertexts
      /\ \A l \in Labels : /\ t.lo.r[l] = IF l = 2 * i THEN 1 ELSE 0
                           /\ t.hi.r[l] = IF l = 2 * i THEN 1 ELSE 0
                           /\ t.fee_lo.r[l] = IF l = 2 * i + 1 THEN 1 ELSE 0
                           /\ t.new_source.commitment.r[l] \in Int
  BY <1>1, <1>2, EncryptFacts, EntryFacts, BalanceFacts
<1>4. /\ LoHi(t.lo, t.hi) \in Ciphertexts /\ LoHi(t.lo, t.hi).v = t.amount
      /\ \A l \in Labels : /\ LoHi(t.lo, t.hi).r[l] = Used(2 * i)[l]
                           /\ Used(2 * i)[l] \in Nat
  BY <1>1, HalvesTogether
<1>5. LoHi(t.fee_lo, t.fee_hi) \in Ciphertexts /\ LoHi(t.fee_lo, t.fee_hi).v = t.fee
  BY <1>1, HalvesTogether
<1>6. \A l \in Labels : Origin(i)[l] = t.new_source.commitment.r[l] + Used(2 * i)[l]
  BY DEF Origin, t
<1> QED
  BY <1>1, <1>3, <1>4, <1>5, <1>6 DEF t

-----------------------------------------------------------------------------
(***************************************************************************)
(* The comparisons of the program leave no choice: every context belongs   *)
(* to the intent k of the validity proof, k was prepared from a balance    *)
(* whose commitment had the randomness of the balance now, and it has not  *)
(* been executed.  The handles are not in this: they only have to fit.     *)
(***************************************************************************)
LEMMA OneIntent ==
  ASSUME SInv, NEW p \in Picks, NEW handles, Accepted(p, handles)
  PROVE  LET k == p["validity"]
         IN  /\ k \in Intents /\ Prepared(k)
             /\ \A role \in Roles : p[role] = k
             /\ \A l \in Labels : available.commitment.r[l] = Origin(k)[l]
             /\ available.commitment.v
                  = intent[k].new_source.commitment.v + intent[k].amount
             /\ executed[k] = 0
<1> DEFINE k == p["validity"]
           q == p["range"]
           e == p["equality"]
           ns == intent[k].new_source
<1>1. \A role \in Roles \cup {"fee_validity"} :
        p[role] \in Intents /\ Prepared(p[role])
  BY DEF Picks, Prepared
<1>2. /\ k \in Intents /\ Prepared(k) /\ q \in Intents /\ Prepared(q)
      /\ e \in Intents /\ Prepared(e)
  BY <1>1 DEF Roles
<1>3. /\ 2 * k \in Labels /\ 2 * q \in Labels /\ 2 * e \in Labels
      /\ k \in Nat /\ q \in Nat /\ e \in Nat
      /\ RADIX \in Nat
  BY <1>2, NumberFacts
<1>4. /\ intent[q].new_source = intent[e].new_source
      /\ intent[q].lo = intent[k].lo
      /\ HasFees => /\ q = sigma(p["sigma"]).claimed
                    /\ intent[q].fee_lo = intent[p["fee_validity"]].fee_lo
  BY DEF Accepted, verify_and_extract, range_proof_matches, range, equality, validity,
         fee_validity
<1>5. q = k
  <2>1. intent[q].lo.r[2 * q] = 1
    BY <1>2, <1>3, IntentFacts
  <2>2. intent[k].lo.r[2 * q] = IF 2 * q = 2 * k THEN 1 ELSE 0
    BY <1>2, <1>3, IntentFacts
  <2>3. 2 * q = 2 * k
    BY <1>4, <2>1, <2>2
  <2> QED
    BY <1>3, <2>3
<1>6. intent[e].new_source = ns
  BY <1>4, <1>5
<1>7. \A l \in Labels : /\ Origin(k)[l] = ns.commitment.r[l] + Used(2 * k)[l]
                        /\ Origin(e)[l] = ns.commitment.r[l] + Used(2 * e)[l]
                        /\ ns.commitment.r[l] \in Int
  BY <1>2, <1>6, IntentFacts
<1>8. \A i \in {k, e}, j \in {k, e} :
        Used(2 * i)[2 * j] = IF i = j THEN 1 + RADIX ELSE 0
  BY <1>3 DEF Used
<1> HIDE DEF ns
<1>9. e = k
  <2> SUFFICES ASSUME e # k PROVE FALSE
    OBVIOUS
  <2>1. /\ Used(2 * k)[2 * e] = 0 /\ Used(2 * e)[2 * e] = 1 + RADIX
        /\ Used(2 * e)[2 * k] = 0 /\ Used(2 * k)[2 * k] = 1 + RADIX
    BY <1>8
  <2>2. \/ Origin(e)[2 * e] <= Origin(k)[2 * e]
        \/ Origin(k)[2 * k] <= Origin(e)[2 * k]
    BY <1>2, <1>3 DEF SInv, Openings
  <2> QED
    BY <1>3, <1>7, <2>1, <2>2
<1>10. ns.commitment = Minus(available.commitment, LoHi(intent[k].lo, intent[k].hi))
  <2>1. available \in Balances
    BY DEF SInv, Types
  <2> QED
    BY <1>6, <2>1, SubtractFacts DEF Accepted, process_source, validity, equality
<1>11. /\ LoHi(intent[k].lo, intent[k].hi) \in Ciphertexts
       /\ LoHi(intent[k].lo, intent[k].hi).v = intent[k].amount
       /\ \A l \in Labels : LoHi(intent[k].lo, intent[k].hi).r[l] = Used(2 * k)[l]
  BY <1>2, IntentFacts
<1>12. available.commitment \in Ciphertexts
  BY BalanceFacts DEF SInv, Types
<1>13. /\ ns.commitment.v = available.commitment.v - intent[k].amount
       /\ \A l \in Labels :
            ns.commitment.r[l] = available.commitment.r[l] - Used(2 * k)[l]
  BY <1>10, <1>11, <1>12, MinusFacts
<1>14. \A l \in Labels : available.commitment.r[l] \in Int /\ Used(2 * k)[l] \in Nat
  BY <1>2, <1>12, IntentFacts, EntryFacts
<1>15. \A l \in Labels : available.commitment.r[l] = Origin(k)[l]
  BY <1>7, <1>13, <1>14
<1>16. executed[k] = 0
  <2>1. executed[k] \in 0 .. 1
    BY <1>2 DEF SInv, Types
  <2>2. executed[k] # 1
    BY <1>2, <1>3, <1>14, <1>15 DEF SInv, Openings
  <2> QED
    BY <2>1, <2>2
<1>17. available.commitment.v = ns.commitment.v + intent[k].amount
  <2>1. available.commitment.v \in Int /\ intent[k].amount \in Nat
    BY <1>2, <1>12, IntentFacts, EntryFacts
  <2> QED
    BY <1>13, <2>1
<1>18. ASSUME HasFees PROVE p["sigma"] = k /\ p["fee_validity"] = k
  <2>1. p["sigma"] = k
    BY <1>4, <1>5, <1>18 DEF sigma
  <2> DEFINE f == p["fee_validity"]
  <2>2. f \in Intents /\ Prepared(f)
    BY <1>1
  <2>3. f \in Nat /\ 2 * k + 1 \in Labels
    BY <1>2, <2>2, NumberFacts
  <2>4. intent[k].fee_lo = intent[f].fee_lo
    BY <1>4, <1>5, <1>18
  <2> HIDE DEF f
  <2>5. intent[k].fee_lo.r[2 * k + 1] = 1
    BY <1>2, <2>3, IntentFacts
  <2>6. intent[f].fee_lo.r[2 * k + 1] = IF 2 * k + 1 = 2 * f + 1 THEN 1 ELSE 0
    BY <2>2, <2>3, IntentFacts
  <2>7. f = k
    BY <1>3, <2>3, <2>4, <2>5, <2>6
  <2> QED
    BY <2>1, <2>7 DEF f
<1>19. \A role \in Roles : p[role] = k
  BY <1>5, <1>9, <1>18 DEF Roles
<1> QED
  BY <1>2, <1>15, <1>16, <1>17, <1>19 DEF ns

-----------------------------------------------------------------------------
(***************************************************************************)
(* Every step preserves the invariant.                                     *)
(***************************************************************************)
\* What an accepted transfer leaves behind: the balance its intent k was
\* prepared to leave, without the openings of k.  The number in it is less by
\* the amount sent, but for what the handles of k add.
LEMMA EffectFacts ==
  ASSUME SInv, NEW p \in Picks, NEW handles, Accepted(p, handles), Effect(p),
         Provable(p["validity"], "range")
  PROVE  LET k == p["validity"]
         IN  /\ k \in Intents /\ Prepared(k)
             /\ \A role \in Roles : p[role] = k
             /\ available' = intent[k].new_source
             /\ available' \in Balances /\ Decrypts(available') /\ Plain(available') >= 0
             /\ Plain(available) - Plain(available')
                  = intent[k].amount - intent[k].handles.lo.v
             /\ \A l \in Labels : available'.commitment.r[l] <= available.commitment.r[l]
             /\ available'.commitment.r[2 * k] < available.commitment.r[2 * k]
             /\ executed[k] = 0
             /\ executed' = [executed EXCEPT ![k] = 1]
<1> DEFINE k == p["validity"]
           ns == intent[k].new_source
<1>1. /\ k \in Intents /\ Prepared(k)
      /\ \A role \in Roles : p[role] = k
      /\ \A l \in Labels : available.commitment.r[l] = Origin(k)[l]
      /\ available.commitment.v = ns.commitment.v + intent[k].amount
      /\ executed[k] = 0
  BY OneIntent
<1>2. p["equality"] = k
  BY <1>1 DEF Roles
<1>3. available' = ns
  BY <1>2 DEF Effect, equality
<1>4. Plain(ns) >= 0
  BY NumberFacts DEF Provable, U64
<1>5. executed' = [executed EXCEPT ![k] = 1]
  <2>1. executed' = [executed EXCEPT ![k] = executed[k] + 1]
    BY DEF Effect
  <2> QED
    BY <1>1, <2>1
<1> HIDE DEF k
<1>6. /\ ns \in Balances /\ Decrypts(ns)
      /\ intent[k].amount \in Nat /\ intent[k].handles.lo.v \in Int
  BY <1>1, IntentFacts
<1> HIDE DEF ns
<1>7. ASSUME NEW l \in Labels
      PROVE  /\ available.commitment.r[l] = available'.commitment.r[l] + Used(2 * k)[l]
             /\ Used(2 * k)[l] \in Nat /\ available'.commitment.r[l] \in Int
  BY <1>1, <1>3, <1>7, IntentFacts DEF ns
<1>8. 2 * k \in Labels /\ Used(2 * k)[2 * k] = 1 + RADIX /\ RADIX \in Nat
  BY <1>1, NumberFacts DEF Used
<1>9. \A l \in Labels : available'.commitment.r[l] <= available.commitment.r[l]
  BY <1>7
<1>10. available'.commitment.r[2 * k] < available.commitment.r[2 * k]
  BY <1>7, <1>8
<1>11. Plain(available) - Plain(ns) = intent[k].amount - intent[k].handles.lo.v
  <2>1. available.handle.v = ns.handle.v + intent[k].handles.lo.v
    BY <1>1 DEF SInv, HandlesTrue, ns
  <2>2. available \in Balances
    BY DEF SInv, Types
  <2>3. /\ Plain(available) = available.commitment.v - available.handle.v
        /\ Plain(ns) = ns.commitment.v - ns.handle.v
        /\ ns.commitment.v \in Int /\ ns.handle.v \in Int
    BY <1>6, <2>2, BalanceFacts, EntryFacts
  <2> QED
    BY <1>1, <1>6, <2>1, <2>3
<1>12. Decrypts(available') /\ Plain(available') >= 0
  BY <1>3, <1>4, <1>6 DEF Decrypts, Plain
<1>13. Plain(available') = Plain(ns)
  BY <1>3 DEF Plain
<1> QED
  BY <1>1, <1>3, <1>5, <1>6, <1>9, <1>10, <1>11, <1>12, <1>13 DEF k, ns

\* The amounts an accepted transfer credits and withholds.
LEMMA EffectAmounts ==
  ASSUME SInv, NEW p \in Picks, NEW handles, Accepted(p, handles), Effect(p)
  PROVE  LET k == p["validity"]
             fee == IF HasFees THEN intent[k].fee ELSE 0
         IN  /\ pending' \in [lo : Ciphertexts, hi : Ciphertexts]
             /\ withheld' \in Ciphertexts
             /\ withheld'.v = withheld.v + fee
             /\ LoHi(pending'.lo, pending'.hi).v
                  = LoHi(pending.lo, pending.hi).v + intent[k].amount - fee
<1> DEFINE k == p["validity"]
           v == validity(k)
           f == fee_validity(k)
<1>1. /\ k \in Intents /\ Prepared(k)
      /\ \A role \in Roles : p[role] = k
  BY OneIntent
<1>2. HasFees => p["fee_validity"] = k
  BY <1>1 DEF Roles
<1>3. /\ withheld \in Ciphertexts /\ pending.lo \in Ciphertexts /\ pending.hi \in Ciphertexts
  BY DEF SInv, Types
<1>4. /\ v.lo \in Ciphertexts /\ v.hi \in Ciphertexts
      /\ f.lo \in Ciphertexts /\ f.hi \in Ciphertexts
      /\ LoHi(v.lo, v.hi).v = intent[k].amount
      /\ LoHi(f.lo, f.hi) \in Ciphertexts /\ LoHi(f.lo, f.hi).v = intent[k].fee
  <2> HIDE DEF k
  <2> QED
    BY <1>1, IntentFacts DEF validity, fee_validity
<1>5. IF HasFees
      THEN /\ pending' = [lo |-> Minus(Plus(pending.lo, v.lo), f.lo),
                          hi |-> Minus(Plus(pending.hi, v.hi), f.hi)]
           /\ withheld' = Plus(withheld, LoHi(f.lo, f.hi))
      ELSE /\ pending' = [lo |-> Plus(pending.lo, v.lo),
                          hi |-> Plus(pending.hi, v.hi)]
           /\ withheld' = withheld
  BY <1>2 DEF Effect
<1> HIDE DEF v, f, k
<1>6. /\ v.lo.v \in Int /\ v.hi.v \in Int /\ f.lo.v \in Int /\ f.hi.v \in Int
      /\ pending.lo.v \in Int /\ pending.hi.v \in Int /\ withheld.v \in Int
      /\ RADIX \in Nat
  BY <1>3, <1>4, EntryFacts, NumberFacts
<1>7. /\ intent[k].amount = v.lo.v + RADIX * v.hi.v
      /\ intent[k].fee = f.lo.v + RADIX * f.hi.v
      /\ LoHi(pending.lo, pending.hi).v = pending.lo.v + RADIX * pending.hi.v
  <2>1. /\ LoHi(v.lo, v.hi).v = v.lo.v + RADIX * v.hi.v
        /\ LoHi(f.lo, f.hi).v = f.lo.v + RADIX * f.hi.v
        /\ LoHi(pending.lo, pending.hi).v = pending.lo.v + RADIX * pending.hi.v
    BY <1>3, <1>4, LoHiFacts
  <2> QED
    BY <1>4, <2>1
<1>8. /\ Plus(pending.lo, v.lo) \in Ciphertexts
      /\ Plus(pending.hi, v.hi) \in Ciphertexts
      /\ Plus(pending.lo, v.lo).v = pending.lo.v + v.lo.v
      /\ Plus(pending.hi, v.hi).v = pending.hi.v + v.hi.v
  BY <1>3, <1>4, PlusFacts
<1> DEFINE high(n) == RADIX * n
<1>9. \A a, b \in Int : /\ high(a) \in Int
                        /\ high(a + b) = high(a) + high(b)
                        /\ high(a - b) = high(a) - high(b)
  BY <1>6
<1>10. /\ intent[k].amount = v.lo.v + high(v.hi.v)
       /\ intent[k].fee = f.lo.v + high(f.hi.v)
       /\ LoHi(pending.lo, pending.hi).v = pending.lo.v + high(pending.hi.v)
  BY <1>7
<1>11. ASSUME pending'.lo \in Ciphertexts, pending'.hi \in Ciphertexts
       PROVE  LoHi(pending'.lo, pending'.hi).v = pending'.lo.v + high(pending'.hi.v)
  BY <1>11, LoHiFacts
<1> HIDE DEF high
<1>12. CASE HasFees
  <2> DEFINE plo == Plus(pending.lo, v.lo)
             phi == Plus(pending.hi, v.hi)
  <2>1. /\ pending' = [lo |-> Minus(plo, f.lo), hi |-> Minus(phi, f.hi)]
        /\ withheld' = Plus(withheld, LoHi(f.lo, f.hi))
    BY <1>5, <1>12
  <2>2. /\ plo \in Ciphertexts /\ phi \in Ciphertexts
        /\ plo.v = pending.lo.v + v.lo.v /\ phi.v = pending.hi.v + v.hi.v
    BY <1>8
  <2> HIDE DEF plo, phi
  <2>3. /\ Minus(plo, f.lo) \in Ciphertexts /\ Minus(plo, f.lo).v = plo.v - f.lo.v
        /\ Minus(phi, f.hi) \in Ciphertexts /\ Minus(phi, f.hi).v = phi.v - f.hi.v
    BY <1>4, <2>2, MinusFacts
  <2>4. withheld' \in Ciphertexts /\ withheld'.v = withheld.v + intent[k].fee
    BY <1>3, <1>4, <2>1, PlusFacts
  <2>5. pending'.lo \in Ciphertexts /\ pending'.hi \in Ciphertexts
    BY <2>1, <2>3
  <2>6. LoHi(pending'.lo, pending'.hi).v = pending'.lo.v + high(pending'.hi.v)
    BY <2>5, <1>11
  <2>7. /\ pending'.lo.v = pending.lo.v + v.lo.v - f.lo.v
        /\ pending'.hi.v = pending.hi.v + v.hi.v - f.hi.v
    <3>1. pending'.lo = Minus(plo, f.lo) /\ pending'.hi = Minus(phi, f.hi)
      BY <2>1
    <3>2. pending'.lo.v = plo.v - f.lo.v /\ pending'.hi.v = phi.v - f.hi.v
      BY <3>1, <2>3
    <3> QED
      BY <3>2, <2>2, <1>6
  <2>8. high(pending'.hi.v) = high(pending.hi.v) + high(v.hi.v) - high(f.hi.v)
    <3>1. phi.v \in Int /\ pending'.hi.v = phi.v - f.hi.v
      BY <2>1, <2>2, <2>3, EntryFacts
    <3>2. high(phi.v - f.hi.v) = high(phi.v) - high(f.hi.v)
      BY <1>6, <1>9, <3>1
    <3>3. /\ high(pending.hi.v + v.hi.v) = high(pending.hi.v) + high(v.hi.v)
          /\ high(pending.hi.v) \in Int /\ high(v.hi.v) \in Int /\ high(f.hi.v) \in Int
      BY <1>6, <1>9
    <3> QED
      BY <3>1, <3>2, <3>3, <2>2
  <2>9. high(pending.hi.v) \in Int /\ high(v.hi.v) \in Int /\ high(f.hi.v) \in Int
    BY <1>6, <1>9
  <2>10. LoHi(pending'.lo, pending'.hi).v
           = LoHi(pending.lo, pending.hi).v + intent[k].amount - intent[k].fee
    BY <1>6, <1>10, <2>6, <2>7, <2>8, <2>9
  <2>11. pending' \in [lo : Ciphertexts, hi : Ciphertexts]
    BY <2>1, <2>3
  <2> QED
    BY <1>12, <2>4, <2>10, <2>11 DEF k
<1>13. CASE ~HasFees
  <2>1. /\ pending' = [lo |-> Plus(pending.lo, v.lo), hi |-> Plus(pending.hi, v.hi)]
        /\ withheld' = withheld
    BY <1>5, <1>13
  <2>2. /\ pending' \in [lo : Ciphertexts, hi : Ciphertexts]
        /\ pending'.lo \in Ciphertexts /\ pending'.hi \in Ciphertexts
        /\ pending'.lo.v = pending.lo.v + v.lo.v
        /\ pending'.hi.v = pending.hi.v + v.hi.v
    BY <1>8, <2>1
  <2>3. LoHi(pending'.lo, pending'.hi).v = pending'.lo.v + high(pending'.hi.v)
    BY <2>2, <1>11
  <2>4. high(pending'.hi.v) = high(pending.hi.v) + high(v.hi.v)
    <3>1. high(pending.hi.v + v.hi.v) = high(pending.hi.v) + high(v.hi.v)
      BY <1>6, <1>9
    <3> QED
      BY <3>1, <2>2
  <2>5. high(pending.hi.v) \in Int /\ high(v.hi.v) \in Int
    BY <1>6, <1>9
  <2>6. LoHi(pending'.lo, pending'.hi).v = LoHi(pending.lo, pending.hi).v + intent[k].amount
    BY <1>6, <1>10, <2>2, <2>3, <2>4, <2>5
  <2>7. LoHi(pending.lo, pending.hi).v \in Int /\ intent[k].amount \in Int
    BY <1>6, <1>10, <2>5
  <2>8. /\ withheld'.v = withheld.v + 0
        /\ LoHi(pending'.lo, pending'.hi).v
             = LoHi(pending.lo, pending.hi).v + intent[k].amount - 0
    BY <1>6, <2>1, <2>6, <2>7
  <2> QED
    BY <1>3, <1>13, <2>1, <2>2, <2>8 DEF k
<1> QED
  BY <1>12, <1>13

LEMMA FeesStay ==
  ASSUME SInv, [Next]_vars
  PROVE  HasFees' = HasFees /\ Roles' = Roles
<1>1. rate' = rate \/ (HasFees /\ rate' \in Rates)
  BY DEF Next, vars, Prepare, CreateContext, CreateAndTransfer, TransferWithSplitProofs,
         ChangeFee, ToggleFreeze, ReceiveAmount
<1>2. NoFee \notin Rates
  BY SplitAssumption DEF NoFee
<1>3. HasFees' = HasFees
  BY <1>1, <1>2 DEF HasFees, NoFee
<1> QED
  BY <1>3 DEF Roles

LEMMA SameIntents ==
  ASSUME intent' = intent
  PROVE  \A i \in Intents :
           /\ Prepared(i)' = Prepared(i) /\ Origin(i)' = Origin(i)
           /\ \A role \in Roles : Provable(i, role)' = Provable(i, role)
BY DEF Prepared, NoIntent, Origin, Provable, U64, Used, Plain

LEMMA SameIntentsTrue ==
  ASSUME SInv, intent' = intent, HasFees' = HasFees,
         \A i \in Intents : executed[i] = 0 /\ ~Prepared(i) => executed'[i] = 0
  PROVE  IntentsTrue'
<1>1. \A i \in Intents : /\ Prepared(i)' = Prepared(i)
                         /\ WellPrepared(i)' = WellPrepared(i)
  BY SameIntents DEF WellPrepared, NoFee, FeeProvable, delta, Decrypts
<1> QED
  BY <1>1 DEF SInv, IntentsTrue

\* A balance that loses openings, and those of the intents it executes.
LEMMA OpeningsKept ==
  ASSUME SInv, intent' = intent, available'.commitment \in Ciphertexts,
         \A l \in Labels : available'.commitment.r[l] <= available.commitment.r[l],
         \A i \in Intents : executed'[i] = 1 =>
           \/ executed[i] = 1
           \/ Prepared(i) /\ available'.commitment.r[2 * i] < available.commitment.r[2 * i]
  PROVE  Openings'
<1>1. \A i \in Intents : Prepared(i)' = Prepared(i) /\ Origin(i)' = Origin(i)
  BY SameIntents
<1>2. available.commitment \in Ciphertexts
  BY BalanceFacts DEF SInv, Types
<1>3. ASSUME NEW i \in Intents, Prepared(i)
      PROVE  /\ \A l \in Labels : available'.commitment.r[l] <= Origin(i)[l]
             /\ executed'[i] = 1 => available'.commitment.r[2 * i] < Origin(i)[2 * i]
  <2>1. 2 * i \in Labels
    BY NumberFacts
  <2>2. \A l \in Labels : /\ available'.commitment.r[l] \in Int /\ available.commitment.r[l] \in Int
                          /\ Origin(i)[l] \in Int
    BY <1>2, <1>3, IntentFacts, EntryFacts
  <2>3. /\ \A l \in Labels : available.commitment.r[l] <= Origin(i)[l]
        /\ executed[i] = 1 => available.commitment.r[2 * i] < Origin(i)[2 * i]
    BY <1>3 DEF SInv, Openings
  <2>4. \A l \in Labels : available'.commitment.r[l] <= Origin(i)[l]
    BY <2>2, <2>3
  <2>5. ASSUME executed'[i] = 1 PROVE available'.commitment.r[2 * i] < Origin(i)[2 * i]
    BY <2>1, <2>2, <2>3, <2>5
  <2> QED
    BY <2>4, <2>5
<1>4. \A i, j \in Intents : Prepared(i) /\ Prepared(j) =>
        \/ \A l \in Labels : Origin(i)[l] <= Origin(j)[l]
        \/ \A l \in Labels : Origin(j)[l] <= Origin(i)[l]
  BY DEF SInv, Openings
<1> QED
  BY <1>1, <1>3, <1>4 DEF Openings

\* Once openings are gone, no origin is the randomness that is left.
LEMMA HandlesKept ==
  ASSUME SInv, intent' = intent, available'.commitment \in Ciphertexts,
         NEW l \in Labels,
         available'.commitment.r[l] < available.commitment.r[l]
  PROVE  HandlesTrue'
<1>1. available.commitment \in Ciphertexts
  BY BalanceFacts DEF SInv, Types
<1>2. ASSUME NEW i \in Intents, Prepared(i)
      PROVE  available'.commitment.r[l] # Origin(i)'[l]
  <2>1. Origin(i)' = Origin(i) /\ available.commitment.r[l] <= Origin(i)[l]
    BY <1>2, SameIntents DEF SInv, Openings
  <2>2. /\ available.commitment.r[l] \in Int /\ available'.commitment.r[l] \in Int
        /\ Origin(i)[l] \in Int
    BY <1>1, <1>2, EntryFacts, IntentFacts
  <2> QED
    BY <2>1, <2>2
<1> QED
  BY <1>2, SameIntents DEF HandlesTrue

LEMMA InitSInv == Init => SInv
<1> SUFFICES ASSUME Init PROVE SInv
  OBVIOUS
<1>1. /\ available \in Balances /\ Decrypts(available) /\ Plain(available) = Supply
      /\ pending \in [lo : Ciphertexts, hi : Ciphertexts] /\ withheld \in Ciphertexts
  <2> DEFINE first == PlusAmount(Zeroed, Supply)
  <2>1. first \in Ciphertexts /\ first.v = Supply /\ first.r = Zeroed.r
    BY ZeroFacts, PlusAmountFacts, NumberFacts
  <2>2. available = [commitment |-> first, handle |-> Zeroed]
    BY DEF Init
  <2> HIDE DEF first
  <2>3. /\ available.commitment = first /\ available.handle = Zeroed
        /\ available \in Balances
    BY <2>1, <2>2, ZeroFacts DEF Balances
  <2>4. Plain(available) = Supply
    BY <2>1, <2>3, ZeroFacts, NumberFacts DEF Plain
  <2>5. /\ pending \in [lo : Ciphertexts, hi : Ciphertexts]
        /\ withheld \in Ciphertexts
    BY ZeroFacts DEF Init
  <2> QED
    BY <2>1, <2>3, <2>4, <2>5 DEF Decrypts
<1>2. Types
  <2>1. MaxChanges \in Nat
    BY SplitAssumption
  <2>2. changes \in 0 .. MaxChanges /\ frozen \in BOOLEAN
    <3>1. changes = 0 /\ frozen = FALSE
      BY DEF Init
    <3>2. changes \in 0 .. MaxChanges
      BY <2>1, <3>1, SMT
    <3> QED
      BY <3>1, <3>2
  <2>3. rate \in Rates \cup {NoFee} /\ contexts \subseteq Intents \X Roles
    BY DEF Init
  <2>4. DOMAIN intent = Intents
    BY DEF Init
  <2>5. landed \in [Intents -> SUBSET Roles] /\ executed \in [Intents -> 0 .. 1]
    BY DEF Init
  <2>6. Plain(available) >= 0
    BY <1>1, NumberFacts
  <2> QED
    BY <1>1, <2>2, <2>3, <2>4, <2>5, <2>6 DEF Types
<1>3. \A i \in Intents : ~Prepared(i) /\ executed[i] = 0 /\ landed[i] = {}
  BY DEF Init, Prepared
<1>4. Roles # {}
  BY DEF Roles
<1>5. contexts = {}
  BY DEF Init
<1> QED
  BY <1>2, <1>3, <1>4, <1>5 DEF SInv, IntentsTrue, ContextsTrue, Openings, HandlesTrue, Landings

LEMMA PrepareSInv ==
  ASSUME SInv, NEW i \in Intents, NEW amount \in Amounts, NEW fee \in 0 .. Supply,
         NEW offset \in HandleOffsets[i], Prepare(i, amount, fee, offset)
  PROVE  SInv'
<1> DEFINE lo == Encrypt(Low(amount), 2 * i)
           hi == Encrypt(High(amount), 2 * i)
           handles == [lo |-> Encrypt(offset, 2 * i), hi |-> Encrypt(0, 2 * i)]
           left == subtract_with_lo_hi(available,
                     transfer_amount_encryption_from_decrypt_handle(lo, handles.lo),
                     transfer_amount_encryption_from_decrypt_handle(hi, handles.hi))
           t == [amount |-> amount, lo |-> lo, hi |-> hi, handles |-> handles,
                 new_source |-> left,
                 rate |-> rate, fee |-> fee,
                 fee_lo |-> Encrypt(Low(fee), 2 * i + 1),
                 fee_hi |-> Encrypt(High(fee), 2 * i + 1)]
<1>1. /\ ~Prepared(i) /\ intent' = [intent EXCEPT ![i] = t]
      /\ HasFees => FeeProvable(rate, amount, fee)
      /\ UNCHANGED <<available, pending, withheld, rate, frozen, contexts,
                     landed, executed, changes>>
  BY DEF Prepare, Prepared
<1>2. amount \in Nat /\ fee \in Nat /\ offset \in Int
  BY NumberFacts, SplitAssumption
<1>3. t # NoIntent
  <2>1. t.amount = amount /\ NoIntent.amount = -1
    BY DEF NoIntent
  <2> QED
    BY <1>2, <2>1
<1>4. /\ t.amount = amount /\ t.lo = lo /\ t.hi = hi /\ t.rate = rate /\ t.fee = fee
      /\ t.fee_lo = Encrypt(Low(fee), 2 * i + 1) /\ t.fee_hi = Encrypt(High(fee), 2 * i + 1)
      /\ t.new_source = left /\ t.handles = handles
  OBVIOUS
<1>5. /\ available \in Balances /\ Decrypts(available)
      /\ available.commitment \in Ciphertexts /\ available.handle \in Ciphertexts
      /\ LoHi(lo, hi) \in Ciphertexts
      /\ \A l \in Labels : LoHi(lo, hi).r[l] = Used(2 * i)[l] /\ Used(2 * i)[l] \in Nat
  BY <1>2, HalvesTogether, BalanceFacts DEF SInv, Types
<1>6. /\ handles.lo.v = offset /\ handles.hi.v = 0
      /\ LoHi(handles.lo, handles.hi) \in Ciphertexts
      /\ LoHi(handles.lo, handles.hi).v = offset
      /\ \A l \in Labels : LoHi(handles.lo, handles.hi).r[l] = Used(2 * i)[l]
  <2>1. /\ handles.lo \in Ciphertexts /\ handles.lo.v = offset
        /\ handles.hi \in Ciphertexts /\ handles.hi.v = 0
        /\ \A l \in Labels : /\ handles.lo.r[l] = IF l = 2 * i THEN 1 ELSE 0
                             /\ handles.hi.r[l] = IF l = 2 * i THEN 1 ELSE 0
    BY <1>2, EncryptFacts
  <2> HIDE DEF handles
  <2>2. /\ LoHi(handles.lo, handles.hi) \in Ciphertexts
        /\ LoHi(handles.lo, handles.hi).v = handles.lo.v + RADIX * handles.hi.v
        /\ \A l \in Labels : LoHi(handles.lo, handles.hi).r[l]
                               = handles.lo.r[l] + RADIX * handles.hi.r[l]
    BY <2>1, LoHiFacts
  <2>3. RADIX * 0 = 0 /\ RADIX * 1 = RADIX /\ RADIX \in Nat
    BY NumberFacts
  <2> QED
    BY <1>2, <2>1, <2>2, <2>3 DEF Used
<1> HIDE DEF lo, hi, handles
<1>7. /\ left.commitment \in Ciphertexts /\ left.handle \in Ciphertexts
      /\ left.handle.v = available.handle.v - offset
      /\ \A l \in Labels :
           /\ left.commitment.r[l] = available.commitment.r[l] - Used(2 * i)[l]
           /\ left.handle.r[l] = available.handle.r[l] - Used(2 * i)[l]
  <2>1. /\ left.commitment = Minus(available.commitment, LoHi(lo, hi))
        /\ left.handle = Minus(available.handle, LoHi(handles.lo, handles.hi))
    BY <1>5, SubtractFacts
  <2> QED
    BY <1>5, <1>6, <2>1, MinusFacts
<1>8. left \in Balances /\ Decrypts(left)
  <2>1. \A l \in Labels : left.commitment.r[l] = left.handle.r[l]
    BY <1>5, <1>7 DEF Decrypts
  <2>2. left.commitment.r \in [Labels -> Int] /\ left.handle.r \in [Labels -> Int]
    BY <1>7 DEF Ciphertexts
  <2>3. left.commitment.r = left.handle.r
    BY <2>1, <2>2
  <2>4. left = [commitment |-> left.commitment, handle |-> left.handle]
    BY DEF subtract_with_lo_hi
  <2> QED
    BY <1>7, <2>3, <2>4 DEF Balances, Decrypts
<1> HIDE DEF t, left
<1>9. /\ intent'[i] = t /\ DOMAIN intent' = Intents
      /\ \A j \in Intents \ {i} : intent'[j] = intent[j]
  BY <1>1 DEF SInv, Types
<1>10. /\ Prepared(i)'
      /\ \A j \in Intents \ {i} : Prepared(j)' = Prepared(j) /\ Origin(j)' = Origin(j)
  BY <1>3, <1>9 DEF Prepared, NoIntent, Origin, Used
<1>11. \A l \in Labels : /\ Origin(i)'[l] = available.commitment.r[l]
                        /\ available.commitment.r[l] \in Int
  <2>1. Origin(i)' = [l \in Labels |-> left.commitment.r[l] + Used(2 * i)[l]]
    BY <1>4, <1>9 DEF Origin, Used
  <2> QED
    BY <1>5, <1>7, <2>1, EntryFacts
<1>12. executed[i] = 0 /\ executed' = executed
  BY <1>1 DEF SInv, IntentsTrue
<1>13. Types'
  BY <1>1, <1>9 DEF SInv, Types, Roles, HasFees, NoFee
<1>14. IntentsTrue'
  <2>1. WellPrepared(i)'
    BY <1>1, <1>2, <1>4, <1>6, <1>8, <1>9
       DEF WellPrepared, SInv, Types, HasFees, FeeProvable, delta, NoFee, Decrypts, lo, hi
  <2>2. \A j \in Intents \ {i} : WellPrepared(j)' = WellPrepared(j)
    BY <1>1, <1>9 DEF WellPrepared, HasFees, FeeProvable, delta, NoFee, Decrypts
  <2> QED
    BY <1>10, <1>12, <2>1, <2>2 DEF SInv, IntentsTrue
<1>15. ContextsTrue'
  <2>1. \A j \in Intents \ {i}, role \in Roles : Provable(j, role)' = Provable(j, role)
    BY <1>9 DEF Provable, U64, Plain
  <2>2. \A c \in contexts : c[1] \in Intents \ {i} /\ c[2] \in Roles
    BY <1>1 DEF SInv, ContextsTrue, Types
  <2> QED
    BY <1>1, <1>10, <2>1, <2>2 DEF SInv, ContextsTrue
<1>16. Openings'
  <2>1. \A j \in Intents \ {i} : Prepared(j) =>
          /\ \A l \in Labels : available.commitment.r[l] <= Origin(j)[l]
          /\ executed[j] = 1 => available.commitment.r[2 * j] < Origin(j)[2 * j]
    BY DEF SInv, Openings
  <2>2. ASSUME NEW j \in Intents, Prepared(j)'
        PROVE  /\ \A l \in Labels : available'.commitment.r[l] <= Origin(j)'[l]
               /\ executed'[j] = 1 => available'.commitment.r[2 * j] < Origin(j)'[2 * j]
    <3>1. CASE j = i
      BY <1>1, <1>11, <1>12, <3>1
    <3>2. CASE j # i
      BY <1>1, <1>10, <2>1, <2>2, <3>2
    <3> QED
      BY <3>1, <3>2
  <2>3. ASSUME NEW j \in Intents, NEW m \in Intents, Prepared(j)', Prepared(m)'
        PROVE  \/ \A l \in Labels : Origin(j)'[l] <= Origin(m)'[l]
               \/ \A l \in Labels : Origin(m)'[l] <= Origin(j)'[l]
    <3>1. CASE j = i
      BY <1>1, <1>11, <2>2, <2>3, <3>1
    <3>2. CASE m = i
      BY <1>1, <1>11, <2>2, <2>3, <3>2
    <3>3. CASE j # i /\ m # i
      BY <1>10, <2>3, <3>3 DEF SInv, Openings
    <3> QED
      BY <3>1, <3>2, <3>3
  <2> QED
    BY <2>2, <2>3 DEF Openings
<1>17. HandlesTrue'
  <2>1. ASSUME NEW j \in Intents, Prepared(j)',
               \A l \in Labels : available'.commitment.r[l] = Origin(j)'[l]
        PROVE  available'.handle.v = intent'[j].new_source.handle.v + intent'[j].handles.lo.v
    <3>1. CASE j = i
      <4>1. available.handle.v \in Int
        BY <1>5, EntryFacts
      <4> QED
        BY <1>1, <1>2, <1>4, <1>6, <1>7, <1>9, <3>1, <4>1
    <3>2. CASE j # i
      BY <1>1, <1>9, <1>10, <2>1, <3>2 DEF SInv, HandlesTrue
    <3> QED
      BY <3>1, <3>2
  <2> QED
    BY <2>1 DEF HandlesTrue
<1>18. Landings'
  BY <1>1 DEF SInv, Landings, Roles, HasFees, NoFee
<1> QED
  BY <1>13, <1>14, <1>15, <1>16, <1>17, <1>18 DEF SInv

\* The parts of the invariant that an accepted transfer changes the same way
\* in both instructions: it executes an intent that was not executed yet.
LEMMA EffectSInv ==
  ASSUME SInv, NEW p \in Picks, NEW handles, Accepted(p, handles), Effect(p),
         Provable(p["validity"], "range"), intent' = intent, HasFees' = HasFees
  PROVE  /\ available' \in Balances /\ Decrypts(available') /\ Plain(available') >= 0
         /\ pending' \in [lo : Ciphertexts, hi : Ciphertexts]
         /\ withheld' \in Ciphertexts
         /\ executed' \in [Intents -> 0 .. 1]
         /\ \A i \in Intents :
              executed'[i] = IF i = p["validity"] THEN 1 ELSE executed[i]
         /\ Named(p) = {p["validity"]} \X Roles
         /\ IntentsTrue' /\ Openings' /\ HandlesTrue'
<1> DEFINE k == p["validity"]
<1>1. /\ k \in Intents /\ Prepared(k)
      /\ \A role \in Roles : p[role] = k
      /\ available' \in Balances /\ Decrypts(available') /\ Plain(available') >= 0
      /\ \A l \in Labels : available'.commitment.r[l] <= available.commitment.r[l]
      /\ available'.commitment.r[2 * k] < available.commitment.r[2 * k]
      /\ executed' = [executed EXCEPT ![k] = 1]
  BY EffectFacts
<1>2. /\ pending' \in [lo : Ciphertexts, hi : Ciphertexts]
      /\ withheld' \in Ciphertexts
  BY EffectAmounts
<1>3. Named(p) = {k} \X Roles
  BY <1>1 DEF Named
<1> HIDE DEF k
<1>4. executed \in [Intents -> 0 .. 1]
  BY DEF SInv, Types
<1>5. \A i \in Intents : executed'[i] = IF i = k THEN 1 ELSE executed[i]
  BY <1>1, <1>4
<1>6. executed' \in [Intents -> 0 .. 1]
  BY <1>1, <1>4
<1>7. IntentsTrue'
  BY <1>1, <1>5, SameIntentsTrue
<1>8. Openings' /\ HandlesTrue'
  <2>1. available'.commitment \in Ciphertexts /\ 2 * k \in Labels
    BY <1>1, BalanceFacts, NumberFacts
  <2> QED
    BY <1>1, <1>5, <2>1, OpeningsKept, HandlesKept
<1> QED
  BY <1>1, <1>2, <1>3, <1>5, <1>6, <1>7, <1>8 DEF k

LEMMA TransferSInv ==
  ASSUME SInv, NEW p \in Picks, NEW close \in BOOLEAN,
         TransferWithSplitProofs(p, close), HasFees' = HasFees, Roles' = Roles
  PROVE  SInv'
<1> DEFINE k == p["validity"]
<1>1. /\ \E handles : Accepted(p, handles)
      /\ Effect(p) /\ Initialized(p)
      /\ contexts' = IF close THEN contexts \ Named(p) ELSE contexts
      /\ UNCHANGED <<rate, frozen, intent, landed, changes>>
  BY DEF TransferWithSplitProofs
<1>2. Provable(k, "range")
  <2>1. p["range"] = k
    BY <1>1, OneIntent DEF Roles
  <2>2. <<k, "range">> \in contexts
    BY <1>1, <2>1 DEF Initialized, Roles
  <2> QED
    BY <2>2 DEF SInv, ContextsTrue
<1>3. /\ available' \in Balances /\ Decrypts(available') /\ Plain(available') >= 0
      /\ pending' \in [lo : Ciphertexts, hi : Ciphertexts]
      /\ withheld' \in Ciphertexts
      /\ executed' \in [Intents -> 0 .. 1]
      /\ \A i \in Intents : executed'[i] = IF i = k THEN 1 ELSE executed[i]
      /\ Named(p) = {k} \X Roles
      /\ IntentsTrue' /\ Openings' /\ HandlesTrue'
  BY <1>1, <1>2, EffectSInv
<1> HIDE DEF k
<1>4. contexts' \subseteq contexts /\ contexts \ contexts' \subseteq {k} \X Roles
  BY <1>1, <1>3
<1>5. Types'
  BY <1>1, <1>3, <1>4 DEF SInv, Types
<1>6. ContextsTrue'
  <2>1. \A c \in contexts : c[1] \in Intents /\ c[2] \in Roles
    BY DEF SInv, Types
  <2>2. \A c \in contexts' : /\ c[1] \in Intents /\ c[2] \in Roles
                             /\ Prepared(c[1]) /\ Provable(c[1], c[2])
    BY <1>4, <2>1 DEF SInv, ContextsTrue
  <2> QED
    BY <1>1, <2>2, SameIntents DEF ContextsTrue
<1>7. Landings'
  <2>1. \A i \in Intents : executed'[i] = 0 => i # k /\ executed[i] = 0
    BY <1>3
  <2>2. \A i \in Intents \ {k}, role \in Roles :
          <<i, role>> \in contexts => <<i, role>> \in contexts'
    BY <1>4
  <2>3. \A i \in Intents : landed[i] \subseteq Roles
    BY DEF SInv, Types
  <2>4. \A i \in Intents : executed[i] = 1 => executed'[i] = 1
    BY <1>3
  <2> QED
    BY <1>1, <2>1, <2>2, <2>3, <2>4 DEF SInv, Landings
<1> QED
  BY <1>3, <1>5, <1>6, <1>7 DEF SInv

LEMMA CreateSInv ==
  ASSUME SInv, NEW i \in Intents, NEW role \in Roles, CreateContext(i, role),
         HasFees' = HasFees, Roles' = Roles
  PROVE  SInv'
<1>1. /\ Prepared(i) /\ Provable(i, role)
      /\ contexts' = contexts \cup {<<i, role>>}
      /\ UNCHANGED <<available, pending, withheld, rate, frozen, intent, landed,
                     executed, changes>>
  BY DEF CreateContext, Prepared
<1>2. Types'
  BY <1>1 DEF SInv, Types
<1>3. IntentsTrue'
  BY <1>1, SameIntentsTrue
<1>4. ContextsTrue'
  BY <1>1, SameIntents DEF SInv, ContextsTrue, Types
<1>5. Openings'
  BY <1>1, SameIntents DEF SInv, Openings
<1>6. HandlesTrue'
  BY <1>1, SameIntents DEF SInv, HandlesTrue
<1>7. Landings'
  BY <1>1 DEF SInv, Landings
<1> QED
  BY <1>2, <1>3, <1>4, <1>5, <1>6, <1>7 DEF SInv

LEMMA StepwiseSInv ==
  ASSUME SInv, NEW i \in Intents, NEW role \in Roles, CreateAndTransfer(i, role),
         HasFees' = HasFees, Roles' = Roles
  PROVE  SInv'
<1> DEFINE created == contexts \cup {<<i, role>>}
<1>1. /\ Prepared(i) /\ Provable(i, role)
      /\ landed' = [landed EXCEPT ![i] = @ \cup {role}]
      /\ UNCHANGED <<rate, frozen, intent, changes>>
  BY DEF CreateAndTransfer, Prepared
<1>2. \A c \in created : /\ c[1] \in Intents /\ c[2] \in Roles
                         /\ Prepared(c[1]) /\ Provable(c[1], c[2])
  BY <1>1 DEF SInv, ContextsTrue, Types
<1>3. /\ landed' \in [Intents -> SUBSET Roles]
      /\ \A j \in Intents : landed'[j] = IF j = i THEN landed[i] \cup {role} ELSE landed[j]
  BY <1>1 DEF SInv, Types
<1>4. CASE /\ NoOp(i, role, created)
           /\ contexts' = created
           /\ UNCHANGED <<available, pending, withheld, executed>>
  <2>1. Types'
    BY <1>1, <1>3, <1>4 DEF SInv, Types
  <2>2. IntentsTrue'
    BY <1>1, <1>4, SameIntentsTrue
  <2>3. ContextsTrue'
    BY <1>1, <1>2, <1>4, SameIntents DEF ContextsTrue
  <2>4. Openings' /\ HandlesTrue'
    BY <1>1, <1>4, SameIntents DEF SInv, Openings, HandlesTrue
  <2>5. \A j \in Intents : /\ executed[j] = 0 => \A x \in landed[j] : <<j, x>> \in contexts
                           /\ landed[j] = Roles => executed[j] = 1
    BY DEF SInv, Landings
  <2>6. ASSUME NEW j \in Intents, executed[j] = 0
        PROVE  /\ \A x \in landed'[j] : <<j, x>> \in created
               /\ landed'[j] # Roles
    <3>1. \A x \in landed'[j] : <<j, x>> \in created
      BY <1>3, <2>5, <2>6
    <3>2. CASE j = i
      BY <1>4, <3>1, <3>2 DEF NoOp
    <3>3. CASE j # i
      BY <1>3, <2>5, <2>6, <3>3
    <3> QED
      BY <3>1, <3>2, <3>3
  <2>7. \A j \in Intents : executed[j] \in 0 .. 1
    BY DEF SInv, Types
  <2>8. \A j \in Intents : executed[j] = 0 \/ executed[j] = 1
    BY <2>7
  <2>9. Landings'
    BY <1>4, <2>6, <2>8 DEF Landings
  <2> QED
    BY <2>1, <2>2, <2>3, <2>4, <2>9 DEF SInv
<1>5. CASE /\ ~NoOp(i, role, created)
           /\ Accepted(Whole(i), intent[i].handles)
           /\ Effect(Whole(i))
           /\ contexts' = created \ Named(Whole(i))
  <2> DEFINE p == Whole(i)
  <2>1. p \in Picks /\ \A x \in Roles \cup {"fee_validity"} : p[x] = i
    BY <1>1 DEF Whole, Picks, Prepared
  <2>2. p["validity"] = i
    BY <2>1 DEF Roles
  <2>3. Provable(i, "range")
    <3>1. <<i, "range">> \in created
      BY <1>5 DEF NoOp, Roles
    <3> QED
      BY <1>2, <3>1
  <2>4. Accepted(p, intent[i].handles) /\ Effect(p) /\ contexts' = created \ Named(p)
    BY <1>5
  <2> HIDE DEF p
  <2>5. /\ available' \in Balances /\ Decrypts(available') /\ Plain(available') >= 0
        /\ pending' \in [lo : Ciphertexts, hi : Ciphertexts]
        /\ withheld' \in Ciphertexts
        /\ executed' \in [Intents -> 0 .. 1]
        /\ \A j \in Intents : executed'[j] = IF j = i THEN 1 ELSE executed[j]
        /\ Named(p) = {i} \X Roles
        /\ IntentsTrue' /\ Openings' /\ HandlesTrue'
    BY <1>1, <2>1, <2>2, <2>3, <2>4, EffectSInv
  <2>6. contexts' \subseteq created
    BY <2>4
  <2>7. Types'
    <3>1. contexts' \subseteq Intents \X Roles
      BY <2>6 DEF SInv, Types
    <3> QED
      BY <1>1, <1>3, <2>5, <3>1 DEF SInv, Types
  <2>8. ContextsTrue'
    BY <1>1, <1>2, <2>6, SameIntents DEF ContextsTrue
  <2>9. \A j \in Intents \ {i}, x \in Roles : <<j, x>> \in contexts => <<j, x>> \in contexts'
    BY <2>4, <2>5
  <2>10. Landings'
    BY <1>3, <2>5, <2>9 DEF SInv, Types, Landings
  <2> QED
    BY <2>5, <2>7, <2>8, <2>10 DEF SInv
<1> QED
  BY <1>4, <1>5 DEF CreateAndTransfer

LEMMA OtherSInv ==
  ASSUME SInv, HasFees' = HasFees, Roles' = Roles,
         \/ \E f \in Rates : ChangeFee(f)
         \/ ToggleFreeze \/ ReceiveAmount \/ UNCHANGED vars
  PROVE  SInv'
<1>1. /\ intent' = intent /\ contexts' = contexts /\ landed' = landed
      /\ executed' = executed /\ pending' = pending /\ withheld' = withheld
      /\ rate' \in Rates \cup {NoFee} /\ frozen' \in BOOLEAN
  BY DEF ChangeFee, ToggleFreeze, ReceiveAmount, vars, SInv, Types
<1>2. changes' \in 0 .. MaxChanges
  <2>1. changes' = changes \/ (changes < MaxChanges /\ changes' = changes + 1)
    BY DEF ChangeFee, ToggleFreeze, ReceiveAmount, vars
  <2>2. MaxChanges \in Nat /\ changes \in 0 .. MaxChanges
    BY SplitAssumption DEF SInv, Types
  <2> QED
    BY <2>1, <2>2
<1>3. /\ available' \in Balances /\ Decrypts(available') /\ Plain(available') >= 0
      /\ available'.commitment.r = available.commitment.r
      /\ available'.handle = available.handle
  <2> DEFINE more == PlusAmount(available.commitment, 1)
  <2>1. available \in Balances /\ Decrypts(available) /\ Plain(available) >= 0
    BY DEF SInv, Types
  <2>2. /\ more \in Ciphertexts /\ more.v = available.commitment.v + 1
        /\ more.r = available.commitment.r
        /\ available.commitment.v \in Int
        /\ available.handle \in Ciphertexts /\ available.handle.v \in Int
    <3>1. /\ available.commitment \in Ciphertexts /\ available.commitment.v \in Int
          /\ available.handle \in Ciphertexts /\ available.handle.v \in Int
      BY <2>1, BalanceFacts, EntryFacts
    <3>2. \A c \in Ciphertexts : /\ PlusAmount(c, 1) \in Ciphertexts
                                 /\ PlusAmount(c, 1).v = c.v + 1
                                 /\ PlusAmount(c, 1).r = c.r
      BY PlusAmountFacts
    <3> QED
      BY <3>1, <3>2
  <2>3. available' = available \/ available' = [available EXCEPT !.commitment = more]
    BY DEF ChangeFee, ToggleFreeze, ReceiveAmount, vars
  <2> HIDE DEF more
  <2>4. CASE available' = [available EXCEPT !.commitment = more]
    <3>1. available' = [commitment |-> more, handle |-> available.handle]
      BY <2>1, <2>4 DEF Balances
    <3> QED
      BY <2>1, <2>2, <3>1 DEF Balances, Decrypts, Plain
  <2>5. CASE available' = available
    BY <2>1, <2>5 DEF Decrypts, Plain
  <2> QED
    BY <2>3, <2>4, <2>5
<1>4. Types'
  BY <1>1, <1>2, <1>3 DEF SInv, Types
<1>5. IntentsTrue'
  BY <1>1, SameIntentsTrue
<1>6. ContextsTrue'
  BY <1>1, SameIntents DEF SInv, ContextsTrue, Types
<1>7. Openings'
  BY <1>1, <1>3, SameIntents DEF SInv, Openings
<1>8. HandlesTrue'
  BY <1>1, <1>3, SameIntents DEF SInv, HandlesTrue
<1>9. Landings'
  BY <1>1 DEF SInv, Landings
<1> QED
  BY <1>4, <1>5, <1>6, <1>7, <1>8, <1>9 DEF SInv

LEMMA NextSInv == SInv /\ [Next]_vars => SInv'
<1> SUFFICES ASSUME SInv, [Next]_vars PROVE SInv'
  OBVIOUS
<1>1. HasFees' = HasFees /\ Roles' = Roles
  BY FeesStay
<1>2. ASSUME NEW i \in Intents, NEW amount \in Amounts, NEW fee \in 0 .. Supply,
             NEW offset \in HandleOffsets[i], Prepare(i, amount, fee, offset)
      PROVE  SInv'
  BY <1>2, PrepareSInv
<1>3. ASSUME NEW i \in Intents, NEW role \in Roles,
             CreateContext(i, role) \/ CreateAndTransfer(i, role)
      PROVE  SInv'
  BY <1>1, <1>3, CreateSInv, StepwiseSInv
<1>4. ASSUME NEW p \in Picks, NEW close \in BOOLEAN, TransferWithSplitProofs(p, close)
      PROVE  SInv'
  BY <1>1, <1>4, TransferSInv
<1>5. CASE \/ \E f \in Rates : ChangeFee(f)
          \/ ToggleFreeze \/ ReceiveAmount \/ UNCHANGED vars
  BY <1>1, <1>5, OtherSInv
<1> QED
  BY <1>2, <1>3, <1>4, <1>5 DEF Next

LEMMA SpecSInv == Spec => []SInv
BY InitSInv, NextSInv, PTL DEF Spec

-----------------------------------------------------------------------------
(***************************************************************************)
(* The properties of the runs.                                             *)
(***************************************************************************)
\* Whatever contexts an instruction names and whatever handles it carries, the
\* sender's balance stays one that decrypts and that a range proof was about.
THEOREM SenderStaysSolvent == Spec => []SenderSolvent
<1>1. ASSUME SInv PROVE SenderSolvent
  <2>1. ASSUME NEW i \in Intents PROVE intent[i].amount \in Amounts \cup {-1}
    <3>1. CASE Prepared(i)
      BY <1>1, <3>1 DEF SInv, IntentsTrue, WellPrepared
    <3>2. CASE ~Prepared(i)
      BY <3>2 DEF Prepared, NoIntent
    <3> QED
      BY <3>1, <3>2
  <2>2. TypeOK
    BY <1>1, <2>1 DEF TypeOK, SInv, Types
  <2> QED
    BY <1>1, <2>2 DEF SenderSolvent, SInv, Types
<1> QED
  BY <1>1, SpecSInv, PTL

\* A transfer tried by every transaction that adds one of its contexts has
\* been executed once all have landed, and no transfer is executed twice.
THEOREM EveryLandingCounts == Spec => []ExecutedOnceAllLanded
<1>1. ASSUME SInv PROVE ExecutedOnceAllLanded
  <2>1. \A i \in Intents : executed[i] \in 0 .. 1
    BY <1>1 DEF SInv, Types
  <2>2. \A i \in Intents : executed[i] <= 1
    BY <2>1
  <2> QED
    BY <1>1, <2>2 DEF ExecutedOnceAllLanded, SInv, Landings
<1> QED
  BY <1>1, SpecSInv, PTL

\* A fee that the sigma proof allows is at least what calculate_fee charges.
LEMMA ProvableEnough ==
  ASSUME NEW bps \in 0 .. ONE_IN_BASIS_POINTS, NEW max \in Nat,
         NEW amount \in Nat, NEW fee \in Nat, NEW f,
         f.transfer_fee_basis_points = bps, f.maximum_fee = max,
         fee = max \/ ONE_IN_BASIS_POINTS * fee >= bps * amount
  PROVE  fee >= calculate_fee(f, amount)
<1> DEFINE raw == ceil_div(amount * bps, ONE_IN_BASIS_POINTS)
<1>1. raw \in Nat /\ (ONE_IN_BASIS_POINTS * fee >= bps * amount => fee >= raw)
  <2> DEFINE n == amount * bps
             d == ONE_IN_BASIS_POINTS
  <2>1. n \in Nat /\ d \in Nat \ {0} /\ n = bps * amount
    BY NumberFacts
  <2>2. raw = (n + d - 1) \div d
    BY DEF ceil_div
  <2>3. (n + d - 1) \div d \in Nat
    <3> HIDE DEF n, d
    <3> QED
      BY <2>1, CeilLeast
  <2>4. ASSUME d * fee >= n PROVE (n + d - 1) \div d <= fee
    <3> HIDE DEF n, d
    <3> QED
      BY <2>1, <2>4, CeilLeast
  <2> HIDE DEF n, raw
  <2> QED
    BY <2>1, <2>2, <2>3, <2>4 DEF d
<1>2. CASE bps = 0 \/ amount = 0
  BY <1>2 DEF calculate_fee
<1>3. CASE ~(bps = 0 \/ amount = 0)
  <2>1. calculate_fee(f, amount) = IF raw \in U64 THEN LesserOf(raw, max) ELSE -1
    BY <1>1, <1>3, NumberFacts DEF calculate_fee, CheckedU64, NoAmount
  <2> HIDE DEF raw
  <2> QED
    BY <1>1, <2>1 DEF LesserOf
<1> QED
  BY <1>2, <1>3

\* The fee extracted from an accepted transfer is enough under the rate in
\* force, because delta and the cap were compared with that rate.
LEMMA ExtractedEnough ==
  ASSUME SInv, NEW p \in Picks, NEW handles, Accepted(p, handles), HasFees
  PROVE  LET k == p["validity"]
         IN  intent[k].fee >= calculate_fee(rate, intent[k].amount)
<1> DEFINE k == p["validity"]
<1>1. /\ k \in Intents /\ Prepared(k)
      /\ \A role \in Roles : p[role] = k
  BY OneIntent
<1>2. p["sigma"] = k /\ p["fee_validity"] = k
  BY <1>1 DEF Roles
<1> DEFINE t == intent[k]
           fee == LoHi(t.fee_lo, t.fee_hi)
           amount == LoHi(t.lo, t.hi)
           one == ONE_IN_BASIS_POINTS
           quoted == t.rate.transfer_fee_basis_points
           bps == rate.transfer_fee_basis_points
<1>3. /\ t.rate.maximum_fee = rate.maximum_fee
      /\ Minus(Times(one, fee), Times(quoted, amount))
           = Minus(Times(one, fee), Times(bps, amount))
  BY <1>2 DEF Accepted, verify_and_extract, verify_and_extract_fee, sigma, fee_validity,
              validity, verify_delta_commitment
<1>4. /\ t.amount \in Nat /\ t.fee \in Nat
      /\ fee \in Ciphertexts /\ fee.v = t.fee /\ amount \in Ciphertexts /\ amount.v = t.amount
  <2> HIDE DEF k
  <2> QED
    BY <1>1, IntentFacts
<1>5. /\ t.rate \in Rates \cup {NoFee}
      /\ FeeProvable(t.rate, t.amount, t.fee)
  <2> HIDE DEF k
  <2> QED
    BY <1>1 DEF SInv, IntentsTrue, WellPrepared
<1>6. /\ quoted \in 0 .. one /\ bps \in 0 .. one
      /\ rate.maximum_fee \in Nat
  <2>1. \A f \in Rates \cup {NoFee} : /\ f.transfer_fee_basis_points \in 0 .. one
                                      /\ f.maximum_fee \in Nat
    BY SplitAssumption, NumberFacts DEF NoFee
  <2> QED
    BY <1>5, <2>1 DEF SInv, Types
<1> HIDE DEF t, fee, amount
<1>7. one * fee.v - quoted * amount.v = one * fee.v - bps * amount.v
  <2>1. one \in Nat /\ quoted \in Nat /\ bps \in Nat
    BY <1>6, NumberFacts
  <2> HIDE DEF one, quoted, bps
  <2>2. /\ Times(one, fee) \in Ciphertexts /\ Times(one, fee).v = one * fee.v
        /\ Times(quoted, amount) \in Ciphertexts /\ Times(quoted, amount).v = quoted * amount.v
        /\ Times(bps, amount) \in Ciphertexts /\ Times(bps, amount).v = bps * amount.v
    BY <1>4, <2>1, TimesFacts
  <2>3. /\ Minus(Times(one, fee), Times(quoted, amount)).v = one * fee.v - quoted * amount.v
        /\ Minus(Times(one, fee), Times(bps, amount)).v = one * fee.v - bps * amount.v
    BY <2>2, MinusFacts
  <2> QED
    BY <1>3, <2>3
<1>8. t.fee = rate.maximum_fee \/ one * t.fee >= bps * t.amount
  <2>1. t.fee = rate.maximum_fee \/ one * t.fee - quoted * t.amount \in 0 .. one
    BY <1>3, <1>5 DEF FeeProvable, delta
  <2>2. one * t.fee - quoted * t.amount = one * t.fee - bps * t.amount
    BY <1>4, <1>7
  <2>3. one * t.fee \in Int /\ bps * t.amount \in Int /\ quoted * t.amount \in Int
        /\ one \in Int
    BY <1>4, <1>6, NumberFacts
  <2> HIDE DEF one
  <2> QED
    BY <2>1, <2>2, <2>3
<1> HIDE DEF quoted
<1>9. t.fee >= calculate_fee(rate, t.amount)
  BY <1>4, <1>6, <1>8, ProvableEnough
<1> QED
  BY <1>9 DEF t

\* The fee withheld is enough under the rate in force for the amount that
\* arrives or is withheld, and with handles made from the openings of that
\* amount the sender's balance loses just as much.
THEOREM FeesCoverTheRate == Spec => FeeNeverShort
<1> DEFINE Covered ==
      LET fee == withheld'.v - withheld.v
          amount == LoHi(pending'.lo, pending'.hi).v
                      - LoHi(pending.lo, pending.hi).v + fee
      IN  \A i \in Intents : executed'[i] # executed[i]
            => /\ fee >= calculate_fee(rate, amount)
               /\ HandlesOfOpenings(i)
                    => Plain(available) - Plain(available') = amount
<1>1. ASSUME SInv, NEW p \in Picks, NEW handles, Accepted(p, handles), Effect(p),
             Provable(p["validity"], "range")
      PROVE  Covered
  <2> DEFINE k == p["validity"]
             fee == IF HasFees THEN intent[k].fee ELSE 0
             before == LoHi(pending.lo, pending.hi).v
             after == LoHi(pending'.lo, pending'.hi).v
             lost == Plain(available) - Plain(available')
  <2>1. /\ k \in Intents /\ Prepared(k)
        /\ lost = intent[k].amount - intent[k].handles.lo.v
        /\ executed' = [executed EXCEPT ![k] = 1]
    BY <1>1, EffectFacts
  <2>2. withheld'.v = withheld.v + fee /\ after = before + intent[k].amount - fee
    BY <1>1, EffectAmounts
  <2>3. fee >= calculate_fee(rate, intent[k].amount)
    <3>1. CASE HasFees
      BY <1>1, <3>1, ExtractedEnough
    <3>2. CASE ~HasFees
      BY <3>2 DEF HasFees, NoFee, calculate_fee
    <3> QED
      BY <3>1, <3>2
  <2>4. /\ intent[k].amount \in Int /\ fee \in Int /\ withheld.v \in Int /\ before \in Int
    <3> HIDE DEF k
    <3>1. intent[k].amount \in Nat /\ intent[k].fee \in Nat
      BY <1>1, <2>1, IntentFacts
    <3>2. /\ withheld \in Ciphertexts /\ pending.lo \in Ciphertexts
          /\ pending.hi \in Ciphertexts
      BY <1>1 DEF SInv, Types
    <3>3. LoHi(pending.lo, pending.hi) \in Ciphertexts
      BY <3>2, LoHiFacts
    <3> QED
      BY <3>1, <3>2, <3>3, EntryFacts
  <2> HIDE DEF fee, before, after, k, lost
  <2>5. withheld'.v - withheld.v = fee /\ after - before + fee = intent[k].amount
    BY <2>2, <2>4
  <2>6. HandlesOfOpenings(k) => lost = intent[k].amount
    BY <2>1, <2>4 DEF HandlesOfOpenings
  <2>7. \A i \in Intents : executed'[i] # executed[i] => i = k
    BY <1>1, <2>1 DEF SInv, Types
  <2> QED
    BY <2>3, <2>5, <2>6, <2>7 DEF before, after, lost
<1>2. ASSUME SInv, [Next]_vars PROVE [Covered]_vars
  <2> SUFFICES ASSUME Next, executed' # executed PROVE Covered
    <3>1. executed' = executed => Covered
      OBVIOUS
    <3> QED
      BY <1>2, <3>1
  <2>1. PICK p \in Picks : /\ \E handles : Accepted(p, handles)
                           /\ Effect(p) /\ Provable(p["validity"], "range")
    <3>1. ASSUME NEW p \in Picks, NEW close \in BOOLEAN, TransferWithSplitProofs(p, close)
          PROVE  /\ \E handles : Accepted(p, handles)
                 /\ Effect(p) /\ Provable(p["validity"], "range")
      <4>1. PICK handles : Accepted(p, handles)
        BY <3>1 DEF TransferWithSplitProofs
      <4>2. Effect(p) /\ Initialized(p)
        BY <3>1 DEF TransferWithSplitProofs
      <4>3. p["range"] = p["validity"] /\ "range" \in Roles
        BY <1>2, <4>1, OneIntent DEF Roles
      <4>4. <<p["validity"], "range">> \in contexts
        BY <4>2, <4>3 DEF Initialized
      <4> QED
        BY <1>2, <4>1, <4>2, <4>4 DEF SInv, ContextsTrue
    <3>2. ASSUME NEW i \in Intents, NEW role \in Roles, CreateAndTransfer(i, role)
          PROVE  \E p \in Picks : /\ \E handles : Accepted(p, handles)
                                  /\ Effect(p) /\ Provable(p["validity"], "range")
      <4>1. /\ Prepared(i) /\ Provable(i, role)
            /\ ~NoOp(i, role, contexts \cup {<<i, role>>})
            /\ Accepted(Whole(i), intent[i].handles) /\ Effect(Whole(i))
        BY <3>2 DEF CreateAndTransfer
      <4>2. Whole(i) \in Picks /\ Whole(i)["validity"] = i
        BY <4>1 DEF Whole, Picks, Roles
      <4>3. <<i, "range">> \in contexts \cup {<<i, role>>}
        BY <4>1 DEF NoOp, Roles
      <4>4. Provable(i, "range")
        BY <1>2, <4>1, <4>3 DEF SInv, ContextsTrue
      <4> QED
        BY <4>1, <4>2, <4>4
    <3> QED
      BY <3>1, <3>2 DEF Next, Prepare, CreateContext, ChangeFee, ToggleFreeze, ReceiveAmount
  <2> QED
    BY <1>1, <1>2, <2>1
<1>3. SInv /\ [Next]_vars => [Covered]_vars
  BY <1>2
<1> QED
  BY <1>3, SpecSInv, PTL DEF Spec, FeeNeverShort
=============================================================================
