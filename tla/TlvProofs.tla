----------------------------- MODULE TlvProofs -----------------------------
(***************************************************************************)
(* Proofs about Tlv                                                        *)
(***************************************************************************)
EXTENDS Tlv, TotalsProofs, WellFoundedInduction

\* The types entries may have.
Types == MintTypes \cup AccountTypes

\* Where the entry of V ends.
Behind(m, pos, V) == pos[V] + 4 + Len(m[V])

\* At p there is an entry of type V with this value.
EntryAt(tlv, p, V, value) ==
  /\ p \in Nat /\ value \in Seq(u8) /\ Len(value) <= U16_MAX
  /\ p + 4 + Len(value) <= Len(tlv)
  /\ tlv[p + 1] = V /\ tlv[p + 2] = 0
  /\ Word(tlv, p + 2) = Len(value)
  /\ \A k \in 1..Len(value) : tlv[p + 4 + k] = value[k]

\* The bytes tlv hold the map m: V's entry is at pos[V], entries follow one another from
\* 0 to e without overlapping, and the rest is zero.
Layout(tlv, m, pos, e) ==
  /\ tlv \in Seq(u8) /\ e \in Nat /\ e <= Len(tlv)
  /\ DOMAIN m \subseteq Types /\ pos \in [DOMAIN m -> Nat]
  /\ \A V \in DOMAIN m : EntryAt(tlv, pos[V], V, m[V]) /\ Behind(m, pos, V) <= e
  /\ e = 0 \/ \E V \in DOMAIN m : pos[V] = 0
  /\ \A V \in DOMAIN m :
       Behind(m, pos, V) = e \/ \E W \in DOMAIN m : pos[W] = Behind(m, pos, V)
  /\ \A V, W \in DOMAIN m :
       V # W => Behind(m, pos, V) <= pos[W] \/ Behind(m, pos, W) <= pos[V]
  /\ \A i \in (e + 1)..Len(tlv) : tlv[i] = 0

-----------------------------------------------------------------------------
(* Least and greatest elements, in place of induction.                     *)

\* Every set of numbers that is not empty has a least element.
LEMMA Least ==
  ASSUME NEW S, S \subseteq Nat, S # {}
  PROVE  \E n \in S : \A k \in S : n <= k
<1>1. PICK n \in S : \A k \in S : ~ (<<k, n>> \in OpToRel(<, Nat))
  BY NatLessThanWellFounded, WFMin, Zenon
<1>2. ASSUME NEW k \in S PROVE n <= k
  <2>1. <<k, n>> \in OpToRel(<, Nat) <=> k < n
    BY DEF OpToRel
  <2>2. ~ (k < n)
    BY <1>1, <2>1, Zenon
  <2>3. k \in Nat /\ n \in Nat
    OBVIOUS
  <2> QED
    BY <2>2, <2>3
<1> QED
  BY <1>2

\* Every bounded set of numbers that is not empty has a greatest element.
LEMMA Greatest ==
  ASSUME NEW S, NEW e \in Nat, S \subseteq 0..e, S # {}
  PROVE  \E n \in S : \A k \in S : k <= n
<1> DEFINE D == {e - s : s \in S}
<1>1. D \subseteq Nat /\ D # {}
  <2>1. ASSUME NEW s \in S PROVE e - s \in Nat
    OBVIOUS
  <2> QED
    BY <2>1
<1>2. PICK d \in D : \A k \in D : d <= k
  BY <1>1, Least, Zenon
<1>3. PICK n \in S : d = e - n
  OBVIOUS
<1>4. ASSUME NEW k \in S PROVE k <= n
  <2>1. e - k \in D
    OBVIOUS
  <2>2. e - n <= e - k
    BY <1>2, <1>3, <2>1
  <2> QED
    BY <2>2
<1> QED
  BY <1>4

-----------------------------------------------------------------------------
(* The recursive functions satisfy their equations.                        *)

\* The body of the loop of get_extension_indices, with f for the rest of the loop.
FindStep(tlv, V, init, f, start) ==
  LET at == get_tlv_indices(start)
      type == Word(tlv, start)
  IN  IF start >= Len(tlv) \/ Len(tlv) < at.value_start THEN {}
      ELSE IF type \notin ExtensionType THEN {}
      ELSE IF type = V \/ (type = 0 /\ init) THEN {at}
      ELSE IF type = 0 \/ get_account_type(type) # get_account_type(V) THEN {}
      ELSE f[at.value_start + Word(tlv, at.length_start)]

\* A type in front of what the rest of the walk returns.
WithType(type, rests) ==
  { [extension_types |-> <<type>> \o rest.extension_types,
     used_len |-> rest.used_len] : rest \in rests }

\* The body of the loop of get_tlv_data_info.
WalkStep(tlv, f, start) ==
  LET at == get_tlv_indices(start)
      type == Word(tlv, start)
      end == at.value_start + Word(tlv, at.length_start)
      done == {[extension_types |-> <<>>, used_len |-> start]}
  IN  IF start >= Len(tlv) \/ Len(tlv) < at.length_start THEN done
      ELSE IF type \notin ExtensionType THEN {}
      ELSE IF type = 0 THEN done
      ELSE IF Len(tlv) < at.value_start \/ Len(tlv) < end THEN {}
      ELSE WithType(type, f[end])

\* A byte is a number up to 255.
LEMMA ByteNat ==
  ASSUME NEW b \in u8
  PROVE  b \in Nat /\ b <= 255
BY DEF u8

\* Two bytes make a number.
LEMMA WordNat ==
  ASSUME NEW tlv \in Seq(u8), NEW i \in Nat, i + 2 <= Len(tlv)
  PROVE  Word(tlv, i) \in Nat
<1>1. tlv[i + 1] \in u8 /\ tlv[i + 2] \in u8
  OBVIOUS
<1>2. Word(tlv, i) = tlv[i + 1] + 256 * tlv[i + 2]
  BY DEF Word, Byte
<1> QED
  BY <1>1, <1>2, ByteNat

\* A step of the search reads the search at later positions only,
LEMMA FindStepSame ==
  ASSUME NEW tlv \in Seq(u8), NEW V, NEW init, NEW n \in Nat, NEW f, NEW g,
         \A s \in Nat : s > n => f[s] = g[s]
  PROVE  FindStep(tlv, V, init, f, n) = FindStep(tlv, V, init, g, n)
<1>1. CASE n >= Len(tlv) \/ Len(tlv) < n + 4
  BY <1>1 DEF FindStep, get_tlv_indices
<1>2. CASE n + 4 <= Len(tlv)
  <2>1. Word(tlv, n + 2) \in Nat
    BY <1>2, WordNat
  <2>2. n + 4 + Word(tlv, n + 2) > n /\ n + 4 + Word(tlv, n + 2) \in Nat
    BY <2>1
  <2>3. f[n + 4 + Word(tlv, n + 2)] = g[n + 4 + Word(tlv, n + 2)]
    BY <2>2
  <2> QED
    BY <2>3 DEF FindStep, get_tlv_indices
<1> QED
  BY <1>1, <1>2

\* and so does a step of the walk.
LEMMA WalkStepSame ==
  ASSUME NEW tlv \in Seq(u8), NEW n \in Nat, NEW f, NEW g,
         \A s \in Nat : s > n => f[s] = g[s]
  PROVE  WalkStep(tlv, f, n) = WalkStep(tlv, g, n)
<1>1. CASE n >= Len(tlv) \/ Len(tlv) < n + 4
  BY <1>1 DEF WalkStep, get_tlv_indices
<1>2. CASE n + 4 <= Len(tlv)
  <2>1. Word(tlv, n + 2) \in Nat
    BY <1>2, WordNat
  <2>2. n + 4 + Word(tlv, n + 2) > n /\ n + 4 + Word(tlv, n + 2) \in Nat
    BY <2>1
  <2>3. f[n + 4 + Word(tlv, n + 2)] = g[n + 4 + Word(tlv, n + 2)]
    BY <2>2
  <2> QED
    BY <2>3 DEF WalkStep, get_tlv_indices
<1> QED
  BY <1>1, <1>2

\* There is a function that satisfies the equation from n on, for n small enough.
LEMMA FindExists ==
  ASSUME NEW tlv \in Seq(u8), NEW V, NEW init
  PROVE  \E f : f = [start \in Nat |-> FindStep(tlv, V, init, f, start)]
<1> DEFINE G(n) == \E f : /\ f = [s \in Nat |-> f[s]]
                          /\ \A s \in Nat : s >= n => f[s] = FindStep(tlv, V, init, f, s)
           Good == {n \in Nat : G(n)}
<1>1. Len(tlv) \in Good
  <2> DEFINE f == [s \in Nat |-> {}]
  <2>1. ASSUME NEW s \in Nat, s >= Len(tlv) PROVE f[s] = FindStep(tlv, V, init, f, s)
    BY <2>1 DEF FindStep
  <2>2. f = [s \in Nat |-> f[s]]
    OBVIOUS
  <2>3. Len(tlv) \in Nat
    OBVIOUS
  <2> HIDE DEF f
  <2>4. G(Len(tlv))
    BY <2>1, <2>2
  <2> QED
    BY <2>3, <2>4
<1>2. ASSUME NEW n \in Nat, n + 1 \in Good PROVE n \in Good
  <2>1. PICK f : /\ f = [s \in Nat |-> f[s]]
                 /\ \A s \in Nat : s >= n + 1 => f[s] = FindStep(tlv, V, init, f, s)
    BY <1>2
  <2> DEFINE g == [s \in Nat |-> IF s = n THEN FindStep(tlv, V, init, f, n) ELSE f[s]]
  <2>2. g = [s \in Nat |-> g[s]]
    OBVIOUS
  <2>3. \A s \in Nat : s > n => g[s] = f[s]
    OBVIOUS
  <2>4. g[n] = FindStep(tlv, V, init, f, n)
    OBVIOUS
  <2> HIDE DEF g
  <2>5. ASSUME NEW s \in Nat, s >= n PROVE g[s] = FindStep(tlv, V, init, g, s)
    <3>1. \A t \in Nat : t > s => g[t] = f[t]
      BY <2>3, <2>5
    <3>2. FindStep(tlv, V, init, g, s) = FindStep(tlv, V, init, f, s)
      BY <3>1, FindStepSame
    <3>3. CASE s = n
      BY <3>2, <3>3, <2>4
    <3>4. CASE s > n
      <4>1. s >= n + 1
        BY <3>4
      <4> QED
        BY <3>2, <3>4, <4>1, <2>1, <2>3
    <3> QED
      BY <2>5, <3>3, <3>4
  <2>6. G(n)
    BY <2>2, <2>5
  <2> QED
    BY <2>6
<1>3. PICK n \in Good : \A k \in Good : n <= k
  <2>1. Good \subseteq Nat /\ Good # {}
    BY <1>1
  <2> HIDE DEF Good
  <2> QED
    BY <2>1, Least, Zenon
<1>4. n = 0
  <2>1. SUFFICES ASSUME n # 0 PROVE FALSE
    OBVIOUS
  <2>2. n \in Nat /\ (n - 1) \in Nat /\ (n - 1) + 1 = n
    BY <2>1
  <2>3. n - 1 \in Good
    BY <1>2, <2>2
  <2> HIDE DEF Good
  <2> QED
    BY <1>3, <2>2, <2>3
<1>5. PICK f : /\ f = [s \in Nat |-> f[s]]
               /\ \A s \in Nat : s >= 0 => f[s] = FindStep(tlv, V, init, f, s)
  BY <1>4
<1>6. f = [start \in Nat |-> FindStep(tlv, V, init, f, start)]
  <2>1. \A s \in Nat : f[s] = FindStep(tlv, V, init, f, s)
    BY <1>5
  <2> QED
    BY <1>5, <2>1, Zenon
<1> QED
  BY <1>6

\* The search satisfies the equation it is defined by,
LEMMA FoundEq ==
  ASSUME NEW tlv \in Seq(u8), NEW V, NEW init, NEW start \in Nat
  PROVE  Found(tlv, V, init)[start] = FindStep(tlv, V, init, Found(tlv, V, init), start)
<1>1. Found(tlv, V, init)
        = CHOOSE f : f = [s \in Nat |-> FindStep(tlv, V, init, f, s)]
  BY DEF Found, FindStep
<1>2. Found(tlv, V, init) = [s \in Nat |-> FindStep(tlv, V, init, Found(tlv, V, init), s)]
  BY <1>1, FindExists
<1> QED
  BY <1>2, Zenon

\* There is a function with the equation of the walk,
LEMMA WalkExists ==
  ASSUME NEW tlv \in Seq(u8)
  PROVE  \E f : f = [start \in Nat |-> WalkStep(tlv, f, start)]
<1> DEFINE G(n) == \E f : /\ f = [s \in Nat |-> f[s]]
                          /\ \A s \in Nat : s >= n => f[s] = WalkStep(tlv, f, s)
           Good == {n \in Nat : G(n)}
<1>1. Len(tlv) \in Good
  <2> DEFINE f == [s \in Nat |-> {[extension_types |-> <<>>, used_len |-> s]}]
  <2>1. ASSUME NEW s \in Nat, s >= Len(tlv) PROVE f[s] = WalkStep(tlv, f, s)
    BY <2>1 DEF WalkStep
  <2>2. f = [s \in Nat |-> f[s]]
    OBVIOUS
  <2>3. Len(tlv) \in Nat
    OBVIOUS
  <2> HIDE DEF f
  <2>4. G(Len(tlv))
    BY <2>1, <2>2
  <2> QED
    BY <2>3, <2>4
<1>2. ASSUME NEW n \in Nat, n + 1 \in Good PROVE n \in Good
  <2>1. PICK f : /\ f = [s \in Nat |-> f[s]]
                 /\ \A s \in Nat : s >= n + 1 => f[s] = WalkStep(tlv, f, s)
    BY <1>2
  <2> DEFINE g == [s \in Nat |-> IF s = n THEN WalkStep(tlv, f, n) ELSE f[s]]
  <2>2. g = [s \in Nat |-> g[s]]
    OBVIOUS
  <2>3. \A s \in Nat : s > n => g[s] = f[s]
    OBVIOUS
  <2>4. g[n] = WalkStep(tlv, f, n)
    OBVIOUS
  <2> HIDE DEF g
  <2>5. ASSUME NEW s \in Nat, s >= n PROVE g[s] = WalkStep(tlv, g, s)
    <3>1. \A t \in Nat : t > s => g[t] = f[t]
      BY <2>3, <2>5
    <3>2. WalkStep(tlv, g, s) = WalkStep(tlv, f, s)
      BY <3>1, WalkStepSame
    <3>3. CASE s = n
      BY <3>2, <3>3, <2>4
    <3>4. CASE s > n
      <4>1. s >= n + 1
        BY <3>4
      <4> QED
        BY <3>2, <3>4, <4>1, <2>1, <2>3
    <3> QED
      BY <2>5, <3>3, <3>4
  <2>6. G(n)
    BY <2>2, <2>5
  <2> QED
    BY <2>6
<1>3. PICK n \in Good : \A k \in Good : n <= k
  <2>1. Good \subseteq Nat /\ Good # {}
    BY <1>1
  <2> HIDE DEF Good
  <2> QED
    BY <2>1, Least, Zenon
<1>4. n = 0
  <2>1. SUFFICES ASSUME n # 0 PROVE FALSE
    OBVIOUS
  <2>2. n \in Nat /\ (n - 1) \in Nat /\ (n - 1) + 1 = n
    BY <2>1
  <2>3. n - 1 \in Good
    BY <1>2, <2>2
  <2> HIDE DEF Good
  <2> QED
    BY <1>3, <2>2, <2>3
<1>5. PICK f : /\ f = [s \in Nat |-> f[s]]
               /\ \A s \in Nat : s >= 0 => f[s] = WalkStep(tlv, f, s)
  BY <1>4
<1>6. f = [start \in Nat |-> WalkStep(tlv, f, start)]
  <2>1. \A s \in Nat : f[s] = WalkStep(tlv, f, s)
    BY <1>5
  <2> QED
    BY <1>5, <2>1, Zenon
<1> QED
  BY <1>6

\* and the walk satisfies it.
LEMMA WalkedEq ==
  ASSUME NEW tlv \in Seq(u8), NEW start \in Nat
  PROVE  Walked(tlv)[start] = WalkStep(tlv, Walked(tlv), start)
<1>1. Walked(tlv) = CHOOSE f : f = [s \in Nat |-> WalkStep(tlv, f, s)]
  BY DEF Walked, WalkStep, WithType
<1>2. Walked(tlv) = [s \in Nat |-> WalkStep(tlv, Walked(tlv), s)]
  BY <1>1, WalkExists
<1> QED
  BY <1>2, Zenon

\* The body of the loop over the required extensions.
RequiredStep(tlv, required, f, i) ==
  IF i = 0 THEN {tlv}
  ELSE Then(f[i - 1], LAMBDA t :
         alloc("Account", t, required[i], Zeros(type_len[required[i]]), TRUE))

\* The same for the loop over the extensions an account is required to have.
LEMMA RequiredExists ==
  ASSUME NEW tlv, NEW required, Len(required) \in Nat
  PROVE  \E f : f = [i \in 0..Len(required) |-> RequiredStep(tlv, required, f, i)]
<1> DEFINE L == Len(required)
           G(n) == \E f : /\ f = [s \in 0..L |-> f[s]]
                          /\ \A s \in 0..L : s <= n => f[s] = RequiredStep(tlv, required, f, s)
           Good == {n \in 0..L : G(n)}
<1> L \in Nat
  OBVIOUS
<1> HIDE DEF L
<1>1. 0 \in Good
  <2> DEFINE f == [s \in 0..L |-> {tlv}]
  <2>1. ASSUME NEW s \in 0..L, s <= 0 PROVE f[s] = RequiredStep(tlv, required, f, s)
    BY <2>1 DEF RequiredStep
  <2>2. f = [s \in 0..L |-> f[s]]
    OBVIOUS
  <2> HIDE DEF f
  <2>4. G(0)
    BY <2>1, <2>2
  <2> QED
    BY <2>4
<1>2. ASSUME NEW n \in Nat, n < L, n \in Good PROVE n + 1 \in Good
  <2>1. PICK f : /\ f = [s \in 0..L |-> f[s]]
                 /\ \A s \in 0..L : s <= n => f[s] = RequiredStep(tlv, required, f, s)
    BY <1>2
  <2> DEFINE g == [s \in 0..L |-> IF s = n + 1 THEN RequiredStep(tlv, required, f, n + 1)
                                  ELSE f[s]]
  <2>2. g = [s \in 0..L |-> g[s]]
    OBVIOUS
  <2>3. \A s \in 0..L : s <= n => g[s] = f[s]
    OBVIOUS
  <2>4. g[n + 1] = RequiredStep(tlv, required, f, n + 1)
    BY <1>2
  <2> HIDE DEF g
  <2>5. ASSUME NEW s \in 0..L, s <= n + 1 PROVE g[s] = RequiredStep(tlv, required, g, s)
    <3>1. s # 0 => s - 1 \in 0..L /\ s - 1 <= n
      BY <2>5
    <3>2. s # 0 => g[s - 1] = f[s - 1]
      BY <2>3, <3>1
    <3>3. RequiredStep(tlv, required, g, s) = RequiredStep(tlv, required, f, s)
      BY <3>2 DEF RequiredStep
    <3>4. CASE s = n + 1
      BY <3>3, <3>4, <2>4
    <3>5. CASE s <= n
      BY <3>3, <3>5, <2>1, <2>3
    <3> QED
      BY <2>5, <3>4, <3>5
  <2>6. G(n + 1)
    BY <2>2, <2>5
  <2> QED
    BY <1>2, <2>6
<1>3. PICK n \in Good : \A k \in Good : k <= n
  <2>1. Good \subseteq 0..L /\ Good # {}
    BY <1>1
  <2> HIDE DEF Good
  <2> QED
    BY <2>1, Greatest, Zenon
<1>4. n = L
  <2>1. SUFFICES ASSUME n # L PROVE FALSE
    OBVIOUS
  <2>2. n \in Nat /\ n < L
    BY <2>1
  <2>3. n + 1 \in Good
    BY <1>2, <2>2
  <2> HIDE DEF Good
  <2> QED
    BY <1>3, <2>2, <2>3
<1>5. PICK f : /\ f = [s \in 0..L |-> f[s]]
               /\ \A s \in 0..L : s <= L => f[s] = RequiredStep(tlv, required, f, s)
  BY <1>4
<1>6. f = [i \in 0..L |-> RequiredStep(tlv, required, f, i)]
  <2>1. \A s \in 0..L : f[s] = RequiredStep(tlv, required, f, s)
    BY <1>5
  <2> QED
    BY <1>5, <2>1, Zenon
<1> QED
  BY <1>6 DEF L

\* The loop satisfies its equation.
LEMMA RequiredEq ==
  ASSUME NEW tlv, NEW required, Len(required) \in Nat, NEW i \in 0..Len(required)
  PROVE  WithRequired(tlv, required)[i]
           = RequiredStep(tlv, required, WithRequired(tlv, required), i)
<1>1. WithRequired(tlv, required)
        = CHOOSE f : f = [s \in 0..Len(required) |-> RequiredStep(tlv, required, f, s)]
  BY DEF WithRequired, RequiredStep
<1>2. WithRequired(tlv, required)
        = [s \in 0..Len(required) |-> RequiredStep(tlv, required, WithRequired(tlv, required), s)]
  BY <1>1, RequiredExists
<1> QED
  BY <1>2, Zenon

-----------------------------------------------------------------------------
(* Reading a layout.                                                       *)

\* All the types are of accounts of kind S.
OfKind(m, S) == \A V \in DOMAIN m : get_account_type(V) = S

\* Extension types are small numbers, other than 0.
LEMMA TypeNumbers ==
  ASSUME NEW V \in Types
  PROVE  V \in Nat /\ 1 <= V /\ V <= 23 /\ V \in ExtensionType
BY DEF Types, MintTypes, AccountTypes, ExtensionType

\* What a layout says of one entry.
LEMMA LayoutEntry ==
  ASSUME NEW tlv, NEW m, NEW pos, NEW e, Layout(tlv, m, pos, e), NEW V \in DOMAIN m
  PROVE  /\ V \in Types
         /\ pos[V] \in Nat /\ m[V] \in Seq(u8) /\ Len(m[V]) \in Nat /\ Len(m[V]) <= U16_MAX
         /\ Behind(m, pos, V) \in Nat /\ pos[V] + 4 <= Behind(m, pos, V)
         /\ Behind(m, pos, V) <= e /\ e \in Nat /\ e <= Len(tlv)
         /\ Word(tlv, pos[V]) = V
         /\ Word(tlv, pos[V] + 2) = Len(m[V])
         /\ \A k \in 1..Len(m[V]) : tlv[pos[V] + 4 + k] = m[V][k]
<1>1. EntryAt(tlv, pos[V], V, m[V]) /\ Behind(m, pos, V) <= e /\ V \in Types
  BY DEF Layout
<1>2. Len(m[V]) \in Nat
  BY <1>1 DEF EntryAt
<1>3. Word(tlv, pos[V]) = V
  <2>1. V \in Nat /\ pos[V] \in Nat /\ tlv[pos[V] + 1] = V /\ tlv[pos[V] + 2] = 0
    BY <1>1, TypeNumbers DEF EntryAt
  <2>2. pos[V] + 1 + 1 = pos[V] + 2
    BY <2>1
  <2> QED
    BY <2>1, <2>2 DEF Word, Byte
<1>4. e \in Nat /\ e <= Len(tlv)
  BY DEF Layout
<1> QED
  BY <1>1, <1>2, <1>3, <1>4 DEF EntryAt, Behind

\* The type read behind the last entry is Uninitialized.
LEMMA EndIsZero ==
  ASSUME NEW tlv, NEW m, NEW pos, NEW e, Layout(tlv, m, pos, e), e + 2 <= Len(tlv)
  PROVE  Word(tlv, e) = 0
<1>1. e \in Nat /\ tlv[e + 1] = 0 /\ tlv[e + 2] = 0
  BY DEF Layout
<1> QED
  BY <1>1 DEF Word, Byte

\* An entry starts at s, or the entries end there.
Starts(m, pos, e, s) == s = e \/ \E W \in DOMAIN m : pos[W] = s

\* Behind an entry there is another one, or the end.
LEMMA NextStart ==
  ASSUME NEW tlv, NEW m, NEW pos, NEW e, Layout(tlv, m, pos, e), NEW W \in DOMAIN m
  PROVE  /\ Starts(m, pos, e, Behind(m, pos, W))
         /\ Starts(m, pos, e, 0)
         /\ \A V \in DOMAIN m : V # W /\ pos[W] <= pos[V] => Behind(m, pos, W) <= pos[V]
<1>1. Starts(m, pos, e, Behind(m, pos, W)) /\ Starts(m, pos, e, 0)
  BY DEF Layout, Starts
<1>2. ASSUME NEW V \in DOMAIN m, V # W, pos[W] <= pos[V] PROVE Behind(m, pos, W) <= pos[V]
  <2>1. Behind(m, pos, W) <= pos[V] \/ Behind(m, pos, V) <= pos[W]
    BY <1>2 DEF Layout
  <2>2. /\ pos[V] \in Nat /\ pos[V] + 4 <= Behind(m, pos, V) /\ Behind(m, pos, V) \in Nat
        /\ pos[W] \in Nat
    BY LayoutEntry
  <2> QED
    BY <1>2, <2>1, <2>2
<1> QED
  BY <1>1, <1>2

\* What get_extension_indices finds in a layout.
FindResult(tlv, m, pos, e, V, init) ==
  IF V \in DOMAIN m THEN {get_tlv_indices(pos[V])}
  ELSE IF init /\ e + 4 <= Len(tlv) THEN {get_tlv_indices(e)} ELSE {}

\* From the start of any entry, the loop of get_extension_indices finds what is sought.
LEMMA FindFrom ==
  ASSUME NEW tlv, NEW m, NEW pos, NEW e, Layout(tlv, m, pos, e),
         NEW S, OfKind(m, S), NEW V \in Types, get_account_type(V) = S,
         NEW init \in BOOLEAN,
         NEW s \in Nat, Starts(m, pos, e, s), V \in DOMAIN m => s <= pos[V]
  PROVE  Found(tlv, V, init)[s] = FindResult(tlv, m, pos, e, V, init)
<1> DEFINE Result == FindResult(tlv, m, pos, e, V, init)
           Bad == {k \in 0..e : /\ Starts(m, pos, e, k) /\ (V \in DOMAIN m => k <= pos[V])
                                /\ Found(tlv, V, init)[k] # Result}
<1>1. tlv \in Seq(u8) /\ e \in Nat /\ e <= Len(tlv) /\ Len(tlv) \in Nat
  BY DEF Layout
<1>2. ASSUME NEW k \in Nat, Starts(m, pos, e, k) PROVE k <= e
  BY <1>2, <1>1, LayoutEntry DEF Starts
<1>3. SUFFICES ASSUME Found(tlv, V, init)[s] # Result PROVE FALSE
  OBVIOUS
<1>4. Bad \subseteq 0..e /\ Bad # {}
  BY <1>1, <1>2, <1>3
<1>5. PICK k \in Bad : \A j \in Bad : j <= k
  <2> HIDE DEF Bad
  <2> QED
    BY <1>1, <1>4, Greatest, Zenon
<1>6. /\ k \in Nat /\ Starts(m, pos, e, k) /\ (V \in DOMAIN m => k <= pos[V])
      /\ Found(tlv, V, init)[k] # Result
  BY <1>1, <1>5
<1>7. Found(tlv, V, init)[k] = FindStep(tlv, V, init, Found(tlv, V, init), k)
  BY <1>1, <1>6, FoundEq, Zenon
<1>8. CASE k = e
  <2>1. V \notin DOMAIN m
    <3>1. ASSUME V \in DOMAIN m PROVE FALSE
      <4>1. pos[V] \in Nat /\ pos[V] + 4 <= Behind(m, pos, V) /\ Behind(m, pos, V) <= e
              /\ Behind(m, pos, V) \in Nat
        BY <3>1, LayoutEntry
      <4> QED
        BY <1>1, <1>6, <1>8, <3>1, <4>1
    <3> QED
      BY <3>1
  <2>2. CASE e + 4 <= Len(tlv)
    <3>1. Word(tlv, e) = 0
      BY <2>2, <1>1, EndIsZero
    <3>2. V # 0 /\ 0 \in ExtensionType
      BY TypeNumbers DEF ExtensionType
    <3>3. FindStep(tlv, V, init, Found(tlv, V, init), e)
            = IF init THEN {get_tlv_indices(e)} ELSE {}
      BY <1>1, <2>2, <3>1, <3>2 DEF FindStep, get_tlv_indices
    <3>4. Found(tlv, V, init)[k] = Result
      BY <1>7, <1>8, <2>1, <2>2, <3>3 DEF FindResult
    <3> QED
      BY <1>6, <3>4
  <2>3. CASE ~(e + 4 <= Len(tlv))
    <3>1. FindStep(tlv, V, init, Found(tlv, V, init), e) = {}
      BY <1>1, <2>3 DEF FindStep, get_tlv_indices
    <3>2. Found(tlv, V, init)[k] = Result
      BY <1>7, <1>8, <2>1, <2>3, <3>1 DEF FindResult
    <3> QED
      BY <1>6, <3>2
  <2> QED
    BY <2>2, <2>3
<1>9. CASE k # e
  <2>1. PICK W \in DOMAIN m : pos[W] = k
    BY <1>6, <1>9 DEF Starts
  <2>2. /\ W \in Types /\ Word(tlv, k) = W
        /\ Word(tlv, k + 2) = Len(m[W]) /\ Len(m[W]) \in Nat
        /\ k + 4 <= e /\ k < Behind(m, pos, W) /\ Behind(m, pos, W) \in Nat
        /\ Behind(m, pos, W) <= e
    BY <1>1, <1>6, <2>1, LayoutEntry
  <2>3. W \in ExtensionType /\ W # 0
    BY <2>2, TypeNumbers
  <2>4. CASE W = V
    <3>1. FindStep(tlv, V, init, Found(tlv, V, init), k) = {get_tlv_indices(k)}
      BY <1>1, <1>6, <2>2, <2>3, <2>4 DEF FindStep, get_tlv_indices
    <3>2. Found(tlv, V, init)[k] = Result
      BY <1>7, <2>1, <2>4, <3>1 DEF FindResult
    <3> QED
      BY <1>6, <3>2
  <2>5. CASE W # V
    <3> DEFINE n == Behind(m, pos, W)
    <3>1. get_account_type(W) = get_account_type(V)
      BY DEF OfKind
    <3>2. k + 4 + Word(tlv, k + 2) = n
      BY <2>1, <2>2 DEF Behind
    <3>3. FindStep(tlv, V, init, Found(tlv, V, init), k) = Found(tlv, V, init)[n]
      <4> HIDE DEF n
      <4> QED
        BY <1>1, <1>6, <2>2, <2>3, <2>5, <3>1, <3>2 DEF FindStep, get_tlv_indices
    <3>4. Starts(m, pos, e, n) /\ (V \in DOMAIN m => n <= pos[V])
      BY <1>6, <2>1, <2>5, NextStart
    <3>5. n \in Bad
      BY <1>1, <1>6, <1>7, <2>2, <3>3, <3>4
    <3> HIDE DEF Bad
    <3> QED
      BY <1>5, <1>6, <2>2, <3>5
  <2> QED
    BY <2>4, <2>5
<1> QED
  BY <1>8, <1>9

\* get_extension_indices returns the place of an entry, or with init the end of the entries.
LEMMA IndicesFound ==
  ASSUME NEW tlv, NEW m, NEW pos, NEW e, Layout(tlv, m, pos, e),
         NEW S, OfKind(m, S), NEW V \in Types, get_account_type(V) = S,
         NEW init \in BOOLEAN
  PROVE  get_extension_indices(tlv, V, init) = FindResult(tlv, m, pos, e, V, init)
<1>1. Starts(m, pos, e, 0)
  BY DEF Layout, Starts
<1>2. V \in DOMAIN m => 0 <= pos[V]
  BY LayoutEntry
<1>3. Found(tlv, V, init)[0] = FindResult(tlv, m, pos, e, V, init)
  BY <1>1, <1>2, FindFrom
<1> QED
  BY <1>3 DEF get_extension_indices

\* The walk from s finds every type behind s, once.
WalkOk(tlv, m, pos, e, s) ==
  \E q \in Seq(Types) :
    /\ Walked(tlv)[s] = {[extension_types |-> q, used_len |-> e]}
    /\ ToSet(q) = {V \in DOMAIN m : s <= pos[V]}
    /\ \A i, j \in DOMAIN q : i # j => q[i] # q[j]

\* A list without repetitions stays one when a new type is put in front.
LEMMA PrependType ==
  ASSUME NEW q \in Seq(Types), NEW W \in Types, W \notin ToSet(q),
         \A i, j \in DOMAIN q : i # j => q[i] # q[j]
  PROVE  /\ <<W>> \o q \in Seq(Types)
         /\ ToSet(<<W>> \o q) = {W} \cup ToSet(q)
         /\ \A i, j \in DOMAIN (<<W>> \o q) : i # j => (<<W>> \o q)[i] # (<<W>> \o q)[j]
<1> DEFINE p == <<W>> \o q
<1>1. p \in Seq(Types) /\ Len(p) = Len(q) + 1 /\ DOMAIN p = 1..Len(q) + 1 /\ Len(q) \in Nat
        /\ DOMAIN q = 1..Len(q)
  OBVIOUS
<1>2. p[1] = W
  OBVIOUS
<1>3. \A i \in 2..Len(q) + 1 : p[i] = q[i - 1] /\ i - 1 \in DOMAIN q
  OBVIOUS
<1> HIDE DEF p
<1>4. ASSUME NEW i \in DOMAIN q PROVE q[i] = p[i + 1] /\ i + 1 \in DOMAIN p
  BY <1>1, <1>3
<1>5. ToSet(p) = {W} \cup ToSet(q)
  <2>1. ASSUME NEW i \in DOMAIN p PROVE p[i] \in {W} \cup ToSet(q)
    <3>1. CASE i = 1
      BY <1>2, <3>1
    <3>2. CASE i \in 2..Len(q) + 1
      BY <1>3, <3>2 DEF ToSet
    <3> QED
      BY <1>1, <3>1, <3>2
  <2>2. ToSet(p) \subseteq {W} \cup ToSet(q)
    BY <2>1 DEF ToSet
  <2>3. W \in ToSet(p)
    <3>1. 1 \in DOMAIN p
      BY <1>1
    <3> QED
      BY <1>2, <3>1 DEF ToSet
  <2>4. ToSet(q) \subseteq ToSet(p)
    BY <1>4 DEF ToSet
  <2> QED
    BY <2>2, <2>3, <2>4
<1>6. ASSUME NEW i \in DOMAIN p, NEW j \in DOMAIN p, i # j PROVE p[i] # p[j]
  <2>1. \A k \in 2..Len(q) + 1 : p[k] # W
    BY <1>3 DEF ToSet
  <2>2. CASE i = 1 \/ j = 1
    BY <1>1, <1>2, <1>6, <2>1, <2>2
  <2>3. CASE i # 1 /\ j # 1
    <3>1. i \in 2..Len(q) + 1 /\ j \in 2..Len(q) + 1
      BY <1>1, <2>3
    <3>2. p[i] = q[i - 1] /\ p[j] = q[j - 1] /\ i - 1 \in DOMAIN q /\ j - 1 \in DOMAIN q
      BY <1>3, <3>1
    <3>3. i - 1 # j - 1
      BY <1>6, <3>1
    <3> QED
      BY <3>2, <3>3
  <2> QED
    BY <2>2, <2>3
<1> QED
  BY <1>1, <1>5, <1>6 DEF p

\* From the start of any entry, the loop of get_tlv_data_info lists the entries from there.
LEMMA WalkFrom ==
  ASSUME NEW tlv, NEW m, NEW pos, NEW e, Layout(tlv, m, pos, e),
         NEW s \in Nat, Starts(m, pos, e, s)
  PROVE  WalkOk(tlv, m, pos, e, s)
<1> DEFINE Bad == {k \in 0..e : Starts(m, pos, e, k) /\ ~WalkOk(tlv, m, pos, e, k)}
<1>1. tlv \in Seq(u8) /\ e \in Nat /\ e <= Len(tlv) /\ Len(tlv) \in Nat
  BY DEF Layout
<1>2. ASSUME NEW k \in Nat, Starts(m, pos, e, k) PROVE k <= e
  BY <1>2, <1>1, LayoutEntry DEF Starts
<1>3. SUFFICES ASSUME ~WalkOk(tlv, m, pos, e, s) PROVE FALSE
  OBVIOUS
<1>4. Bad \subseteq 0..e /\ Bad # {}
  BY <1>1, <1>2, <1>3
<1>5. PICK k \in Bad : \A j \in Bad : j <= k
  <2> HIDE DEF Bad
  <2> QED
    BY <1>1, <1>4, Greatest, Zenon
<1>6. k \in Nat /\ Starts(m, pos, e, k) /\ ~WalkOk(tlv, m, pos, e, k)
  BY <1>1, <1>5
<1>7. Walked(tlv)[k] = WalkStep(tlv, Walked(tlv), k)
  BY <1>1, <1>6, WalkedEq, Zenon
<1>8. CASE k = e
  <2>1. WalkStep(tlv, Walked(tlv), e) = {[extension_types |-> <<>>, used_len |-> e]}
    <3>1. CASE e + 2 <= Len(tlv)
      <4>1. Word(tlv, e) = 0 /\ 0 \in ExtensionType
        BY <3>1, EndIsZero DEF ExtensionType
      <4> QED
        BY <1>1, <4>1 DEF WalkStep, get_tlv_indices
    <3>2. CASE ~(e + 2 <= Len(tlv))
      BY <1>1, <3>2 DEF WalkStep, get_tlv_indices
    <3> QED
      BY <3>1, <3>2
  <2>2. \A V \in DOMAIN m : ~(e <= pos[V])
    BY <1>1, LayoutEntry
  <2>3. <<>> \in Seq(Types) /\ ToSet(<<>>) = {}
    BY DEF ToSet
  <2>4. WalkOk(tlv, m, pos, e, e)
    <3> DEFINE q == <<>>
    <3>1. q \in Seq(Types) /\ Walked(tlv)[e] = {[extension_types |-> q, used_len |-> e]}
      BY <1>7, <1>8, <2>1, <2>3
    <3>2. ToSet(q) = {V \in DOMAIN m : e <= pos[V]}
      BY <2>2, <2>3
    <3>3. \A i, j \in DOMAIN q : i # j => q[i] # q[j]
      OBVIOUS
    <3> HIDE DEF q
    <3> QED
      BY <3>1, <3>2, <3>3 DEF WalkOk
  <2> QED
    BY <1>6, <1>8, <2>4
<1>9. CASE k # e
  <2>1. PICK W \in DOMAIN m : pos[W] = k
    BY <1>6, <1>9 DEF Starts
  <2> DEFINE n == Behind(m, pos, W)
  <2>2. /\ W \in Types /\ Word(tlv, k) = W
        /\ Word(tlv, k + 2) = Len(m[W]) /\ Len(m[W]) \in Nat
        /\ k + 4 <= e /\ k < n /\ n \in Nat /\ n <= e
    BY <1>1, <1>6, <2>1, LayoutEntry
  <2>3. W \in ExtensionType /\ W # 0
    BY <2>2, TypeNumbers
  <2>4. k + 4 + Word(tlv, k + 2) = n
    BY <2>1, <2>2 DEF Behind
  <2>5. Starts(m, pos, e, n) /\ \A V \in DOMAIN m : V # W /\ k <= pos[V] => n <= pos[V]
    BY <2>1, NextStart
  <2>6. n \notin Bad
    <3> HIDE DEF Bad, n
    <3> QED
      BY <1>5, <1>6, <2>2
  <2>7. WalkOk(tlv, m, pos, e, n)
    BY <1>1, <2>2, <2>5, <2>6
  <2> HIDE DEF n, Bad
  <2>8. PICK q \in Seq(Types) :
          /\ Walked(tlv)[n] = {[extension_types |-> q, used_len |-> e]}
          /\ ToSet(q) = {V \in DOMAIN m : n <= pos[V]}
          /\ \A i, j \in DOMAIN q : i # j => q[i] # q[j]
    BY <2>7 DEF WalkOk
  <2>9. WalkStep(tlv, Walked(tlv), k)
          = WithType(W, Walked(tlv)[n])
    BY <1>1, <1>6, <2>2, <2>3, <2>4 DEF WalkStep, get_tlv_indices
  <2>10. Walked(tlv)[k] = {[extension_types |-> <<W>> \o q, used_len |-> e]}
    <3> DEFINE r == [extension_types |-> q, used_len |-> e]
    <3>1. r.extension_types = q /\ r.used_len = e
      OBVIOUS
    <3> HIDE DEF r
    <3>2. Walked(tlv)[n] = {r}
      BY <2>8 DEF r
    <3>3. WalkStep(tlv, Walked(tlv), k)
            = {[extension_types |-> <<W>> \o r.extension_types, used_len |-> r.used_len]}
      BY <2>9, <3>2 DEF WithType
    <3> QED
      BY <1>7, <3>1, <3>3
  <2>11. W \notin ToSet(q)
    BY <1>6, <2>1, <2>2, <2>8
  <2>12. {W} \cup ToSet(q) = {V \in DOMAIN m : k <= pos[V]}
    <3>1. ASSUME NEW V \in DOMAIN m, n <= pos[V] PROVE k <= pos[V]
      <4>1. pos[V] \in Nat
        BY LayoutEntry
      <4>2. k \in Nat /\ n \in Nat /\ k < n
        BY <1>6, <2>2
      <4> QED
        BY <3>1, <4>1, <4>2
    <3>2. k <= pos[W]
      BY <1>6, <2>1
    <3> QED
      BY <2>5, <2>8, <3>1, <3>2
  <2>13. WalkOk(tlv, m, pos, e, k)
    <3>1. /\ <<W>> \o q \in Seq(Types)
          /\ ToSet(<<W>> \o q) = {W} \cup ToSet(q)
          /\ \A i, j \in DOMAIN (<<W>> \o q) : i # j => (<<W>> \o q)[i] # (<<W>> \o q)[j]
      BY <2>2, <2>8, <2>11, PrependType, Zenon
    <3>2. ToSet(<<W>> \o q) = {V \in DOMAIN m : k <= pos[V]}
      BY <2>12, <3>1, Zenon
    <3> QED
      BY <2>10, <3>1, <3>2, Zenon DEF WalkOk
  <2> QED
    BY <1>6, <2>13
<1> QED
  BY <1>8, <1>9

\* The walk ends at e.
UsedLen(tlv, e) == \E q : get_tlv_data_info(tlv) = {[extension_types |-> q, used_len |-> e]}

\* get_tlv_data_info lists every entry once and returns where the last one ends.
LEMMA DataInfo ==
  ASSUME NEW tlv, NEW m, NEW pos, NEW e, Layout(tlv, m, pos, e)
  PROVE  /\ \E q \in Seq(Types) :
              /\ get_tlv_data_info(tlv) = {[extension_types |-> q, used_len |-> e]}
              /\ ToSet(q) = DOMAIN m
              /\ \A i, j \in DOMAIN q : i # j => q[i] # q[j]
         /\ get_extension_types(tlv) = {DOMAIN m}
         /\ UsedLen(tlv, e)
<1>1. Starts(m, pos, e, 0)
  BY DEF Layout, Starts
<1>2. WalkOk(tlv, m, pos, e, 0)
  BY <1>1, WalkFrom
<1>3. PICK q \in Seq(Types) :
        /\ Walked(tlv)[0] = {[extension_types |-> q, used_len |-> e]}
        /\ ToSet(q) = {V \in DOMAIN m : 0 <= pos[V]}
        /\ \A i, j \in DOMAIN q : i # j => q[i] # q[j]
  BY <1>2 DEF WalkOk
<1>4. {V \in DOMAIN m : 0 <= pos[V]} = DOMAIN m
  <2>1. \A V \in DOMAIN m : 0 <= pos[V]
    BY LayoutEntry
  <2> QED
    BY <2>1, Zenon
<1>5. /\ get_tlv_data_info(tlv) = {[extension_types |-> q, used_len |-> e]}
      /\ ToSet(q) = DOMAIN m
  BY <1>3, <1>4 DEF get_tlv_data_info
<1>6. get_extension_types(tlv) = {DOMAIN m}
  <2> DEFINE r == [extension_types |-> q, used_len |-> e]
  <2>1. r.extension_types = q
    OBVIOUS
  <2> HIDE DEF r
  <2>2. get_tlv_data_info(tlv) = {r}
    BY <1>5 DEF r
  <2>3. get_extension_types(tlv) = {ToSet(r.extension_types)}
    BY <2>2 DEF get_extension_types
  <2> QED
    BY <1>5, <2>1, <2>3
<1>7. UsedLen(tlv, e)
  BY <1>5, Zenon DEF UsedLen
<1> QED
  BY <1>3, <1>5, <1>6, <1>7

\* The check of the first extension type accepts the kind all the types are of.
LEMMA FirstType ==
  ASSUME NEW tlv, NEW m, NEW pos, NEW e, Layout(tlv, m, pos, e), NEW S
  PROVE  /\ OfKind(m, S) => FirstMatches(S, tlv)
         /\ FirstMatches(S, tlv) /\ DOMAIN m # {} =>
              \E V \in DOMAIN m : get_account_type(V) = S
<1>1. CASE DOMAIN m = {}
  <2>1. e = 0
    BY <1>1 DEF Layout
  <2>2. ~(Len(tlv) <= 2) => Word(tlv, 0) = 0
    <3>1. Len(tlv) \in Nat
      BY DEF Layout
    <3> QED
      BY <2>1, <3>1, EndIsZero
  <2>3. get_first_extension_type(tlv) = {}
    BY <2>2 DEF get_first_extension_type
  <2> QED
    BY <1>1, <2>3 DEF FirstMatches
<1>2. CASE DOMAIN m # {}
  <2>1. PICK W \in DOMAIN m : TRUE
    BY <1>2
  <2>2. e # 0 /\ Len(tlv) \in Nat /\ Len(tlv) >= 4
    <3>1. Len(tlv) \in Nat
      BY DEF Layout
    <3> QED
      BY <2>1, <3>1, LayoutEntry
  <2>3. PICK V \in DOMAIN m : pos[V] = 0
    BY <2>2 DEF Layout
  <2>4. Word(tlv, 0) = V /\ V # 0
    BY <2>3, LayoutEntry, TypeNumbers
  <2>5. get_first_extension_type(tlv) = {V}
    BY <2>2, <2>4 DEF get_first_extension_type
  <2> QED
    BY <2>3, <2>5 DEF FirstMatches, OfKind
<1> QED
  BY <1>1, <1>2

-----------------------------------------------------------------------------
(* Bytes.                                                                  *)

\* Sequences with the same elements are the same.
LEMMA SameSeq ==
  ASSUME NEW B, NEW s \in Seq(B), NEW t \in Seq(B), Len(s) = Len(t),
         \A i \in 1..Len(s) : s[i] = t[i]
  PROVE  s = t
OBVIOUS

\* A part of a slice.
LEMMA CutProps ==
  ASSUME NEW s \in Seq(u8), NEW from \in Nat, NEW to \in Nat, from <= to, to <= Len(s)
  PROVE  /\ Cut(s, from, to) \in Seq(u8)
         /\ Len(Cut(s, from, to)) = to - from
         /\ \A i \in 1..(to - from) : Cut(s, from, to)[i] = s[from + i]
BY DEF Cut

\* A slice of zeros.
LEMMA ZerosProps ==
  ASSUME NEW n \in Nat
  PROVE  Zeros(n) \in Seq(u8) /\ Len(Zeros(n)) = n /\ \A i \in 1..n : Zeros(n)[i] = 0
<1>1. 0 \in u8
  BY DEF u8
<1> QED
  BY <1>1 DEF Zeros

\* r is s with the bytes of t from position i on.
Written(r, s, i, t) ==
  /\ r \in Seq(u8) /\ Len(r) = Len(s)
  /\ \A k \in 1..Len(s) : k <= i \/ k > i + Len(t) => r[k] = s[k]
  /\ \A j \in 1..Len(t) : i + j <= Len(s) => r[i + j] = t[j]

\* Write changes the bytes written to, and nothing else.
LEMMA WriteProps ==
  ASSUME NEW s \in Seq(u8), NEW i \in Nat, NEW t \in Seq(u8)
  PROVE  Written(Write(s, i, t), s, i, t)
<1>1. ASSUME NEW k \in 1..Len(s)
      PROVE  (IF k > i /\ k <= i + Len(t) THEN t[k - i] ELSE s[k]) \in u8
  <2>1. CASE k > i /\ k <= i + Len(t)
    <3>1. k - i \in 1..Len(t)
      BY <2>1
    <3> QED
      BY <2>1, <3>1
  <2>2. CASE ~(k > i /\ k <= i + Len(t))
    BY <2>2
  <2> QED
    BY <2>1, <2>2
<1>2. PICK r : r = Write(s, i, t)
  OBVIOUS
<1>3. /\ r \in Seq(u8) /\ Len(r) = Len(s)
      /\ \A k \in 1..Len(s) : r[k] = IF k > i /\ k <= i + Len(t) THEN t[k - i] ELSE s[k]
  BY <1>1, <1>2 DEF Write
<1>4. ASSUME NEW k \in 1..Len(s), k <= i \/ k > i + Len(t) PROVE r[k] = s[k]
  BY <1>3, <1>4
<1>5. ASSUME NEW j \in 1..Len(t), i + j <= Len(s) PROVE r[i + j] = t[j]
  <2>1. i + j \in 1..Len(s) /\ i + j > i /\ i + j <= i + Len(t) /\ i + j - i = j
    BY <1>5
  <2> QED
    BY <1>3, <2>1
<1> QED
  BY <1>2, <1>3, <1>4, <1>5 DEF Written

\* The number fits a word.
FitsWord(w) == w \in Nat /\ w < 256 * 256

\* A word in two bytes, low byte first.
LEMMA WordParts ==
  ASSUME NEW w \in Nat, w < 256 * 256
  PROVE  \E lo, hi \in u8 : /\ WordBytes(w) = <<lo, hi>>
                            /\ lo + 256 * hi = w
                            /\ w <= 255 => lo = w /\ hi = 0
<1>1. PICK lo \in Nat, hi \in Nat : /\ lo = w % 256 /\ hi = w \div 256
                                   /\ lo <= 255 /\ w = 256 * hi + lo
  <2> DEFINE d == 256
  <2>1. d \in Nat \ {0}
    OBVIOUS
  <2> HIDE DEF d
  <2>2. w \div d \in Nat /\ w % d \in 0..d - 1 /\ w = d * (w \div d) + (w % d)
    BY <2>1, Division
  <2> USE DEF d
  <2> QED
    BY <2>2
<1>2. hi <= 255
  BY <1>1
<1>3. w <= 255 => lo = w /\ hi = 0
  BY <1>1
<1>4. lo \in u8 /\ hi \in u8
  BY <1>1, <1>2 DEF u8
<1>5. WordBytes(w) = <<lo, hi>>
  BY <1>1 DEF WordBytes
<1> QED
  BY <1>1, <1>3, <1>4, <1>5

\* A sequence of two bytes.
LEMMA TwoBytes ==
  ASSUME NEW lo \in u8, NEW hi \in u8
  PROVE  \E t \in Seq(u8) : t = <<lo, hi>> /\ Len(t) = 2 /\ t[1] = lo /\ t[2] = hi
<1>1. <<lo, hi>> \in Seq(u8)
  OBVIOUS
<1>2. Len(<<lo, hi>>) = 2 /\ <<lo, hi>>[1] = lo /\ <<lo, hi>>[2] = hi
  OBVIOUS
<1> QED
  BY <1>1, <1>2, Zenon

\* A word written is read back.
LEMMA WriteWord ==
  ASSUME NEW s \in Seq(u8), NEW i \in Nat, NEW w, FitsWord(w), i + 2 <= Len(s)
  PROVE  \E r : /\ r = Write(s, i, WordBytes(w))
                /\ r \in Seq(u8) /\ Len(r) = Len(s)
                /\ Word(r, i) = w
                /\ w <= 255 => r[i + 1] = w /\ r[i + 2] = 0
                /\ \A k \in 1..Len(s) : k <= i \/ k > i + 2 => r[k] = s[k]
<1>1. PICK lo \in u8, hi \in u8 :
        WordBytes(w) = <<lo, hi>> /\ lo + 256 * hi = w /\ (w <= 255 => lo = w /\ hi = 0)
  BY WordParts DEF FitsWord
<1>2. PICK t \in Seq(u8) : t = <<lo, hi>> /\ Len(t) = 2 /\ t[1] = lo /\ t[2] = hi
  BY TwoBytes, Zenon
<1>3. PICK r : r = Write(s, i, t)
  OBVIOUS
<1>4. Written(r, s, i, t)
  BY <1>3, WriteProps
<1>5. r[i + 1] = lo /\ r[i + 2] = hi
  <2>1. 1 \in 1..Len(t) /\ 2 \in 1..Len(t) /\ i + 1 <= Len(s)
    BY <1>2
  <2>2. r[i + 1] = t[1]
    BY <1>4, <2>1, Zenon DEF Written
  <2>3. r[i + 2] = t[2]
    BY <1>4, <2>1, Zenon DEF Written
  <2> QED
    BY <1>2, <2>2, <2>3, Zenon
<1>6. ASSUME NEW k \in 1..Len(s), k <= i \/ k > i + 2 PROVE r[k] = s[k]
  <2>1. k <= i \/ k > i + Len(t)
    BY <1>2, <1>6
  <2> QED
    BY <1>4, <2>1, Zenon DEF Written
<1>8. Word(r, i) = w
  <2>1. i + 1 + 1 = i + 2
    OBVIOUS
  <2>2. Word(r, i) = r[i + 1] + 256 * r[i + 2]
    BY <2>1 DEF Word, Byte
  <2> QED
    BY <1>1, <1>5, <2>2, Zenon
<1>9. w <= 255 => r[i + 1] = w /\ r[i + 2] = 0
  BY <1>1, <1>5, Zenon
<1>10. r \in Seq(u8) /\ Len(r) = Len(s)
  BY <1>4 DEF Written
<1>11. r = Write(s, i, WordBytes(w))
  BY <1>1, <1>2, <1>3
<1> QED
  BY <1>6, <1>8, <1>9, <1>10, <1>11, Zenon


-----------------------------------------------------------------------------
(* Moving and writing one entry.                                           *)

-----------------------------------------------------------------------------
(* Entries.                                                                *)

\* The n bytes of t from q on are those of s from p on.
SameBytes(t, q, s, p, n) == \A k \in 1..n : t[q + k] = s[p + k]

\* One of the bytes that are the same.
LEMMA SameByte ==
  ASSUME NEW t, NEW q, NEW s, NEW p, NEW n \in Nat, SameBytes(t, q, s, p, n), NEW k \in 1..n
  PROVE  t[q + k] = s[p + k]
BY DEF SameBytes

\* An entry copied to another place is an entry there.
LEMMA EntryMoved ==
  ASSUME NEW s, NEW p \in Nat, NEW V, NEW value, EntryAt(s, p, V, value), NEW t, NEW q \in Nat,
         q + 4 + Len(value) <= Len(t), SameBytes(t, q, s, p, 4 + Len(value))
  PROVE  EntryAt(t, q, V, value)
<1> DEFINE n == Len(value)
<1>1. n \in Nat /\ value \in Seq(u8) /\ n <= U16_MAX
  BY DEF EntryAt
<1>2. ASSUME NEW k \in 1..4 PROVE t[q + k] = s[p + k]
  <2>1. 4 + n \in Nat /\ k \in 1..4 + n
    BY <1>1
  <2> QED
    BY <2>1 DEF SameBytes
<1>3. t[q + 1] = V /\ t[q + 2] = 0
  <2>1. s[p + 1] = V /\ s[p + 2] = 0
    BY DEF EntryAt
  <2>2. t[q + 1] = s[p + 1] /\ t[q + 2] = s[p + 2]
    BY <1>2
  <2> QED
    BY <2>1, <2>2
<1>4. Word(t, q + 2) = Word(s, p + 2)
  <2>1. t[q + 2 + 1] = s[p + 2 + 1] /\ t[q + 2 + 1 + 1] = s[p + 2 + 1 + 1]
    <3>1. /\ q + 2 + 1 = q + 3 /\ p + 2 + 1 = p + 3
          /\ q + 2 + 1 + 1 = q + 4 /\ p + 2 + 1 + 1 = p + 4
      OBVIOUS
    <3> QED
      BY <1>2, <3>1
  <2> QED
    BY <2>1, Zenon DEF Word, Byte
<1>5. ASSUME NEW k \in 1..n PROVE t[q + 4 + k] = value[k]
  <2>1. PICK j \in 1..4 + n : q + j = q + 4 + k /\ p + j = p + 4 + k
    <3>1. 4 + k \in 1..4 + n /\ q + (4 + k) = q + 4 + k /\ p + (4 + k) = p + 4 + k
      BY <1>1
    <3> QED
      BY <3>1
  <2>2. t[q + j] = s[p + j]
    BY DEF SameBytes
  <2>3. s[p + 4 + k] = value[k]
    BY DEF EntryAt
  <2> QED
    BY <2>1, <2>2, <2>3
<1>6. Word(s, p + 2) = Len(value)
  BY DEF EntryAt
<1> QED
  BY <1>1, <1>3, <1>4, <1>5, <1>6 DEF EntryAt

\* new is tlv with an entry of type V at p.
EntryWritten(new, tlv, p, V, value) ==
  /\ new \in Seq(u8) /\ Len(new) = Len(tlv)
  /\ EntryAt(new, p, V, value)
  /\ \A k \in 1..Len(tlv) : k <= p \/ k > p + 4 + Len(value) => new[k] = tlv[k]

\* The length of a value is a word,
LEMMA FitsLen ==
  ASSUME NEW n \in Nat, n <= U16_MAX
  PROVE  FitsWord(n)
BY LayoutAssumption DEF FitsWord

\* and so is its type.
LEMMA FitsType ==
  ASSUME NEW V \in Types
  PROVE  FitsWord(V) /\ V <= 255
BY TypeNumbers DEF FitsWord

\* What alloc writes is an entry.
LEMMA EntryProps ==
  ASSUME NEW tlv \in Seq(u8), NEW p \in Nat, NEW V \in Types, NEW value \in Seq(u8),
         Len(value) <= U16_MAX, p + 4 + Len(value) <= Len(tlv)
  PROVE  EntryWritten(Entry(tlv, get_tlv_indices(p), V, value), tlv, p, V, value)
<1>0. Len(value) \in Nat /\ Len(tlv) \in Nat
  OBVIOUS
<1>1. PICK a : /\ a = Write(tlv, p, WordBytes(V))
               /\ a \in Seq(u8) /\ Len(a) = Len(tlv)
               /\ V <= 255 => a[p + 1] = V /\ a[p + 2] = 0
               /\ \A k \in 1..Len(tlv) : k <= p \/ k > p + 2 => a[k] = tlv[k]
  <2>1. p + 2 <= Len(tlv)
    BY <1>0
  <2> QED
    BY <2>1, FitsType, WriteWord
<1>2. PICK b : /\ b = Write(a, p + 2, WordBytes(Len(value)))
               /\ b \in Seq(u8) /\ Len(b) = Len(a)
               /\ Word(b, p + 2) = Len(value)
               /\ \A k \in 1..Len(a) : k <= p + 2 \/ k > p + 4 => b[k] = a[k]
  <2>1. p + 2 \in Nat /\ p + 2 + 2 <= Len(a) /\ p + 2 + 2 = p + 4
    BY <1>0, <1>1
  <2>2. FitsWord(Len(value))
    BY <1>0, FitsLen
  <2>3. PICK i \in Nat : i = p + 2 /\ i + 2 <= Len(a) /\ i + 2 = p + 4
    BY <2>1
  <2>4. PICK r : /\ r = Write(a, i, WordBytes(Len(value)))
                 /\ r \in Seq(u8) /\ Len(r) = Len(a)
                 /\ Word(r, i) = Len(value)
                 /\ \A k \in 1..Len(a) : k <= i \/ k > i + 2 => r[k] = a[k]
    BY <1>1, <2>2, <2>3, WriteWord
  <2> QED
    BY <2>3, <2>4
<1>3. PICK c : c = Write(b, p + 4, value)
  OBVIOUS
<1>4. Written(c, b, p + 4, value)
  BY <1>2, <1>3, WriteProps
<1>5. c \in Seq(u8) /\ Len(c) = Len(tlv)
  BY <1>1, <1>2, <1>4 DEF Written
<1>6. ASSUME NEW k \in 1..Len(tlv), k <= p + 4 \/ k > p + 4 + Len(value) PROVE c[k] = b[k]
  BY <1>1, <1>2, <1>4, <1>6 DEF Written
<1>7. ASSUME NEW k \in 1..Len(value) PROVE c[p + 4 + k] = value[k]
  <2>1. p + 4 \in Nat /\ p + 4 + k <= Len(b)
    BY <1>0, <1>1, <1>2
  <2>2. b \in Seq(u8) /\ Written(c, b, p + 4, value)
    BY <1>2, <1>4
  <2> QED
    BY <2>1, <2>2, Zenon DEF Written
<1>8. c[p + 1] = V /\ c[p + 2] = 0
  <2>1. p + 1 \in 1..Len(tlv) /\ p + 2 \in 1..Len(tlv)
    BY <1>0
  <2>2. c[p + 1] = b[p + 1] /\ c[p + 2] = b[p + 2]
    BY <1>6, <2>1
  <2>3. b[p + 1] = a[p + 1] /\ b[p + 2] = a[p + 2]
    BY <1>1, <1>2, <2>1
  <2>4. a[p + 1] = V /\ a[p + 2] = 0
    BY <1>1, FitsType
  <2> QED
    BY <2>2, <2>3, <2>4
<1>9. Word(c, p + 2) = Len(value)
  <2>1. p + 3 \in 1..Len(tlv) /\ p + 4 \in 1..Len(tlv)
    BY <1>0
  <2>2. c[p + 3] = b[p + 3] /\ c[p + 4] = b[p + 4]
    BY <1>6, <2>1
  <2>3. p + 2 + 1 = p + 3 /\ p + 2 + 1 + 1 = p + 4
    OBVIOUS
  <2>4. Word(c, p + 2) = Word(b, p + 2)
    BY <2>2, <2>3, Zenon DEF Word, Byte
  <2> QED
    BY <1>2, <2>4
<1>10. ASSUME NEW k \in 1..Len(tlv), k <= p \/ k > p + 4 + Len(value) PROVE c[k] = tlv[k]
  <2>1. c[k] = b[k] /\ b[k] = a[k] /\ a[k] = tlv[k]
    BY <1>0, <1>1, <1>2, <1>6, <1>10
  <2> QED
    BY <2>1
<1>11. EntryAt(c, p, V, value)
  BY <1>0, <1>5, <1>7, <1>8, <1>9 DEF EntryAt
<1>12. c = Entry(tlv, get_tlv_indices(p), V, value)
  BY <1>1, <1>2, <1>3 DEF Entry, get_tlv_indices
<1> QED
  BY <1>5, <1>10, <1>11, <1>12 DEF EntryWritten

-----------------------------------------------------------------------------
(* One entry among the others.                                             *)

-----------------------------------------------------------------------------
(* Changing a layout.                                                      *)

\* The map m with the value of V.
Put(m, V, value) == [X \in DOMAIN m \cup {V} |-> IF X = V THEN value ELSE m[X]]

\* The entry of V lies from p to b, or it is missing and p and b are the end.
Place(m, pos, e, V, p, b) ==
  \/ V \in DOMAIN m /\ p = pos[V] /\ b = Behind(m, pos, V)
  \/ V \notin DOMAIN m /\ p = e /\ b = e

\* new is tlv with an entry of V in place of the bytes p to b; what was behind it follows
\* it up to f, and the rest is zero.
Spliced(new, tlv, p, b, e, V, value, f) ==
  /\ new \in Seq(u8) /\ f \in Nat /\ f <= Len(new)
  /\ f = p + 4 + Len(value) + (e - b)
  /\ EntryAt(new, p, V, value)
  /\ SameBytes(new, 0, tlv, 0, p)
  /\ SameBytes(new, p + 4 + Len(value), tlv, b, e - b)
  /\ \A i \in (f + 1)..Len(new) : new[i] = 0

\* The entries do not overlap the place of V, or lie wholly on one side of it.
LEMMA Apart ==
  ASSUME NEW tlv, NEW m, NEW pos, NEW e, Layout(tlv, m, pos, e),
         NEW V, NEW p, NEW b, Place(m, pos, e, V, p, b)
  PROVE  /\ p \in Nat /\ b \in Nat /\ e \in Nat /\ p <= b /\ b <= e
         /\ V \in DOMAIN m => p < b
         /\ \A W \in DOMAIN m : W # V => \/ Behind(m, pos, W) <= p /\ pos[W] < p
                                         \/ b <= pos[W] /\ p < b
<1>1. p \in Nat /\ b \in Nat /\ e \in Nat /\ p <= b /\ b <= e /\ (V \in DOMAIN m => p < b)
  <2>1. CASE V \in DOMAIN m
    <3>1. p = pos[V] /\ b = Behind(m, pos, V)
      BY <2>1 DEF Place
    <3> QED
      BY <2>1, <3>1, LayoutEntry
  <2>2. CASE V \notin DOMAIN m
    BY <2>2 DEF Place, Layout
  <2> QED
    BY <2>1, <2>2
<1>2. ASSUME NEW W \in DOMAIN m, W # V
      PROVE  (Behind(m, pos, W) <= p /\ pos[W] < p) \/ (b <= pos[W] /\ p < b)
  <2>0. /\ pos[W] \in Nat /\ Behind(m, pos, W) \in Nat /\ pos[W] + 4 <= Behind(m, pos, W)
        /\ Behind(m, pos, W) <= e
    BY LayoutEntry
  <2>1. CASE V \in DOMAIN m
    <3>1. p = pos[V] /\ b = Behind(m, pos, V)
      BY <2>1 DEF Place
    <3>2. Behind(m, pos, V) <= pos[W] \/ Behind(m, pos, W) <= pos[V]
      BY <1>2, <2>1 DEF Layout
    <3> QED
      BY <1>1, <2>0, <2>1, <3>1, <3>2
  <2>2. CASE V \notin DOMAIN m
    <3>1. p = e
      BY <2>2 DEF Place
    <3> QED
      BY <1>1, <2>0, <3>1
  <2> QED
    BY <2>1, <2>2
<1> QED
  BY <1>1, <1>2

\* Where the entries are afterwards.
MovedTo(m, pos, V, p, b, value) ==
  [W \in DOMAIN m \cup {V} |->
     IF W = V THEN p ELSE IF pos[W] < p THEN pos[W] ELSE pos[W] + 4 + p + Len(value) - b]

\* A byte of an entry behind b, when what is behind b moves to q.
LEMMA Shifted ==
  ASSUME NEW x \in Nat, NEW l \in Nat, NEW b \in Nat, NEW e \in Nat, NEW q \in Nat,
         b <= x, x + 4 + l <= e, NEW at, at = q + (x - b), NEW k \in 1..(4 + l)
  PROVE  \E j \in 1..(e - b) : q + j = at + k /\ b + j = x + k /\ e - b \in Nat
<1>1. PICK y \in Nat : x = b + y
  <2>1. x - b \in Nat /\ x = b + (x - b)
    OBVIOUS
  <2> QED
    BY <2>1
<1>2. y + k \in 1..(e - b) /\ e - b \in Nat
  BY <1>1
<1>3. q + (y + k) = at + k /\ b + (y + k) = x + k
  BY <1>1
<1> QED
  BY <1>2, <1>3

\* When the value of V changes its length, the entries behind move by the difference.
LEMMA PlaceOfOther ==
  ASSUME NEW tlv, NEW m, NEW pos, NEW e, Layout(tlv, m, pos, e),
         NEW V, NEW p, NEW b, Place(m, pos, e, V, p, b),
         NEW value \in Seq(u8), NEW new, NEW f, Spliced(new, tlv, p, b, e, V, value, f),
         NEW W \in DOMAIN m, W # V
  PROVE  /\ EntryAt(new, MovedTo(m, pos, V, p, b, value)[W], W, m[W])
         /\ Behind(Put(m, V, value), MovedTo(m, pos, V, p, b, value), W) <= f
         /\ \/ /\ Behind(m, pos, W) <= p
               /\ MovedTo(m, pos, V, p, b, value)[W] = pos[W]
               /\ Behind(Put(m, V, value), MovedTo(m, pos, V, p, b, value), W)
                    = Behind(m, pos, W)
            \/ /\ b <= pos[W]
               /\ MovedTo(m, pos, V, p, b, value)[W] = pos[W] + 4 + p + Len(value) - b
               /\ Behind(Put(m, V, value), MovedTo(m, pos, V, p, b, value), W)
                    = Behind(m, pos, W) + 4 + p + Len(value) - b
<1> DEFINE n == Len(m[W])
           to == MovedTo(m, pos, V, p, b, value)
<1>0. /\ p \in Nat /\ b \in Nat /\ e \in Nat /\ p <= b /\ b <= e /\ Len(value) \in Nat
      /\ (Behind(m, pos, W) <= p /\ pos[W] < p) \/ (b <= pos[W] /\ p < b)
  BY Apart
<1>1. /\ pos[W] \in Nat /\ n \in Nat /\ Behind(m, pos, W) = pos[W] + 4 + n
      /\ pos[W] + 4 + n <= e /\ EntryAt(tlv, pos[W], W, m[W])
  <2>1. EntryAt(tlv, pos[W], W, m[W])
    BY DEF Layout
  <2> QED
    BY <2>1, LayoutEntry DEF Behind
<1>2. f \in Nat /\ f = p + 4 + Len(value) + (e - b) /\ f <= Len(new) /\ Len(new) \in Nat
  BY DEF Spliced
<1>3. Behind(Put(m, V, value), to, W) = to[W] + 4 + n
  BY DEF Behind, Put
<1>4. CASE Behind(m, pos, W) <= p /\ pos[W] < p
  <2>1. to[W] = pos[W]
    BY <1>4 DEF MovedTo
  <2>2. SameBytes(new, pos[W], tlv, pos[W], 4 + n)
    <3>1. ASSUME NEW k \in 1..4 + n PROVE new[pos[W] + k] = tlv[pos[W] + k]
      <4>1. pos[W] + k \in 1..p /\ 0 + (pos[W] + k) = pos[W] + k
        BY <1>0, <1>1, <1>4
      <4>2. SameBytes(new, 0, tlv, 0, p)
        BY DEF Spliced
      <4> QED
        BY <1>0, <4>1, <4>2, SameByte
    <3> QED
      BY <3>1 DEF SameBytes
  <2>3. pos[W] + 4 + n <= Len(new)
    BY <1>0, <1>1, <1>2, <1>4
  <2>4. EntryAt(new, pos[W], W, m[W])
    BY <1>1, <2>2, <2>3, EntryMoved
  <2>5. to[W] + 4 + n <= f
    BY <1>0, <1>1, <1>2, <1>4, <2>1
  <2> HIDE DEF n, to
  <2> QED
    BY <1>1, <1>3, <1>4, <2>1, <2>4, <2>5 DEF to
<1>5. CASE b <= pos[W] /\ p < b
  <2> DEFINE q == p + 4 + Len(value)
             at == pos[W] + 4 + p + Len(value) - b
  <2>1. to[W] = at
    <3>1. ~(pos[W] < p)
      BY <1>0, <1>1, <1>5
    <3> QED
      BY <3>1 DEF MovedTo
  <2>2. at \in Nat /\ q \in Nat /\ at = q + (pos[W] - b)
    <3>1. PICK x \in Nat : x = pos[W]
      BY <1>1
    <3>2. PICK v \in Nat : v = Len(value)
      BY <1>0
    <3>3. b \in Nat /\ p \in Nat /\ b <= x
      BY <1>0, <1>5, <3>1
    <3>4. x + 4 + p + v - b \in Nat /\ p + 4 + v \in Nat
          /\ x + 4 + p + v - b = p + 4 + v + (x - b)
      BY <3>3
    <3> QED
      BY <3>1, <3>2, <3>4
  <2>3. SameBytes(new, q, tlv, b, e - b)
    BY DEF Spliced
  <2> HIDE DEF q, at
  <2>4. SameBytes(new, at, tlv, pos[W], 4 + n)
    <3>1. ASSUME NEW k \in 1..4 + n PROVE new[at + k] = tlv[pos[W] + k]
      <4>1. PICK j \in 1..(e - b) : q + j = at + k /\ b + j = pos[W] + k /\ e - b \in Nat
        <5>1. PICK x \in Nat : x = pos[W]
          BY <1>1
        <5>2. PICK l \in Nat : l = n
          BY <1>1
        <5>3. b \in Nat /\ e \in Nat /\ b <= x /\ x + 4 + l <= e
          BY <1>0, <1>1, <1>5, <5>1, <5>2
        <5>4. q \in Nat /\ at = q + (x - b) /\ k \in 1..(4 + l)
          BY <2>2, <5>1, <5>2
        <5>5. PICK j \in 1..(e - b) : q + j = at + k /\ b + j = x + k /\ e - b \in Nat
          BY <5>3, <5>4, Shifted
        <5> QED
          BY <5>1, <5>5
      <4>2. new[q + j] = tlv[b + j]
        BY <2>3, <4>1, SameByte
      <4> QED
        BY <4>1, <4>2
    <3> QED
      BY <3>1 DEF SameBytes
  <2>5. at + 4 + n <= f /\ at + 4 + n <= Len(new)
    <3>1. PICK x \in Nat : x = pos[W]
      BY <1>1
    <3>2. PICK l \in Nat : l = n
      BY <1>1
    <3>3. PICK v \in Nat : v = Len(value)
      BY <1>0
    <3>4. b \in Nat /\ e \in Nat /\ p \in Nat /\ b <= x /\ x + 4 + l <= e /\ b <= e
      BY <1>0, <1>1, <1>5, <3>1, <3>2
    <3>5. at = x + 4 + p + v - b /\ f = p + 4 + v + (e - b)
      BY <1>2, <3>1, <3>3 DEF at
    <3>6. at + 4 + l <= f /\ at \in Int /\ f \in Nat
      BY <3>4, <3>5
    <3>7. f <= Len(new) /\ Len(new) \in Nat
      BY <1>2
    <3> QED
      BY <3>2, <3>6, <3>7
  <2>6. EntryAt(new, at, W, m[W])
    BY <1>1, <2>2, <2>4, <2>5, EntryMoved
  <2>7. at + 4 + n = Behind(m, pos, W) + 4 + p + Len(value) - b
    BY <1>0, <1>1 DEF at
  <2> HIDE DEF n, to
  <2> QED
    BY <1>3, <1>5, <2>1, <2>5, <2>6, <2>7 DEF to, at
<1> QED
  BY <1>0, <1>4, <1>5

\* So the bytes hold the map in which V has the new value.
LEMMA LayoutPut ==
  ASSUME NEW tlv, NEW m, NEW pos, NEW e, Layout(tlv, m, pos, e),
         NEW V \in Types, NEW p, NEW b, Place(m, pos, e, V, p, b),
         NEW value \in Seq(u8), NEW new, NEW f, Spliced(new, tlv, p, b, e, V, value, f)
  PROVE  Layout(new, Put(m, V, value), MovedTo(m, pos, V, p, b, value), f)
<1> DEFINE n == Len(value)
           m2 == Put(m, V, value)
           to == MovedTo(m, pos, V, p, b, value)
<1>1. /\ p \in Nat /\ b \in Nat /\ e \in Nat /\ p <= b /\ b <= e /\ n \in Nat
      /\ V \in DOMAIN m => p < b
  BY Apart
<1>2. f \in Nat /\ f = p + 4 + n + (e - b) /\ f <= Len(new) /\ new \in Seq(u8)
        /\ EntryAt(new, p, V, value) /\ \A i \in (f + 1)..Len(new) : new[i] = 0
  BY DEF Spliced
<1>3. DOMAIN m2 = DOMAIN m \cup {V} /\ DOMAIN to = DOMAIN m \cup {V} /\ DOMAIN m \subseteq Types
  BY DEF Put, MovedTo, Layout
<1>4. to[V] = p /\ m2[V] = value /\ Behind(m2, to, V) = p + 4 + n
  <2>1. to[V] = p /\ m2[V] = value
    BY DEF Put, MovedTo
  <2> QED
    BY <2>1 DEF Behind
<1>5. ASSUME NEW W \in DOMAIN m, W # V
      PROVE  /\ m2[W] = m[W]
             /\ EntryAt(new, to[W], W, m[W]) /\ Behind(m2, to, W) <= f
             /\ \/ /\ Behind(m, pos, W) <= p /\ to[W] = pos[W]
                   /\ Behind(m2, to, W) = Behind(m, pos, W)
                \/ /\ b <= pos[W] /\ to[W] = pos[W] + (4 + p + n - b)
                   /\ Behind(m2, to, W) = Behind(m, pos, W) + (4 + p + n - b)
  <2>1. m2[W] = m[W]
    BY <1>5 DEF Put
  <2>2. /\ EntryAt(new, to[W], W, m[W]) /\ Behind(m2, to, W) <= f
        /\ \/ /\ Behind(m, pos, W) <= p /\ to[W] = pos[W]
              /\ Behind(m2, to, W) = Behind(m, pos, W)
           \/ /\ b <= pos[W] /\ to[W] = pos[W] + 4 + p + n - b
              /\ Behind(m2, to, W) = Behind(m, pos, W) + 4 + p + n - b
    BY <1>5, PlaceOfOther
  <2>3. pos[W] \in Nat /\ Behind(m, pos, W) \in Nat
    BY LayoutEntry
  <2> HIDE DEF n, m2, to
  <2>4. /\ pos[W] + 4 + p + n - b = pos[W] + (4 + p + n - b)
        /\ Behind(m, pos, W) + 4 + p + n - b = Behind(m, pos, W) + (4 + p + n - b)
    BY <1>1, <2>3
  <2> QED
    BY <2>1, <2>2, <2>4, Zenon
<1>6. ASSUME NEW W \in DOMAIN m
      PROVE  /\ pos[W] \in Nat /\ Behind(m, pos, W) \in Nat
             /\ pos[W] + 4 <= Behind(m, pos, W) /\ Behind(m, pos, W) <= e
  BY LayoutEntry
<1>7. V \in DOMAIN m => p = pos[V] /\ b = Behind(m, pos, V)
  BY DEF Place
<1> HIDE DEF n, m2, to
<1>8. to \in [DOMAIN m2 -> Nat]
  <2>1. ASSUME NEW W \in DOMAIN m2 PROVE to[W] \in Nat
    <3>1. CASE W = V
      BY <1>1, <1>4, <3>1
    <3>2. CASE W # V
      BY <1>1, <1>3, <1>5, <1>6, <3>2
    <3> QED
      BY <3>1, <3>2
  <2>2. to = [W \in DOMAIN m2 |-> to[W]]
    BY <1>3 DEF to, MovedTo
  <2> QED
    BY <2>1, <2>2
<1>9. ASSUME NEW W \in DOMAIN m2 PROVE EntryAt(new, to[W], W, m2[W]) /\ Behind(m2, to, W) <= f
  <2>1. CASE W = V
    BY <1>1, <1>2, <1>4, <2>1
  <2>2. CASE W # V
    BY <1>3, <1>5, <2>2
  <2> QED
    BY <2>1, <2>2
<1>10. f = 0 \/ \E W \in DOMAIN m2 : to[W] = 0
  <2>1. CASE p = 0
    BY <1>3, <1>4, <2>1
  <2>2. CASE p # 0
    <3>1. e # 0
      BY <1>1, <2>2
    <3>2. PICK W \in DOMAIN m : pos[W] = 0
      BY <3>1 DEF Layout
    <3>3. W # V
      BY <1>7, <2>2, <3>2
    <3>4. to[W] = 0
      BY <1>1, <1>5, <2>2, <3>2, <3>3
    <3> QED
      BY <1>3, <3>4
  <2> QED
    BY <2>1, <2>2
<1>11. ASSUME NEW W \in DOMAIN m2
       PROVE  Behind(m2, to, W) = f \/ \E X \in DOMAIN m2 : to[X] = Behind(m2, to, W)
  <2> DEFINE g == Behind(m, pos, W)
  <2>1. CASE W = V
    <3>1. CASE b = e
      BY <1>1, <1>2, <1>4, <2>1, <3>1
    <3>2. CASE b # e
      <4>1. V \in DOMAIN m /\ b = Behind(m, pos, V)
        BY <3>2 DEF Place
      <4>2. PICK X \in DOMAIN m : pos[X] = b
        BY <3>2, <4>1 DEF Layout
      <4>3. X # V
        BY <1>1, <1>7, <4>1, <4>2
      <4>4. to[X] = p + 4 + n
        BY <1>1, <1>5, <1>6, <4>1, <4>2, <4>3
      <4> QED
        BY <1>3, <1>4, <2>1, <4>4
    <3> QED
      BY <3>1, <3>2
  <2>2. CASE W # V
    <3>0. W \in DOMAIN m
      BY <1>3, <2>2
    <3>1. g = e \/ \E X \in DOMAIN m : pos[X] = g
      BY <3>0 DEF Layout
    <3>2. g \in Nat /\ g <= e /\ pos[W] \in Nat /\ pos[W] + 4 <= g
      BY <1>6, <3>0
    <3>3. CASE g <= p /\ Behind(m2, to, W) = g
      <4>1. CASE V \notin DOMAIN m /\ g = e
        <5>1. p = e
          BY <4>1 DEF Place
        <5> QED
          BY <1>3, <1>4, <3>3, <4>1, <5>1
      <4>2. CASE ~(V \notin DOMAIN m /\ g = e)
        <5>1. PICK X \in DOMAIN m : pos[X] = g
          BY <1>1, <3>1, <3>2, <3>3, <4>2
        <5>2. CASE X = V
          BY <1>3, <1>4, <1>7, <3>3, <5>1, <5>2
        <5>3. CASE X # V
          <6>1. ASSUME b <= pos[X] PROVE FALSE
            <7>1. pos[X] \in Nat /\ pos[X] <= p /\ pos[X] + 4 <= e
              BY <1>1, <1>6, <3>2, <3>3, <5>1
            <7>2. p = b
              BY <1>1, <6>1, <7>1
            <7>3. p = e
              BY <1>1, <7>2 DEF Place
            <7> QED
              BY <1>1, <7>1, <7>2, <7>3, <6>1
          <6>2. to[X] = g
            BY <1>5, <5>1, <5>3, <6>1
          <6> QED
            BY <1>3, <3>3, <6>2
        <5> QED
          BY <5>2, <5>3
      <4> QED
        BY <4>1, <4>2
    <3>4. CASE b <= pos[W] /\ Behind(m2, to, W) = g + (4 + p + n - b)
      <4>1. CASE g = e
        BY <1>1, <1>2, <3>4, <4>1
      <4>2. CASE g # e
        <5>1. PICK X \in DOMAIN m : pos[X] = g
          BY <3>1, <4>2
        <5>2. b < pos[X] /\ X # V
          BY <1>1, <1>7, <3>2, <3>4, <5>1
        <5>3. to[X] = g + (4 + p + n - b)
          BY <1>1, <1>5, <1>6, <5>1, <5>2
        <5> QED
          BY <1>3, <3>4, <5>3
      <4> QED
        BY <4>1, <4>2
    <3> HIDE DEF g
    <3> QED
      BY <1>5, <2>2, <3>0, <3>3, <3>4 DEF g
  <2> QED
    BY <2>1, <2>2
<1>12. ASSUME NEW W \in DOMAIN m, W # V
       PROVE  Behind(m2, to, W) <= to[V] \/ Behind(m2, to, V) <= to[W]
  BY <1>1, <1>4, <1>5, <1>6, <1>12
<1>13. ASSUME NEW W \in DOMAIN m, NEW X \in DOMAIN m, W # V, X # V, W # X
       PROVE  Behind(m2, to, W) <= to[X] \/ Behind(m2, to, X) <= to[W]
  <2>1. Behind(m, pos, W) <= pos[X] \/ Behind(m, pos, X) <= pos[W]
    BY <1>13 DEF Layout
  <2>2. \/ /\ Behind(m, pos, W) <= p /\ to[W] = pos[W]
           /\ Behind(m2, to, W) = Behind(m, pos, W)
        \/ /\ b <= pos[W] /\ to[W] = pos[W] + (4 + p + n - b)
           /\ Behind(m2, to, W) = Behind(m, pos, W) + (4 + p + n - b)
    BY <1>5, <1>13
  <2>3. \/ /\ Behind(m, pos, X) <= p /\ to[X] = pos[X]
           /\ Behind(m2, to, X) = Behind(m, pos, X)
        \/ /\ b <= pos[X] /\ to[X] = pos[X] + (4 + p + n - b)
           /\ Behind(m2, to, X) = Behind(m, pos, X) + (4 + p + n - b)
    BY <1>5, <1>13
  <2>4. /\ pos[W] \in Nat /\ Behind(m, pos, W) \in Nat /\ pos[W] + 4 <= Behind(m, pos, W)
        /\ pos[X] \in Nat /\ Behind(m, pos, X) \in Nat /\ pos[X] + 4 <= Behind(m, pos, X)
    BY <1>6
  <2> DEFINE shift == 4 + p + n - b
  <2>5. shift \in Int /\ b + shift >= p
    BY <1>1
  <2> HIDE DEF shift
  <2>6. CASE to[W] = pos[W] /\ to[X] = pos[X]
    <3>1. Behind(m2, to, W) = Behind(m, pos, W) \/ shift = 0
      BY <2>2, <2>4, <2>5, <2>6 DEF shift
    <3>2. Behind(m2, to, X) = Behind(m, pos, X) \/ shift = 0
      BY <2>3, <2>4, <2>5, <2>6 DEF shift
    <3>3. Behind(m2, to, W) = Behind(m, pos, W)
      BY <2>2, <2>4, <3>1 DEF shift
    <3>4. Behind(m2, to, X) = Behind(m, pos, X)
      BY <2>3, <2>4, <3>2 DEF shift
    <3> QED
      BY <2>1, <2>6, <3>3, <3>4
  <2>7. CASE Behind(m, pos, W) <= p /\ Behind(m2, to, W) = Behind(m, pos, W)
               /\ b <= pos[X] /\ to[X] = pos[X] + shift
    BY <1>1, <2>4, <2>5, <2>7
  <2>8. CASE Behind(m, pos, X) <= p /\ Behind(m2, to, X) = Behind(m, pos, X)
               /\ b <= pos[W] /\ to[W] = pos[W] + shift
    BY <1>1, <2>4, <2>5, <2>8
  <2>9. CASE /\ Behind(m2, to, X) = Behind(m, pos, X) + shift /\ to[X] = pos[X] + shift
             /\ Behind(m2, to, W) = Behind(m, pos, W) + shift /\ to[W] = pos[W] + shift
    BY <2>1, <2>4, <2>5, <2>9
  <2> QED
    BY <2>2, <2>3, <2>6, <2>7, <2>8, <2>9 DEF shift
<1>14. \A W, X \in DOMAIN m2 :
         W # X => Behind(m2, to, W) <= to[X] \/ Behind(m2, to, X) <= to[W]
  BY <1>3, <1>12, <1>13
<1>15. DOMAIN m2 \subseteq Types
  BY <1>3
<1>16. Layout(new, m2, to, f)
  BY <1>2, <1>8, <1>9, <1>10, <1>11, <1>14, <1>15 DEF Layout
<1> QED
  BY <1>16 DEF m2, to

-----------------------------------------------------------------------------
(* Resizing, and alloc.                                                    *)

\* Bytes may be added or cut off behind the last entry.
LEMMA LayoutSame ==
  ASSUME NEW tlv, NEW m, NEW pos, NEW e, Layout(tlv, m, pos, e),
         NEW new \in Seq(u8), e <= Len(new), SameBytes(new, 0, tlv, 0, e),
         \A i \in (e + 1)..Len(new) : new[i] = 0
  PROVE  Layout(new, m, pos, e)
<1>1. ASSUME NEW V \in DOMAIN m PROVE EntryAt(new, pos[V], V, m[V]) /\ Behind(m, pos, V) <= e
  <2> DEFINE n == Len(m[V])
  <2>1. EntryAt(tlv, pos[V], V, m[V])
    BY DEF Layout
  <2>2. /\ pos[V] \in Nat /\ n \in Nat /\ e \in Nat /\ Behind(m, pos, V) = pos[V] + 4 + n
        /\ pos[V] + 4 + n <= e
    BY LayoutEntry DEF Behind
  <2>3. pos[V] + 4 + n <= Len(new)
    BY <2>2
  <2>4. ASSUME NEW k \in 1..4 + n PROVE new[pos[V] + k] = tlv[pos[V] + k]
    <3>1. pos[V] + k \in 1..e /\ 0 + (pos[V] + k) = pos[V] + k
      BY <2>2
    <3> QED
      BY <2>2, <3>1, SameByte
  <2>5. SameBytes(new, pos[V], tlv, pos[V], 4 + n)
    BY <2>4 DEF SameBytes
  <2>6. EntryAt(new, pos[V], V, m[V])
    BY <2>1, <2>2, <2>3, <2>5, EntryMoved
  <2> QED
    BY <2>2, <2>6
<1> QED
  BY <1>1 DEF Layout

\* The end of the entries with the value of V.
EndWith(m, e, V, value) ==
  IF V \in DOMAIN m THEN e + Len(value) - Len(m[V]) ELSE e + 4 + Len(value)

\* Where alloc puts the entry.
Room(tlv, V, p) == get_extension_indices(tlv, V, TRUE) = {get_tlv_indices(p)}

\* What alloc asks for when the entry goes to p.
AllocOk(S, tlv, V, value, overwrite, p) ==
  /\ get_account_type(V) = S
  /\ Len(tlv) - p >= Len(value) + 4
  /\ Len(value) <= U16_MAX
  /\ \/ Word(tlv, p) = 0
     \/ overwrite /\ Word(tlv, p + 2) = Len(value)

\* The places of type, length and value of an entry.
LEMMA IndicesFields ==
  ASSUME NEW p
  PROVE  /\ get_tlv_indices(p).type_start = p
         /\ get_tlv_indices(p).length_start = p + 2
         /\ get_tlv_indices(p).value_start = p + 4
BY DEF get_tlv_indices

\* What alloc returns when there is room for an entry at p,
LEMMA AllocIs ==
  ASSUME NEW S, NEW tlv, NEW V, NEW value, NEW overwrite \in BOOLEAN, NEW p,
         Room(tlv, V, p)
  PROVE  alloc(S, tlv, V, value, overwrite)
           = OkIf(AllocOk(S, tlv, V, value, overwrite, p), Entry(tlv, get_tlv_indices(p), V, value))
<1>1. PICK at : /\ at = get_tlv_indices(p)
                /\ at.type_start = p /\ at.length_start = p + 2
  BY IndicesFields, Zenon
<1>2. alloc(S, tlv, V, value, overwrite)
        = OkIf(/\ get_account_type(V) = S
               /\ Len(tlv) - at.type_start >= add_type_and_length_to_len(Len(value))
               /\ Len(value) <= U16_MAX
               /\ \/ Word(tlv, at.type_start) = 0
                  \/ overwrite /\ Word(tlv, at.length_start) = Len(value),
               Entry(tlv, at, V, value))
  BY <1>1 DEF alloc, Then, Room
<1> QED
  BY <1>1, <1>2 DEF AllocOk, add_type_and_length_to_len

\* A result under a condition.
LEMMA OkIfIs ==
  ASSUME NEW cond \in BOOLEAN, NEW r
  PROVE  (cond => OkIf(cond, r) = {r}) /\ (~cond => OkIf(cond, r) = {})
BY DEF OkIf

\* when it succeeds,
LEMMA AllocIn ==
  ASSUME NEW S, NEW tlv, NEW V, NEW value, NEW overwrite \in BOOLEAN, NEW p,
         Room(tlv, V, p),
         NEW new \in alloc(S, tlv, V, value, overwrite)
  PROVE  AllocOk(S, tlv, V, value, overwrite, p) /\ new = Entry(tlv, get_tlv_indices(p), V, value)
<1> DEFINE ok == AllocOk(S, tlv, V, value, overwrite, p)
           r == Entry(tlv, get_tlv_indices(p), V, value)
<1>1. alloc(S, tlv, V, value, overwrite) = OkIf(ok, r)
  BY AllocIs
<1>2. ok \in BOOLEAN
  BY DEF AllocOk
<1> HIDE DEF ok, r
<1>3. (ok => OkIf(ok, r) = {r}) /\ (~ok => OkIf(ok, r) = {})
  BY <1>2, OkIfIs
<1>4. ok /\ new = r
  BY <1>1, <1>2, <1>3
<1> QED
  BY <1>4 DEF ok, r

\* when it must succeed,
LEMMA AllocPut ==
  ASSUME NEW S, NEW tlv, NEW V, NEW value, NEW overwrite \in BOOLEAN, NEW p,
         Room(tlv, V, p)
  PROVE  AllocOk(S, tlv, V, value, overwrite, p) => alloc(S, tlv, V, value, overwrite) # {}
<1> DEFINE ok == AllocOk(S, tlv, V, value, overwrite, p)
           r == Entry(tlv, get_tlv_indices(p), V, value)
<1>1. alloc(S, tlv, V, value, overwrite) = OkIf(ok, r)
  BY AllocIs
<1>2. ok \in BOOLEAN
  BY DEF AllocOk
<1> HIDE DEF ok, r
<1>3. ok => OkIf(ok, r) = {r}
  BY <1>2, OkIfIs
<1>4. ok => alloc(S, tlv, V, value, overwrite) # {}
  BY <1>1, <1>2, <1>3
<1> QED
  BY <1>4 DEF ok

\* and when there is no place.
LEMMA AllocNone ==
  ASSUME NEW S, NEW tlv, NEW V, NEW value, NEW overwrite,
         get_extension_indices(tlv, V, TRUE) = {}
  PROVE  alloc(S, tlv, V, value, overwrite) = {}
BY DEF alloc, Then, Room

\* alloc puts the value, and overwrites a value of the same length only if told to.
LEMMA AllocLayout ==
  ASSUME NEW tlv, NEW m, NEW pos, NEW e, Layout(tlv, m, pos, e),
         NEW S, OfKind(m, S), NEW V \in Types, get_account_type(V) = S,
         NEW value \in Seq(u8), NEW overwrite \in BOOLEAN,
         NEW new \in alloc(S, tlv, V, value, overwrite)
  PROVE  /\ new \in Seq(u8) /\ Len(new) = Len(tlv) /\ Len(value) <= U16_MAX
         /\ V \in DOMAIN m => overwrite /\ Len(m[V]) = Len(value)
         /\ \E to : Layout(new, Put(m, V, value), to, EndWith(m, e, V, value))
<1> DEFINE n == Len(value)
<1>0. tlv \in Seq(u8) /\ e \in Nat /\ e <= Len(tlv) /\ n \in Nat /\ Len(tlv) \in Nat
        /\ \A i \in (e + 1)..Len(tlv) : tlv[i] = 0
  BY DEF Layout
<1>1. CASE V \in DOMAIN m
  <2>1. PICK p : p = pos[V]
    OBVIOUS
  <2>2. Room(tlv, V, p)
    BY <1>1, <2>1, IndicesFound DEF FindResult, Room
  <2>3. AllocOk(S, tlv, V, value, overwrite, p) /\ new = Entry(tlv, get_tlv_indices(p), V, value)
    BY <2>2, AllocIn
  <2>4. Word(tlv, p) = V /\ V # 0 /\ Word(tlv, p + 2) = Len(m[V])
    BY <1>1, <2>1, LayoutEntry, TypeNumbers
  <2>5. overwrite /\ Len(m[V]) = n /\ n <= U16_MAX
    BY <2>3, <2>4, Zenon DEF AllocOk
  <2>14. Len(m[V]) = n /\ n <= U16_MAX
    BY <2>5
  <2>13. /\ p \in Nat /\ Behind(m, pos, V) = p + 4 + Len(m[V]) /\ Behind(m, pos, V) <= e
         /\ Len(m[V]) \in Nat /\ p + 4 + n <= Len(tlv)
    <3>1. /\ p \in Nat /\ Behind(m, pos, V) = p + 4 + Len(m[V]) /\ Behind(m, pos, V) <= e
          /\ Len(m[V]) \in Nat
      BY <1>1, <2>1, LayoutEntry DEF Behind
    <3> QED
      BY <1>0, <2>5, <3>1
  <2>6. EntryWritten(new, tlv, p, V, value)
    BY <1>0, <2>3, <2>5, <2>13, EntryProps
  <2>7. PICK b : b = Behind(m, pos, V)
    OBVIOUS
  <2>8. b \in Nat /\ b = p + 4 + n /\ b <= e
    BY <1>0, <1>1, <2>13, <2>14, <2>7
  <2>9. Place(m, pos, e, V, p, b)
    BY <1>1, <2>1, <2>7 DEF Place
  <2>10. \A k \in 1..Len(tlv) : k <= p \/ k > b => new[k] = tlv[k]
    BY <2>6, <2>8 DEF EntryWritten
  <2>11. Spliced(new, tlv, p, b, e, V, value, e)
    <3>1. SameBytes(new, 0, tlv, 0, p)
      <4>1. ASSUME NEW k \in 1..p PROVE new[0 + k] = tlv[0 + k]
        BY <1>0, <2>13, <2>8, <2>10
      <4> QED
        BY <4>1 DEF SameBytes
    <3>2. SameBytes(new, b, tlv, b, e - b)
      <4>1. ASSUME NEW k \in 1..(e - b) PROVE new[b + k] = tlv[b + k]
        BY <1>0, <2>8, <2>10
      <4> QED
        BY <4>1 DEF SameBytes
    <3>3. \A i \in (e + 1)..Len(tlv) : new[i] = 0
      BY <1>0, <2>8, <2>10
    <3>4. /\ new \in Seq(u8) /\ Len(new) = Len(tlv) /\ EntryAt(new, p, V, value)
      BY <2>6 DEF EntryWritten
    <3>5. e = p + 4 + n + (e - b)
      BY <1>0, <2>13, <2>8
    <3> QED
      BY <1>0, <2>8, <3>1, <3>2, <3>3, <3>4, <3>5 DEF Spliced
  <2>12. EndWith(m, e, V, value) = e
    BY <1>0, <1>1, <2>5 DEF EndWith
  <2> QED
    BY <2>5, <2>6, <2>9, <2>11, <2>12, LayoutPut DEF EntryWritten
<1>2. CASE V \notin DOMAIN m
  <2>1. get_extension_indices(tlv, V, TRUE) = IF e + 4 <= Len(tlv) THEN {get_tlv_indices(e)} ELSE {}
    BY <1>2, IndicesFound DEF FindResult, Room
  <2>2. Room(tlv, V, e)
    BY <2>1, AllocNone DEF Room
  <2>3. /\ Len(tlv) - e >= n + 4 /\ n <= U16_MAX
        /\ new = Entry(tlv, get_tlv_indices(e), V, value)
    BY <2>2, AllocIn DEF AllocOk
  <2>4. EntryWritten(new, tlv, e, V, value)
    BY <1>0, <2>3, EntryProps
  <2>5. Place(m, pos, e, V, e, e)
    BY <1>2 DEF Place
  <2>6. \A k \in 1..Len(tlv) : k <= e \/ k > e + 4 + n => new[k] = tlv[k]
    BY <2>4 DEF EntryWritten
  <2>7. Spliced(new, tlv, e, e, e, V, value, e + 4 + n)
    <3>1. SameBytes(new, 0, tlv, 0, e)
      <4>1. ASSUME NEW k \in 1..e PROVE new[0 + k] = tlv[0 + k]
        BY <1>0, <2>6
      <4> QED
        BY <4>1 DEF SameBytes
    <3>2. SameBytes(new, e + 4 + n, tlv, e, e - e)
      BY <1>0 DEF SameBytes
    <3>3. \A i \in (e + 4 + n + 1)..Len(tlv) : new[i] = 0
      BY <1>0, <2>6
    <3>4. /\ new \in Seq(u8) /\ Len(new) = Len(tlv) /\ EntryAt(new, e, V, value)
      BY <2>4 DEF EntryWritten
    <3>5. e + 4 + n = e + 4 + n + (e - e) /\ e + 4 + n \in Nat /\ e + 4 + n <= Len(tlv)
      BY <1>0, <2>3
    <3> QED
      BY <3>1, <3>2, <3>3, <3>4, <3>5 DEF Spliced
  <2>8. EndWith(m, e, V, value) = e + 4 + n
    BY <1>2 DEF EndWith
  <2> QED
    BY <1>2, <2>3, <2>4, <2>5, <2>7, <2>8, LayoutPut DEF EntryWritten
<1> QED
  BY <1>1, <1>2

\* alloc succeeds if there is room at the end, or a value of the same length.
LEMMA AllocPossible ==
  ASSUME NEW tlv, NEW m, NEW pos, NEW e, Layout(tlv, m, pos, e),
         NEW S, OfKind(m, S), NEW V \in Types, get_account_type(V) = S,
         NEW value \in Seq(u8), Len(value) <= U16_MAX,
         IF V \in DOMAIN m THEN Len(m[V]) = Len(value) ELSE e + 4 + Len(value) <= Len(tlv)
  PROVE  alloc(S, tlv, V, value, TRUE) # {}
<1>0. tlv \in Seq(u8) /\ e \in Nat /\ e <= Len(tlv) /\ Len(value) \in Nat /\ Len(tlv) \in Nat
  BY DEF Layout
<1>1. CASE V \in DOMAIN m
  <2>1. PICK p : p = pos[V]
    OBVIOUS
  <2>2. Room(tlv, V, p)
    BY <1>1, <2>1, IndicesFound DEF FindResult, Room
  <2>3. /\ p \in Nat /\ Word(tlv, p + 2) = Len(value)
        /\ p + 4 + Len(value) <= Len(tlv)
    BY <1>0, <1>1, <2>1, LayoutEntry DEF Behind
  <2>4. Len(tlv) - p >= Len(value) + 4
    BY <1>0, <2>3
  <2>5. AllocOk(S, tlv, V, value, TRUE, p)
    BY <2>3, <2>4 DEF AllocOk
  <2> QED
    BY <2>2, <2>5, AllocPut
<1>2. CASE V \notin DOMAIN m
  <2>1. e + 4 + Len(value) <= Len(tlv) /\ e + 4 <= Len(tlv) /\ e + 2 <= Len(tlv)
    BY <1>0, <1>2
  <2>2. Room(tlv, V, e)
    BY <1>2, <2>1, IndicesFound DEF FindResult, Room
  <2>3. Word(tlv, e) = 0
    BY <2>1, EndIsZero
  <2>4. Len(tlv) - e >= Len(value) + 4
    BY <1>0, <2>1
  <2>5. AllocOk(S, tlv, V, value, TRUE, e)
    BY <2>3, <2>4 DEF AllocOk
  <2> QED
    BY <2>2, <2>5, AllocPut
<1> QED
  BY <1>1, <1>2

-----------------------------------------------------------------------------
(* realloc.                                                                *)

\* What realloc asks for, and what it writes, when the entry is at p.
ReallocOk(tlv, e, old, n) == (old < n => e + (n - old) <= Len(tlv)) /\ n <= U16_MAX

\* The search for V finds it at p.
FoundAt(tlv, V, p) == get_extension_indices(tlv, V, FALSE) = {get_tlv_indices(p)}

\* What realloc returns.
LEMMA ReallocIn ==
  ASSUME NEW tlv, NEW V, NEW value, NEW p, NEW e, FoundAt(tlv, V, p), UsedLen(tlv, e),
         NEW new \in realloc(tlv, V, value)
  PROVE  /\ ReallocOk(tlv, e, Word(tlv, p + 2), Len(value))
         /\ new = Write(Moved(tlv, get_tlv_indices(p), e, Word(tlv, p + 2), Len(value)),
                        p + 4, value)
<1>1. PICK at : /\ at = get_tlv_indices(p)
                /\ at.length_start = p + 2 /\ at.value_start = p + 4
  BY IndicesFields
<1>2. PICK info : get_tlv_data_info(tlv) = {info} /\ info.used_len = e
  <2>1. PICK q : get_tlv_data_info(tlv) = {[extension_types |-> q, used_len |-> e]}
    BY DEF UsedLen
  <2>2. [extension_types |-> q, used_len |-> e].used_len = e
    OBVIOUS
  <2> QED
    BY <2>1, <2>2
<1>3. get_extension_indices(tlv, V, FALSE) = {at}
  BY <1>1 DEF FoundAt
<1> DEFINE old == Word(tlv, at.length_start)
           n == Len(value)
           ok == (old < n => info.used_len + (n - old) <= Len(tlv)) /\ n <= U16_MAX
           r == Write(Moved(tlv, at, info.used_len, old, n), at.value_start, value)
           G(a, i) == OkIf(/\ Word(tlv, a.length_start) < n
                                => i.used_len + (n - Word(tlv, a.length_start)) <= Len(tlv)
                           /\ n <= U16_MAX,
                           Write(Moved(tlv, a, i.used_len, Word(tlv, a.length_start), n),
                                 a.value_start, value))
           H(a) == UNION {G(a, i) : i \in get_tlv_data_info(tlv)}
<1>4. realloc(tlv, V, value) = OkIf(ok, r)
  <2>1. realloc(tlv, V, value) = UNION {H(a) : a \in get_extension_indices(tlv, V, FALSE)}
    BY DEF realloc, Then
  <2>2. G(at, info) = OkIf(ok, r)
    OBVIOUS
  <2> HIDE DEF G
  <2>3. H(at) = G(at, info)
    BY <1>2
  <2> HIDE DEF H
  <2>4. realloc(tlv, V, value) = H(at)
    BY <1>3, <2>1
  <2> QED
    BY <2>2, <2>3, <2>4
<1>5. ok \in BOOLEAN
  OBVIOUS
<1> HIDE DEF ok, r
<1>6. (ok => OkIf(ok, r) = {r}) /\ (~ok => OkIf(ok, r) = {})
  BY <1>5, OkIfIs
<1>7. ok /\ new = r
  BY <1>4, <1>5, <1>6
<1>8. ReallocOk(tlv, e, Word(tlv, p + 2), Len(value))
  BY <1>1, <1>2, <1>7 DEF ok, ReallocOk
<1>9. new = Write(Moved(tlv, get_tlv_indices(p), e, Word(tlv, p + 2), Len(value)), p + 4, value)
  BY <1>1, <1>2, <1>7 DEF r
<1> QED
  BY <1>8, <1>9

\* The writes of realloc one after another: the length, the entries behind, the zeros.
LEMMA MovedIs ==
  ASSUME NEW tlv, NEW p \in Nat, NEW e \in Nat, NEW old \in Nat, NEW n \in Nat
  PROVE  \E a, b : /\ a = Write(tlv, p + 2, WordBytes(n))
                   /\ b = Write(a, p + 4 + n, Cut(a, p + 4 + old, e))
                   /\ Moved(tlv, get_tlv_indices(p), e, old, n)
                        = IF n < old THEN Write(b, e - (old - n), Zeros(old - n))
                                     ELSE Write(b, p + 4 + old, Zeros(n - old))
<1>1. PICK at : /\ at = get_tlv_indices(p)
                /\ at.length_start = p + 2 /\ at.value_start = p + 4
  BY IndicesFields
<1>2. PICK a : a = Write(tlv, p + 2, WordBytes(n))
  OBVIOUS
<1>3. PICK b : b = Write(a, p + 4 + n, Cut(a, p + 4 + old, e))
  OBVIOUS
<1>4. Moved(tlv, at, e, old, n)
        = IF n < old THEN Write(b, e - (old - n), Zeros(e - (e - (old - n))))
                     ELSE Write(b, p + 4 + old, Zeros(p + 4 + n - (p + 4 + old)))
  BY <1>1, <1>2, <1>3 DEF Moved, CopyWithin, Fill
<1>5. e - (e - (old - n)) = old - n /\ p + 4 + n - (p + 4 + old) = n - old
  OBVIOUS
<1>6. Moved(tlv, at, e, old, n)
        = IF n < old THEN Write(b, e - (old - n), Zeros(old - n))
                     ELSE Write(b, p + 4 + old, Zeros(n - old))
  BY <1>4, <1>5
<1> QED
  BY <1>1, <1>2, <1>3, <1>6

\* The bytes behind e are zero.
ZeroFrom(s, e) == \A i \in (e + 1)..Len(s) : s[i] = 0

\* c is the part of s from b to e.
CutOf(c, s, b, e) ==
  /\ c \in Seq(u8) /\ Len(c) = e - b
  /\ \A i \in 1..(e - b) : c[i] = s[b + i]

\* What Cut returns.
LEMMA CutIs ==
  ASSUME NEW s \in Seq(u8), NEW b \in Nat, NEW e \in Nat, b <= e, e <= Len(s)
  PROVE  CutOf(Cut(s, b, e), s, b, e)
BY CutProps DEF CutOf

\* What realloc writes for an entry of V at p with old bytes, where e bytes are used.
Rewritten(new, tlv, p, e, old, V, value) ==
  /\ tlv \in Seq(u8) /\ p \in Nat /\ e \in Nat /\ old \in Nat /\ V \in Types
  /\ value \in Seq(u8) /\ Len(value) <= U16_MAX
  /\ p + 4 + old <= e /\ e <= Len(tlv) /\ e + (Len(value) - old) <= Len(tlv)
  /\ tlv[p + 1] = V /\ tlv[p + 2] = 0 /\ ZeroFrom(tlv, e)
  /\ new = Write(Moved(tlv, get_tlv_indices(p), e, old, Len(value)), p + 4, value)

\* The bytes after realloc, whether the value grows or shrinks.
LEMMA ReallocBytes ==
  ASSUME NEW tlv, NEW p, NEW e, NEW old, NEW V, NEW value, NEW new,
         Rewritten(new, tlv, p, e, old, V, value)
  PROVE  /\ Len(new) = Len(tlv)
         /\ Spliced(new, tlv, p, p + 4 + old, e, V, value, e + Len(value) - old)
<1>0. /\ tlv \in Seq(u8) /\ p \in Nat /\ e \in Nat /\ old \in Nat /\ value \in Seq(u8)
      /\ p + 4 + old <= e /\ e <= Len(tlv) /\ e + (Len(value) - old) <= Len(tlv)
  BY DEF Rewritten
<1> USE <1>0
<1>40. Len(value) <= U16_MAX /\ V \in Types /\ tlv[p + 1] = V /\ tlv[p + 2] = 0 /\ ZeroFrom(tlv, e)
  BY DEF Rewritten
<1>1. PICK n \in Nat : n = Len(value)
  OBVIOUS
<1>2. PICK L \in Nat : L = Len(tlv)
  OBVIOUS
<1>3. PICK b \in Nat : b = p + 4 + old
  OBVIOUS
<1>4. PICK q \in Nat : q = p + 4 + n
  OBVIOUS
<1>5. PICK f \in Nat : f = e + n - old /\ f = q + (e - b) /\ q <= f /\ f <= L
  <2>1. PICK k \in Nat : e = b + k
    <3>1. e - b \in Nat /\ e = b + (e - b)
      BY <1>3
    <3> QED
      BY <3>1
  <2>2. q + k = e + n - old /\ q + k = q + (e - b) /\ q <= q + k /\ q + k \in Nat
    BY <1>3, <1>4, <2>1
  <2>3. q + k <= L
    BY <1>1, <1>2, <2>2
  <2> QED
    BY <2>2, <2>3
<1>6. b <= e /\ e <= L /\ p + 4 <= b /\ p + 4 <= q
  BY <1>2, <1>3, <1>4
<1>7. PICK a : /\ a = Write(tlv, p + 2, WordBytes(n))
               /\ a \in Seq(u8) /\ Len(a) = L
               /\ Word(a, p + 2) = n
               /\ \A k \in 1..L : k <= p + 2 \/ k > p + 4 => a[k] = tlv[k]
  <2>1. PICK i \in Nat : i = p + 2 /\ i + 2 <= Len(tlv) /\ i + 2 = p + 4
    BY <1>2, <1>6
  <2>2. FitsWord(n)
    BY <1>40, <1>1, FitsLen
  <2>3. PICK r : /\ r = Write(tlv, i, WordBytes(n))
                 /\ r \in Seq(u8) /\ Len(r) = Len(tlv)
                 /\ Word(r, i) = n
                 /\ \A k \in 1..Len(tlv) : k <= i \/ k > i + 2 => r[k] = tlv[k]
    BY <2>1, <2>2, WriteWord
  <2> QED
    BY <1>2, <2>1, <2>3
<1>31. a \in Seq(u8) /\ Len(a) = L
  BY <1>7
<1>8. PICK c : /\ c = Cut(a, b, e) /\ c \in Seq(u8) /\ Len(c) = e - b
               /\ \A i \in 1..(e - b) : c[i] = a[b + i]
  <2>1. e <= Len(a)
    BY <1>6, <1>31
  <2>2. PICK c : c = Cut(a, b, e)
    OBVIOUS
  <2>3. c \in Seq(u8) /\ Len(c) = e - b /\ \A i \in 1..(e - b) : c[i] = a[b + i]
    <3>1. /\ Cut(a, b, e) \in Seq(u8)
          /\ Len(Cut(a, b, e)) = e - b
          /\ \A i \in 1..(e - b) : Cut(a, b, e)[i] = a[b + i]
      <4>1. CutOf(Cut(a, b, e), a, b, e)
        BY <1>6, <1>31, <2>1, CutIs
      <4> QED
        BY <4>1 DEF CutOf
    <3> QED
      BY <2>2, <3>1
  <2> QED
    BY <2>2, <2>3
<1>9. PICK r2 : r2 = Write(a, q, c)
  OBVIOUS
<1>10. Written(r2, a, q, c)
  BY <1>7, <1>8, <1>9, WriteProps
<1>32. c \in Seq(u8) /\ Len(c) = e - b
  BY <1>8
<1>33. /\ \A k \in 1..L : k <= q \/ k > q + Len(c) => r2[k] = a[k]
       /\ \A j \in 1..Len(c) : q + j <= L => r2[q + j] = c[j]
  BY <1>10, <1>31 DEF Written
<1>11. PICK z : IF n < old THEN z = Zeros(old - n) ELSE z = Zeros(n - old)
  OBVIOUS
<1>12. /\ z \in Seq(u8) /\ Len(z) = (IF n < old THEN old - n ELSE n - old)
       /\ \A i \in 1..Len(z) : z[i] = 0
  <2>1. CASE n < old
    <3>1. old - n \in Nat
      BY <2>1
    <3> QED
      BY <1>11, <2>1, <3>1, ZerosProps
  <2>2. CASE ~(n < old)
    <3>1. n - old \in Nat
      BY <2>2
    <3> QED
      BY <1>11, <2>2, <3>1, ZerosProps
  <2> QED
    BY <2>1, <2>2
<1>13. PICK at \in Nat : at = (IF n < old THEN f ELSE b)
  OBVIOUS
<1>14. PICK r3 : r3 = Write(r2, at, z)
  OBVIOUS
<1>15. r2 \in Seq(u8) /\ Len(r2) = L
  BY <1>7, <1>10 DEF Written
<1>16. Written(r3, r2, at, z)
  BY <1>12, <1>14, <1>15, WriteProps
<1>34. z \in Seq(u8)
  BY <1>12
<1>35. /\ \A k \in 1..L : k <= at \/ k > at + Len(z) => r3[k] = r2[k]
       /\ \A j \in 1..Len(z) : at + j <= L => r3[at + j] = z[j]
  BY <1>15, <1>16 DEF Written
<1>17. r3 \in Seq(u8) /\ Len(r3) = L
  BY <1>15, <1>16 DEF Written
<1>18. PICK r4 : r4 = Write(r3, p + 4, value)
  OBVIOUS
<1>19. Written(r4, r3, p + 4, value)
  BY <1>17, <1>18, WriteProps
<1>20. r4 \in Seq(u8) /\ Len(r4) = L
  BY <1>17, <1>19 DEF Written
<1>21. new = r4
  <2>1. Moved(tlv, get_tlv_indices(p), e, old, n) = r3
    <3>1. PICK a2, b2 :
            /\ a2 = Write(tlv, p + 2, WordBytes(n))
            /\ b2 = Write(a2, p + 4 + n, Cut(a2, p + 4 + old, e))
            /\ Moved(tlv, get_tlv_indices(p), e, old, n)
                 = IF n < old THEN Write(b2, e - (old - n), Zeros(old - n))
                              ELSE Write(b2, p + 4 + old, Zeros(n - old))
      BY MovedIs
    <3>2. a2 = a
      BY <1>7, <3>1
    <3>3. b2 = r2
      BY <1>3, <1>4, <1>8, <1>9, <3>1, <3>2
    <3>4. e - (old - n) = f
      BY <1>5
    <3>5. CASE n < old
      BY <1>11, <1>13, <1>14, <3>1, <3>3, <3>4, <3>5
    <3>6. CASE ~(n < old)
      BY <1>3, <1>11, <1>13, <1>14, <3>1, <3>3, <3>6
    <3> QED
      BY <3>5, <3>6
  <2> QED
    BY <1>1, <1>18, <2>1 DEF Rewritten
<1>22. ASSUME NEW k \in 1..(p + 4) PROVE r4[k] = a[k]
  <2>1. k \in 1..L /\ k <= q /\ k <= at
    BY <1>3, <1>4, <1>5, <1>6, <1>13
  <2>2. r4[k] = r3[k]
    BY <1>17, <1>19, <2>1 DEF Written
  <2>3. r3[k] = r2[k]
    BY <1>35, <2>1
  <2>4. r2[k] = a[k]
    BY <1>33, <2>1
  <2> QED
    BY <2>2, <2>3, <2>4
<1>23. ASSUME NEW k \in 1..n PROVE r4[p + 4 + k] = value[k]
  <2>1. PICK i \in Nat : i = p + 4
    OBVIOUS
  <2>2. i + k <= Len(r3) /\ k \in 1..Len(value) /\ Written(r4, r3, i, value)
    BY <1>1, <1>4, <1>5, <1>17, <1>19, <2>1
  <2>3. r4[i + k] = value[k]
    BY <1>17, <2>2 DEF Written
  <2> QED
    BY <2>1, <2>3
<1>24. ASSUME NEW k \in 1..L, k > q PROVE r4[k] = r3[k]
  <2>1. k > p + 4 + Len(value)
    BY <1>1, <1>4, <1>24
  <2> QED
    BY <1>17, <1>19, <2>1 DEF Written
<1>25. ASSUME NEW k \in 1..(e - b) PROVE r4[q + k] = tlv[b + k]
  <2>1. PICK i \in Nat : i = q + k /\ i \in 1..L /\ i > q /\ i <= f
    BY <1>5, <1>6
  <2>2. r4[i] = r3[i]
    BY <1>24, <2>1
  <2>3. i <= at \/ i > at + Len(z)
    <3>1. CASE n < old
      BY <1>13, <2>1, <3>1
    <3>2. CASE ~(n < old)
      <4>1. Len(z) = n - old /\ at = b
        BY <1>12, <1>13, <3>2
      <4>2. b + (n - old) = q
        BY <1>3, <1>4
      <4> QED
        BY <2>1, <4>1, <4>2
    <3> QED
      BY <3>1, <3>2
  <2>4. r3[i] = r2[i]
    BY <1>35, <2>1, <2>3
  <2>5. r2[q + k] = c[k]
    <3>1. q + k <= L /\ k \in 1..Len(c)
      BY <1>32, <2>1
    <3> QED
      BY <1>33, <3>1
  <2>6. c[k] = a[b + k]
    BY <1>8
  <2>7. a[b + k] = tlv[b + k]
    <3>1. b + k \in 1..L /\ b + k > p + 4
      BY <1>6
    <3> QED
      BY <1>7, <3>1
  <2> QED
    BY <2>1, <2>2, <2>4, <2>5, <2>6, <2>7
<1>26. ASSUME NEW i \in (f + 1)..L PROVE r4[i] = 0
  <2>1. i \in Nat /\ i \in 1..L /\ i > q /\ i > f
    BY <1>5
  <2>2. r4[i] = r3[i]
    BY <1>24, <2>1
  <2>3. CASE n < old /\ i <= e
    <3>1. PICK k \in Nat : i = f + k
      <4>1. i - f \in Nat /\ i = f + (i - f)
        BY <2>1
      <4> QED
        BY <4>1
    <3>2. k \in 1..Len(z) /\ at = f /\ f + k <= Len(r2)
      <4>1. Len(z) = old - n /\ at = f
        BY <1>12, <1>13, <2>3
      <4>2. k <= old - n
        BY <1>5, <2>3, <3>1
      <4> QED
        BY <1>15, <2>1, <3>1, <4>1, <4>2
    <3>3. r3[f + k] = z[k]
      BY <1>15, <1>35, <3>2
    <3> QED
      BY <1>12, <2>2, <3>1, <3>2, <3>3
  <2>4. CASE ~(n < old /\ i <= e)
    <3>1. i > e
      BY <1>5, <2>1, <2>4
    <3>2. i > at + Len(z)
      <4>1. CASE n < old
        <5>1. Len(z) = old - n /\ at = f
          BY <1>12, <1>13, <4>1
        <5>2. f + (old - n) = e
          BY <1>5
        <5> QED
          BY <3>1, <5>1, <5>2
      <4>2. CASE ~(n < old)
        <5>1. Len(z) = n - old /\ at = b
          BY <1>12, <1>13, <4>2
        <5>2. b + (n - old) = q
          BY <1>3, <1>4
        <5> QED
          BY <2>1, <5>1, <5>2
      <4> QED
        BY <4>1, <4>2
    <3>3. r3[i] = r2[i]
      BY <1>35, <2>1, <3>2
    <3>4. i > q + Len(c)
      BY <1>5, <1>32, <2>1
    <3>5. r2[i] = a[i]
      BY <1>33, <2>1, <3>4
    <3>6. a[i] = tlv[i]
      <4>1. i > p + 4
        BY <1>6, <3>1
      <4> QED
        BY <1>7, <2>1, <4>1
    <3>7. tlv[i] = 0
      <4>1. i \in (e + 1)..Len(tlv)
        BY <1>2, <2>1, <3>1
      <4> QED
        BY <1>40, <4>1 DEF ZeroFrom
    <3> QED
      BY <2>2, <3>3, <3>5, <3>6, <3>7
  <2> QED
    BY <2>3, <2>4
<1>27. EntryAt(r4, p, V, value)
  <2>1. r4[p + 1] = V /\ r4[p + 2] = 0
    <3>1. /\ p + 1 \in 1..(p + 4) /\ p + 2 \in 1..(p + 4) /\ p + 1 \in 1..L /\ p + 2 \in 1..L
          /\ p + 1 <= p + 2
      BY <1>6
    <3>2. r4[p + 1] = a[p + 1] /\ r4[p + 2] = a[p + 2]
      BY <1>22, <3>1
    <3>3. a[p + 1] = tlv[p + 1] /\ a[p + 2] = tlv[p + 2]
      BY <1>7, <3>1
    <3> QED
      BY <1>40, <3>2, <3>3
  <2>2. Word(r4, p + 2) = n
    <3>1. p + 3 \in 1..(p + 4) /\ p + 4 \in 1..(p + 4)
      OBVIOUS
    <3>2. r4[p + 3] = a[p + 3] /\ r4[p + 4] = a[p + 4]
      BY <1>22, <3>1
    <3>3. p + 2 + 1 = p + 3 /\ p + 2 + 1 + 1 = p + 4
      OBVIOUS
    <3>4. Word(r4, p + 2) = Word(a, p + 2)
      BY <3>2, <3>3, Zenon DEF Word, Byte
    <3> QED
      BY <1>7, <3>4
  <2>3. p + 4 + Len(value) <= Len(r4)
    BY <1>1, <1>4, <1>5, <1>20
  <2> QED
    BY <1>40, <1>1, <1>23, <2>1, <2>2, <2>3 DEF EntryAt
<1>28. SameBytes(r4, 0, tlv, 0, p)
  <2>1. ASSUME NEW k \in 1..p PROVE r4[0 + k] = tlv[0 + k]
    <3>1. k \in 1..(p + 4) /\ k \in 1..L /\ k <= p + 2
      BY <1>6
    <3>2. r4[k] = a[k] /\ a[k] = tlv[k]
      BY <1>7, <1>22, <3>1
    <3> QED
      BY <3>2
  <2> QED
    BY <2>1 DEF SameBytes
<1>29. SameBytes(r4, p + 4 + Len(value), tlv, b, e - b)
  BY <1>1, <1>4, <1>25 DEF SameBytes
<1>30. Spliced(r4, tlv, p, b, e, V, value, f)
  <2>1. f = p + 4 + Len(value) + (e - b)
    BY <1>1, <1>4, <1>5
  <2> QED
    BY <1>5, <1>20, <1>26, <1>27, <1>28, <1>29, <2>1 DEF Spliced
<1> QED
  BY <1>1, <1>2, <1>3, <1>5, <1>20, <1>21, <1>30

-----------------------------------------------------------------------------
(* What a layout is read as.                                               *)

\* The used length of a layout,
LEMMA LayoutUsed ==
  ASSUME NEW tlv, NEW m, NEW pos, NEW e, Layout(tlv, m, pos, e)
  PROVE  UsedLen(tlv, e)
BY DataInfo

\* and the place of an entry.
LEMMA LayoutFound ==
  ASSUME NEW tlv, NEW m, NEW pos, NEW e, Layout(tlv, m, pos, e),
         NEW S, OfKind(m, S), NEW V \in DOMAIN m, get_account_type(V) = S
  PROVE  FoundAt(tlv, V, pos[V])
<1>1. V \in Types
  BY LayoutEntry
<1>2. get_extension_indices(tlv, V, FALSE) = FindResult(tlv, m, pos, e, V, FALSE)
  BY <1>1, IndicesFound
<1> QED
  BY <1>2 DEF FindResult, FoundAt

\* realloc puts the value.
LEMMA ReallocLayout ==
  ASSUME NEW tlv, NEW m, NEW pos, NEW e, Layout(tlv, m, pos, e),
         NEW S, OfKind(m, S), NEW V \in DOMAIN m, get_account_type(V) = S,
         NEW value \in Seq(u8), NEW new \in realloc(tlv, V, value)
  PROVE  /\ new \in Seq(u8) /\ Len(new) = Len(tlv) /\ Len(value) <= U16_MAX
         /\ \E to : Layout(new, Put(m, V, value), to, EndWith(m, e, V, value))
<1>1. tlv \in Seq(u8) /\ e \in Nat /\ e <= Len(tlv) /\ ZeroFrom(tlv, e)
  BY DEF Layout, ZeroFrom
<1>2. PICK p : p = pos[V]
  OBVIOUS
<1>3. PICK old : old = Len(m[V])
  OBVIOUS
<1>4. /\ V \in Types /\ p \in Nat /\ old \in Nat /\ p + 4 + old <= e
      /\ Word(tlv, p + 2) = old /\ Behind(m, pos, V) = p + 4 + old
  BY <1>2, <1>3, LayoutEntry DEF Behind
<1>5. tlv[p + 1] = V /\ tlv[p + 2] = 0
  <2>1. EntryAt(tlv, pos[V], V, m[V])
    BY DEF Layout
  <2> QED
    BY <1>2, <2>1 DEF EntryAt
<1>6. FoundAt(tlv, V, p) /\ UsedLen(tlv, e)
  BY <1>2, LayoutFound, LayoutUsed
<1>7. /\ ReallocOk(tlv, e, old, Len(value))
      /\ new = Write(Moved(tlv, get_tlv_indices(p), e, old, Len(value)), p + 4, value)
  <2>1. /\ ReallocOk(tlv, e, Word(tlv, p + 2), Len(value))
        /\ new = Write(Moved(tlv, get_tlv_indices(p), e, Word(tlv, p + 2), Len(value)),
                       p + 4, value)
    BY <1>6, ReallocIn
  <2> QED
    BY <1>4, <2>1, Zenon
<1>8. Len(value) <= U16_MAX /\ e + (Len(value) - old) <= Len(tlv)
  <2>1. Len(tlv) \in Nat /\ Len(value) \in Nat
    BY <1>1
  <2>2. Len(value) <= U16_MAX /\ (old < Len(value) => e + (Len(value) - old) <= Len(tlv))
    BY <1>7 DEF ReallocOk
  <2> QED
    BY <1>1, <1>4, <2>1, <2>2
<1>9. /\ Len(new) = Len(tlv)
      /\ Spliced(new, tlv, p, p + 4 + old, e, V, value, e + Len(value) - old)
  <2>1. Rewritten(new, tlv, p, e, old, V, value)
    BY <1>1, <1>4, <1>5, <1>7, <1>8, Zenon DEF Rewritten
  <2> QED
    BY <2>1, ReallocBytes
<1>10. PICK b : b = p + 4 + old
  OBVIOUS
<1>11. Place(m, pos, e, V, p, b)
  BY <1>2, <1>4, <1>10 DEF Place
<1>12. EndWith(m, e, V, value) = e + Len(value) - old
  BY <1>3 DEF EndWith
<1>13. Spliced(new, tlv, p, b, e, V, value, EndWith(m, e, V, value))
  BY <1>9, <1>10, <1>12
<1>14. \E to : Layout(new, Put(m, V, value), to, EndWith(m, e, V, value))
  BY <1>4, <1>11, <1>13, LayoutPut
<1>15. new \in Seq(u8)
  BY <1>13 DEF Spliced
<1> QED
  BY <1>8, <1>9, <1>14, <1>15

\* get_extension_bytes returns the value of the map.
LEMMA LayoutBytes ==
  ASSUME NEW tlv, NEW m, NEW pos, NEW e, Layout(tlv, m, pos, e),
         NEW S, OfKind(m, S), NEW V \in Types, get_account_type(V) = S
  PROVE  get_extension_bytes(S, tlv, V) = IF V \in DOMAIN m THEN {m[V]} ELSE {}
<1>1. CASE V \in DOMAIN m
  <2>1. PICK p : p = pos[V]
    OBVIOUS
  <2>2. PICK at : /\ at = get_tlv_indices(p)
                  /\ at.length_start = p + 2 /\ at.value_start = p + 4
    BY IndicesFields
  <2>3. get_extension_indices(tlv, V, FALSE) = {at}
    <3>1. FoundAt(tlv, V, p)
      BY <1>1, <2>1, LayoutFound
    <3> QED
      BY <2>2, <3>1 DEF FoundAt
  <2>4. PICK n : n = Len(m[V])
    OBVIOUS
  <2>5. /\ p \in Nat /\ n \in Nat /\ p + 4 + n <= Len(tlv) /\ Word(tlv, p + 2) = n
        /\ m[V] \in Seq(u8) /\ tlv \in Seq(u8)
        /\ \A k \in 1..n : tlv[p + 4 + k] = m[V][k]
    <3>1. /\ pos[V] \in Nat /\ m[V] \in Seq(u8) /\ Len(m[V]) \in Nat
          /\ Behind(m, pos, V) = pos[V] + 4 + Len(m[V])
          /\ Behind(m, pos, V) <= e /\ e \in Nat /\ e <= Len(tlv)
          /\ Word(tlv, pos[V] + 2) = Len(m[V])
          /\ \A k \in 1..Len(m[V]) : tlv[pos[V] + 4 + k] = m[V][k]
      BY <1>1, LayoutEntry DEF Behind
    <3>2. tlv \in Seq(u8)
      BY DEF Layout
    <3> QED
      BY <1>1, <2>1, <2>4, <3>1, <3>2
  <2>6. PICK c : c = Cut(tlv, p + 4, p + 4 + n)
    OBVIOUS
  <2>7. c \in Seq(u8) /\ Len(c) = n /\ \A k \in 1..n : c[k] = tlv[p + 4 + k]
    <3>1. PICK from \in Nat, to \in Nat : /\ from = p + 4 /\ to = p + 4 + n /\ from <= to
                                          /\ to <= Len(tlv) /\ to - from = n
      BY <2>5
    <3>3. tlv \in Seq(u8)
      BY <2>5
    <3>2. /\ Cut(tlv, from, to) \in Seq(u8) /\ Len(Cut(tlv, from, to)) = to - from
          /\ \A i \in 1..(to - from) : Cut(tlv, from, to)[i] = tlv[from + i]
      BY <3>1, <3>3, CutProps
    <3> QED
      BY <2>6, <3>1, <3>2
  <2>8. c = m[V]
    <3>1. Len(m[V]) = n
      BY <2>4
    <3>2. \A k \in 1..Len(c) : c[k] = m[V][k]
      BY <2>5, <2>7
    <3> QED
      BY <2>5, <2>7, <3>1, <3>2, SameSeq
  <2>9. get_extension_bytes(S, tlv, V) = {c}
    <3>1. at.value_start + Word(tlv, at.length_start) = p + 4 + n
      BY <2>2, <2>5
    <3>2. {a \in get_extension_indices(tlv, V, FALSE) :
             /\ get_account_type(V) = S
             /\ a.value_start + Word(tlv, a.length_start) <= Len(tlv)} = {at}
      BY <2>3, <2>5, <3>1
    <3>3. Cut(tlv, at.value_start, at.value_start + Word(tlv, at.length_start)) = c
      BY <2>2, <2>6, <3>1
    <3> QED
      BY <3>2, <3>3 DEF get_extension_bytes
  <2> QED
    BY <1>1, <2>8, <2>9
<1>2. CASE V \notin DOMAIN m
  <2>1. get_extension_indices(tlv, V, FALSE) = {}
    BY <1>2, IndicesFound DEF FindResult
  <2>2. get_extension_bytes(S, tlv, V) = {}
    BY <2>1 DEF get_extension_bytes
  <2> QED
    BY <1>2, <2>2
<1> QED
  BY <1>1, <1>2

\* What an entry takes now, and the size of the account with an entry of this length.
Taken(m, V) == IF V \in DOMAIN m THEN Len(m[V]) + 4 ELSE 0
\* The length of the account when V has a value of this length.
LenWith(m, e, V, length) ==
  adjust_len_for_multisig(e + ACCOUNT_LEN + 1 - Taken(m, V) + (length + 4))

\* try_get_new_account_len_for_extension_len adds what the value needs more.
LEMMA NewLen ==
  ASSUME NEW tlv, NEW m, NEW pos, NEW e, Layout(tlv, m, pos, e),
         NEW S, OfKind(m, S), NEW V \in Types, get_account_type(V) = S, NEW length,
         NEW n \in try_get_new_account_len_for_extension_len(S, tlv, V, length)
  PROVE  n = LenWith(m, e, V, length)
<1>1. PICK info : get_tlv_data_info(tlv) = {info} /\ info.used_len = e
  <2>1. PICK q : get_tlv_data_info(tlv) = {[extension_types |-> q, used_len |-> e]}
    BY LayoutUsed DEF UsedLen
  <2>2. [extension_types |-> q, used_len |-> e].used_len = e
    OBVIOUS
  <2> QED
    BY <2>1, <2>2
<1>2. PICK bytes : bytes = get_extension_bytes(S, tlv, V)
  OBVIOUS
<1>3. (IF bytes = {} THEN 0 ELSE add_type_and_length_to_len(Len(CHOOSE b \in bytes : TRUE)))
        = Taken(m, V)
  <2>1. bytes = IF V \in DOMAIN m THEN {m[V]} ELSE {}
    BY <1>2, LayoutBytes
  <2>2. CASE V \in DOMAIN m
    <3>1. bytes = {m[V]}
      BY <2>1, <2>2
    <3>2. (CHOOSE b \in bytes : TRUE) = m[V]
      BY <3>1
    <3> QED
      BY <2>2, <3>1, <3>2 DEF Taken, add_type_and_length_to_len
  <2>3. CASE V \notin DOMAIN m
    BY <2>1, <2>3 DEF Taken
  <2> QED
    BY <2>2, <2>3
<1>4. try_get_new_account_len_for_extension_len(S, tlv, V, length)
        = {adjust_len_for_multisig(info.used_len + ACCOUNT_LEN + 1 - Taken(m, V)
                                     + add_type_and_length_to_len(length))}
  <2>1. try_get_new_account_len_for_extension_len(S, tlv, V, length)
          = { adjust_len_for_multisig(i.used_len + ACCOUNT_LEN + 1 - Taken(m, V)
                                        + add_type_and_length_to_len(length)) :
                i \in get_tlv_data_info(tlv) }
    BY <1>2, <1>3, Zenon DEF try_get_new_account_len_for_extension_len
  <2> QED
    BY <1>1, <2>1
<1> QED
  BY <1>1, <1>4 DEF LenWith, add_type_and_length_to_len

-----------------------------------------------------------------------------
(* Sizes.                                                                  *)

\* What the entries of these types take.
Sum(T) == Total([V \in T |-> add_type_and_length_to_len(type_len[V])], T)

\* Sizes that fit an entry, for every type in use.
LEMMA SizeOfType ==
  ASSUME NEW V \in InUse
  PROVE  /\ type_len[V] \in Nat /\ type_len[V] <= U16_MAX
         /\ V \in Types /\ sized(V) /\ V # TokenMetadata
<1>1. type_len[V] \in 0..U16_MAX /\ V \in {W \in MintTypes \cup AccountTypes : sized(W)}
  BY LayoutAssumption DEF InUse
<1>2. U16_MAX \in Nat
  BY LayoutAssumption
<1> QED
  BY <1>1, <1>2 DEF Types, sized

\* There are finitely many types in use.
LEMMA FiniteTypes ==
  ASSUME NEW T, T \subseteq InUse
  PROVE  IsFiniteSet(T)
<1>1. PICK n \in Nat : n = 23
  OBVIOUS
<1>3. IsFiniteSet(1..n)
  BY FS_Interval
<1>2. T \subseteq 1..n
  BY <1>1, SizeOfType, TypeNumbers
<1> QED
  BY <1>3, <1>2, FS_Subset

\* The size of the entry of every type in use.
Sized == [V \in InUse |-> add_type_and_length_to_len(type_len[V])]

\* The size of an entry with a value of fixed length.
LEMMA SizedNat ==
  ASSUME NEW V \in InUse
  PROVE  Sized[V] \in Nat /\ Sized[V] = type_len[V] + 4
BY SizeOfType DEF Sized, add_type_and_length_to_len

\* The sum of sizes is a total, and a number;
LEMMA SumIs ==
  ASSUME NEW T, T \subseteq InUse
  PROVE  Sum(T) = Total(Sized, T) /\ Sum(T) \in Nat
<1> DEFINE f == [V \in T |-> add_type_and_length_to_len(type_len[V])]
<1>1. \A V \in T : f[V] = Sized[V]
  BY DEF Sized
<1>2. Total(f, T) = Total(Sized, T)
  BY <1>1, TotalSame
<1>3. IsFiniteSet(T) /\ \A V \in T : Sized[V] \in Nat
  BY FiniteTypes, SizedNat
<1>4. Total(Sized, T) \in Nat
  BY <1>3, TotalType
<1> QED
  BY <1>2, <1>4 DEF Sum

\* it is 0 for no types,
LEMMA SumEmpty == Sum({}) = 0
BY SumIs, TotalZero

\* grows by one more type,
LEMMA SumMore ==
  ASSUME NEW T, T \subseteq InUse, NEW V \in InUse, V \notin T
  PROVE  Sum(T \cup {V}) = Sum(T) + type_len[V] + 4
<1> DEFINE U == T \cup {V}
<1>1. U \subseteq InUse /\ V \in U /\ U \ {V} = T
  OBVIOUS
<1>2. IsFiniteSet(U) /\ \A W \in U : Sized[W] \in Nat
  BY <1>1, FiniteTypes, SizedNat
<1>3. Sum(U) = Total(Sized, U) /\ Sum(T) = Total(Sized, T) /\ Sum(T) \in Nat
  BY <1>1, SumIs
<1>4. Total(Sized, U) = Sized[V] + Total(Sized, U \ {V})
  <2> HIDE DEF U
  <2> QED
    BY <1>1, <1>2, TotalElement
<1>5. Total(Sized, U) = Sized[V] + Total(Sized, T)
  BY <1>1, <1>4
<1>6. Sized[V] = type_len[V] + 4 /\ type_len[V] \in Nat
  BY SizedNat, SizeOfType
<1> QED
  BY <1>3, <1>5, <1>6

\* is at most that of more types,
LEMMA SumMonotone ==
  ASSUME NEW T, NEW U, T \subseteq U, U \subseteq InUse
  PROVE  Sum(T) <= Sum(U)
<1>1. IsFiniteSet(U) /\ \A W \in U : Sized[W] \in Nat
  BY FiniteTypes, SizedNat
<1>2. /\ Total(Sized, U) = Total(Sized, T) + Total(Sized, U \ T)
      /\ Total(Sized, T) \in Nat /\ Total(Sized, U \ T) \in Nat
  BY <1>1, TotalPart
<1>3. Sum(U) = Total(Sized, U) /\ Sum(T) = Total(Sized, T)
  BY SumIs
<1> QED
  BY <1>2, <1>3

\* and at least 4 if there is any type.
LEMMA SumSome ==
  ASSUME NEW T, T \subseteq InUse, T # {}
  PROVE  Sum(T) >= 4
<1>1. PICK V \in T : TRUE
  OBVIOUS
<1>2. Sum({V}) <= Sum(T)
  BY SumMonotone
<1>3. Sum({} \cup {V}) = Sum({}) + type_len[V] + 4
  BY SumMore
<1>4. type_len[V] \in Nat /\ Sum(T) \in Nat
  BY SizeOfType, SumIs
<1>5. {} \cup {V} = {V}
  OBVIOUS
<1>6. Sum({V}) = type_len[V] + 4
  BY <1>3, <1>5, SumEmpty, <1>4
<1> QED
  BY <1>2, <1>4, <1>6

-----------------------------------------------------------------------------
(* The base state and the account type.                                    *)

\* The kinds of accounts with extensions.
Kinds == {"Mint", "Account"}

\* The sizes and type bytes of the kinds of accounts.
LEMMA Sizes ==
  ASSUME NEW S \in Kinds
  PROVE  /\ SizeOf(S) \in Nat /\ 1 <= SizeOf(S) /\ SizeOf(S) <= ACCOUNT_LEN
         /\ MINT_LEN \in Nat /\ ACCOUNT_LEN \in Nat /\ MULTISIG_LEN \in Nat
         /\ MINT_LEN < ACCOUNT_LEN /\ ACCOUNT_LEN < MULTISIG_LEN
         /\ S = "Mint" => SizeOf(S) = MINT_LEN
         /\ S = "Account" => SizeOf(S) = ACCOUNT_LEN
         /\ TypeByte(S) \in u8 /\ TypeByte(S) # 0
         /\ TypeByte("Mint") # TypeByte("Account")
<1>1. /\ MINT_LEN \in Nat \ {0} /\ ACCOUNT_LEN \in Nat /\ MULTISIG_LEN \in Nat
      /\ MINT_LEN < ACCOUNT_LEN /\ ACCOUNT_LEN < MULTISIG_LEN
  BY LayoutAssumption
<1>2. TypeByte("Mint") = 1 /\ TypeByte("Account") = 2
  BY DEF TypeByte
<1>3. 1 \in u8 /\ 2 \in u8
  BY DEF u8
<1> QED
  BY <1>1, <1>2, <1>3 DEF SizeOf, Kinds

\* The bytes between two places are zero.
ZeroBetween(d, from, to) == \A i \in 1..Len(d) : from < i /\ i <= to => d[i] = 0

\* What tells the kind of an account: nothing before it is initialized, then the byte of
\* the base state and, when there is more than the base, the account type.
Base(d, K) ==
  \/ /\ K = "Uninitialized"
     /\ ZeroBetween(d, 0, ACCOUNT_LEN + 1)
  \/ /\ K \in Kinds
     /\ Len(d) # MULTISIG_LEN /\ SizeOf(K) <= Len(d)
     /\ d[SizeOf(K)] = 1
     /\ \/ Len(d) = SizeOf(K)
        \/ Len(d) > ACCOUNT_LEN + 1 /\ d[ACCOUNT_LEN + 1] = TypeByte(K)
     /\ K = "Mint" => ZeroBetween(d, MINT_LEN, ACCOUNT_LEN)

\* What unpacking with a type byte requires.
UnpackOk(S, d, initialized, type) ==
  /\ check_min_len_and_not_multisig(S, d)
  /\ is_initialized(S, d) = initialized
  /\ HasType(S, d) => type_and_tlv_indices(S, d) /\ AccountTypeByte(d) = type

\* What unpacking with a type byte requires.
LEMMA UnpackIs ==
  ASSUME NEW S, NEW d, NEW initialized \in BOOLEAN, NEW type
  PROVE  /\ UnpackOk(S, d, initialized, type)
              => UnpackTyped(S, d, initialized, type) = {Entries(d)}
         /\ ~UnpackOk(S, d, initialized, type) => UnpackTyped(S, d, initialized, type) = {}
<1> DEFINE ok == UnpackOk(S, d, initialized, type)
<1>1. ok \in BOOLEAN
  BY DEF UnpackOk
<1>2. UnpackTyped(S, d, initialized, type) = OkIf(ok, Entries(d))
  BY DEF UnpackTyped, UnpackOk
<1> HIDE DEF ok
<1>3. (ok => OkIf(ok, Entries(d)) = {Entries(d)}) /\ (~ok => OkIf(ok, Entries(d)) = {})
  BY <1>1, OkIfIs
<1>4. /\ ok => UnpackTyped(S, d, initialized, type) = {Entries(d)}
      /\ ~ok => UnpackTyped(S, d, initialized, type) = {}
  BY <1>2, <1>3
<1> QED
  BY <1>4 DEF ok

\* The bytes that unpack looks at, one by one.
LEMMA UnpackOkIs ==
  ASSUME NEW S \in Kinds, NEW d \in Seq(u8), NEW initialized \in BOOLEAN, NEW type
  PROVE  UnpackOk(S, d, initialized, type) <=>
           /\ Len(d) # MULTISIG_LEN /\ SizeOf(S) <= Len(d)
           /\ (d[SizeOf(S)] # 0) = initialized
           /\ Len(d) > SizeOf(S) =>
                /\ Len(d) > ACCOUNT_LEN + 1
                /\ ZeroBetween(d, SizeOf(S), ACCOUNT_LEN)
                /\ d[ACCOUNT_LEN + 1] = type
<1>1. PICK z \in Nat : z = SizeOf(S) /\ 1 <= z /\ z <= ACCOUNT_LEN
  BY Sizes
<1>2. PICK n \in Nat : n = Len(d)
  OBVIOUS
<1>3. ACCOUNT_LEN \in Nat
  BY Sizes
<1>4. Byte(d, SizeOf(S) - 1) = d[SizeOf(S)]
  <2>1. z - 1 + 1 = z
    BY <1>1
  <2> QED
    BY <1>1, <2>1 DEF Byte
<1>5. Byte(d, ACCOUNT_LEN) = d[ACCOUNT_LEN + 1]
  BY DEF Byte
<1>6. ASSUME n > ACCOUNT_LEN + 1
      PROVE  (\A i \in z..(ACCOUNT_LEN - 1) : Byte(d, i) = 0) <=> ZeroBetween(d, z, ACCOUNT_LEN)
  <2>1. ASSUME \A i \in z..(ACCOUNT_LEN - 1) : Byte(d, i) = 0, NEW k \in 1..n, z < k, k <= ACCOUNT_LEN
        PROVE  d[k] = 0
    <3>1. PICK i \in Int : i = k - 1
      OBVIOUS
    <3>2. i \in z..(ACCOUNT_LEN - 1) /\ i + 1 = k
      BY <1>1, <1>3, <2>1, <3>1
    <3>3. Byte(d, i) = 0
      BY <2>1, <3>2
    <3> QED
      BY <3>2, <3>3 DEF Byte
  <2>2. ASSUME ZeroBetween(d, z, ACCOUNT_LEN), NEW i \in z..(ACCOUNT_LEN - 1)
        PROVE  Byte(d, i) = 0
    <3>1. PICK k \in Int : k = i + 1
      BY <1>1, <1>3
    <3>2. k \in 1..n /\ z < k /\ k <= ACCOUNT_LEN
      BY <1>1, <1>3, <1>6, <3>1
    <3>3. d[k] = 0
      BY <1>2, <2>2, <3>2 DEF ZeroBetween
    <3> QED
      BY <3>1, <3>3 DEF Byte
  <2> QED
    BY <1>2, <2>1, <2>2 DEF ZeroBetween
<1>7. type_and_tlv_indices(S, d) <=> n > ACCOUNT_LEN + 1 /\ ZeroBetween(d, z, ACCOUNT_LEN)
  BY <1>1, <1>2, <1>6 DEF type_and_tlv_indices
<1>8. check_min_len_and_not_multisig(S, d) <=> n # MULTISIG_LEN /\ z <= n
  BY <1>1, <1>2 DEF check_min_len_and_not_multisig
<1>9. is_initialized(S, d) = (d[z] # 0)
  BY <1>1, <1>4 DEF is_initialized
<1>10. HasType(S, d) <=> n > z
  BY <1>1, <1>2 DEF HasType
<1>11. AccountTypeByte(d) = d[ACCOUNT_LEN + 1]
  BY <1>5 DEF AccountTypeByte
<1> QED
  BY <1>1, <1>2, <1>7, <1>8, <1>9, <1>10, <1>11, Zenon DEF UnpackOk

\* One of the bytes that are zero.
LEMMA ZeroAt ==
  ASSUME NEW d, NEW from, NEW to, ZeroBetween(d, from, to), NEW i \in 1..Len(d),
         from < i, i <= to
  PROVE  d[i] = 0
BY DEF ZeroBetween

\* A part of the bytes that are zero.
LEMMA ZeroPart ==
  ASSUME NEW d, NEW from \in Nat, NEW to \in Nat, ZeroBetween(d, from, to), Len(d) \in Nat,
         NEW lo \in Nat, NEW hi \in Nat, from <= lo, hi <= to
  PROVE  ZeroBetween(d, lo, hi)
BY DEF ZeroBetween

\* An account is unpacked as what it is initialized as, and as nothing else.
LEMMA UnpackBase ==
  ASSUME NEW S \in Kinds, NEW d \in Seq(u8), NEW K, Base(d, K)
  PROVE  unpack(S, d) = IF K = S THEN {Entries(d)} ELSE {}
<1>1. PICK n \in Nat : n = Len(d)
  OBVIOUS
<1>2. /\ SizeOf(S) \in Nat /\ 1 <= SizeOf(S) /\ SizeOf(S) <= ACCOUNT_LEN
      /\ ACCOUNT_LEN \in Nat /\ MINT_LEN \in Nat /\ MINT_LEN < ACCOUNT_LEN
      /\ S = "Mint" => SizeOf(S) = MINT_LEN
      /\ S = "Account" => SizeOf(S) = ACCOUNT_LEN
  BY Sizes
<1>3. CASE K = S
  <2>1. /\ n # MULTISIG_LEN /\ SizeOf(S) <= n
        /\ d[SizeOf(S)] = 1
        /\ n = SizeOf(S) \/ (n > ACCOUNT_LEN + 1 /\ d[ACCOUNT_LEN + 1] = TypeByte(S))
        /\ S = "Mint" => ZeroBetween(d, MINT_LEN, ACCOUNT_LEN)
    BY <1>1, <1>3 DEF Base, Kinds
  <2>2. (d[SizeOf(S)] # 0) = TRUE
    BY <2>1
  <2>3. ZeroBetween(d, SizeOf(S), ACCOUNT_LEN)
    <3>1. CASE S = "Mint"
      BY <1>2, <2>1, <3>1
    <3>2. CASE S = "Account"
      BY <1>2, <3>2 DEF ZeroBetween
    <3> QED
      BY <3>1, <3>2 DEF Kinds
  <2>4. UnpackOk(S, d, TRUE, TypeByte(S))
    <3>1. UnpackOk(S, d, TRUE, TypeByte(S)) <=>
            /\ Len(d) # MULTISIG_LEN /\ SizeOf(S) <= Len(d)
            /\ (d[SizeOf(S)] # 0) = TRUE
            /\ Len(d) > SizeOf(S) =>
                 /\ Len(d) > ACCOUNT_LEN + 1
                 /\ ZeroBetween(d, SizeOf(S), ACCOUNT_LEN)
                 /\ d[ACCOUNT_LEN + 1] = TypeByte(S)
      BY UnpackOkIs, Zenon
    <3>2. Len(d) > SizeOf(S) => Len(d) > ACCOUNT_LEN + 1 /\ d[ACCOUNT_LEN + 1] = TypeByte(S)
      BY <1>1, <1>2, <2>1
    <3>3. Len(d) # MULTISIG_LEN /\ SizeOf(S) <= Len(d)
      BY <1>1, <2>1
    <3> QED
      BY <2>2, <2>3, <3>1, <3>2, <3>3, Zenon
  <2> QED
    BY <1>3, <2>4, UnpackIs DEF unpack
<1>4. CASE K # S
  <2>1. ~UnpackOk(S, d, TRUE, TypeByte(S))
    <3>1. SUFFICES ASSUME UnpackOk(S, d, TRUE, TypeByte(S)) PROVE FALSE
      OBVIOUS
    <3>2. /\ n # MULTISIG_LEN /\ SizeOf(S) <= n
          /\ (d[SizeOf(S)] # 0) = TRUE
          /\ n > SizeOf(S) =>
                /\ n > ACCOUNT_LEN + 1
                /\ d[ACCOUNT_LEN + 1] = TypeByte(S)
      BY <1>1, <3>1, UnpackOkIs
    <3>3. SizeOf(S) \in 1..n /\ d[SizeOf(S)] # 0
      BY <1>1, <1>2, <3>2
    <3>4. CASE K = "Uninitialized"
      <4>1. ZeroBetween(d, 0, ACCOUNT_LEN + 1)
        BY <3>4 DEF Base, Kinds
      <4> QED
        BY <1>1, <1>2, <3>3, <4>1, ZeroAt
    <3>5. CASE K = "Mint"
      <4>1. S = "Account" /\ SizeOf(S) = ACCOUNT_LEN /\ SizeOf(K) = MINT_LEN
        BY <1>2, <1>4, <3>5 DEF Kinds, SizeOf
      <4>2. ZeroBetween(d, MINT_LEN, ACCOUNT_LEN)
        BY <3>5 DEF Base, Kinds
      <4> QED
        BY <1>1, <1>2, <3>3, <4>1, <4>2, ZeroAt
    <3>6. CASE K = "Account"
      <4>1. S = "Mint" /\ SizeOf(S) = MINT_LEN /\ SizeOf(K) = ACCOUNT_LEN
        BY <1>2, <1>4, <3>6 DEF Kinds, SizeOf
      <4>2. /\ n = SizeOf(K) \/ (n > ACCOUNT_LEN + 1 /\ d[ACCOUNT_LEN + 1] = TypeByte(K))
            /\ SizeOf(K) <= n
        BY <1>1, <3>6 DEF Base, Kinds
      <4>3. n > ACCOUNT_LEN + 1 /\ d[ACCOUNT_LEN + 1] = TypeByte(S)
        BY <1>2, <3>2, <4>1, <4>2
      <4>4. d[ACCOUNT_LEN + 1] = TypeByte(K)
        BY <1>2, <4>1, <4>2, <4>3
      <4> QED
        BY <3>6, <4>1, <4>3, <4>4, Sizes
    <3> QED
      BY <3>4, <3>5, <3>6 DEF Base, Kinds
  <2> QED
    BY <1>4, <2>1, UnpackIs DEF unpack
<1> QED
  BY <1>3, <1>4

\* The sizes an account that is not initialized can be unpacked at.
FreshSize(S, n) ==
  n # MULTISIG_LEN /\ SizeOf(S) <= n /\ (n > SizeOf(S) => n > ACCOUNT_LEN + 1)

\* What unpack_uninitialized reads, before it looks at the extension types.
LEMMA FreshBase ==
  ASSUME NEW S \in Kinds, NEW d \in Seq(u8), NEW K, Base(d, K)
  PROVE  UnpackTyped(S, d, FALSE, 0)
           = IF K = "Uninitialized" /\ FreshSize(S, Len(d)) THEN {Entries(d)} ELSE {}
<1>1. PICK n \in Nat : n = Len(d)
  OBVIOUS
<1>2. /\ SizeOf(S) \in Nat /\ 1 <= SizeOf(S) /\ SizeOf(S) <= ACCOUNT_LEN
      /\ ACCOUNT_LEN \in Nat /\ MINT_LEN \in Nat /\ MINT_LEN < ACCOUNT_LEN
      /\ S = "Mint" => SizeOf(S) = MINT_LEN
      /\ S = "Account" => SizeOf(S) = ACCOUNT_LEN
  BY Sizes
<1>3. CASE K = "Uninitialized"
  <2>1. ZeroBetween(d, 0, ACCOUNT_LEN + 1)
    BY <1>3 DEF Base, Kinds
  <2>2. ASSUME FreshSize(S, n) PROVE UnpackOk(S, d, FALSE, 0)
    <3>1. /\ n # MULTISIG_LEN /\ SizeOf(S) <= n
          /\ n > SizeOf(S) => n > ACCOUNT_LEN + 1
      BY <2>2 DEF FreshSize
    <3>2. (d[SizeOf(S)] # 0) = FALSE
      BY <1>1, <1>2, <2>1, <3>1, ZeroAt
    <3>3. ZeroBetween(d, SizeOf(S), ACCOUNT_LEN)
      BY <1>1, <1>2, <2>1, ZeroPart
    <3>4. n > ACCOUNT_LEN + 1 => d[ACCOUNT_LEN + 1] = 0
      BY <1>1, <1>2, <2>1, ZeroAt
    <3> QED
      BY <1>1, <3>1, <3>2, <3>3, <3>4, UnpackOkIs
  <2>3. ASSUME UnpackOk(S, d, FALSE, 0) PROVE FreshSize(S, n)
    BY <1>1, <2>3, UnpackOkIs DEF FreshSize
  <2> QED
    BY <1>1, <1>3, <2>2, <2>3, UnpackIs
<1>4. CASE K # "Uninitialized"
  <2>1. ~UnpackOk(S, d, FALSE, 0)
    <3>1. SUFFICES ASSUME UnpackOk(S, d, FALSE, 0) PROVE FALSE
      OBVIOUS
    <3>2. /\ SizeOf(S) <= n
          /\ (d[SizeOf(S)] # 0) = FALSE
          /\ n > SizeOf(S) =>
                /\ n > ACCOUNT_LEN + 1
                /\ d[ACCOUNT_LEN + 1] = 0
      BY <1>1, <3>1, UnpackOkIs
    <3>3. /\ K \in Kinds /\ SizeOf(K) <= n /\ d[SizeOf(K)] = 1
          /\ n = SizeOf(K) \/ (n > ACCOUNT_LEN + 1 /\ d[ACCOUNT_LEN + 1] = TypeByte(K))
      BY <1>1, <1>4 DEF Base
    <3>4. TypeByte(K) # 0
      BY <3>3, Sizes
    <3>5. K # S
      BY <3>2, <3>3
    <3>6. CASE K = "Mint"
      <4>1. SizeOf(S) = ACCOUNT_LEN /\ SizeOf(K) = MINT_LEN
        BY <1>2, <3>5, <3>6 DEF Kinds, SizeOf
      <4> QED
        BY <1>2, <3>2, <3>3, <3>4, <4>1
    <3>7. CASE K = "Account"
      <4>1. SizeOf(S) = MINT_LEN /\ SizeOf(K) = ACCOUNT_LEN
        BY <1>2, <3>5, <3>7 DEF Kinds, SizeOf
      <4> QED
        BY <1>2, <3>2, <3>3, <3>4, <4>1
    <3> QED
      BY <3>3, <3>6, <3>7 DEF Kinds
  <2> QED
    BY <1>4, <2>1, UnpackIs
<1> QED
  BY <1>3, <1>4

-----------------------------------------------------------------------------
(* Base state, account type and entries together.                          *)

\* tlv is what lies in d behind the account type.
IsEntries(tlv, d) ==
  /\ tlv \in Seq(u8)
  /\ Len(tlv) = IF Len(d) > ACCOUNT_LEN + 1 THEN Len(d) - (ACCOUNT_LEN + 1) ELSE 0
  /\ SameBytes(tlv, 0, d, ACCOUNT_LEN + 1, Len(tlv))

\* The entries are the bytes behind the account type,
LEMMA EntriesIs ==
  ASSUME NEW d \in Seq(u8)
  PROVE  IsEntries(Entries(d), d)
<1>1. ACCOUNT_LEN \in Nat
  BY LayoutAssumption
<1>2. PICK n \in Nat : n = Len(d)
  OBVIOUS
<1>3. CASE n > ACCOUNT_LEN + 1
  <2>1. PICK a \in Nat : a = ACCOUNT_LEN + 1 /\ a <= n
    BY <1>1, <1>3
  <2>2. Entries(d) = Cut(d, a, n)
    BY <1>2, <1>3, <2>1 DEF Entries
  <2>3. a <= n /\ n <= Len(d)
    BY <1>2, <2>1
  <2>4. /\ Cut(d, a, n) \in Seq(u8) /\ Len(Cut(d, a, n)) = n - a
        /\ \A i \in 1..(n - a) : Cut(d, a, n)[i] = d[a + i]
    BY <2>3, CutProps
  <2>5. PICK c : c = Entries(d)
    OBVIOUS
  <2>6. /\ c \in Seq(u8) /\ Len(c) = n - a
        /\ \A i \in 1..(n - a) : c[i] = d[a + i]
    BY <2>2, <2>4, <2>5
  <2>7. SameBytes(c, 0, d, a, n - a)
    BY <2>1, <2>6 DEF SameBytes
  <2> QED
    BY <1>2, <1>3, <2>1, <2>5, <2>6, <2>7 DEF IsEntries
<1>4. CASE ~(n > ACCOUNT_LEN + 1)
  <2>1. Entries(d) = <<>> /\ <<>> \in Seq(u8) /\ Len(<<>>) = 0
    BY <1>2, <1>4 DEF Entries
  <2>2. SameBytes(<<>>, 0, d, ACCOUNT_LEN + 1, 0)
    BY DEF SameBytes
  <2> QED
    BY <1>2, <1>4, <2>1, <2>2 DEF IsEntries
<1> QED
  BY <1>3, <1>4

\* and no other sequence is.
LEMMA EntriesOnly ==
  ASSUME NEW d \in Seq(u8), NEW tlv, IsEntries(tlv, d)
  PROVE  Entries(d) = tlv
<1>1. IsEntries(Entries(d), d)
  BY EntriesIs
<1>2. PICK c : c = Entries(d)
  OBVIOUS
<1>3. c \in Seq(u8) /\ tlv \in Seq(u8) /\ Len(c) = Len(tlv)
  BY <1>1, <1>2 DEF IsEntries
<1>4. \A i \in 1..Len(c) : c[i] = tlv[i]
  <2>1. SameBytes(c, 0, d, ACCOUNT_LEN + 1, Len(c)) /\ SameBytes(tlv, 0, d, ACCOUNT_LEN + 1, Len(c))
    BY <1>1, <1>2, <1>3 DEF IsEntries
  <2> QED
    BY <1>3, <2>1 DEF SameBytes
<1> QED
  BY <1>2, <1>3, <1>4, SameSeq

\* r has the base state and the account type of d, and its size.
SameBase(r, d) ==
  /\ r \in Seq(u8) /\ Len(r) = Len(d)
  /\ \A k \in 1..Len(d) : k <= ACCOUNT_LEN + 1 => r[k] = d[k]

\* The base state is what it was if its bytes are.
LEMMA BaseKept ==
  ASSUME NEW d \in Seq(u8), NEW K, Base(d, K), NEW r, SameBase(r, d)
  PROVE  Base(r, K)
<1>1. PICK n \in Nat : n = Len(d)
  OBVIOUS
<1>2. Len(r) = n /\ \A k \in 1..n : k <= ACCOUNT_LEN + 1 => r[k] = d[k]
  BY <1>1 DEF SameBase
<1>3. ACCOUNT_LEN \in Nat /\ MINT_LEN \in Nat
  BY LayoutAssumption
<1>4. CASE K = "Uninitialized"
  <2>1. ZeroBetween(d, 0, ACCOUNT_LEN + 1)
    BY <1>4 DEF Base, Kinds
  <2>2. ZeroBetween(r, 0, ACCOUNT_LEN + 1)
    BY <1>1, <1>2, <2>1 DEF ZeroBetween
  <2> QED
    BY <1>4, <2>2 DEF Base
<1>5. CASE K \in Kinds
  <2>1. /\ n # MULTISIG_LEN /\ SizeOf(K) <= n
        /\ d[SizeOf(K)] = 1
        /\ n = SizeOf(K) \/ (n > ACCOUNT_LEN + 1 /\ d[ACCOUNT_LEN + 1] = TypeByte(K))
        /\ K = "Mint" => ZeroBetween(d, MINT_LEN, ACCOUNT_LEN)
    BY <1>1, <1>5 DEF Base, Kinds
  <2>2. SizeOf(K) \in Nat /\ 1 <= SizeOf(K) /\ SizeOf(K) <= ACCOUNT_LEN
    BY <1>5, Sizes
  <2>3. r[SizeOf(K)] = 1
    BY <1>2, <1>3, <2>1, <2>2
  <2>4. n > ACCOUNT_LEN + 1 => r[ACCOUNT_LEN + 1] = d[ACCOUNT_LEN + 1]
    BY <1>2, <1>3
  <2>5. ZeroBetween(d, MINT_LEN, ACCOUNT_LEN) => ZeroBetween(r, MINT_LEN, ACCOUNT_LEN)
    BY <1>1, <1>2, <1>3 DEF ZeroBetween
  <2>6. n = SizeOf(K) \/ (n > ACCOUNT_LEN + 1 /\ r[ACCOUNT_LEN + 1] = TypeByte(K))
    BY <2>1, <2>4
  <2> QED
    BY <1>2, <1>5, <2>1, <2>3, <2>5, <2>6 DEF Base
<1> QED
  BY <1>4, <1>5 DEF Base

\* An account with other entries of the same length.
LEMMA WithTlvIs ==
  ASSUME NEW d \in Seq(u8), NEW tlv \in Seq(u8), Len(tlv) = Len(Entries(d))
  PROVE  /\ SameBase(WithTlv(d, tlv), d)
         /\ Entries(WithTlv(d, tlv)) = tlv
<1>1. ACCOUNT_LEN \in Nat
  BY LayoutAssumption
<1>2. PICK n \in Nat : n = Len(d)
  OBVIOUS
<1>3. PICK l \in Nat : l = Len(tlv)
  OBVIOUS
<1>4. l = IF n > ACCOUNT_LEN + 1 THEN n - (ACCOUNT_LEN + 1) ELSE 0
  BY <1>2, <1>3, EntriesIs DEF IsEntries
<1>5. PICK c \in Nat : c = n - l /\ c <= n /\ c + l = n
  BY <1>1, <1>4
<1>6. PICK s : s = Cut(d, 0, c)
  OBVIOUS
<1>7. s \in Seq(u8) /\ Len(s) = c /\ \A i \in 1..c : s[i] = d[i]
  <2>1. 0 \in Nat /\ 0 <= c /\ c <= Len(d)
    BY <1>2, <1>5
  <2>2. /\ Cut(d, 0, c) \in Seq(u8) /\ Len(Cut(d, 0, c)) = c - 0
        /\ \A i \in 1..(c - 0) : Cut(d, 0, c)[i] = d[0 + i]
    BY <2>1, CutProps
  <2> QED
    BY <1>6, <2>2
<1>8. PICK r : r = s \o tlv
  OBVIOUS
<1>9. WithTlv(d, tlv) = r
  <2>1. Len(d) - Len(tlv) = c
    BY <1>2, <1>3, <1>5
  <2> QED
    BY <1>6, <1>8, <2>1, Zenon DEF WithTlv
<1>10. r \in Seq(u8) /\ Len(r) = n
  <2>1. s \in Seq(u8) /\ Len(s) = c
    BY <1>7
  <2>3. s \in Seq(u8) /\ tlv \in Seq(u8)
    BY <2>1
  <2>2. (s \o tlv) \in Seq(u8) /\ Len(s \o tlv) = Len(s) + Len(tlv)
    BY <2>3
  <2> QED
    BY <1>3, <1>5, <1>8, <2>1, <2>2
<1>11. /\ \A k \in 1..c : r[k] = d[k]
       /\ \A k \in 1..l : r[c + k] = tlv[k]
  <2>1. s \in Seq(u8) /\ Len(s) = c /\ Len(tlv) = l
    BY <1>3, <1>7
  <2>2. ASSUME NEW k \in 1..c PROVE r[k] = d[k]
    <3>1. r[k] = s[k]
      BY <1>8, <2>1
    <3>2. s[k] = d[k]
      BY <1>7
    <3> QED
      BY <3>1, <3>2
  <2>3. ASSUME NEW k \in 1..l PROVE r[c + k] = tlv[k]
    BY <1>8, <2>1
  <2> QED
    BY <2>2, <2>3
<1>12. SameBase(r, d)
  <2>1. ASSUME NEW k \in 1..n, k <= ACCOUNT_LEN + 1 PROVE r[k] = d[k]
    BY <1>1, <1>4, <1>5, <1>11, <2>1
  <2> QED
    BY <1>2, <1>10, <2>1 DEF SameBase
<1>13. IsEntries(tlv, r)
  <2>1. SameBytes(tlv, 0, r, ACCOUNT_LEN + 1, l)
    <3>1. ASSUME NEW k \in 1..l PROVE tlv[0 + k] = r[ACCOUNT_LEN + 1 + k]
      <4>1. c = ACCOUNT_LEN + 1
        BY <1>1, <1>4, <1>5
      <4> QED
        BY <1>11, <4>1
    <3> QED
      BY <3>1 DEF SameBytes
  <2> QED
    BY <1>3, <1>4, <1>10, <2>1 DEF IsEntries
<1> QED
  BY <1>9, <1>10, <1>12, <1>13, EntriesOnly

\* r is d with another byte at position j, which is before the entries.
ByteWritten(r, d, j, b) ==
  /\ r \in Seq(u8) /\ Len(r) = Len(d) /\ Entries(r) = Entries(d)
  /\ \A k \in 1..Len(d) : r[k] = IF k = j THEN b ELSE d[k]

\* The effect of writing one byte of the base or the account type.
LEMMA WriteByte ==
  ASSUME NEW d \in Seq(u8), NEW i \in Nat, i <= ACCOUNT_LEN, NEW b \in u8
  PROVE  ByteWritten(Write(d, i, <<b>>), d, i + 1, b)
<1>1. ACCOUNT_LEN \in Nat
  BY LayoutAssumption
<1>2. PICK n \in Nat : n = Len(d)
  OBVIOUS
<1>3. PICK t \in Seq(u8) : t = <<b>> /\ Len(t) = 1 /\ t[1] = b
  <2>1. <<b>> \in Seq(u8) /\ Len(<<b>>) = 1 /\ <<b>>[1] = b
    OBVIOUS
  <2> QED
    BY <2>1
<1>4. PICK r : r = Write(d, i, <<b>>)
  OBVIOUS
<1>5. Written(r, d, i, t)
  BY <1>3, <1>4, WriteProps
<1>6. r \in Seq(u8) /\ Len(r) = n
  BY <1>2, <1>5 DEF Written
<1>7. /\ \A k \in 1..n : k <= i \/ k > i + 1 => r[k] = d[k]
      /\ 1 \in 1..Len(t) /\ i + 1 <= n => r[i + 1] = t[1]
  BY <1>2, <1>3, <1>5 DEF Written
<1>8. \A k \in 1..n : r[k] = IF k = i + 1 THEN b ELSE d[k]
  <2>1. ASSUME NEW k \in 1..n PROVE r[k] = IF k = i + 1 THEN b ELSE d[k]
    <3>1. CASE k = i + 1
      <4>1. 1 \in 1..Len(t) /\ i + 1 <= n
        BY <1>3, <3>1
      <4> QED
        BY <1>3, <1>7, <3>1, <4>1
    <3>2. CASE k # i + 1
      BY <1>7, <3>2
    <3> QED
      BY <3>1, <3>2
  <2> QED
    BY <2>1
<1>9. IsEntries(Entries(d), r)
  <2>1. PICK c : c = Entries(d)
    OBVIOUS
  <2>2. c \in Seq(u8) /\ Len(c) = IF n > ACCOUNT_LEN + 1 THEN n - (ACCOUNT_LEN + 1) ELSE 0
    BY <1>2, <2>1, EntriesIs DEF IsEntries
  <2>3. \A k \in 1..Len(c) : c[0 + k] = d[ACCOUNT_LEN + 1 + k]
    BY <2>1, EntriesIs DEF IsEntries, SameBytes
  <2>4. PICK l \in Nat : l = Len(c)
    BY <2>2
  <2>5. ASSUME NEW k \in 1..l PROVE c[0 + k] = r[ACCOUNT_LEN + 1 + k]
    <3>1. ACCOUNT_LEN + 1 + k \in 1..n /\ ACCOUNT_LEN + 1 + k # i + 1
      BY <1>1, <2>2, <2>4
    <3> QED
      BY <1>8, <2>3, <2>4, <3>1
  <2>6. SameBytes(c, 0, r, ACCOUNT_LEN + 1, Len(c))
    BY <2>4, <2>5 DEF SameBytes
  <2> QED
    BY <1>6, <2>1, <2>2, <2>6 DEF IsEntries
<1>10. Entries(r) = Entries(d)
  BY <1>6, <1>9, EntriesOnly
<1> QED
  BY <1>2, <1>4, <1>6, <1>8, <1>10 DEF ByteWritten

\* r is d cut or filled with zeros to a size.
Resized(r, d, n) ==
  /\ r \in Seq(u8) /\ Len(r) = n
  /\ \A k \in 1..n : r[k] = IF k <= Len(d) THEN d[k] ELSE 0

\* Resizing keeps the bytes and adds zeros.
LEMMA ResizeIs ==
  ASSUME NEW d \in Seq(u8), NEW n \in Nat
  PROVE  Resized(Resize(d, n), d, n)
<1>1. PICK l \in Nat : l = Len(d)
  OBVIOUS
<1>2. PICK r : r = Resize(d, n)
  OBVIOUS
<1>3. CASE n <= l
  <2>1. r = Cut(d, 0, n)
    BY <1>1, <1>2, <1>3 DEF Resize
  <2>2. 0 \in Nat /\ 0 <= n /\ n <= Len(d)
    BY <1>1, <1>3
  <2>3. /\ Cut(d, 0, n) \in Seq(u8) /\ Len(Cut(d, 0, n)) = n - 0
        /\ \A i \in 1..(n - 0) : Cut(d, 0, n)[i] = d[0 + i]
    BY <2>2, CutProps
  <2>4. r \in Seq(u8) /\ Len(r) = n /\ \A i \in 1..n : r[i] = d[i]
    BY <2>1, <2>3
  <2> QED
    BY <1>1, <1>2, <1>3, <2>4 DEF Resized
<1>4. CASE ~(n <= l)
  <2>1. PICK x \in Nat : x = n - l
    BY <1>4
  <2>2. PICK z : z = Zeros(x)
    OBVIOUS
  <2>3. z \in Seq(u8) /\ Len(z) = x /\ \A i \in 1..x : z[i] = 0
    BY <2>2, ZerosProps
  <2>4. r = d \o z
    BY <1>1, <1>2, <1>4, <2>1, <2>2 DEF Resize
  <2>5. r \in Seq(u8) /\ Len(r) = n
    BY <1>1, <2>1, <2>3, <2>4
  <2>6. \A k \in 1..n : r[k] = IF k <= l THEN d[k] ELSE z[k - l]
    BY <1>1, <2>1, <2>3, <2>4
  <2>7. \A k \in 1..n : r[k] = IF k <= l THEN d[k] ELSE 0
    BY <2>1, <2>3, <2>6
  <2> QED
    BY <1>1, <1>2, <2>5, <2>7 DEF Resized
<1> QED
  BY <1>3, <1>4

\* Behind the account type, r holds the bytes of d and then zeros.
SameTail(r, d) ==
  \A k \in 1..Len(r) : k > ACCOUNT_LEN + 1 => r[k] = IF k <= Len(d) THEN d[k] ELSE 0

\* The layout is kept when the account is resized behind its entries.
LEMMA LayoutTail ==
  ASSUME NEW d \in Seq(u8), NEW m, NEW pos, NEW e, Layout(Entries(d), m, pos, e),
         NEW r \in Seq(u8), SameTail(r, d),
         e = 0 \/ e + ACCOUNT_LEN + 1 <= Len(r)
  PROVE  Layout(Entries(r), m, pos, e)
<1>1. ACCOUNT_LEN \in Nat
  BY LayoutAssumption
<1>2. PICK n \in Nat : n = Len(d)
  OBVIOUS
<1>3. PICK l \in Nat : l = Len(r)
  OBVIOUS
<1>4. PICK c : c = Entries(d)
  OBVIOUS
<1>5. PICK s : s = Entries(r)
  OBVIOUS
<1>6. /\ c \in Seq(u8) /\ Len(c) = IF n > ACCOUNT_LEN + 1 THEN n - (ACCOUNT_LEN + 1) ELSE 0
      /\ s \in Seq(u8) /\ Len(s) = IF l > ACCOUNT_LEN + 1 THEN l - (ACCOUNT_LEN + 1) ELSE 0
  BY <1>2, <1>3, <1>4, <1>5, EntriesIs DEF IsEntries
<1>7. /\ \A k \in 1..Len(c) : c[0 + k] = d[ACCOUNT_LEN + 1 + k]
      /\ \A k \in 1..Len(s) : s[0 + k] = r[ACCOUNT_LEN + 1 + k]
  BY <1>4, <1>5, EntriesIs DEF IsEntries, SameBytes
<1>8. e \in Nat /\ e <= Len(c) /\ \A i \in (e + 1)..Len(c) : c[i] = 0
  BY <1>4 DEF Layout
<1>9. PICK lc \in Nat, ls \in Nat : lc = Len(c) /\ ls = Len(s)
  BY <1>6
<1>10. e <= ls
  BY <1>1, <1>3, <1>6, <1>8, <1>9
<1>11. \A k \in 1..l : k > ACCOUNT_LEN + 1 => r[k] = IF k <= n THEN d[k] ELSE 0
  BY <1>2, <1>3 DEF SameTail
<1>12. \A k \in 1..ls : s[k] = IF k <= lc THEN c[k] ELSE 0
  <2>1. ASSUME NEW k \in 1..ls PROVE s[k] = IF k <= lc THEN c[k] ELSE 0
    <3>1. PICK j \in Nat : j = ACCOUNT_LEN + 1 + k
      BY <1>1
    <3>2. j \in 1..l /\ j > ACCOUNT_LEN + 1 /\ (j <= n <=> k <= lc)
      BY <1>1, <1>6, <1>9, <3>1
    <3>3. s[k] = r[j]
      BY <1>7, <1>9, <3>1
    <3>4. k <= lc => c[k] = d[j]
      BY <1>7, <1>9, <3>1
    <3> QED
      BY <1>11, <3>2, <3>3, <3>4
  <2> QED
    BY <2>1
<1>13. SameBytes(s, 0, c, 0, e)
  <2>1. ASSUME NEW k \in 1..e PROVE s[0 + k] = c[0 + k]
    BY <1>8, <1>9, <1>10, <1>12
  <2> QED
    BY <2>1 DEF SameBytes
<1>14. \A i \in (e + 1)..Len(s) : s[i] = 0
  BY <1>8, <1>9, <1>12
<1>15. e <= Len(s)
  BY <1>9, <1>10
<1> QED
  BY <1>4, <1>5, <1>6, <1>13, <1>14, <1>15, LayoutSame

-----------------------------------------------------------------------------
(* Entries and what they hold.                                             *)

\* The entries hold m up to position e: all of kind S, each of the size of its type, and
\* nothing between them.
SizedValues(m) == \A V \in DOMAIN m : V # TokenMetadata => Len(m[V]) = type_len[V]
\* Without metadata the entries are as long as those types need.
Packed(m, e) == TokenMetadata \notin DOMAIN m => e = Sum(DOMAIN m)
\* The entries are those of map m, all of kind S and of their lengths.
Holds(tlv, S, m, e) ==
  /\ \E pos : Layout(tlv, m, pos, e)
  /\ m \in [DOMAIN m -> Seq(u8)]
  /\ S \in Kinds /\ OfKind(m, S)
  /\ DOMAIN m \subseteq InUse \cup {TokenMetadata}
  /\ SizedValues(m)
  /\ Packed(m, e)

\* The value can be stored in an extension of type V.
Stores(V, value) ==
  /\ V \in InUse \cup {TokenMetadata} /\ value \in Seq(u8)
  /\ V # TokenMetadata => Len(value) = type_len[V]

\* What is stored has a type.
LEMMA StoredType ==
  ASSUME NEW V \in InUse \cup {TokenMetadata}
  PROVE  V \in Types
BY SizeOfType DEF Types, TokenMetadata, MintTypes

\* What the account holds when V is put,
LEMMA HoldsPut ==
  ASSUME NEW tlv, NEW S, NEW m, NEW e, Holds(tlv, S, m, e),
         NEW V, NEW value, Stores(V, value), get_account_type(V) = S,
         NEW new, \E to : Layout(new, Put(m, V, value), to, EndWith(m, e, V, value))
  PROVE  Holds(new, S, Put(m, V, value), EndWith(m, e, V, value))
<1>1. PICK p : p = Put(m, V, value)
  OBVIOUS
<1>2. PICK f : f = EndWith(m, e, V, value)
  OBVIOUS
<1>3. DOMAIN p = DOMAIN m \cup {V} /\ p[V] = value /\ \A W \in DOMAIN m : W # V => p[W] = m[W]
  BY <1>1 DEF Put
<1>4. /\ m \in [DOMAIN m -> Seq(u8)] /\ S \in Kinds /\ OfKind(m, S)
      /\ DOMAIN m \subseteq InUse \cup {TokenMetadata} /\ SizedValues(m) /\ Packed(m, e)
  BY DEF Holds
<1>5. V \in InUse \cup {TokenMetadata} /\ value \in Seq(u8)
  BY DEF Stores
<1>6. p \in [DOMAIN p -> Seq(u8)]
  <2>1. p \in [DOMAIN m \cup {V} -> Seq(u8)]
    BY <1>1, <1>4, <1>5 DEF Put
  <2> QED
    BY <1>3, <2>1
<1>7. OfKind(p, S)
  BY <1>3, <1>4 DEF OfKind
<1>8. DOMAIN p \subseteq InUse \cup {TokenMetadata}
  BY <1>3, <1>4, <1>5
<1>9. SizedValues(p)
  BY <1>3, <1>4 DEF SizedValues, Stores
<1>10. Packed(p, f)
  <2>1. SUFFICES ASSUME TokenMetadata \notin DOMAIN p PROVE f = Sum(DOMAIN p)
    BY DEF Packed
  <2>2. TokenMetadata \notin DOMAIN m /\ V \in InUse /\ DOMAIN m \subseteq InUse
        /\ V # TokenMetadata
    BY <1>3, <1>4, <1>5, <2>1
  <2>3. e = Sum(DOMAIN m) /\ e \in Nat
    BY <1>4, <2>2, SumIs DEF Packed
  <2>4. PICK l \in Nat : l = Len(value) /\ l = type_len[V]
    BY <1>5, <2>2 DEF Stores
  <2>5. CASE V \in DOMAIN m
    <3>1. PICK l2 \in Nat : l2 = Len(m[V]) /\ l2 = type_len[V]
      BY <1>4, <2>2, <2>4, <2>5 DEF SizedValues
    <3>2. f = e + l - l2
      BY <1>2, <2>4, <2>5, <3>1 DEF EndWith
    <3>3. f = e
      BY <2>3, <2>4, <3>1, <3>2
    <3>4. DOMAIN p = DOMAIN m
      BY <1>3, <2>5
    <3> QED
      BY <2>3, <3>3, <3>4
  <2>6. CASE V \notin DOMAIN m
    <3>1. f = e + 4 + l
      BY <1>2, <2>4, <2>6 DEF EndWith
    <3>2. Sum(DOMAIN m \cup {V}) = Sum(DOMAIN m) + type_len[V] + 4
      BY <2>2, <2>6, SumMore
    <3> QED
      BY <1>3, <2>3, <2>4, <3>1, <3>2
  <2> QED
    BY <2>5, <2>6
<1> QED
  BY <1>1, <1>2, <1>4, <1>6, <1>7, <1>8, <1>9, <1>10, Zenon DEF Holds

\* by alloc,
LEMMA HoldsAlloc ==
  ASSUME NEW tlv, NEW S, NEW m, NEW e, Holds(tlv, S, m, e),
         NEW V, NEW value, Stores(V, value), get_account_type(V) = S,
         NEW overwrite \in BOOLEAN, NEW new \in alloc(S, tlv, V, value, overwrite)
  PROVE  /\ new \in Seq(u8) /\ Len(new) = Len(tlv)
         /\ Holds(new, S, Put(m, V, value), EndWith(m, e, V, value))
         /\ V \in DOMAIN m => overwrite
<1>1. PICK pos : Layout(tlv, m, pos, e)
  BY DEF Holds
<1>2. OfKind(m, S) /\ V \in Types /\ value \in Seq(u8)
  BY StoredType DEF Holds, Stores
<1>3. /\ new \in Seq(u8) /\ Len(new) = Len(tlv)
      /\ V \in DOMAIN m => overwrite
      /\ \E to : Layout(new, Put(m, V, value), to, EndWith(m, e, V, value))
  BY <1>1, <1>2, AllocLayout
<1> QED
  BY <1>3, HoldsPut

\* and by realloc.
LEMMA HoldsRealloc ==
  ASSUME NEW tlv, NEW S, NEW m, NEW e, Holds(tlv, S, m, e),
         NEW V \in DOMAIN m, NEW value, Stores(V, value), get_account_type(V) = S,
         NEW new \in realloc(tlv, V, value)
  PROVE  /\ new \in Seq(u8) /\ Len(new) = Len(tlv)
         /\ Holds(new, S, Put(m, V, value), EndWith(m, e, V, value))
<1>1. PICK pos : Layout(tlv, m, pos, e)
  BY DEF Holds
<1>2. OfKind(m, S) /\ value \in Seq(u8)
  BY DEF Holds, Stores
<1>3. /\ new \in Seq(u8) /\ Len(new) = Len(tlv)
      /\ \E to : Layout(new, Put(m, V, value), to, EndWith(m, e, V, value))
  BY <1>1, <1>2, ReallocLayout
<1> QED
  BY <1>3, HoldsPut

\* Entries that a kind can be initialized on can be seen as entries of that kind.
LEMMA HoldsAs ==
  ASSUME NEW tlv, NEW S, NEW m, NEW e, Holds(tlv, S, m, e),
         NEW S2 \in Kinds, FirstMatches(S2, tlv)
  PROVE  Holds(tlv, S2, m, e)
<1>1. PICK pos : Layout(tlv, m, pos, e)
  BY DEF Holds
<1>2. DOMAIN m # {} => \E V \in DOMAIN m : get_account_type(V) = S2
  BY <1>1, FirstType
<1>3. OfKind(m, S2)
  BY <1>2 DEF OfKind, Holds
<1> QED
  BY <1>3 DEF Holds

\* Zeros hold nothing.
LEMMA HoldsNothing ==
  ASSUME NEW d \in Seq(u8), NEW S \in Kinds, SameTail(d, <<>>)
  PROVE  Holds(Entries(d), S, <<>>, 0)
<1>1. PICK x : x = <<>>
  OBVIOUS
<1>2. x \in Seq(u8) /\ Len(x) = 0 /\ DOMAIN x = {} /\ x \in [DOMAIN x -> Seq(u8)]
  BY <1>1
<1>3. Entries(x) = x
  <2>1. SameBytes(x, 0, x, ACCOUNT_LEN + 1, Len(x))
    BY <1>2 DEF SameBytes
  <2>2. ACCOUNT_LEN \in Nat
    BY LayoutAssumption
  <2>3. IsEntries(x, x)
    BY <1>2, <2>1, <2>2 DEF IsEntries
  <2> QED
    BY <1>2, <2>3, EntriesOnly
<1>4. Layout(Entries(x), x, x, 0)
  <2>1. x \in [DOMAIN x -> Nat]
    BY <1>2
  <2>2. \A i \in (0 + 1)..Len(x) : x[i] = 0
    BY <1>2
  <2> QED
    BY <1>2, <1>3, <2>1, <2>2 DEF Layout
<1>5. Layout(Entries(d), x, x, 0)
  BY <1>1, <1>2, <1>4, LayoutTail
<1>6. OfKind(x, S) /\ SizedValues(x) /\ Packed(x, 0)
  BY <1>2, SumEmpty DEF OfKind, SizedValues, Packed
<1> QED
  BY <1>1, <1>2, <1>5, <1>6 DEF Holds

\* What is held is kept when the account is resized behind its entries.
LEMMA HoldsTail ==
  ASSUME NEW d \in Seq(u8), NEW S, NEW m, NEW e, Holds(Entries(d), S, m, e),
         NEW r \in Seq(u8), SameTail(r, d),
         e = 0 \/ e + ACCOUNT_LEN + 1 <= Len(r)
  PROVE  Holds(Entries(r), S, m, e)
<1>1. PICK pos : Layout(Entries(d), m, pos, e)
  BY DEF Holds
<1>2. Layout(Entries(r), m, pos, e)
  BY <1>1, LayoutTail
<1> QED
  BY <1>2 DEF Holds

-----------------------------------------------------------------------------
(* The inductive invariant and what follows from it.                       *)

\* The types are of one kind.
OneKind(T) == \A V, W \in T : get_account_type(V) = get_account_type(W)
\* There is room for the types promised, until metadata is written.
Promise(d, m, T) ==
  /\ T \subseteq InUse /\ OneKind(T)
  /\ T # {} /\ TokenMetadata \notin DOMAIN m =>
       Len(d) >= ACCOUNT_LEN + 1 + Sum(T) /\ Len(d) # MULTISIG_LEN

\* Data d holds map m of kind S up to e, its base state is K, and T is promised.
State(d, T, K, S, m, e) ==
  /\ d \in Seq(u8)
  /\ Base(d, K) /\ K \in {"Uninitialized", S}
  /\ Holds(Entries(d), S, m, e)
  /\ Promise(d, m, T)

\* The inductive invariant: there are such a map, kind and end.
IInv ==
  /\ Len(data) <= MaxLen
  /\ \E K, S, m, e : State(data, promised, K, S, m, e)

\* What the readers of the program return is what the account holds,
LEMMA StateReads ==
  ASSUME NEW d, NEW T, NEW K, NEW S, NEW m, NEW e, State(d, T, K, S, m, e)
  PROVE  /\ PresentIn(d) = DOMAIN m
         /\ StoredIn(d) = m
         /\ KindOf(d) = K
         /\ S \in Kinds /\ OfKind(m, S)
         /\ get_extension_types(Entries(d)) = {DOMAIN m}
         /\ \A S2 \in Kinds : unpack(S2, d) = IF K = S2 THEN {Entries(d)} ELSE {}
<1>1. d \in Seq(u8) /\ Base(d, K) /\ K \in {"Uninitialized", S} /\ Holds(Entries(d), S, m, e)
  BY DEF State
<1>2. S \in Kinds /\ OfKind(m, S) /\ m \in [DOMAIN m -> Seq(u8)]
  BY <1>1 DEF Holds
<1>3. PICK pos : Layout(Entries(d), m, pos, e)
  BY <1>1 DEF Holds
<1>4. get_extension_types(Entries(d)) = {DOMAIN m}
  BY <1>3, DataInfo
<1>5. PresentIn(d) = DOMAIN m
  BY <1>4 DEF PresentIn
<1>6. \A S2 \in Kinds : unpack(S2, d) = IF K = S2 THEN {Entries(d)} ELSE {}
  BY <1>1, UnpackBase
<1>7. KindOf(d) = K
  <2>1. unpack("Mint", d) = IF K = "Mint" THEN {Entries(d)} ELSE {}
    BY <1>6 DEF Kinds
  <2>2. unpack("Account", d) = IF K = "Account" THEN {Entries(d)} ELSE {}
    BY <1>6 DEF Kinds
  <2>3. K = "Mint" \/ K = "Account" \/ K = "Uninitialized"
    BY <1>1, <1>2 DEF Kinds
  <2> QED
    BY <2>1, <2>2, <2>3 DEF KindOf
<1>8. StoredIn(d) = m
  <2>1. get_tlv_data_info(Entries(d)) # {}
    <3>1. UsedLen(Entries(d), e)
      BY <1>3, LayoutUsed
    <3> QED
      BY <3>1 DEF UsedLen
  <2>2. StoredIn(d) = [V \in DOMAIN m |->
          CHOOSE value \in get_extension_bytes(get_account_type(V), Entries(d), V) : TRUE]
    BY <1>5, <2>1 DEF StoredIn
  <2>3. ASSUME NEW V \in DOMAIN m
        PROVE  (CHOOSE value \in get_extension_bytes(get_account_type(V), Entries(d), V) : TRUE)
                 = m[V]
    <3>1. V \in Types /\ get_account_type(V) = S
      BY <1>2, <1>3, LayoutEntry DEF OfKind
    <3>2. get_extension_bytes(S, Entries(d), V) = {m[V]}
      BY <1>2, <1>3, <3>1, LayoutBytes
    <3>3. get_extension_bytes(get_account_type(V), Entries(d), V) = {m[V]}
      BY <3>1, <3>2
    <3> QED
      BY <3>3
  <2>4. m = [V \in DOMAIN m |-> m[V]]
    BY <1>2
  <2>5. [V \in DOMAIN m |->
          CHOOSE value \in get_extension_bytes(get_account_type(V), Entries(d), V) : TRUE]
          = [V \in DOMAIN m |-> m[V]]
    BY <2>3
  <2> QED
    BY <2>2, <2>4, <2>5
<1> QED
  BY <1>2, <1>4, <1>5, <1>6, <1>7, <1>8

\* and what unpack_uninitialized returns.
LEMMA StateFresh ==
  ASSUME NEW d, NEW T, NEW K, NEW S, NEW m, NEW e, State(d, T, K, S, m, e), NEW S2 \in Kinds
  PROVE  unpack_uninitialized(S2, d)
           = IF K = "Uninitialized" /\ FreshSize(S2, Len(d)) /\ FirstMatches(S2, Entries(d))
               THEN {Entries(d)} ELSE {}
<1>1. d \in Seq(u8) /\ Base(d, K)
  BY DEF State
<1>2. UnpackTyped(S2, d, FALSE, 0)
        = IF K = "Uninitialized" /\ FreshSize(S2, Len(d)) THEN {Entries(d)} ELSE {}
  BY <1>1, FreshBase
<1>3. CASE K = "Uninitialized" /\ FreshSize(S2, Len(d))
  <2>1. UnpackTyped(S2, d, FALSE, 0) = {Entries(d)}
    BY <1>2, <1>3
  <2>2. CASE FirstMatches(S2, Entries(d))
    <3>1. unpack_uninitialized(S2, d) = {Entries(d)}
      BY <2>1, <2>2 DEF unpack_uninitialized
    <3> QED
      BY <1>3, <2>2, <3>1
  <2>3. CASE ~FirstMatches(S2, Entries(d))
    <3>1. unpack_uninitialized(S2, d) = {}
      BY <2>1, <2>3 DEF unpack_uninitialized
    <3> QED
      BY <2>3, <3>1
  <2> QED
    BY <2>2, <2>3
<1>4. CASE ~(K = "Uninitialized" /\ FreshSize(S2, Len(d)))
  <2>1. unpack_uninitialized(S2, d) = {}
    BY <1>2, <1>4 DEF unpack_uninitialized
  <2> QED
    BY <1>4, <2>1
<1> QED
  BY <1>3, <1>4

\* In a state of the invariant the readers of the program succeed, and find every type once.
THEOREM StateWellFormed ==
  ASSUME IInv
  PROVE  WellFormed
<1>1. PICK K, S, m, e : State(data, promised, K, S, m, e)
  BY DEF IInv
<1>2. PICK pos : Layout(Entries(data), m, pos, e)
  BY <1>1 DEF State, Holds
<1>3. /\ Kind = K /\ S \in Kinds /\ OfKind(m, S) /\ K \in {"Uninitialized", S}
      /\ \A S2 \in Kinds : unpack(S2, data) = IF K = S2 THEN {Entries(data)} ELSE {}
  BY <1>1, StateReads DEF Kind, State
<1>4. TypeOK
  <2>1. data \in Seq(u8) /\ Len(data) <= MaxLen /\ promised \subseteq InUse
    BY <1>1 DEF State, Promise, IInv
  <2>2. promised \subseteq MintTypes \cup AccountTypes
    BY <2>1, SizeOfType DEF Types
  <2> QED
    BY <2>1, <2>2 DEF TypeOK
<1>5. \E info \in get_tlv_data_info(Entries(data)) :
       /\ \A i, j \in DOMAIN info.extension_types :
            i # j => info.extension_types[i] # info.extension_types[j]
       /\ \E S2 \in {"Mint", "Account"} :
            /\ Kind \in {"Uninitialized", S2}
            /\ \A V \in ToSet(info.extension_types) : get_account_type(V) = S2
       /\ \A i \in info.used_len..(Len(Entries(data)) - 1) : Byte(Entries(data), i) = 0
  <2>1. PICK q \in Seq(Types) :
              /\ get_tlv_data_info(Entries(data)) = {[extension_types |-> q, used_len |-> e]}
              /\ ToSet(q) = DOMAIN m
              /\ \A i, j \in DOMAIN q : i # j => q[i] # q[j]
    BY <1>2, DataInfo
  <2>2. PICK info : info = [extension_types |-> q, used_len |-> e]
    OBVIOUS
  <2>3. /\ info \in get_tlv_data_info(Entries(data))
        /\ info.extension_types = q /\ info.used_len = e
    BY <2>1, <2>2
  <2>4. \A V \in ToSet(q) : get_account_type(V) = S
    BY <1>3, <2>1 DEF OfKind
  <2>5. \A i \in e..(Len(Entries(data)) - 1) : Byte(Entries(data), i) = 0
    <3>1. PICK tlv \in Seq(u8), l \in Nat : tlv = Entries(data) /\ l = Len(tlv)
      BY <1>2 DEF Layout
    <3>2. e \in Nat /\ \A i \in (e + 1)..l : tlv[i] = 0
      BY <1>2, <3>1 DEF Layout
    <3>3. ASSUME NEW i \in e..(l - 1) PROVE tlv[i + 1] = 0
      BY <3>2
    <3> QED
      BY <3>1, <3>3 DEF Byte
  <2>6. S \in {"Mint", "Account"} /\ Kind \in {"Uninitialized", S}
    BY <1>3 DEF Kinds
  <2> QED
    BY <2>1, <2>3, <2>4, <2>5, <2>6
<1>6. ~(unpack("Mint", data) # {} /\ unpack("Account", data) # {})
  BY <1>3 DEF Kinds
<1>7. Kind # "Uninitialized" =>
        \A S2 \in {"Mint", "Account"} : unpack_uninitialized(S2, data) = {}
  BY <1>1, <1>3, StateFresh DEF Kinds
<1> QED
  BY <1>4, <1>5, <1>6, <1>7 DEF WellFormed

\* The default value of a type in use has its length.
LEMMA DefaultStored ==
  ASSUME NEW V \in InUse
  PROVE  /\ Stores(V, Zeros(type_len[V]))
         /\ Len(Zeros(type_len[V])) = type_len[V]
         /\ Zeros(type_len[V]) \in Seq(u8)
<1>1. type_len[V] \in Nat
  BY SizeOfType
<1>2. Zeros(type_len[V]) \in Seq(u8) /\ Len(Zeros(type_len[V])) = type_len[V]
  BY <1>1, ZerosProps
<1> QED
  BY <1>2 DEF Stores

\* In a state of the invariant every type the account was created or reallocated for can be
\* added.
THEOREM StatePromisedFits ==
  ASSUME IInv
  PROVE  PromisedFits
<1>1. PICK K, S, m, e : State(data, promised, K, S, m, e)
  BY DEF IInv
<1>2. /\ Kind = K /\ Present = DOMAIN m
      /\ S \in Kinds /\ OfKind(m, S)
      /\ \A S2 \in Kinds : unpack(S2, data) = IF K = S2 THEN {Entries(data)} ELSE {}
  BY <1>1, StateReads DEF Kind, Present
<1>3. /\ data \in Seq(u8) /\ K \in {"Uninitialized", S}
      /\ Holds(Entries(data), S, m, e) /\ Promise(data, m, promised)
  BY <1>1 DEF State
<1>4. SUFFICES ASSUME Present \subseteq promised,
                      NEW V \in promised, Kind \in {"Uninitialized", get_account_type(V)}
               PROVE  \E tlv \in unpack(get_account_type(V), data)
                                   \cup unpack_uninitialized(get_account_type(V), data) :
                        alloc(get_account_type(V), tlv, V, Zeros(type_len[V]), TRUE) # {}
  BY DEF PromisedFits
<1>5. PICK A : A = get_account_type(V)
  OBVIOUS
<1>6. promised \subseteq InUse /\ OneKind(promised) /\ V \in InUse
  BY <1>3 DEF Promise
<1>7. V \in Types /\ V # TokenMetadata /\ type_len[V] \in Nat /\ type_len[V] <= U16_MAX
  BY <1>6, SizeOfType
<1>8. A \in Kinds
  BY <1>5, <1>7 DEF Types, Kinds, get_account_type
<1>9. DOMAIN m \subseteq promised
  BY <1>2, <1>4
<1>10. TokenMetadata \notin DOMAIN m
  <2>1. DOMAIN m \subseteq InUse
    BY <1>6, <1>9
  <2> QED
    BY <2>1, SizeOfType
<1>11. OfKind(m, A)
  BY <1>5, <1>6, <1>9 DEF OfKind, OneKind
<1>12. PICK tlv : tlv = Entries(data)
  OBVIOUS
<1>13. PICK pos : Layout(tlv, m, pos, e)
  BY <1>3, <1>12 DEF Holds
<1>14. /\ Len(data) >= ACCOUNT_LEN + 1 + Sum(promised) /\ Len(data) # MULTISIG_LEN
       /\ Sum(promised) >= 4 /\ Sum(promised) \in Nat
  <2>1. promised # {}
    OBVIOUS
  <2> QED
    BY <1>3, <1>6, <1>10, <2>1, SumSome, SumIs DEF Promise
<1>15. e = Sum(DOMAIN m) /\ SizedValues(m)
  BY <1>3, <1>10 DEF Holds, Packed
<1>16. tlv \in unpack(A, data) \cup unpack_uninitialized(A, data)
  <2>1. CASE K = A
    BY <1>2, <1>8, <1>12, <2>1
  <2>2. CASE K = "Uninitialized"
    <3>1. FreshSize(A, Len(data))
      <4>1. SizeOf(A) \in Nat /\ SizeOf(A) <= ACCOUNT_LEN /\ ACCOUNT_LEN \in Nat
        BY <1>8, Sizes
      <4>2. Len(data) \in Nat
        BY <1>3
      <4> QED
        BY <1>14, <4>1, <4>2 DEF FreshSize
    <3>2. FirstMatches(A, tlv)
      BY <1>11, <1>13, FirstType
    <3>3. unpack_uninitialized(A, data) = {tlv}
      BY <1>1, <1>8, <1>12, <2>2, <3>1, <3>2, StateFresh
    <3> QED
      BY <3>3
  <2> QED
    BY <1>2, <1>4, <1>5, <2>1, <2>2
<1>17. alloc(A, tlv, V, Zeros(type_len[V]), TRUE) # {}
  <2>1. PICK z : z = Zeros(type_len[V])
    OBVIOUS
  <2>2. z \in Seq(u8) /\ Len(z) = type_len[V] /\ Len(z) <= U16_MAX
    BY <1>6, <1>7, <2>1, DefaultStored
  <2>3. V \in DOMAIN m => Len(m[V]) = Len(z)
    BY <1>7, <1>15, <2>2 DEF SizedValues
  <2>4. V \notin DOMAIN m => e + 4 + Len(z) <= Len(tlv)
    <3>1. SUFFICES ASSUME V \notin DOMAIN m PROVE e + 4 + Len(z) <= Len(tlv)
      OBVIOUS
    <3>2. DOMAIN m \subseteq InUse
      BY <1>6, <1>9
    <3>3. Sum(DOMAIN m \cup {V}) = Sum(DOMAIN m) + type_len[V] + 4
      BY <1>6, <3>1, <3>2, SumMore
    <3>4. DOMAIN m \cup {V} \subseteq promised
      BY <1>9
    <3>5. Sum(DOMAIN m \cup {V}) <= Sum(promised)
      BY <1>6, <3>4, SumMonotone
    <3>6. Sum(DOMAIN m) \in Nat
      BY <3>2, SumIs
    <3>7. Len(tlv) = IF Len(data) > ACCOUNT_LEN + 1 THEN Len(data) - (ACCOUNT_LEN + 1) ELSE 0
      BY <1>3, <1>12, EntriesIs DEF IsEntries
    <3>8. PICK n \in Nat : n = Len(data)
      BY <1>3
    <3>9. ACCOUNT_LEN \in Nat
      BY LayoutAssumption
    <3>10. PICK l \in Nat : l = Len(z) /\ l = type_len[V]
      BY <1>7, <2>2
    <3> QED
      <4>1. PICK u \in Nat : u = Sum(DOMAIN m)
        BY <3>6
      <4>2. PICK v \in Nat : v = Sum(promised)
        BY <1>14
      <4>3. u + l + 4 <= v /\ e = u /\ n >= ACCOUNT_LEN + 1 + v /\ v >= 4
        BY <1>14, <1>15, <3>3, <3>5, <3>8, <3>10, <4>1, <4>2
      <4>4. Len(tlv) = n - (ACCOUNT_LEN + 1)
        BY <3>7, <3>8, <3>9, <4>3
      <4>5. u + 4 + l <= n - (ACCOUNT_LEN + 1)
        BY <3>9, <4>3
      <4> QED
        BY <3>10, <4>3, <4>4, <4>5
  <2>5. alloc(A, tlv, V, z, TRUE) # {}
    BY <1>5, <1>7, <1>11, <1>13, <2>2, <2>3, <2>4, AllocPossible
  <2> QED
    BY <2>1, <2>5
<1> QED
  BY <1>5, <1>16, <1>17

-----------------------------------------------------------------------------
(* The steps of the map that is implemented.                               *)

\* Types in use are types of mints or of accounts.
LEMMA KindsOfTypes ==
  ASSUME NEW V \in InUse \cup {TokenMetadata}
  PROVE  /\ get_account_type(V) \in Kinds
         /\ V \in TypesInUse[get_account_type(V)]
<1>1. V \in Types
  BY StoredType
<1>2. get_account_type(V) \in Kinds
  BY <1>1 DEF Types, Kinds, get_account_type
<1> QED
  BY <1>2 DEF TypesInUse, Kinds

\* The types an account holds are of its kind.
LEMMA HoldsTypes ==
  ASSUME NEW tlv, NEW S, NEW m, NEW e, Holds(tlv, S, m, e)
  PROVE  S \in Kinds /\ DOMAIN m \subseteq TypesInUse[S]
BY DEF Holds, OfKind, TypesInUse, Kinds

\* Other entries of the same length, more of them or the same.
LEMMA StateEntries ==
  ASSUME NEW d, NEW T, NEW K, NEW S, NEW m, NEW e, State(d, T, K, S, m, e),
         NEW S2, K \in {"Uninitialized", S2},
         NEW new \in Seq(u8), Len(new) = Len(Entries(d)),
         NEW m2, NEW f, Holds(new, S2, m2, f), DOMAIN m \subseteq DOMAIN m2
  PROVE  State(WithTlv(d, new), T, K, S2, m2, f) /\ Len(WithTlv(d, new)) = Len(d)
<1>1. d \in Seq(u8) /\ Base(d, K) /\ Promise(d, m, T)
  BY DEF State
<1>2. PICK r : r = WithTlv(d, new)
  OBVIOUS
<1>3. SameBase(r, d) /\ Entries(r) = new
  BY <1>1, <1>2, WithTlvIs
<1>4. Base(r, K)
  BY <1>1, <1>3, BaseKept
<1>5. r \in Seq(u8) /\ Len(r) = Len(d)
  BY <1>3 DEF SameBase
<1>6. Promise(r, m2, T)
  BY <1>1, <1>5 DEF Promise
<1> QED
  BY <1>2, <1>3, <1>4, <1>5, <1>6 DEF State

\* A step that puts one value is a step of the map,
LEMMA PutDone ==
  ASSUME NEW T, NEW K, NEW S, NEW m, NEW e, State(data, T, K, S, m, e),
         NEW S2, NEW V \in InUse \cup {TokenMetadata}, NEW value \in Contents,
         get_account_type(V) = S2, NEW f,
         State(data', promised', K, S2, Put(m, V, value), f), Len(data') <= MaxLen
  PROVE  IInv' /\ Map!Next
<1>1. PICK m2 : m2 = Put(m, V, value)
  OBVIOUS
<1>2. Kind = K /\ Stored = m
  BY StateReads DEF Kind, Stored
<1>3. Kind' = K /\ Stored' = m2
  BY <1>1, StateReads DEF Kind, Stored
<1>4. K \in {"Uninitialized", S2} /\ Holds(Entries(data'), S2, m2, f)
  BY <1>1 DEF State
<1>5. S2 \in Kinds /\ DOMAIN m2 \subseteq TypesInUse[S2] /\ V \in TypesInUse[S2]
  BY <1>4, HoldsTypes, KindsOfTypes
<1>6. DOMAIN m \subseteq TypesInUse[S2] /\ m2 = [W \in DOMAIN m \cup {V} |-> IF W = V THEN value ELSE m[W]]
  BY <1>1, <1>5 DEF Put
<1>7. Map!Put(S2, V, value)
  BY <1>2, <1>3, <1>4, <1>5, <1>6 DEF Map!Put
<1>8. S2 \in DOMAIN TypesInUse
  BY <1>5 DEF TypesInUse, Kinds
<1>9. Map!Next
  BY <1>5, <1>7, <1>8 DEF Map!Next
<1> QED
  BY <1>9 DEF IInv

\* one that puts none leaves it,
LEMMA SameDone ==
  ASSUME NEW T, NEW K, NEW S, NEW m, NEW e, State(data, T, K, S, m, e),
         NEW S2, NEW f, State(data', promised', K, S2, m, f), Len(data') <= MaxLen
  PROVE  IInv' /\ UNCHANGED Map!vars
<1>1. Kind = K /\ Stored = m
  BY StateReads DEF Kind, Stored
<1>2. Kind' = K /\ Stored' = m
  BY StateReads DEF Kind, Stored
<1> QED
  BY <1>1, <1>2 DEF IInv, Map!vars

\* one that makes the account what it is to be, with default values, is a step of the map,
LEMMA BecomeDone ==
  ASSUME NEW T, NEW S, NEW m, NEW e, State(data, T, "Uninitialized", S, m, e),
         NEW K \in Kinds, NEW m2, NEW f, State(data', promised', K, K, m2, f),
         Len(data') <= MaxLen, DOMAIN m \subseteq DOMAIN m2,
         \A V \in DOMAIN m2 : \/ V \in InUse /\ m2[V] = DefaultValue(V)
                              \/ V \in DOMAIN m /\ m2[V] = m[V]
  PROVE  IInv' /\ Map!Next
<1>1. Kind = "Uninitialized" /\ Stored = m
  BY StateReads DEF Kind, Stored
<1>2. Kind' = K /\ Stored' = m2
  BY StateReads DEF Kind, Stored
<1>3. DOMAIN m2 \subseteq TypesInUse[K]
  <2>1. Holds(Entries(data'), K, m2, f)
    BY DEF State
  <2> QED
    BY <2>1, HoldsTypes
<1>4. Map!Become(K)
  BY <1>1, <1>2, <1>3 DEF Map!Become
<1>5. K \in DOMAIN TypesInUse
  BY DEF TypesInUse, Kinds
<1>6. Map!Next
  BY <1>4, <1>5 DEF Map!Next
<1> QED
  BY <1>6 DEF IInv

\* and so is one that empties the account.
LEMMA DeleteDone ==
  ASSUME NEW S, NEW e, State(data', promised', "Uninitialized", S, <<>>, e), Len(data') <= MaxLen
  PROVE  IInv' /\ Map!Next
<1>1. Kind' = "Uninitialized" /\ Stored' = <<>>
  BY StateReads DEF Kind, Stored
<1>2. Map!Delete
  BY <1>1 DEF Map!Delete
<1> QED
  BY <1>2 DEF IInv, Map!Next

-----------------------------------------------------------------------------
(* Creating and deleting an account.                                       *)

\* adjust_len_for_multisig returns at least the length, and never that of a multisig.
LEMMA Adjusted ==
  ASSUME NEW n \in Nat
  PROVE  /\ adjust_len_for_multisig(n) \in Nat
         /\ n <= adjust_len_for_multisig(n)
         /\ adjust_len_for_multisig(n) # MULTISIG_LEN
<1>1. MULTISIG_LEN \in Nat
  BY LayoutAssumption
<1> QED
  BY <1>1 DEF adjust_len_for_multisig

\* The size worked out for a set of types is that of their entries.
LEMMA SizeForTypes ==
  ASSUME NEW S \in Kinds, NEW T, T \subseteq InUse \cup {TokenMetadata},
         NEW n \in try_calculate_account_len(S, T)
  PROVE  /\ T \subseteq InUse
         /\ T = {} => n = SizeOf(S)
         /\ T # {} => n = adjust_len_for_multisig(Sum(T) + ACCOUNT_LEN + 1)
         /\ n \in Nat
<1>1. CASE T = {}
  <2>1. n = SizeOf(S)
    BY <1>1 DEF try_calculate_account_len
  <2> QED
    BY <1>1, <2>1, Sizes
<1>2. CASE T # {}
  <2>1. PICK x \in try_get_total_tlv_len(T) : n = adjust_len_for_multisig(x + ACCOUNT_LEN + 1)
    BY <1>2 DEF try_calculate_account_len
  <2>3. try_get_total_tlv_len(T) = OkIf(\A V \in T : sized(V), Sum(T))
    BY DEF try_get_total_tlv_len, Sum
  <2>4. (\A V \in T : sized(V)) /\ x = Sum(T)
    BY <2>1, <2>3 DEF OkIf
  <2>5. T \subseteq InUse
    <3>1. \A V \in T : V # TokenMetadata
      BY <2>4 DEF sized
    <3> QED
      BY <3>1
  <2>6. Sum(T) \in Nat /\ ACCOUNT_LEN \in Nat
    BY <2>5, SumIs, LayoutAssumption
  <2>7. Sum(T) + ACCOUNT_LEN + 1 \in Nat
    BY <2>6
  <2>8. adjust_len_for_multisig(Sum(T) + ACCOUNT_LEN + 1) \in Nat
    BY <2>7, Adjusted
  <2> QED
    BY <1>2, <2>1, <2>4, <2>5, <2>8
<1> QED
  BY <1>1, <1>2

\* An account of this size has room for these types.
LEMMA RoomForTypes ==
  ASSUME NEW S \in Kinds, NEW T, T \subseteq InUse, T # {},
         NEW n \in try_calculate_account_len(S, T)
  PROVE  /\ n \in Nat /\ n >= ACCOUNT_LEN + 1 + Sum(T) /\ n > ACCOUNT_LEN + 1
         /\ n # MULTISIG_LEN
<1>1. n = adjust_len_for_multisig(Sum(T) + ACCOUNT_LEN + 1)
  BY SizeForTypes
<1>2. Sum(T) \in Nat /\ Sum(T) >= 4 /\ ACCOUNT_LEN \in Nat
  BY SumIs, SumSome, LayoutAssumption
<1>3. PICK x \in Nat : x = Sum(T) + ACCOUNT_LEN + 1
  BY <1>2
<1>4. n \in Nat /\ x <= n /\ n # MULTISIG_LEN
  BY <1>1, <1>3, Adjusted
<1> QED
  BY <1>2, <1>3, <1>4

\* A new account of zeros holds nothing.
LEMMA FreshState ==
  ASSUME NEW d \in Seq(u8), \A i \in 1..Len(d) : d[i] = 0, NEW S \in Kinds,
         NEW T, Promise(d, <<>>, T)
  PROVE  State(d, T, "Uninitialized", S, <<>>, 0)
<1>1. ZeroBetween(d, 0, ACCOUNT_LEN + 1)
  BY DEF ZeroBetween
<1>2. SameTail(d, <<>>)
  <2>1. PICK n \in Nat : n = Len(d)
    OBVIOUS
  <2>2. ACCOUNT_LEN \in Nat
    BY LayoutAssumption
  <2>3. \A k \in 1..n : ~(k <= Len(<<>>)) /\ d[k] = 0
    BY <2>1
  <2> QED
    BY <2>1, <2>3 DEF SameTail
<1>3. Holds(Entries(d), S, <<>>, 0)
  BY <1>2, HoldsNothing
<1> QED
  BY <1>1, <1>3 DEF State, Base

\* Nothing promised fits anywhere.
LEMMA NoPromise ==
  ASSUME NEW d, NEW m
  PROVE  Promise(d, m, {})
BY DEF Promise, OneKind

\* No bytes hold nothing.
LEMMA EmptyState ==
  ASSUME NEW S \in Kinds
  PROVE  State(<<>>, {}, "Uninitialized", S, <<>>, 0)
<1>1. PICK x : x = <<>>
  OBVIOUS
<1>2. x \in Seq(u8) /\ \A i \in 1..Len(x) : x[i] = 0
  BY <1>1
<1>3. Promise(x, <<>>, {})
  BY NoPromise
<1>4. State(x, {}, "Uninitialized", S, <<>>, 0)
  BY <1>2, <1>3, FreshState
<1> QED
  BY <1>1, <1>4

\* The invariant holds at first, and the map is as it is at first.
LEMMA InitHolds ==
  ASSUME Init
  PROVE  IInv /\ Map!Init
<1>1. "Mint" \in Kinds
  BY DEF Kinds
<1>2. State(data, promised, "Uninitialized", "Mint", <<>>, 0)
  BY <1>1, EmptyState DEF Init
<1>3. Len(data) <= MaxLen
  BY LayoutAssumption DEF Init
<1>4. Kind = "Uninitialized" /\ Stored = <<>>
  BY <1>2, StateReads DEF Kind, Stored
<1> QED
  BY <1>2, <1>3, <1>4 DEF IInv, Map!Init

\* CreateAccount, with the length try_calculate_account_len returns.
LEMMA CreateStep ==
  ASSUME NEW S \in {"Mint", "Account"}, NEW types \in Reserved, NEW slack \in Slack,
         \A V \in types : get_account_type(V) = S, Create(S, types, slack)
  PROVE  IInv' /\ UNCHANGED Map!vars
<1>1. S \in Kinds
  BY DEF Kinds
<1>2. PICK n \in try_calculate_account_len(S, types) : n + slack <= MaxLen /\ data' = Zeros(n + slack)
  BY DEF Create
<1>3. data = <<>> /\ promised' = IF slack = 0 THEN types ELSE {}
  BY DEF Create
<1>4. types \subseteq InUse /\ slack \in Nat
  BY LayoutAssumption DEF InUse
<1>5. n \in Nat
  BY <1>1, <1>4, SizeForTypes
<1>6. PICK l \in Nat : l = n + slack
  BY <1>4, <1>5
<1>7. data' \in Seq(u8) /\ Len(data') = l /\ \A i \in 1..Len(data') : data'[i] = 0
  BY <1>2, <1>6, ZerosProps
<1>8. Promise(data', <<>>, promised')
  <2>1. CASE promised' = {}
    BY <2>1, NoPromise
  <2>2. CASE promised' # {}
    <3>1. slack = 0 /\ promised' = types /\ types # {}
      BY <1>3, <2>2
    <3>2. n \in Nat /\ n >= ACCOUNT_LEN + 1 + Sum(types) /\ n # MULTISIG_LEN
      BY <1>1, <1>2, <1>4, <3>1, RoomForTypes
    <3>3. Len(data') = n
      BY <1>5, <1>6, <1>7, <3>1
    <3>4. OneKind(types)
      BY DEF OneKind
    <3> QED
      BY <1>4, <3>1, <3>2, <3>3, <3>4 DEF Promise
  <2> QED
    BY <2>1, <2>2
<1>9. State(data', promised', "Uninitialized", S, <<>>, 0)
  BY <1>1, <1>7, <1>8, FreshState
<1>10. State(data, {}, "Uninitialized", S, <<>>, 0)
  BY <1>1, <1>3, EmptyState
<1>11. Len(data') <= MaxLen
  BY <1>2, <1>6, <1>7
<1> QED
  BY <1>9, <1>10, <1>11, SameDone

\* CloseAccount, in which delete_account empties the account.
LEMMA CloseStep ==
  ASSUME CloseAccount
  PROVE  IInv' /\ Map!Next
<1>1. "Mint" \in Kinds
  BY DEF Kinds
<1>2. State(data', promised', "Uninitialized", "Mint", <<>>, 0)
  BY <1>1, EmptyState DEF CloseAccount
<1>3. Len(data') <= MaxLen
  BY LayoutAssumption DEF CloseAccount
<1> QED
  BY <1>2, <1>3, DeleteDone

-----------------------------------------------------------------------------
(* Initializing, and writing an extension.                                 *)

\* What unpack_uninitialized says of an account that has been reached.
LEMMA Fresh ==
  ASSUME NEW d, NEW T, NEW K, NEW S, NEW m, NEW e, State(d, T, K, S, m, e),
         NEW S2 \in Kinds, NEW tlv \in unpack_uninitialized(S2, d)
  PROVE  /\ tlv = Entries(d) /\ K = "Uninitialized" /\ FreshSize(S2, Len(d))
         /\ Holds(tlv, S2, m, e) /\ State(d, T, K, S2, m, e)
<1>1. tlv = Entries(d) /\ K = "Uninitialized" /\ FreshSize(S2, Len(d)) /\ FirstMatches(S2, tlv)
  BY StateFresh
<1>2. Holds(tlv, S, m, e)
  BY <1>1 DEF State
<1>3. Holds(tlv, S2, m, e)
  BY <1>1, <1>2, HoldsAs
<1> QED
  BY <1>1, <1>3 DEF State

\* What unpack returns.
LEMMA Unpacked ==
  ASSUME NEW d, NEW T, NEW K, NEW S, NEW m, NEW e, State(d, T, K, S, m, e),
         NEW S2 \in Kinds, NEW tlv \in unpack(S2, d)
  PROVE  /\ tlv = Entries(d) /\ K = S2 /\ S = S2
         /\ Holds(tlv, S2, m, e)
<1>1. unpack(S2, d) = IF K = S2 THEN {Entries(d)} ELSE {}
  BY StateReads
<1>2. tlv = Entries(d) /\ K = S2
  BY <1>1
<1>3. S = S2
  BY <1>2 DEF State, Kinds
<1> QED
  BY <1>2, <1>3 DEF State

\* One extension is written into the room there is.
LEMMA AllocStep ==
  ASSUME NEW d, NEW T, NEW K, NEW S, NEW m, NEW e, State(d, T, K, S, m, e),
         NEW V, NEW value, Stores(V, value), get_account_type(V) = S,
         NEW overwrite \in BOOLEAN, NEW new \in alloc(S, Entries(d), V, value, overwrite)
  PROVE  /\ State(WithTlv(d, new), T, K, S, Put(m, V, value), EndWith(m, e, V, value))
         /\ Len(WithTlv(d, new)) = Len(d)
         /\ V \in DOMAIN m => overwrite
<1>1. Holds(Entries(d), S, m, e) /\ K \in {"Uninitialized", S}
  BY DEF State
<1>2. /\ new \in Seq(u8) /\ Len(new) = Len(Entries(d))
      /\ Holds(new, S, Put(m, V, value), EndWith(m, e, V, value))
      /\ V \in DOMAIN m => overwrite
  BY <1>1, HoldsAlloc
<1>3. DOMAIN m \subseteq DOMAIN Put(m, V, value)
  BY DEF Put
<1> QED
  BY <1>1, <1>2, <1>3, StateEntries

\* The values written to extensions in use can be stored.
LEMMA StoresContents ==
  ASSUME NEW V \in InUse, NEW value \in Contents, Len(value) = type_len[V]
  PROVE  Stores(V, value)
BY LayoutAssumption DEF Stores

\* Initializing an extension before the base state.
LEMMA InitializeExtensionStep ==
  ASSUME IInv, NEW V \in InUse, NEW value \in Contents,
         InitializeExtension(get_account_type(V), V, value)
  PROVE  IInv' /\ Map!Next
<1>1. PICK K, S, m, e : State(data, promised, K, S, m, e)
  BY DEF IInv
<1>2. PICK S2 : S2 = get_account_type(V) /\ S2 \in Kinds
  BY KindsOfTypes
<1>3. Stores(V, value)
  BY StoresContents DEF InitializeExtension
<1>4. PICK tlv \in unpack_uninitialized(S2, data) :
        \E new \in alloc(S2, tlv, V, value, TRUE) : data' = WithTlv(data, new)
  BY <1>2 DEF InitializeExtension
<1>5. PICK new \in alloc(S2, tlv, V, value, TRUE) : data' = WithTlv(data, new)
  BY <1>4
<1>6. tlv = Entries(data) /\ State(data, promised, K, S2, m, e)
  BY <1>1, <1>2, Fresh
<1>7. /\ State(data', promised, K, S2, Put(m, V, value), EndWith(m, e, V, value))
      /\ Len(data') = Len(data)
  <2>1. new \in alloc(S2, Entries(data), V, value, TRUE) /\ get_account_type(V) = S2
    BY <1>2, <1>5, <1>6
  <2>3. \A o \in BOOLEAN : \A w \in alloc(S2, Entries(data), V, value, o) :
          /\ State(WithTlv(data, w), promised, K, S2, Put(m, V, value), EndWith(m, e, V, value))
          /\ Len(WithTlv(data, w)) = Len(data)
    BY <1>3, <1>6, <2>1, AllocStep
  <2>2. /\ State(WithTlv(data, new), promised, K, S2, Put(m, V, value), EndWith(m, e, V, value))
        /\ Len(WithTlv(data, new)) = Len(data)
    BY <2>1, <2>3, TRUE \in BOOLEAN, Zenon
  <2> QED
    BY <1>5, <2>2
<1>8. promised' = promised /\ Len(data) <= MaxLen
  BY DEF InitializeExtension, IInv
<1>9. State(data', promised', K, S2, Put(m, V, value), EndWith(m, e, V, value))
      /\ Len(data') <= MaxLen
  BY <1>7, <1>8
<1> QED
  BY <1>2, <1>6, <1>9, PutDone

\* Updating an extension.
LEMMA UpdateExtensionStep ==
  ASSUME IInv, NEW V \in InUse, NEW value \in Contents,
         UpdateExtension(get_account_type(V), V, value)
  PROVE  IInv' /\ Map!Next
<1>1. PICK K, S, m, e : State(data, promised, K, S, m, e)
  BY DEF IInv
<1>2. PICK S2 : S2 = get_account_type(V) /\ S2 \in Kinds
  BY KindsOfTypes
<1>3. Stores(V, value)
  BY StoresContents DEF UpdateExtension
<1>4. PICK tlv \in unpack(S2, data) :
        \E new \in alloc(S2, tlv, V, value, TRUE) : data' = WithTlv(data, new)
  BY <1>2 DEF UpdateExtension
<1>5. PICK new \in alloc(S2, tlv, V, value, TRUE) : data' = WithTlv(data, new)
  BY <1>4
<1>6. tlv = Entries(data) /\ State(data, promised, K, S2, m, e)
  BY <1>1, <1>2, Unpacked
<1>7. /\ State(data', promised, K, S2, Put(m, V, value), EndWith(m, e, V, value))
      /\ Len(data') = Len(data)
  <2>1. new \in alloc(S2, Entries(data), V, value, TRUE) /\ get_account_type(V) = S2
    BY <1>2, <1>5, <1>6
  <2>3. \A o \in BOOLEAN : \A w \in alloc(S2, Entries(data), V, value, o) :
          /\ State(WithTlv(data, w), promised, K, S2, Put(m, V, value), EndWith(m, e, V, value))
          /\ Len(WithTlv(data, w)) = Len(data)
    BY <1>3, <1>6, <2>1, AllocStep
  <2>2. /\ State(WithTlv(data, new), promised, K, S2, Put(m, V, value), EndWith(m, e, V, value))
        /\ Len(WithTlv(data, new)) = Len(data)
    BY <2>1, <2>3, TRUE \in BOOLEAN, Zenon
  <2> QED
    BY <1>5, <2>2
<1>8. promised' = promised /\ Len(data) <= MaxLen
  BY DEF UpdateExtension, IInv
<1>9. State(data', promised', K, S2, Put(m, V, value), EndWith(m, e, V, value))
      /\ Len(data') <= MaxLen
  BY <1>7, <1>8
<1> QED
  BY <1>2, <1>6, <1>9, PutDone

\* The byte of the base state and, where there is one, the account type are set.
Initialized(r, d, K) ==
  /\ r \in Seq(u8) /\ Len(r) = Len(d) /\ Entries(r) = Entries(d)
  /\ SizeOf(K) <= Len(d) => r[SizeOf(K)] = 1
  /\ Len(d) > ACCOUNT_LEN + 1 => r[ACCOUNT_LEN + 1] = TypeByte(K)

\* The base state after it was initialized.
LEMMA InitializedBase ==
  ASSUME NEW d \in Seq(u8), NEW K \in Kinds, FreshSize(K, Len(d)),
         NEW r, Initialized(r, d, K), K = "Mint" => ZeroBetween(r, MINT_LEN, ACCOUNT_LEN)
  PROVE  Base(r, K)
<1>1. PICK n \in Nat : n = Len(d)
  OBVIOUS
<1>2. n # MULTISIG_LEN /\ SizeOf(K) <= n /\ (n > SizeOf(K) => n > ACCOUNT_LEN + 1)
  BY <1>1 DEF FreshSize
<1>3. /\ Len(r) = n /\ r[SizeOf(K)] = 1
      /\ n > ACCOUNT_LEN + 1 => r[ACCOUNT_LEN + 1] = TypeByte(K)
  BY <1>1, <1>2 DEF Initialized
<1>4. SizeOf(K) \in Nat
  BY Sizes
<1>5. n = SizeOf(K) \/ (n > ACCOUNT_LEN + 1 /\ r[ACCOUNT_LEN + 1] = TypeByte(K))
  BY <1>2, <1>3, <1>4
<1> QED
  BY <1>2, <1>3, <1>5 DEF Base

\* What the account holds stays, then.
LEMMA StateInitialized ==
  ASSUME NEW K \in Kinds, NEW d, NEW T, NEW m, NEW e, State(d, T, "Uninitialized", K, m, e),
         FreshSize(K, Len(d)),
         NEW r, Initialized(r, d, K), K = "Mint" => ZeroBetween(r, MINT_LEN, ACCOUNT_LEN)
  PROVE  State(r, T, K, K, m, e) /\ Len(r) = Len(d)
<1>1. d \in Seq(u8) /\ Holds(Entries(d), K, m, e) /\ Promise(d, m, T)
  BY DEF State
<1>2. Base(r, K)
  BY <1>1, InitializedBase
<1>3. r \in Seq(u8) /\ Len(r) = Len(d) /\ Entries(r) = Entries(d)
  BY DEF Initialized
<1>4. Promise(r, m, T)
  BY <1>1, <1>3 DEF Promise
<1> QED
  BY <1>1, <1>2, <1>3, <1>4 DEF State

\* The account type is written when there is more than the base state.
LEMMA TypeWritten ==
  ASSUME NEW K \in Kinds, NEW d \in Seq(u8), NEW b \in Seq(u8), Len(b) = Len(d),
         Entries(b) = Entries(d), SizeOf(K) <= Len(d) => b[SizeOf(K)] = 1,
         NEW r, r = IF HasType(K, d) THEN Write(b, ACCOUNT_LEN, <<TypeByte(K)>>) ELSE b
  PROVE  /\ Initialized(r, d, K)
         /\ \A k \in 1..Len(d) : k <= ACCOUNT_LEN => r[k] = b[k]
<1>1. PICK n \in Nat : n = Len(d)
  OBVIOUS
<1>2. /\ SizeOf(K) \in Nat /\ 1 <= SizeOf(K) /\ SizeOf(K) <= ACCOUNT_LEN /\ ACCOUNT_LEN \in Nat
      /\ TypeByte(K) \in u8
  BY Sizes
<1>3. CASE n > SizeOf(K)
  <2>1. r = Write(b, ACCOUNT_LEN, <<TypeByte(K)>>)
    BY <1>1, <1>3 DEF HasType
  <2>2. ByteWritten(r, b, ACCOUNT_LEN + 1, TypeByte(K))
    BY <1>2, <2>1, WriteByte
  <2>3. r \in Seq(u8) /\ Len(r) = n /\ Entries(r) = Entries(d)
    BY <1>1, <2>2 DEF ByteWritten
  <2>4. \A k \in 1..n : r[k] = IF k = ACCOUNT_LEN + 1 THEN TypeByte(K) ELSE b[k]
    BY <1>1, <2>2 DEF ByteWritten
  <2>5. \A k \in 1..n : k <= ACCOUNT_LEN => r[k] = b[k]
    BY <1>2, <2>4
  <2>6. r[SizeOf(K)] = 1
    BY <1>1, <1>2, <1>3, <2>5
  <2>7. n > ACCOUNT_LEN + 1 => r[ACCOUNT_LEN + 1] = TypeByte(K)
    BY <1>2, <2>4
  <2> QED
    BY <1>1, <2>3, <2>5, <2>6, <2>7 DEF Initialized
<1>4. CASE ~(n > SizeOf(K))
  <2>1. r = b
    BY <1>1, <1>4 DEF HasType
  <2>2. ~(n > ACCOUNT_LEN + 1)
    BY <1>2, <1>4
  <2> QED
    BY <1>1, <2>1, <2>2 DEF Initialized
<1> QED
  BY <1>3, <1>4

\* InitializeMint.
LEMMA InitializeMintStep ==
  ASSUME IInv, InitializeMint
  PROVE  IInv' /\ Map!Next
<1>1. PICK K, S, m, e : State(data, promised, K, S, m, e)
  BY DEF IInv
<1>2. "Mint" \in Kinds
  BY DEF Kinds
<1>3. PICK tlv \in unpack_uninitialized("Mint", data) : TRUE
  BY DEF InitializeMint
<1>4. State(data, promised, "Uninitialized", "Mint", m, e) /\ FreshSize("Mint", Len(data))
  BY <1>1, <1>2, <1>3, Fresh
<1>5. data \in Seq(u8) /\ ZeroBetween(data, 0, ACCOUNT_LEN + 1)
  BY <1>4 DEF State, Base, Kinds
<1>6. PICK n \in Nat : n = Len(data)
  BY <1>5
<1>7. PICK b : b = Write(data, MINT_LEN - 1, <<1>>)
  OBVIOUS
<1>8. /\ MINT_LEN \in Nat /\ 1 <= MINT_LEN /\ MINT_LEN < ACCOUNT_LEN /\ ACCOUNT_LEN \in Nat
      /\ SizeOf("Mint") = MINT_LEN
  BY <1>2, Sizes
<1>9. ByteWritten(b, data, MINT_LEN, 1)
  <2>1. PICK i \in Nat : i = MINT_LEN - 1 /\ i + 1 = MINT_LEN /\ i <= ACCOUNT_LEN
    BY <1>8
  <2>2. 1 \in u8
    BY DEF u8
  <2>3. ByteWritten(Write(data, i, <<1>>), data, i + 1, 1)
    BY <1>5, <2>1, <2>2, WriteByte
  <2> QED
    BY <1>7, <2>1, <2>3
<1>10. /\ b \in Seq(u8) /\ Len(b) = n /\ Entries(b) = Entries(data)
       /\ \A k \in 1..n : b[k] = IF k = MINT_LEN THEN 1 ELSE data[k]
  BY <1>6, <1>9 DEF ByteWritten
<1>11. MINT_LEN <= n => b[MINT_LEN] = 1
  BY <1>8, <1>10
<1>12. data' = IF HasType("Mint", data) THEN Write(b, ACCOUNT_LEN, <<TypeByte("Mint")>>) ELSE b
  BY <1>7 DEF InitializeMint
<1>13. /\ Initialized(data', data, "Mint")
       /\ \A k \in 1..n : k <= ACCOUNT_LEN => data'[k] = b[k]
  <2>1. SizeOf("Mint") <= Len(data) => b[SizeOf("Mint")] = 1
    BY <1>6, <1>8, <1>11
  <2> QED
    BY <1>2, <1>5, <1>6, <1>10, <1>12, <2>1, TypeWritten
<1>14. ZeroBetween(data', MINT_LEN, ACCOUNT_LEN)
  <2>1. ASSUME NEW k \in 1..n, MINT_LEN < k, k <= ACCOUNT_LEN PROVE data'[k] = 0
    <3>1. data[k] = 0
      BY <1>5, <1>6, <1>8, <2>1 DEF ZeroBetween
    <3> QED
      BY <1>8, <1>10, <1>13, <2>1, <3>1
  <2>2. Len(data') = n
    BY <1>6, <1>13 DEF Initialized
  <2> QED
    BY <2>1, <2>2 DEF ZeroBetween
<1>15. State(data', promised, "Mint", "Mint", m, e) /\ Len(data') = Len(data)
  BY <1>2, <1>4, <1>13, <1>14, StateInitialized
<1>16. promised' = promised /\ Len(data) <= MaxLen
  BY DEF InitializeMint, IInv
<1>17. State(data', promised', "Mint", "Mint", m, e) /\ Len(data') <= MaxLen
  BY <1>15, <1>16
<1> QED
  BY <1>2, <1>4, <1>17, BecomeDone

\* m2 has what m has, except that defaults were added or put in its place.
Extended(m, m2) ==
  /\ DOMAIN m \subseteq DOMAIN m2
  /\ \A V \in DOMAIN m2 : \/ V \in InUse /\ m2[V] = DefaultValue(V)
                          \/ V \in DOMAIN m /\ m2[V] = m[V]

\* Default values were put for some of the required types, others are unchanged.
RequiredDone(tlv, m, new) ==
  /\ new \in Seq(u8) /\ Len(new) = Len(tlv)
  /\ \E m2, f : Holds(new, "Account", m2, f) /\ Extended(m, m2)

\* One turn of the loop over the required extensions,
LEMMA RequiredStepDone ==
  ASSUME NEW tlv, NEW m, NEW t, RequiredDone(tlv, m, t),
         NEW V \in InitializedWithAccount \cap DOMAIN type_len,
         NEW new \in alloc("Account", t, V, Zeros(type_len[V]), TRUE)
  PROVE  RequiredDone(tlv, m, new)
<1>1. PICK m2, f : Holds(t, "Account", m2, f) /\ Extended(m, m2)
  BY DEF RequiredDone
<1>2. t \in Seq(u8) /\ Len(t) = Len(tlv)
  BY DEF RequiredDone
<1>3. V \in InUse /\ get_account_type(V) = "Account"
  BY DEF InUse, InitializedWithAccount, get_account_type, AccountTypes, MintTypes
<1>4. PICK z : z = Zeros(type_len[V]) /\ z = DefaultValue(V)
  BY DEF DefaultValue
<1>5. Stores(V, z)
  BY <1>3, <1>4, DefaultStored
<1>6. new \in alloc("Account", t, V, z, TRUE)
  BY <1>4
<1>7. \A o \in BOOLEAN : \A w \in alloc("Account", t, V, z, o) :
        /\ w \in Seq(u8) /\ Len(w) = Len(t)
        /\ Holds(w, "Account", Put(m2, V, z), EndWith(m2, f, V, z))
  BY <1>1, <1>3, <1>5, HoldsAlloc
<1>8. /\ new \in Seq(u8) /\ Len(new) = Len(t)
      /\ Holds(new, "Account", Put(m2, V, z), EndWith(m2, f, V, z))
  BY <1>6, <1>7, TRUE \in BOOLEAN, Zenon
<1>9. Extended(m, Put(m2, V, z))
  BY <1>1, <1>3, <1>4 DEF Extended, Put
<1> QED
  BY <1>2, <1>8, <1>9 DEF RequiredDone

\* and all of them.
LEMMA RequiredAll ==
  ASSUME NEW tlv \in Seq(u8), NEW m, NEW e, Holds(tlv, "Account", m, e),
         NEW required \in Seq(InitializedWithAccount \cap DOMAIN type_len),
         NEW new \in InitializeRequired(tlv, required)
  PROVE  RequiredDone(tlv, m, new)
<1> DEFINE f == WithRequired(tlv, required)
           n == Len(required)
           bad == {i \in 0..n : ~ \A t \in f[i] : RequiredDone(tlv, m, t)}
<1>1. n \in Nat
  OBVIOUS
<1>2. RequiredDone(tlv, m, tlv)
  BY DEF RequiredDone, Extended
<1>3. \A i \in 0..n : f[i] = RequiredStep(tlv, required, f, i)
  BY <1>1, RequiredEq
<1> HIDE DEF f
<1>4. bad = {}
  <2>1. SUFFICES ASSUME bad # {} PROVE FALSE
    OBVIOUS
  <2>12. bad \subseteq Nat
    BY <1>1
  <2>2. PICK i \in bad : \A k \in bad : i <= k
    <3> HIDE DEF bad
    <3> QED
      BY <2>1, <2>12, Least
  <2>3. i \in 0..n /\ ~ \A t \in f[i] : RequiredDone(tlv, m, t)
    OBVIOUS
  <2>4. PICK t \in f[i] : ~RequiredDone(tlv, m, t)
    BY <2>3
  <2>5. t \in RequiredStep(tlv, required, f, i)
    BY <1>3, <2>3, <2>4
  <2>6. i # 0
    <3>1. SUFFICES ASSUME i = 0 PROVE FALSE
      OBVIOUS
    <3>2. t = tlv
      BY <2>5, <3>1 DEF RequiredStep
    <3> QED
      BY <1>2, <2>4, <3>2
  <2>7. PICK j \in Nat : j = i - 1 /\ j \in 0..n /\ j < i
    BY <1>1, <2>3, <2>6
  <2>8. \A s \in f[j] : RequiredDone(tlv, m, s)
    BY <1>1, <2>2, <2>3, <2>7
  <2>9. PICK V : V = required[i] /\ V \in InitializedWithAccount \cap DOMAIN type_len
    BY <1>1, <2>3, <2>6
  <2>10. PICK s \in f[j] : t \in alloc("Account", s, V, Zeros(type_len[V]), TRUE)
    BY <2>5, <2>6, <2>7, <2>9 DEF RequiredStep, Then
  <2>11. RequiredDone(tlv, m, t)
    BY <2>8, <2>9, <2>10, RequiredStepDone
  <2> QED
    BY <2>4, <2>11
<1>5. new \in f[n]
  BY DEF InitializeRequired, f
<1> QED
  BY <1>1, <1>4, <1>5

\* InitializeAccount.
LEMMA InitializeAccountStep ==
  ASSUME IInv, NEW required \in Required, NEW key_byte \in {0, 1},
         InitializeAccount(required, key_byte)
  PROVE  IInv' /\ Map!Next
<1>1. PICK K, S, m, e : State(data, promised, K, S, m, e)
  BY DEF IInv
<1>2. "Account" \in Kinds
  BY DEF Kinds
<1> DEFINE base == Write(Write(data, MINT_LEN - 1, <<key_byte>>), ACCOUNT_LEN - 1, <<1>>)
           typed == IF HasType("Account", data)
                      THEN Write(base, ACCOUNT_LEN, <<TypeByte("Account")>>) ELSE base
<1>3. PICK tlv \in unpack_uninitialized("Account", data) :
        \E new \in InitializeRequired(tlv, required) : data' = WithTlv(typed, new)
  BY DEF InitializeAccount
<1>4. PICK new \in InitializeRequired(tlv, required) : data' = WithTlv(typed, new)
  BY <1>3
<1>5. /\ tlv = Entries(data) /\ Holds(tlv, "Account", m, e)
      /\ State(data, promised, "Uninitialized", "Account", m, e)
      /\ FreshSize("Account", Len(data))
  BY <1>1, <1>2, Fresh
<1>6. data \in Seq(u8)
  BY <1>5 DEF State
<1>7. PICK n \in Nat : n = Len(data)
  BY <1>6
<1>8. /\ MINT_LEN \in Nat /\ 1 <= MINT_LEN /\ MINT_LEN < ACCOUNT_LEN /\ ACCOUNT_LEN \in Nat
      /\ SizeOf("Account") = ACCOUNT_LEN
  BY <1>2, Sizes, LayoutAssumption
<1>9. PICK c : c = Write(data, MINT_LEN - 1, <<key_byte>>)
  OBVIOUS
<1>10. ByteWritten(c, data, MINT_LEN, key_byte)
  <2>1. PICK i \in Nat : i = MINT_LEN - 1 /\ i + 1 = MINT_LEN /\ i <= ACCOUNT_LEN
    BY <1>8
  <2>2. key_byte \in u8
    BY DEF u8
  <2>3. ByteWritten(Write(data, i, <<key_byte>>), data, i + 1, key_byte)
    BY <1>6, <2>1, <2>2, WriteByte
  <2> QED
    BY <1>9, <2>1, <2>3
<1>11. c \in Seq(u8) /\ Len(c) = n /\ Entries(c) = Entries(data)
  BY <1>7, <1>10 DEF ByteWritten
<1>12. PICK b : b = Write(c, ACCOUNT_LEN - 1, <<1>>) /\ b = base
  BY <1>9
<1>13. ByteWritten(b, c, ACCOUNT_LEN, 1)
  <2>1. PICK i \in Nat : i = ACCOUNT_LEN - 1 /\ i + 1 = ACCOUNT_LEN /\ i <= ACCOUNT_LEN
    BY <1>8
  <2>2. 1 \in u8
    BY DEF u8
  <2>3. ByteWritten(Write(c, i, <<1>>), c, i + 1, 1)
    BY <1>11, <2>1, <2>2, WriteByte
  <2> QED
    BY <1>12, <2>1, <2>3
<1>14. /\ b \in Seq(u8) /\ Len(b) = n /\ Entries(b) = Entries(data)
       /\ ACCOUNT_LEN <= n => b[ACCOUNT_LEN] = 1
  <2>1. /\ b \in Seq(u8) /\ Len(b) = n /\ Entries(b) = Entries(data)
        /\ \A k \in 1..n : b[k] = IF k = ACCOUNT_LEN THEN 1 ELSE c[k]
    BY <1>11, <1>13 DEF ByteWritten
  <2> QED
    BY <1>8, <2>1
<1>15. PICK r : r = typed /\ r = IF HasType("Account", data)
                                   THEN Write(b, ACCOUNT_LEN, <<TypeByte("Account")>>) ELSE b
  BY <1>12
<1> HIDE DEF base, typed
<1>16. Initialized(r, data, "Account")
  <2>1. SizeOf("Account") <= Len(data) => b[SizeOf("Account")] = 1
    BY <1>7, <1>8, <1>14
  <2> QED
    BY <1>2, <1>6, <1>7, <1>14, <1>15, <2>1, TypeWritten
<1>17. State(r, promised, "Account", "Account", m, e) /\ Len(r) = Len(data)
  BY <1>2, <1>5, <1>16, StateInitialized
<1>18. Entries(r) = tlv /\ tlv \in Seq(u8)
  <2>1. Entries(r) = Entries(data)
    BY <1>16 DEF Initialized
  <2> QED
    BY <1>5, <1>6, <2>1, EntriesIs DEF IsEntries
<1>19. RequiredDone(tlv, m, new)
  <2>1. required \in Seq(InitializedWithAccount \cap DOMAIN type_len)
    BY LayoutAssumption
  <2> QED
    BY <1>4, <1>5, <1>18, <2>1, RequiredAll
<1>20. PICK m2, f : Holds(new, "Account", m2, f) /\ Extended(m, m2)
  BY <1>19 DEF RequiredDone
<1>21. new \in Seq(u8) /\ Len(new) = Len(Entries(r))
  BY <1>18, <1>19 DEF RequiredDone
<1>22. State(WithTlv(r, new), promised, "Account", "Account", m2, f)
         /\ Len(WithTlv(r, new)) = Len(r)
  BY <1>17, <1>20, <1>21, StateEntries DEF Extended
<1>23. promised' = promised /\ Len(data) <= MaxLen
  BY DEF InitializeAccount, IInv
<1>24. State(data', promised', "Account", "Account", m2, f) /\ Len(data') <= MaxLen
  BY <1>4, <1>15, <1>17, <1>22, <1>23
<1>25. /\ DOMAIN m \subseteq DOMAIN m2
       /\ \A V \in DOMAIN m2 : \/ V \in InUse /\ m2[V] = DefaultValue(V)
                               \/ V \in DOMAIN m /\ m2[V] = m[V]
  BY <1>20 DEF Extended
<1> QED
  BY <1>2, <1>5, <1>24, <1>25, BecomeDone

-----------------------------------------------------------------------------
(* Reallocate.                                                             *)

\* t is d at another size, with the account type of K.
SizedTo(t, d, n, K) ==
  /\ t \in Seq(u8) /\ Len(t) = n
  /\ \A k \in 1..n : k # ACCOUNT_LEN + 1 => t[k] = IF k <= Len(d) THEN d[k] ELSE 0
  /\ t[ACCOUNT_LEN + 1] = TypeByte(K)

\* The base state after resizing,
LEMMA SizedBase ==
  ASSUME NEW d \in Seq(u8), NEW K \in Kinds, Base(d, K),
         NEW n \in Nat, n > ACCOUNT_LEN + 1, n # MULTISIG_LEN,
         NEW t, SizedTo(t, d, n, K)
  PROVE  Base(t, K)
<1>1. PICK l \in Nat : l = Len(d)
  OBVIOUS
<1>2. /\ SizeOf(K) \in Nat /\ 1 <= SizeOf(K) /\ SizeOf(K) <= ACCOUNT_LEN
      /\ ACCOUNT_LEN \in Nat /\ MINT_LEN \in Nat
  BY Sizes
<1>3. /\ Len(t) = n /\ t[ACCOUNT_LEN + 1] = TypeByte(K)
      /\ \A k \in 1..n : k # ACCOUNT_LEN + 1 => t[k] = IF k <= l THEN d[k] ELSE 0
  BY <1>1 DEF SizedTo
<1>4. /\ SizeOf(K) <= l /\ d[SizeOf(K)] = 1
      /\ K = "Mint" => ZeroBetween(d, MINT_LEN, ACCOUNT_LEN)
  BY <1>1 DEF Base, Kinds
<1>5. t[SizeOf(K)] = 1
  BY <1>2, <1>3, <1>4
<1>6. ZeroBetween(d, MINT_LEN, ACCOUNT_LEN) => ZeroBetween(t, MINT_LEN, ACCOUNT_LEN)
  <2>1. SUFFICES ASSUME ZeroBetween(d, MINT_LEN, ACCOUNT_LEN),
                        NEW k \in 1..n, MINT_LEN < k, k <= ACCOUNT_LEN
                 PROVE  t[k] = 0
    BY <1>3 DEF ZeroBetween
  <2>2. k <= l => d[k] = 0
    BY <1>1, <2>1 DEF ZeroBetween
  <2> QED
    BY <1>1, <1>2, <1>3, <2>1, <2>2
<1>7. SizeOf(K) <= n
  BY <1>2
<1> QED
  BY <1>3, <1>4, <1>5, <1>6, <1>7 DEF Base

\* where the entries end,
LEMMA HoldsEnd ==
  ASSUME NEW d \in Seq(u8), NEW S, NEW m, NEW e, Holds(Entries(d), S, m, e)
  PROVE  e \in Nat /\ (e = 0 \/ e + ACCOUNT_LEN + 1 <= Len(d))
<1>1. e \in Nat /\ e <= Len(Entries(d))
  BY DEF Holds, Layout
<1>2. Len(Entries(d)) = IF Len(d) > ACCOUNT_LEN + 1 THEN Len(d) - (ACCOUNT_LEN + 1) ELSE 0
  BY EntriesIs DEF IsEntries
<1>3. ACCOUNT_LEN \in Nat
  BY LayoutAssumption
<1>4. PICK l \in Nat : l = Len(d)
  OBVIOUS
<1> QED
  BY <1>1, <1>2, <1>3, <1>4

\* and what the account holds then.
LEMMA StateSized ==
  ASSUME NEW K \in Kinds, NEW d, NEW T, NEW m, NEW e, State(d, T, K, K, m, e),
         NEW n \in Nat, n > ACCOUNT_LEN + 1, n # MULTISIG_LEN, e + ACCOUNT_LEN + 1 <= n,
         NEW t, SizedTo(t, d, n, K), NEW T2, Promise(t, m, T2)
  PROVE  State(t, T2, K, K, m, e)
<1>1. d \in Seq(u8) /\ Base(d, K) /\ Holds(Entries(d), K, m, e)
  BY DEF State
<1>2. Base(t, K)
  BY <1>1, SizedBase
<1>3. t \in Seq(u8) /\ Len(t) = n
  BY DEF SizedTo
<1>4. SameTail(t, d)
  <2>1. ACCOUNT_LEN \in Nat
    BY LayoutAssumption
  <2> QED
    BY <1>3, <2>1 DEF SizedTo, SameTail
<1>5. Holds(Entries(t), K, m, e)
  BY <1>1, <1>3, <1>4, HoldsTail
<1> QED
  BY <1>2, <1>3, <1>5 DEF State

\* What a resize and set_account_type make of an account.
LEMMA ResizedTyped ==
  ASSUME NEW K \in Kinds, NEW d \in Seq(u8), NEW n \in Nat, n > ACCOUNT_LEN + 1
  PROVE  SizedTo(Write(Resize(d, n), ACCOUNT_LEN, <<TypeByte(K)>>), d, n, K)
<1>1. PICK r : r = Resize(d, n)
  OBVIOUS
<1>2. r \in Seq(u8) /\ Len(r) = n /\ \A k \in 1..n : r[k] = IF k <= Len(d) THEN d[k] ELSE 0
  BY <1>1, ResizeIs DEF Resized
<1>3. ACCOUNT_LEN \in Nat /\ TypeByte(K) \in u8
  BY Sizes
<1>4. PICK t : t = Write(r, ACCOUNT_LEN, <<TypeByte(K)>>)
  OBVIOUS
<1>5. ByteWritten(t, r, ACCOUNT_LEN + 1, TypeByte(K))
  BY <1>2, <1>3, <1>4, WriteByte
<1>6. /\ t \in Seq(u8) /\ Len(t) = n
      /\ \A k \in 1..n : t[k] = IF k = ACCOUNT_LEN + 1 THEN TypeByte(K) ELSE r[k]
  BY <1>2, <1>5 DEF ByteWritten
<1>7. t[ACCOUNT_LEN + 1] = TypeByte(K)
  BY <1>3, <1>6
<1>8. \A k \in 1..n : k # ACCOUNT_LEN + 1 => t[k] = IF k <= Len(d) THEN d[k] ELSE 0
  BY <1>2, <1>6
<1> QED
  BY <1>1, <1>4, <1>6, <1>7, <1>8 DEF SizedTo

\* Resizing an account that has a type already.
LEMMA ResizedOnly ==
  ASSUME NEW K \in Kinds, NEW d \in Seq(u8), Base(d, K), Len(d) > ACCOUNT_LEN + 1,
         NEW n \in Nat, n > ACCOUNT_LEN + 1
  PROVE  SizedTo(Resize(d, n), d, n, K)
<1>1. PICK r : r = Resize(d, n)
  OBVIOUS
<1>2. r \in Seq(u8) /\ Len(r) = n /\ \A k \in 1..n : r[k] = IF k <= Len(d) THEN d[k] ELSE 0
  BY <1>1, ResizeIs DEF Resized
<1>3. /\ SizeOf(K) \in Nat /\ SizeOf(K) <= ACCOUNT_LEN /\ ACCOUNT_LEN \in Nat
  BY Sizes
<1>4. PICK l \in Nat : l = Len(d)
  OBVIOUS
<1>5. d[ACCOUNT_LEN + 1] = TypeByte(K)
  <2>1. l = SizeOf(K) \/ d[ACCOUNT_LEN + 1] = TypeByte(K)
    BY <1>4 DEF Base, Kinds
  <2> QED
    BY <1>3, <1>4, <2>1
<1>6. r[ACCOUNT_LEN + 1] = TypeByte(K)
  BY <1>2, <1>3, <1>4, <1>5
<1> QED
  BY <1>1, <1>2, <1>6 DEF SizedTo

\* set_account_type writes the type byte.
LEMMA SetAccountType ==
  ASSUME NEW S, NEW d, NEW t \in set_account_type(S, d)
  PROVE  t = Write(d, ACCOUNT_LEN, <<TypeByte(S)>>)
BY DEF set_account_type, OkIf

\* What was promised fits a longer account, too.
LEMMA GrownPromise ==
  ASSUME NEW d \in Seq(u8), NEW m, NEW T, Promise(d, m, T), NEW t, Len(t) \in Nat,
         Len(d) <= Len(t), Len(t) # MULTISIG_LEN
  PROVE  Promise(t, m, T)
<1>1. PICK l \in Nat, n \in Nat : l = Len(d) /\ n = Len(t)
  OBVIOUS
<1>2. ASSUME T # {}, TokenMetadata \notin DOMAIN m
      PROVE  n >= ACCOUNT_LEN + 1 + Sum(T)
  <2>1. l >= ACCOUNT_LEN + 1 + Sum(T) /\ T \subseteq InUse
    BY <1>1, <1>2 DEF Promise
  <2>2. Sum(T) \in Nat /\ ACCOUNT_LEN \in Nat
    BY <2>1, SumIs, LayoutAssumption
  <2> QED
    BY <1>1, <2>1, <2>2
<1>3. T \subseteq InUse /\ OneKind(T)
  BY DEF Promise
<1> QED
  BY <1>1, <1>2, <1>3 DEF Promise

\* Reallocate.
LEMMA ReallocateStep ==
  ASSUME IInv, NEW types \in Reserved, Reallocate(types)
  PROVE  IInv' /\ UNCHANGED Map!vars
<1>1. PICK K, S, m, e : State(data, promised, K, S, m, e)
  BY DEF IInv
<1>2. "Account" \in Kinds
  BY DEF Kinds
<1>3. PICK tlv \in unpack("Account", data) :
        \E present \in get_extension_types(tlv) :
         /\ \E n \in try_calculate_account_len("Account", present \cup types) :
              IF Len(data) >= n THEN UNCHANGED data
              ELSE n <= MaxLen /\ data' \in set_account_type("Account", Resize(data, n))
         /\ promised' = present \cup types
  BY DEF Reallocate
<1>4. /\ tlv = Entries(data) /\ K = "Account" /\ S = "Account"
      /\ Holds(tlv, "Account", m, e)
  BY <1>1, <1>2, Unpacked
<1>5. State(data, promised, "Account", "Account", m, e)
  BY <1>1, <1>4
<1>6. get_extension_types(tlv) = {DOMAIN m} /\ OfKind(m, "Account")
  BY <1>4, <1>5, StateReads
<1>7. PICK T : T = DOMAIN m \cup types
  OBVIOUS
<1>8. PICK n \in try_calculate_account_len("Account", T) :
        /\ IF Len(data) >= n THEN UNCHANGED data
           ELSE n <= MaxLen /\ data' \in set_account_type("Account", Resize(data, n))
        /\ promised' = T
  BY <1>3, <1>6, <1>7
<1>9. T \subseteq InUse \cup {TokenMetadata}
  <2>1. types \subseteq InUse
    BY LayoutAssumption DEF InUse
  <2> QED
    BY <1>4, <1>7, <2>1 DEF Holds
<1>10. T \subseteq InUse /\ n \in Nat /\ (T = {} => n = ACCOUNT_LEN)
  BY <1>2, <1>9, SizeForTypes DEF SizeOf
<1>11. OneKind(T)
  <2>1. \A V \in T : get_account_type(V) = "Account"
    BY <1>6, <1>7 DEF OfKind, Reallocate
  <2> QED
    BY <2>1 DEF OneKind
<1>12. T # {} => /\ n >= ACCOUNT_LEN + 1 + Sum(T) /\ n > ACCOUNT_LEN + 1 /\ n # MULTISIG_LEN
                 /\ Sum(T) \in Nat
  BY <1>2, <1>8, <1>10, RoomForTypes, SumIs
<1>13. data \in Seq(u8) /\ Base(data, "Account") /\ Len(data) <= MaxLen
  BY <1>5 DEF State, IInv
<1>14. PICK l \in Nat : l = Len(data)
  BY <1>13
<1>15. l # MULTISIG_LEN /\ ACCOUNT_LEN <= l /\ ACCOUNT_LEN \in Nat
  BY <1>13, <1>14, LayoutAssumption DEF Base, Kinds, SizeOf
<1>16. CASE l >= n
  <2>1. data' = data
    BY <1>8, <1>14, <1>16
  <2>2. T # {} => l >= ACCOUNT_LEN + 1 + Sum(T)
    BY <1>10, <1>12, <1>15, <1>16
  <2>3. Promise(data', m, T)
    BY <1>10, <1>11, <1>14, <1>15, <2>1, <2>2 DEF Promise
  <2>4. State(data', promised', "Account", "Account", m, e) /\ Len(data') <= MaxLen
    BY <1>5, <1>8, <1>13, <2>1, <2>3 DEF State
  <2> QED
    BY <1>5, <2>4, SameDone
<1>17. CASE ~(l >= n)
  <2>1. n <= MaxLen /\ data' \in set_account_type("Account", Resize(data, n))
    BY <1>8, <1>14, <1>17
  <2>2. T # {}
    BY <1>10, <1>15, <1>17
  <2>3. /\ n >= ACCOUNT_LEN + 1 + Sum(T) /\ n > ACCOUNT_LEN + 1 /\ n # MULTISIG_LEN
    BY <1>12, <2>2
  <2>4. data' = Write(Resize(data, n), ACCOUNT_LEN, <<TypeByte("Account")>>)
    BY <2>1, SetAccountType
  <2>5. SizedTo(data', data, n, "Account")
    BY <1>2, <1>10, <1>13, <2>3, <2>4, ResizedTyped
  <2>6. Len(data') = n
    BY <2>5 DEF SizedTo
  <2>7. Promise(data', m, T)
    BY <1>10, <1>11, <2>3, <2>6 DEF Promise
  <2>8. e \in Nat /\ (e = 0 \/ e + ACCOUNT_LEN + 1 <= l)
    BY <1>4, <1>13, <1>14, HoldsEnd
  <2>9. e + ACCOUNT_LEN + 1 <= n
    BY <1>10, <1>15, <1>17, <2>3, <2>8
  <2>10. State(data', T, "Account", "Account", m, e)
    BY <1>2, <1>5, <1>10, <2>3, <2>5, <2>7, <2>9, StateSized
  <2>11. State(data', promised', "Account", "Account", m, e) /\ Len(data') <= MaxLen
    BY <1>8, <2>1, <2>6, <2>10
  <2> QED
    BY <1>5, <2>11, SameDone
<1> QED
  BY <1>16, <1>17

-----------------------------------------------------------------------------
(* Extensions that make room for themselves.                               *)

\* The size an entry of a length asks for.
LEMMA NewLenBounds ==
  ASSUME NEW tlv, NEW S, NEW m, NEW e, Holds(tlv, S, m, e),
         NEW V, NEW value \in Seq(u8), NEW l \in Nat, l = Len(value),
         NEW n, n = LenWith(m, e, V, l)
  PROVE  /\ n \in Nat /\ n > ACCOUNT_LEN + 1 /\ n # MULTISIG_LEN
         /\ EndWith(m, e, V, value) \in Nat
         /\ EndWith(m, e, V, value) + ACCOUNT_LEN + 1 <= n
         /\ V \notin DOMAIN m => e + ACCOUNT_LEN + 1 <= n
<1>1. PICK pos : Layout(tlv, m, pos, e)
  BY DEF Holds
<1>2. e \in Nat /\ ACCOUNT_LEN \in Nat
  BY <1>1, LayoutAssumption DEF Layout
<1>3. CASE V \in DOMAIN m
  <2>1. PICK old \in Nat : old = Len(m[V])
    BY <1>1, <1>3, LayoutEntry
  <2>2. old + 4 <= e
    <3>1. /\ pos[V] \in Nat /\ Behind(m, pos, V) = pos[V] + 4 + Len(m[V]) /\ Behind(m, pos, V) <= e
      BY <1>1, <1>3, LayoutEntry DEF Behind
    <3> QED
      BY <1>2, <1>3, <2>1, <3>1
  <2>7. PICK y \in Nat : e = y + (old + 4)
    <3>1. e - (old + 4) \in Nat /\ e = (e - (old + 4)) + (old + 4)
      BY <1>2, <2>2
    <3> QED
      BY <3>1
  <2>3. PICK x \in Nat : x = e + ACCOUNT_LEN + 1 - (old + 4) + (l + 4)
    <3>1. e + ACCOUNT_LEN + 1 - (old + 4) + (l + 4) = y + ACCOUNT_LEN + l + 5
      BY <1>2, <2>7
    <3>2. e + ACCOUNT_LEN + 1 - (old + 4) + (l + 4) \in Nat
      BY <1>2, <3>1
    <3> QED
      BY <3>2
  <2>4. n = adjust_len_for_multisig(x)
    BY <1>3, <2>1, <2>3 DEF LenWith, Taken
  <2>5. EndWith(m, e, V, value) = e + l - old
    BY <1>3, <2>1 DEF EndWith
  <2>6. n \in Nat /\ x <= n /\ n # MULTISIG_LEN
    BY <2>4, Adjusted
  <2> QED
    BY <1>2, <1>3, <2>1, <2>2, <2>3, <2>5, <2>6
<1>4. CASE V \notin DOMAIN m
  <2>1. PICK x \in Nat : x = e + ACCOUNT_LEN + 1 - 0 + (l + 4)
    BY <1>2
  <2>2. n = adjust_len_for_multisig(x)
    BY <1>4, <2>1 DEF LenWith, Taken
  <2>3. EndWith(m, e, V, value) = e + 4 + l
    BY <1>4 DEF EndWith
  <2>4. n \in Nat /\ x <= n /\ n # MULTISIG_LEN
    BY <2>2, Adjusted
  <2> QED
    BY <1>2, <1>4, <2>1, <2>3, <2>4
<1> QED
  BY <1>3, <1>4

\* The account that the entry goes into, grown when it was too small.
LEMMA GrownState ==
  ASSUME NEW K \in Kinds, NEW d, NEW T, NEW m, NEW e, State(d, T, K, K, m, e),
         NEW n \in Nat, n > ACCOUNT_LEN + 1, n # MULTISIG_LEN, Len(d) < n,
         NEW t, SizedTo(t, d, n, K)
  PROVE  State(t, T, K, K, m, e) /\ Len(t) = n
<1>1. d \in Seq(u8) /\ Holds(Entries(d), K, m, e) /\ Promise(d, m, T)
  BY DEF State
<1>2. e \in Nat /\ (e = 0 \/ e + ACCOUNT_LEN + 1 <= Len(d))
  BY <1>1, HoldsEnd
<1>3. e + ACCOUNT_LEN + 1 <= n
  <2>1. PICK l \in Nat : l = Len(d)
    BY <1>1
  <2>2. ACCOUNT_LEN \in Nat
    BY LayoutAssumption
  <2> QED
    BY <1>2, <2>1, <2>2
<1>4. Len(t) = n /\ Len(t) \in Nat /\ Len(d) <= Len(t) /\ Len(t) # MULTISIG_LEN
  BY <1>1 DEF SizedTo
<1>5. Promise(t, m, T)
  BY <1>1, <1>4, GrownPromise
<1> QED
  BY <1>3, <1>4, <1>5, StateSized

\* The type byte is written if the account had none.
LEMMA TypedIs ==
  ASSUME NEW S, NEW old_len, NEW d, NEW t \in Typed(S, old_len, d)
  PROVE  /\ old_len <= ACCOUNT_LEN => t = Write(d, ACCOUNT_LEN, <<TypeByte(S)>>)
         /\ ~(old_len <= ACCOUNT_LEN) => t = d
BY SetAccountType DEF Typed

\* An account that has no account type gets it when it grows.
LEMMA TypedGrown ==
  ASSUME NEW K \in Kinds, NEW d \in Seq(u8), Base(d, K),
         NEW n \in Nat, n > ACCOUNT_LEN + 1, NEW t \in Typed(K, Len(d), Resize(d, n))
  PROVE  SizedTo(t, d, n, K)
<1>1. PICK l \in Nat : l = Len(d)
  OBVIOUS
<1>2. CASE l <= ACCOUNT_LEN
  <2>1. t = Write(Resize(d, n), ACCOUNT_LEN, <<TypeByte(K)>>)
    BY <1>1, <1>2, TypedIs
  <2> QED
    BY <2>1, ResizedTyped
<1>3. CASE ~(l <= ACCOUNT_LEN)
  <2>1. t = Resize(d, n)
    BY <1>1, <1>3, TypedIs
  <2>2. SizeOf(K) \in Nat /\ SizeOf(K) <= ACCOUNT_LEN /\ ACCOUNT_LEN \in Nat
    BY Sizes
  <2>3. l = SizeOf(K) \/ l > ACCOUNT_LEN + 1
    BY <1>1 DEF Base, Kinds
  <2>4. Len(d) > ACCOUNT_LEN + 1
    BY <1>1, <1>3, <2>2, <2>3
  <2> QED
    BY <2>1, <2>4, ResizedOnly
<1> QED
  BY <1>2, <1>3

\* The length a value needs.
LEMMA StateNewLen ==
  ASSUME NEW K, NEW d, NEW T, NEW m, NEW e, State(d, T, K, K, m, e),
         NEW V \in InUse \cup {TokenMetadata}, get_account_type(V) = K, NEW l,
         NEW n \in try_get_new_account_len_for_extension_len(K, Entries(d), V, l)
  PROVE  n = LenWith(m, e, V, l)
<1>1. PICK pos : Layout(Entries(d), m, pos, e)
  BY DEF State, Holds
<1>2. OfKind(m, K) /\ V \in Types
  BY StoredType DEF State, Holds
<1> QED
  BY <1>1, <1>2, NewLen

\* The account that alloc_and_serialize writes the entry into.
LEMMA AllocAndSerializeIn ==
  ASSUME NEW K \in Kinds, NEW d, NEW T, NEW m, NEW e, State(d, T, K, K, m, e),
         NEW V \in InUse, get_account_type(V) = K, NEW value, NEW overwrite \in BOOLEAN,
         NEW n, n = LenWith(m, e, V, type_len[V]),
         NEW d2 \in alloc_and_serialize(K, d, V, value, overwrite)
  PROVE  \E t \in Typed(K, Len(d), IF n > Len(d) THEN Resize(d, n) ELSE d) :
           \E old \in unpack(K, t) :
             \E new \in alloc(K, old, V, value, overwrite) : d2 = WithTlv(t, new)
<1> DEFINE R(t) == UNION { { WithTlv(t, w) : w \in alloc(K, old, V, value, overwrite) } :
                           old \in unpack(K, t) }
           G(l) == UNION { R(t) : t \in Typed(K, Len(d), IF l > Len(d) THEN Resize(d, l) ELSE d) }
           F(tlv) == UNION { G(l) : l \in try_get_new_account_len_for_extension_len(
                                            K, tlv, V, type_len[V]) }
<1>1. unpack(K, d) = {Entries(d)}
  BY StateReads
<1>2. alloc_and_serialize(K, d, V, value, overwrite) = UNION { F(tlv) : tlv \in unpack(K, d) }
  BY Zenon DEF alloc_and_serialize, Then, OnEntries
<1> HIDE DEF F
<1>3. d2 \in F(Entries(d))
  BY <1>1, <1>2
<1> HIDE DEF G
<1>4. PICK l \in try_get_new_account_len_for_extension_len(K, Entries(d), V, type_len[V]) :
        d2 \in G(l)
  BY <1>3 DEF F
<1>5. l = n
  BY <1>4, StateNewLen
<1> HIDE DEF R
<1>6. PICK t \in Typed(K, Len(d), IF n > Len(d) THEN Resize(d, n) ELSE d) : d2 \in R(t)
  BY <1>4, <1>5 DEF G
<1>7. PICK old \in unpack(K, t) :
        d2 \in { WithTlv(t, w) : w \in alloc(K, old, V, value, overwrite) }
  BY <1>6 DEF R
<1> QED
  BY <1>6, <1>7

\* alloc in an account read by unpack,
LEMMA AllocWithTlv ==
  ASSUME NEW d, NEW T, NEW K, NEW m, NEW e, State(d, T, K, K, m, e), K \in Kinds,
         NEW V, NEW value, Stores(V, value), get_account_type(V) = K,
         NEW overwrite \in BOOLEAN, NEW old \in unpack(K, d),
         NEW new \in alloc(K, old, V, value, overwrite)
  PROVE  /\ State(WithTlv(d, new), T, K, K, Put(m, V, value), EndWith(m, e, V, value))
         /\ Len(WithTlv(d, new)) = Len(d)
<1>1. old = Entries(d)
  BY Unpacked
<1>2. new \in alloc(K, Entries(d), V, value, overwrite)
  BY <1>1
<1> QED
  BY <1>2, AllocStep

\* and realloc.
LEMMA ReallocWithTlv ==
  ASSUME NEW d, NEW T, NEW K, NEW m, NEW e, State(d, T, K, K, m, e), K \in Kinds,
         NEW V \in DOMAIN m, NEW value, Stores(V, value), get_account_type(V) = K,
         NEW old \in unpack(K, d), NEW new \in realloc(old, V, value)
  PROVE  /\ State(WithTlv(d, new), T, K, K, Put(m, V, value), EndWith(m, e, V, value))
         /\ Len(WithTlv(d, new)) = Len(d)
<1>1. old = Entries(d) /\ Holds(old, K, m, e)
  BY Unpacked
<1>2. /\ new \in Seq(u8) /\ Len(new) = Len(Entries(d))
      /\ Holds(new, K, Put(m, V, value), EndWith(m, e, V, value))
  BY <1>1, HoldsRealloc
<1>3. DOMAIN m \subseteq DOMAIN Put(m, V, value)
  BY DEF Put
<1>4. K \in {"Uninitialized", K}
  OBVIOUS
<1> QED
  BY <1>2, <1>3, <1>4, StateEntries

\* Initializing a token group or a member.
LEMMA GroupStep ==
  ASSUME IInv, NEW V \in InUse, NEW value \in Contents, InitializeTokenGroup(V, value)
  PROVE  IInv' /\ Map!Next
<1>1. PICK K0, S, m, e : State(data, promised, K0, S, m, e)
  BY DEF IInv
<1>2. PICK K : K = "Mint" /\ K \in Kinds
  BY DEF Kinds
<1>3. get_account_type(V) = K
  <2>1. V \in MintTypes /\ V \notin AccountTypes
    BY DEF InitializeTokenGroup, TokenGroup, TokenGroupMember, MintTypes, AccountTypes
  <2>2. get_account_type(V) = "Mint"
    BY <2>1 DEF get_account_type
  <2> QED
    BY <1>2, <2>1, <2>2
<1>4. /\ Stores(V, value) /\ Len(value) = type_len[V] /\ type_len[V] \in Nat
  BY StoresContents, SizeOfType DEF InitializeTokenGroup
<1>5. PICK no \in BOOLEAN : data' \in alloc_and_serialize(K, data, V, value, no)
  BY <1>2, FALSE \in BOOLEAN, Zenon DEF InitializeTokenGroup
<1>6. unpack(K, data) # {}
  BY <1>5 DEF alloc_and_serialize, Then
<1>7. PICK tlv \in unpack(K, data) : TRUE
  BY <1>6
<1>8. State(data, promised, K, K, m, e) /\ Holds(Entries(data), K, m, e)
  BY <1>1, <1>2, <1>7, Unpacked
<1>9. PICK n : n = LenWith(m, e, V, type_len[V])
  OBVIOUS
<1>10. PICK t \in Typed(K, Len(data), IF n > Len(data) THEN Resize(data, n) ELSE data) :
         \E old \in unpack(K, t) :
           \E new \in alloc(K, old, V, value, no) : data' = WithTlv(t, new)
  BY <1>2, <1>3, <1>5, <1>8, <1>9, AllocAndSerializeIn
<1>18. PICK old \in unpack(K, t) : \E new \in alloc(K, old, V, value, no) : data' = WithTlv(t, new)
  BY <1>10
<1>11. PICK new \in alloc(K, old, V, value, no) : data' = WithTlv(t, new)
  BY <1>18
<1>12. n \in Nat /\ n > ACCOUNT_LEN + 1 /\ n # MULTISIG_LEN
  <2>1. value \in Seq(u8)
    BY <1>4 DEF Stores
  <2>2. PICK l \in Nat : l = Len(value) /\ l = type_len[V]
    BY <1>4
  <2>3. n = LenWith(m, e, V, l)
    BY <1>9, <2>2
  <2> QED
    BY <1>8, <2>1, <2>2, <2>3, NewLenBounds
<1>13. data \in Seq(u8) /\ Base(data, K)
  BY <1>8 DEF State
<1>14. State(t, promised, K, K, m, e)
  <2>1. PICK l \in Nat : l = Len(data)
    BY <1>13
  <2>2. CASE l < n
    <3>1. t \in Typed(K, Len(data), Resize(data, n))
      BY <1>10, <1>12, <2>1, <2>2
    <3>2. SizedTo(t, data, n, K)
      BY <1>2, <1>12, <1>13, <3>1, TypedGrown
    <3>3. Len(data) < n
      BY <2>1, <2>2
    <3> QED
      BY <1>2, <1>8, <1>12, <3>2, <3>3, GrownState
  <2>3. CASE ~(l < n)
    <3>1. t \in Typed(K, Len(data), data)
      BY <1>10, <1>12, <2>1, <2>3
    <3>2. ~(Len(data) <= ACCOUNT_LEN)
      BY <1>12, <2>1, <2>3, LayoutAssumption
    <3>3. t = data
      BY <3>1, <3>2, TypedIs
    <3> QED
      BY <1>8, <3>3
  <2> QED
    BY <2>2, <2>3
<1>15. State(data', promised, K, K, Put(m, V, value), EndWith(m, e, V, value))
  BY <1>2, <1>3, <1>4, <1>11, <1>14, AllocWithTlv
<1>16. promised' = promised /\ Len(data') <= MaxLen
  BY DEF InitializeTokenGroup
<1>17. State(data', promised', K, K, Put(m, V, value), EndWith(m, e, V, value))
  BY <1>15, <1>16
<1> QED
  BY <1>3, <1>8, <1>16, <1>17, PutDone

\* The account t with the entry, put in place of the one it has or added.
Made(K, m, V, value, t) ==
  UNION { { WithTlv(t, w) : w \in IF V \in DOMAIN m THEN realloc(old, V, value)
                                  ELSE alloc(K, old, V, value, FALSE) } :
          old \in unpack(K, t) }

\* alloc_and_serialize_variable_len_extension: before the write if the account grows,
\* behind it if it shrinks.
LEMMA VariableIn ==
  ASSUME NEW K \in Kinds, NEW d, NEW T, NEW m, NEW e, State(d, T, K, K, m, e),
         NEW V \in InUse \cup {TokenMetadata}, get_account_type(V) = K, NEW value,
         NEW overwrite \in BOOLEAN,
         NEW n, n = LenWith(m, e, V, Len(value)),
         NEW d2 \in alloc_and_serialize_variable_len_extension(K, d, V, value, overwrite)
  PROVE  /\ Len(d) < n =>
              \E t \in IF V \in DOMAIN m THEN {Resize(d, n)} ELSE Typed(K, Len(d), Resize(d, n)) :
                d2 \in Made(K, m, V, value, t)
         /\ ~(Len(d) < n) => \E t \in Made(K, m, V, value, d) : d2 = Resize(t, n)
<1> DEFINE exists(tlv) == get_extension_bytes(K, tlv, V) # {}
           P(tlv, t) == UNION { { WithTlv(t, w) : w \in IF exists(tlv) THEN realloc(old, V, value)
                                                        ELSE alloc(K, old, V, value, FALSE) } :
                                old \in unpack(K, t) }
           G(tlv, l) == IF exists(tlv) /\ ~overwrite THEN {}
                        ELSE IF Len(d) < l
                          THEN UNION { P(tlv, t) : t \in IF exists(tlv) THEN {Resize(d, l)}
                                                         ELSE Typed(K, Len(d), Resize(d, l)) }
                        ELSE { Resize(t, l) : t \in P(tlv, d) }
           F(tlv) == UNION { G(tlv, l) : l \in try_get_new_account_len_for_extension_len(
                                                 K, tlv, V, Len(value)) }
<1>1. unpack(K, d) = {Entries(d)}
  BY StateReads
<1>2. alloc_and_serialize_variable_len_extension(K, d, V, value, overwrite)
        = UNION { F(tlv) : tlv \in unpack(K, d) }
  BY Zenon DEF alloc_and_serialize_variable_len_extension, Then, OnEntries
<1>3. exists(Entries(d)) <=> V \in DOMAIN m
  <2>1. PICK pos : Layout(Entries(d), m, pos, e)
    BY DEF State, Holds
  <2>2. OfKind(m, K) /\ V \in Types
    BY StoredType DEF State, Holds
  <2>3. get_extension_bytes(K, Entries(d), V) = IF V \in DOMAIN m THEN {m[V]} ELSE {}
    BY <2>1, <2>2, LayoutBytes
  <2> QED
    BY <2>3
<1>4. \A t : P(Entries(d), t) = Made(K, m, V, value, t)
  BY <1>3 DEF Made
<1> HIDE DEF F
<1>5. d2 \in F(Entries(d))
  BY <1>1, <1>2
<1> HIDE DEF G
<1>6. PICK l \in try_get_new_account_len_for_extension_len(K, Entries(d), V, Len(value)) :
        d2 \in G(Entries(d), l)
  BY <1>5 DEF F
<1>7. l = n
  BY <1>6, StateNewLen
<1> HIDE DEF P, exists
<1>8. d2 \in IF Len(d) < n
               THEN UNION { P(Entries(d), t) : t \in IF V \in DOMAIN m THEN {Resize(d, n)}
                                                     ELSE Typed(K, Len(d), Resize(d, n)) }
             ELSE { Resize(t, n) : t \in P(Entries(d), d) }
  BY <1>3, <1>6, <1>7 DEF G
<1>9. ASSUME Len(d) < n
      PROVE  \E t \in IF V \in DOMAIN m THEN {Resize(d, n)} ELSE Typed(K, Len(d), Resize(d, n)) :
                d2 \in Made(K, m, V, value, t)
  BY <1>4, <1>8, <1>9
<1>10. ASSUME ~(Len(d) < n) PROVE \E t \in Made(K, m, V, value, d) : d2 = Resize(t, n)
  BY <1>4, <1>8, <1>10
<1> QED
  BY <1>9, <1>10

\* The write in between.
LEMMA MadeState ==
  ASSUME NEW K \in Kinds, NEW d, NEW T, NEW m, NEW e, State(d, T, K, K, m, e),
         NEW V, NEW value, Stores(V, value), get_account_type(V) = K,
         NEW r \in Made(K, m, V, value, d)
  PROVE  /\ State(r, T, K, K, Put(m, V, value), EndWith(m, e, V, value))
         /\ Len(r) = Len(d)
<1>1. PICK old \in unpack(K, d) :
        r \in { WithTlv(d, w) : w \in IF V \in DOMAIN m THEN realloc(old, V, value)
                                      ELSE alloc(K, old, V, value, FALSE) }
  BY DEF Made
<1>2. CASE V \in DOMAIN m
  <2>1. PICK w \in realloc(old, V, value) : r = WithTlv(d, w)
    BY <1>1, <1>2
  <2> QED
    BY <1>2, <2>1, ReallocWithTlv
<1>3. CASE V \notin DOMAIN m
  <2>1. PICK w \in alloc(K, old, V, value, FALSE) : r = WithTlv(d, w)
    BY <1>1, <1>3
  <2>2. \A o \in BOOLEAN : \A x \in alloc(K, old, V, value, o) :
          /\ State(WithTlv(d, x), T, K, K, Put(m, V, value), EndWith(m, e, V, value))
          /\ Len(WithTlv(d, x)) = Len(d)
    BY AllocWithTlv
  <2>3. /\ State(WithTlv(d, w), T, K, K, Put(m, V, value), EndWith(m, e, V, value))
        /\ Len(WithTlv(d, w)) = Len(d)
    BY <2>2, FALSE \in BOOLEAN, Zenon
  <2> QED
    BY <2>1, <2>3
<1> QED
  BY <1>2, <1>3

\* TokenMetadata keeps no promise about the size.
LEMMA MetadataPromise ==
  ASSUME NEW d, NEW m, NEW T, Promise(d, m, T), NEW t, NEW m2, TokenMetadata \in DOMAIN m2
  PROVE  Promise(t, m2, T)
BY DEF Promise

\* Together they put the value.
LEMMA VariableState ==
  ASSUME NEW K \in Kinds, NEW d, NEW T, NEW m, NEW e, State(d, T, K, K, m, e),
         get_account_type(TokenMetadata) = K, NEW value \in Seq(u8),
         NEW overwrite \in BOOLEAN,
         NEW d2 \in alloc_and_serialize_variable_len_extension(K, d, TokenMetadata, value, overwrite)
  PROVE  State(d2, T, K, K, Put(m, TokenMetadata, value), EndWith(m, e, TokenMetadata, value))
<1>1. PICK V : V = TokenMetadata
  OBVIOUS
<1>2. Stores(V, value) /\ V \in InUse \cup {TokenMetadata}
  BY <1>1 DEF Stores
<1>3. PICK l \in Nat : l = Len(value)
  OBVIOUS
<1>4. PICK n : n = LenWith(m, e, V, l)
  OBVIOUS
<1>5. /\ d \in Seq(u8) /\ Base(d, K) /\ Holds(Entries(d), K, m, e) /\ Promise(d, m, T)
  BY DEF State
<1>6. PICK f : f = EndWith(m, e, V, value)
  OBVIOUS
<1>7. /\ n \in Nat /\ n > ACCOUNT_LEN + 1 /\ n # MULTISIG_LEN
      /\ f \in Nat /\ f + ACCOUNT_LEN + 1 <= n
  BY <1>3, <1>4, <1>5, <1>6, NewLenBounds
<1>8. /\ Len(d) < n =>
           \E t \in IF V \in DOMAIN m THEN {Resize(d, n)} ELSE Typed(K, Len(d), Resize(d, n)) :
             d2 \in Made(K, m, V, value, t)
      /\ ~(Len(d) < n) => \E t \in Made(K, m, V, value, d) : d2 = Resize(t, n)
  <2>1. n = LenWith(m, e, V, Len(value))
    BY <1>3, <1>4
  <2>2. d2 \in alloc_and_serialize_variable_len_extension(K, d, V, value, overwrite)
    BY <1>1
  <2> QED
    BY <1>1, <1>2, <2>1, <2>2, VariableIn
<1>9. PICK a \in Nat : a = Len(d)
  BY <1>5
<1>10. CASE a < n
  <2>1. PICK t \in IF V \in DOMAIN m THEN {Resize(d, n)} ELSE Typed(K, Len(d), Resize(d, n)) :
          d2 \in Made(K, m, V, value, t)
    BY <1>8, <1>9, <1>10
  <2>2. SizedTo(t, d, n, K)
    <3>1. CASE V \in DOMAIN m
      <4>1. t = Resize(d, n)
        BY <2>1, <3>1
      <4>2. e \in Nat /\ (e = 0 \/ e + ACCOUNT_LEN + 1 <= a) /\ ACCOUNT_LEN \in Nat
        BY <1>5, <1>9, HoldsEnd, LayoutAssumption
      <4>3. e >= 4
        <5>1. PICK pos : Layout(Entries(d), m, pos, e)
          BY <1>5 DEF Holds
        <5>2. /\ pos[V] \in Nat /\ pos[V] + 4 <= Behind(m, pos, V) /\ Behind(m, pos, V) <= e
              /\ Behind(m, pos, V) \in Nat
          BY <3>1, <5>1, LayoutEntry
        <5> QED
          BY <4>2, <5>2
      <4>4. Len(d) > ACCOUNT_LEN + 1
        BY <1>9, <4>2, <4>3
      <4> QED
        BY <1>5, <1>7, <4>1, <4>4, ResizedOnly
    <3>2. CASE V \notin DOMAIN m
      <4>1. t \in Typed(K, Len(d), Resize(d, n))
        BY <2>1, <3>2
      <4> QED
        BY <1>5, <1>7, <4>1, TypedGrown
    <3> QED
      BY <3>1, <3>2
  <2>3. Len(d) < n
    BY <1>9, <1>10
  <2>4. State(t, T, K, K, m, e)
    BY <1>7, <2>2, <2>3, GrownState
  <2>5. State(d2, T, K, K, Put(m, V, value), EndWith(m, e, V, value))
    BY <1>1, <1>2, <2>1, <2>4, MadeState
  <2> QED
    BY <1>1, <2>5
<1>11. CASE ~(a < n)
  <2>1. PICK t \in Made(K, m, V, value, d) : d2 = Resize(t, n)
    BY <1>8, <1>9, <1>11
  <2>2. PICK m2 : m2 = Put(m, V, value)
    OBVIOUS
  <2>3. State(t, T, K, K, m2, f) /\ Len(t) = a
    <3>1. /\ State(t, T, K, K, Put(m, V, value), EndWith(m, e, V, value))
          /\ Len(t) = Len(d)
      BY <1>1, <1>2, <2>1, MadeState
    <3> QED
      BY <1>6, <1>9, <2>2, <3>1
  <2>4. t \in Seq(u8) /\ Base(t, K) /\ Promise(t, m2, T)
    BY <2>3 DEF State
  <2>5. Len(t) > ACCOUNT_LEN + 1
    BY <1>7, <1>9, <1>11, <2>3, LayoutAssumption
  <2>6. SizedTo(d2, t, n, K)
    BY <1>7, <2>1, <2>4, <2>5, ResizedOnly
  <2>7. TokenMetadata \in DOMAIN m2
    BY <1>1, <2>2 DEF Put
  <2>8. Promise(d2, m2, T)
    BY <2>4, <2>7, MetadataPromise
  <2>9. State(d2, T, K, K, m2, f)
    BY <1>7, <2>3, <2>6, <2>8, StateSized
  <2> QED
    BY <1>1, <1>6, <2>2, <2>9
<1> QED
  BY <1>10, <1>11

-----------------------------------------------------------------------------
(* Every step, and the theorems.                                           *)

\* What both handlers of the metadata do.
MetadataWritten(value, overwrite) ==
  /\ data' \in alloc_and_serialize_variable_len_extension("Mint", data, TokenMetadata, value,
                                                          overwrite)
  /\ Len(data') <= MaxLen
  /\ UNCHANGED promised

\* Writing the metadata of a token, new or changed.
LEMMA MetadataStep ==
  ASSUME IInv, NEW value \in Contents, NEW overwrite \in BOOLEAN,
         MetadataWritten(value, overwrite)
  PROVE  IInv' /\ Map!Next
<1>1. PICK K0, S, m, e : State(data, promised, K0, S, m, e)
  BY DEF IInv
<1>2. PICK K : K = "Mint" /\ K \in Kinds
  BY DEF Kinds
<1>3. get_account_type(TokenMetadata) = K
  <2>1. TokenMetadata \in MintTypes /\ TokenMetadata \notin AccountTypes
    BY DEF TokenMetadata, MintTypes, AccountTypes
  <2> QED
    BY <1>2, <2>1 DEF get_account_type
<1>4. value \in Seq(u8)
  BY LayoutAssumption
<1>5. data' \in alloc_and_serialize_variable_len_extension(K, data, TokenMetadata, value, overwrite)
  BY <1>2 DEF MetadataWritten
<1>6. PICK tlv \in unpack(K, data) : TRUE
  <2>1. unpack(K, data) # {}
    BY <1>5 DEF alloc_and_serialize_variable_len_extension, Then
  <2> QED
    BY <2>1
<1>7. State(data, promised, K, K, m, e)
  BY <1>1, <1>2, <1>6, Unpacked
<1>8. State(data', promised, K, K, Put(m, TokenMetadata, value),
            EndWith(m, e, TokenMetadata, value))
  BY <1>2, <1>3, <1>4, <1>5, <1>7, VariableState
<1>9. promised' = promised /\ Len(data') <= MaxLen
  BY DEF MetadataWritten
<1>10. State(data', promised', K, K, Put(m, TokenMetadata, value),
             EndWith(m, e, TokenMetadata, value))
  BY <1>8, <1>9
<1> QED
  BY <1>3, <1>7, <1>9, <1>10, PutDone

\* Both handlers of the metadata write it in this way.
LEMMA MetadataSteps ==
  ASSUME NEW value
  PROVE  /\ InitializeMetadata(value) => MetadataWritten(value, FALSE)
         /\ UpdateMetadata(value) => MetadataWritten(value, TRUE)
BY Zenon DEF InitializeMetadata, UpdateMetadata, MetadataWritten

\* Every step preserves the invariant, and is a step of the map or leaves it.
LEMMA StepHolds ==
  ASSUME IInv, [Next]_vars
  PROVE  IInv' /\ [Map!Next]_(Map!vars)
<1>1. ASSUME UNCHANGED vars PROVE IInv' /\ UNCHANGED Map!vars
  <2>1. data' = data /\ promised' = promised
    BY <1>1 DEF vars
  <2> QED
    BY <2>1 DEF IInv, Map!vars, Kind, Stored
<1>2. ASSUME NEW S \in {"Mint", "Account"}, NEW types \in Reserved, NEW slack \in Slack,
             \A V \in types : get_account_type(V) = S, Create(S, types, slack)
      PROVE  IInv' /\ UNCHANGED Map!vars
  BY <1>2, CreateStep
<1>3. ASSUME NEW V \in InUse, NEW value \in Contents,
             InitializeExtension(get_account_type(V), V, value)
      PROVE  IInv' /\ Map!Next
  BY <1>3, InitializeExtensionStep
<1>4. ASSUME InitializeMint PROVE IInv' /\ Map!Next
  BY <1>4, InitializeMintStep
<1>5. ASSUME NEW required \in Required, NEW key_byte \in {0, 1},
             InitializeAccount(required, key_byte)
      PROVE  IInv' /\ Map!Next
  BY <1>5, InitializeAccountStep
<1>6. ASSUME NEW V \in InUse, NEW value \in Contents,
             UpdateExtension(get_account_type(V), V, value)
      PROVE  IInv' /\ Map!Next
  BY <1>6, UpdateExtensionStep
<1>7. ASSUME NEW types \in Reserved, Reallocate(types) PROVE IInv' /\ UNCHANGED Map!vars
  BY <1>7, ReallocateStep
<1>8. ASSUME NEW V \in InUse, NEW value \in Contents, InitializeTokenGroup(V, value)
      PROVE  IInv' /\ Map!Next
  BY <1>8, GroupStep
<1>9. ASSUME NEW value \in Contents, InitializeMetadata(value) \/ UpdateMetadata(value)
      PROVE  IInv' /\ Map!Next
  <2>1. \A overwrite \in BOOLEAN : MetadataWritten(value, overwrite) => IInv' /\ Map!Next
    BY MetadataStep
  <2> QED
    BY <1>9, <2>1, MetadataSteps, FALSE \in BOOLEAN, TRUE \in BOOLEAN, Zenon
<1>10. ASSUME CloseAccount PROVE IInv' /\ Map!Next
  BY <1>10, CloseStep
<1>11. CASE UNCHANGED vars
  BY <1>1, <1>11
<1>12. CASE Next
  BY <1>2, <1>3, <1>4, <1>5, <1>6, <1>7, <1>8, <1>9, <1>10, <1>12, Zenon DEF Next
<1> QED
  BY <1>11, <1>12

\* Bytes are always laid out as IInv says.
LEMMA Reached == Spec => []IInv
<1>1. Init => IInv
  BY InitHolds
<1>2. IInv /\ [Next]_vars => IInv'
  BY StepHolds
<1> QED
  BY <1>1, <1>2, PTL DEF Spec

\* However extensions are initialized, written, reallocated and deleted, the loops over the
\* entries of an account end in success, list each type once, and unpack succeeds for what the
\* account is: for any sizes of extensions and bases, any contents, and accounts of any length.
THEOREM AlwaysWellFormed == Spec => []WellFormed
<1>1. IInv => WellFormed
  BY StateWellFormed
<1> QED
  BY <1>1, Reached, PTL

\* An account created with the length try_calculate_account_len returns, or reallocated for
\* a set of types, has room for each of them, also where the length was adjusted for the
\* length of a multisig, and whatever was initialized before.
THEOREM AlwaysPromisedFits == Spec => []PromisedFits
<1>1. IInv => PromisedFits
  BY StatePromisedFits
<1> QED
  BY <1>1, Reached, PTL

\* Refinement: the bytes that alloc, realloc and the resizing of accounts move around implement
\* a map from extension types to values: a write changes the value of its own type only.
THEOREM MapImplemented == Spec => ImplementsMap
<1>1. Init => Map!Init
  BY InitHolds
<1>2. IInv /\ [Next]_vars => [Map!Next]_(Map!vars)
  BY StepHolds
<1> QED
  BY <1>1, <1>2, Reached, PTL DEF Spec, ImplementsMap, Map!Spec

=============================================================================
