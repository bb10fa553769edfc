---------------------------- MODULE TotalsProofs ----------------------------
(***************************************************************************)
(* What the proofs of conservation need to know about totals: they are     *)
(* natural numbers, depend on the holders counted only, are added over     *)
(* disjoint sets of holders, and follow the change of a single holder; and *)
(* what proofs about fees and halves of amounts need to know of quotients. *)
(***************************************************************************)
EXTENDS Totals, FiniteSetTheorems, TLAPS

\* The units of different holders, and of disjoint sets of holders, differ.
LEMMA UnitsOf ==
  ASSUME NEW f, NEW S, NEW u
  PROVE  u \in Units(f, S) <=> \E h \in S : \E i \in 1 .. f[h] : u = <<h, i>>
BY DEF Units

\* One holder has as many units as f says.
LEMMA TotalOne ==
  ASSUME NEW f, NEW h, f[h] \in Nat
  PROVE  /\ IsFiniteSet(Units(f, {h}))
         /\ Total(f, {h}) = f[h]
<1>1. Units(f, {h}) = {h} \X (1 .. f[h])
  BY DEF Units
<1>2. IsFiniteSet({h}) /\ Cardinality({h}) = 1
  BY FS_Singleton
<1>3. IsFiniteSet(1 .. f[h]) /\ Cardinality(1 .. f[h]) = f[h]
  BY FS_Interval
<1>4. /\ IsFiniteSet({h} \X (1 .. f[h]))
      /\ Cardinality({h} \X (1 .. f[h])) = 1 * f[h]
  BY <1>2, <1>3, FS_Product
<1>5. 1 * f[h] = f[h]
  OBVIOUS
<1> QED
  BY <1>1, <1>4, <1>5, Zenon DEF Total

\* Finitely many holders have finitely many units.
LEMMA TotalType ==
  ASSUME NEW f, NEW S, IsFiniteSet(S), \A h \in S : f[h] \in Nat
  PROVE  /\ IsFiniteSet(Units(f, S))
         /\ Total(f, S) \in Nat
<1> DEFINE single(h) == {h} \X (1 .. f[h])
           g == [h \in S |-> single(h)]
           T == {single(h) : h \in S}
<1>1. IsFiniteSet(T)
  <2>1. g \in Surjection(S, T)
    BY DEF Surjection
  <2> QED
    BY <2>1, FS_Surjection
<1>2. \A t \in T : IsFiniteSet(t)
  <2> SUFFICES ASSUME NEW h \in S PROVE IsFiniteSet(single(h))
    OBVIOUS
  <2>1. IsFiniteSet({h}) /\ IsFiniteSet(1 .. f[h])
    <3>1. f[h] \in Int /\ 1 \in Int
      OBVIOUS
    <3>2. IsFiniteSet(1 .. f[h])
      BY <3>1, FS_Interval, Zenon
    <3> QED
      BY <3>2, FS_Singleton, Zenon
  <2> QED
    BY <2>1, FS_Product
<1>3. IsFiniteSet(UNION T)
  BY <1>1, <1>2, FS_UNION
<1>4. IsFiniteSet(Units(f, S))
  BY <1>3 DEF Units
<1> QED
  BY <1>4, FS_CardinalityType DEF Total

\* A total depends on what the holders in S have, and on nothing else.
LEMMA TotalSame ==
  ASSUME NEW f, NEW g, NEW S, \A h \in S : f[h] = g[h]
  PROVE  Total(f, S) = Total(g, S)
<1>1. ASSUME NEW u PROVE u \in Units(f, S) <=> u \in Units(g, S)
  <2>1. (\E h \in S : \E i \in 1 .. f[h] : u = <<h, i>>)
          <=> (\E h \in S : \E i \in 1 .. g[h] : u = <<h, i>>)
    OBVIOUS
  <2> QED
    BY <2>1, UnitsOf
<1>2. Units(f, S) = Units(g, S)
  BY <1>1
<1> QED
  BY <1>2 DEF Total

\* Holders without units do not count.
LEMMA TotalZero ==
  ASSUME NEW f, NEW S, \A h \in S : f[h] = 0
  PROVE  Total(f, S) = 0
<1>1. Units(f, S) = {}
  BY UnitsOf
<1> QED
  BY <1>1, FS_EmptySet DEF Total

\* Totals over disjoint sets of holders add up.
LEMMA TotalSplit ==
  ASSUME NEW f, NEW S, NEW T, IsFiniteSet(S), IsFiniteSet(T), S \cap T = {},
         \A h \in S \cup T : f[h] \in Nat
  PROVE  Total(f, S \cup T) = Total(f, S) + Total(f, T)
<1>1. Units(f, S \cup T) = Units(f, S) \cup Units(f, T)
  BY UnitsOf
<1>2. Units(f, S) \cap Units(f, T) = {}
  BY UnitsOf
<1>3. /\ IsFiniteSet(Units(f, S)) /\ IsFiniteSet(Units(f, T))
      /\ Total(f, S) \in Nat /\ Total(f, T) \in Nat
  BY TotalType
<1>4. Cardinality(Units(f, S) \cup Units(f, T)) =
        Cardinality(Units(f, S)) + Cardinality(Units(f, T)) - Cardinality({})
  BY <1>2, <1>3, FS_Union
<1>5. Total(f, S \cup T) = Total(f, S) + Total(f, T) - 0
  BY <1>1, <1>4, FS_EmptySet, Zenon DEF Total
<1> QED
  BY <1>3, <1>5

\* A set of holders and the rest.
LEMMA TotalPart ==
  ASSUME NEW f, NEW S, IsFiniteSet(S), NEW T, T \subseteq S, \A h \in S : f[h] \in Nat
  PROVE  /\ Total(f, S) = Total(f, T) + Total(f, S \ T)
         /\ Total(f, T) \in Nat
         /\ Total(f, S \ T) \in Nat
<1>1. IsFiniteSet(T) /\ IsFiniteSet(S \ T)
  BY FS_Subset, FS_Difference
<1>2. T \cap (S \ T) = {} /\ T \cup (S \ T) = S
  OBVIOUS
<1>3. Total(f, T \cup (S \ T)) = Total(f, T) + Total(f, S \ T)
  BY <1>1, <1>2, TotalSplit
<1>4. Total(f, T) \in Nat /\ Total(f, S \ T) \in Nat
  BY <1>1, TotalType
<1> QED
  BY <1>2, <1>3, <1>4

\* One holder and the rest.
LEMMA TotalElement ==
  ASSUME NEW f, NEW S, IsFiniteSet(S), NEW a \in S, \A h \in S : f[h] \in Nat
  PROVE  /\ Total(f, S) = f[a] + Total(f, S \ {a})
         /\ Total(f, S \ {a}) \in Nat
<1> DEFINE T == {a}
<1>1. T \subseteq S
  OBVIOUS
<1>2. Total(f, T) = f[a]
  BY TotalOne
<1> HIDE DEF T
<1>3. Total(f, S) = Total(f, T) + Total(f, S \ T) /\ Total(f, S \ T) \in Nat
  BY <1>1, TotalPart
<1> QED
  BY <1>2, <1>3 DEF T

\* One holder changes.
LEMMA TotalUpdate ==
  ASSUME NEW f, NEW g, NEW S, IsFiniteSet(S), NEW a \in S,
         \A h \in S : f[h] \in Nat /\ g[h] \in Nat,
         \A h \in S \ {a} : g[h] = f[h]
  PROVE  Total(g, S) = Total(f, S) - f[a] + g[a]
<1>1. /\ Total(f, S) = f[a] + Total(f, S \ {a})
      /\ Total(g, S) = g[a] + Total(g, S \ {a})
      /\ Total(f, S \ {a}) \in Nat
  BY TotalElement
<1>2. Total(g, S \ {a}) = Total(f, S \ {a})
  BY TotalSame
<1> QED
  BY <1>1, <1>2

\* Two holders change.
LEMMA TotalUpdateTwo ==
  ASSUME NEW f, NEW g, NEW S, IsFiniteSet(S), NEW a \in S, NEW b \in S, a # b,
         \A h \in S : f[h] \in Nat /\ g[h] \in Nat,
         \A h \in S \ {a, b} : g[h] = f[h]
  PROVE  Total(g, S) = Total(f, S) - f[a] - f[b] + g[a] + g[b]
<1> DEFINE R == S \ {a}
<1>1. IsFiniteSet(R)
  BY FS_RemoveElement
<1>2. /\ \A h \in S : f[h] \in Nat
      /\ \A h \in S : g[h] \in Nat
  OBVIOUS
<1>3. Total(f, S) = f[a] + Total(f, R) /\ Total(f, R) \in Nat
  BY <1>2, TotalElement, Zenon
<1>4. Total(g, S) = g[a] + Total(g, R)
  BY <1>2, TotalElement, Zenon
<1>5. Total(g, R) = Total(f, R) - f[b] + g[b]
  BY <1>1, TotalUpdate
<1> QED
  BY <1>2, <1>3, <1>4, <1>5

\* A total is at least what each holder has.
LEMMA TotalBound ==
  ASSUME NEW f, NEW S, IsFiniteSet(S), NEW a \in S, \A h \in S : f[h] \in Nat
  PROVE  f[a] <= Total(f, S)
<1>1. Total(f, S) = f[a] + Total(f, S \ {a}) /\ Total(f, S \ {a}) \in Nat
  BY TotalElement, Zenon
<1> QED
  BY <1>1

\* Two amounts of each holder, counted apart and together.
LEMMA TotalPlus ==
  ASSUME NEW f, NEW g, NEW h, NEW S, IsFiniteSet(S),
         \A a \in S : g[a] \in Nat /\ h[a] \in Nat /\ f[a] = g[a] + h[a]
  PROVE  /\ Total(f, S) = Total(g, S) + Total(h, S)
         /\ Total(g, S) \in Nat /\ Total(h, S) \in Nat
<1> DEFINE U == Units(h, S)
           rest == Units(f, S) \ Units(g, S)
           shift == [u \in U |-> <<u[1], u[2] + g[u[1]]>>]
<1>1. /\ IsFiniteSet(Units(g, S)) /\ Total(g, S) \in Nat
      /\ IsFiniteSet(U) /\ Total(h, S) \in Nat
      /\ IsFiniteSet(Units(f, S)) /\ Total(f, S) \in Nat
  BY TotalType
<1>2. \A u : u \in rest <=> \E a \in S : \E i \in 1 .. h[a] : u = <<a, i + g[a]>>
  <2>1. ASSUME NEW a \in S, NEW i \in 1 .. h[a]
        PROVE  i + g[a] \in 1 .. f[a] /\ i + g[a] \notin 1 .. g[a]
    OBVIOUS
  <2>2. ASSUME NEW a \in S, NEW j \in 1 .. f[a], j \notin 1 .. g[a]
        PROVE  j - g[a] \in 1 .. h[a] /\ (j - g[a]) + g[a] = j
    <3>1. g[a] \in Nat /\ h[a] \in Nat /\ f[a] = g[a] + h[a]
      OBVIOUS
    <3>2. j \in Int /\ 1 <= j /\ j <= f[a] /\ ~(j <= g[a])
      BY <2>2, <3>1
    <3> HIDE DEF U, rest, shift
    <3>3. j - g[a] \in Int /\ 1 <= j - g[a] /\ j - g[a] <= h[a] /\ (j - g[a]) + g[a] = j
      BY <3>1, <3>2
    <3> QED
      BY <3>1, <3>3
  <2>3. ASSUME NEW u, u \in rest
        PROVE  \E a \in S : \E i \in 1 .. h[a] : u = <<a, i + g[a]>>
    <3>1. PICK a \in S : \E j \in 1 .. f[a] : u = <<a, j>>
      BY <2>3, UnitsOf
    <3>2. PICK j \in 1 .. f[a] : u = <<a, j>>
      BY <3>1
    <3>3. j \notin 1 .. g[a]
      BY <2>3, <3>2, UnitsOf
    <3> QED
      BY <2>2, <3>2, <3>3
  <2>4. ASSUME NEW a \in S, NEW i \in 1 .. h[a]
        PROVE  <<a, i + g[a]>> \in rest
    <3>1. <<a, i + g[a]>> \in Units(f, S)
      BY <2>1, UnitsOf
    <3>2. <<a, i + g[a]>> \notin Units(g, S)
      <4> SUFFICES ASSUME NEW b \in S, NEW k \in 1 .. g[b], <<a, i + g[a]>> = <<b, k>>
                   PROVE  FALSE
        BY UnitsOf
      <4> QED
        BY <2>1
    <3> QED
      BY <3>1, <3>2
  <2> QED
    BY <2>3, <2>4
<1>3. \A u \in U : /\ u[1] \in S /\ u[2] \in 1 .. h[u[1]] /\ u = <<u[1], u[2]>>
  BY UnitsOf
<1>4. shift \in Bijection(U, rest)
  <2>1. shift \in [U -> rest]
    BY <1>2, <1>3
  <2>2. ASSUME NEW u \in U, NEW w \in U, shift[u] = shift[w]
        PROVE  u = w
    <3>1. u[1] = w[1] /\ u[2] + g[u[1]] = w[2] + g[w[1]]
      BY <2>2
    <3>2. u[2] \in Nat /\ w[2] \in Nat /\ g[u[1]] \in Nat
      BY <1>3
    <3>3. u[2] = w[2]
      BY <3>1, <3>2
    <3> QED
      BY <1>3, <3>1, <3>3
  <2>3. ASSUME NEW t \in rest
        PROVE  \E u \in U : shift[u] = t
    <3>1. PICK a \in S : \E i \in 1 .. h[a] : t = <<a, i + g[a]>>
      BY <1>2
    <3>2. PICK i \in 1 .. h[a] : t = <<a, i + g[a]>>
      BY <3>1
    <3>3. <<a, i>> \in U
      BY UnitsOf
    <3>4. shift[<<a, i>>] = t
      BY <3>2, <3>3
    <3> QED
      BY <3>3, <3>4
  <2> HIDE DEF shift, U, rest
  <2> QED
    BY <2>1, <2>2, <2>3 DEF Bijection, Injection, Surjection, IsInjective
<1> HIDE DEF U, rest, shift
<1>5. IsFiniteSet(rest) /\ Cardinality(rest) = Cardinality(U)
  BY <1>1, <1>4, FS_Bijection DEF ExistsBijection
<1>6. Units(g, S) \subseteq Units(f, S)
  <2> SUFFICES ASSUME NEW a \in S, NEW i \in 1 .. g[a]
               PROVE  i \in 1 .. f[a]
    BY UnitsOf
  <2> QED
    OBVIOUS
<1>7. Units(f, S) = Units(g, S) \cup rest /\ Units(g, S) \cap rest = {}
  BY <1>6 DEF rest
<1>8. Cardinality(Units(g, S) \cup rest)
        = Cardinality(Units(g, S)) + Cardinality(rest) - Cardinality({})
  BY <1>1, <1>5, <1>7, FS_Union
<1>9. Total(f, S) = Total(g, S) + Total(h, S) - 0
  BY <1>5, <1>7, <1>8, FS_EmptySet, Zenon DEF Total, U
<1> QED
  BY <1>1, <1>9

-----------------------------------------------------------------------------
(***************************************************************************)
(* Quotients, for the halves of amounts and for fees rounded up.           *)
(***************************************************************************)
LEMMA Division ==
  ASSUME NEW n \in Nat, NEW d \in Nat \ {0}
  PROVE  /\ n \div d \in Nat /\ n % d \in 0 .. d - 1
         /\ n = d * (n \div d) + (n % d)
OBVIOUS

LEMMA DivisionMonotone ==
  ASSUME NEW n \in Nat, NEW m \in Nat, NEW d \in Nat \ {0}, n <= m
  PROVE  n \div d <= m \div d
<1> DEFINE p == n \div d
           q == m \div d
<1>1. p \in Nat /\ q \in Nat /\ d * p <= n /\ m < d * q + d
  BY Division
<1> HIDE DEF p, q
<1>2. ASSUME q + 1 <= p PROVE d * (q + 1) <= d * p
  BY <1>1, <1>2
<1>3. d * (q + 1) = d * q + d
  BY <1>1
<1> QED
  BY <1>1, <1>2, <1>3 DEF p, q

\* A fraction of at most one, rounded up, of a number is at most that number.
LEMMA CeilBound ==
  ASSUME NEW n \in Nat, NEW d \in Nat \ {0}, NEW b \in 0 .. d
  PROVE  (n * b + d - 1) \div d \in 0 .. n
<1> DEFINE m == n * b + d - 1
           q == m \div d
<1>1. n * b \in Nat /\ n * b <= d * n
  OBVIOUS
<1>2. m \in Nat
  BY <1>1
<1>3. m < d * n + d
  BY <1>1
<1> HIDE DEF m
<1>4. q \in Nat /\ d * q <= m
  BY <1>2, Division
<1>5. (n * b + d - 1) \div d = q
  BY DEF m
<1> HIDE DEF q
<1>6. ASSUME q >= n + 1 PROVE d * q >= d * n + d
  <2>1. d * q >= d * (n + 1)
    BY <1>4, <1>6
  <2> QED BY <2>1
<1> QED
  BY <1>2, <1>3, <1>4, <1>5, <1>6

LEMMA CeilLeast ==
  ASSUME NEW n \in Nat, NEW d \in Nat \ {0}
  PROVE  /\ (n + d - 1) \div d \in Nat
         /\ \A x \in Nat : d * x >= n => (n + d - 1) \div d <= x
<1> DEFINE m == n + d - 1
           q == m \div d
<1>1. m \in Nat /\ m < n + d
  OBVIOUS
<1> HIDE DEF m
<1>2. q \in Nat /\ d * q <= m
  BY <1>1, Division
<1>3. (n + d - 1) \div d = q
  BY DEF m
<1> HIDE DEF q
<1>4. ASSUME NEW x \in Nat, d * x >= n, q >= x + 1 PROVE FALSE
  <2>1. d * q >= d * (x + 1)
    BY <1>2, <1>4
  <2>2. d * (x + 1) = d * x + d /\ d * x \in Nat /\ d * q \in Nat
    BY <1>2
  <2> QED
    BY <1>1, <1>2, <1>4, <2>1, <2>2
<1> QED
  BY <1>2, <1>3, <1>4

=============================================================================
