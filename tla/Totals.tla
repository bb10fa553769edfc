------------------------------- MODULE Totals -------------------------------
(***************************************************************************)
(* Sums of balances, as numbers of units: a holder h of n units has the    *)
(* units <<h, 1>> to <<h, n>>, and a total is how many units there are.    *)
(* Counting instead of adding up one by one lets the totals be reasoned    *)
(* about with the facts on cardinalities of finite sets.                   *)
(***************************************************************************)
EXTENDS Integers, FiniteSets

\* The units that the holders in S have according to f.
Units(f, S) == UNION {{h} \X (1 .. f[h]) : h \in S}

\* The sum of f[h] over the holders h in S, for f[h] \in Nat.
Total(f, S) == Cardinality(Units(f, S))

=============================================================================
