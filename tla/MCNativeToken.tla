--------------------------- MODULE MCNativeToken ---------------------------
(***************************************************************************)
(* Model-checking instance of NativeToken.                                 *)
(***************************************************************************)
EXTENDS NativeToken, TLC

Symmetry == Permutations(Accounts) \cup Permutations(Keys)

\* No guard reads tx and no property its unprimed value.
View == <<lamports, accounts, nativeMint, rate, grantedUnder>>

=============================================================================
