--------------------------- MODULE MCSplitProofs ---------------------------
(* Model-checking instances of SplitProofs.                                *)
EXTENDS SplitProofs

Rate(bps, max) == [transfer_fee_basis_points |-> bps, maximum_fee |-> max]

\* A quarter and three quarters with the same cap.
TwoRates == {Rate(1, 2), Rate(3, 2)}

\* The second transfer may carry handles of its sender's own making.
OffsetOfOne == [i \in Intents |-> IF i = 1 THEN {0, 1} ELSE {0}]
=============================================================================
