------------------------------ MODULE MCParts ------------------------------
(* Values for the constants of Parts.                                      *)
EXTENDS Parts

CONSTANTS g1, g2, g3   \* the members of GroupMints

SelfPointing == [kind \in {"Group", "Member"} |-> IF kind = "Group" THEN {g1, g2} ELSE {g2, g3}]

\* Rates of either sign.
LowestRate == -3
SomeRates == {-3, -1, 0, 2, 3}
=============================================================================
