----------------------- MODULE MCConfidentialTransfer -----------------------
(* Model-checking instances of ConfidentialTransfer.                       *)
EXTENDS ConfidentialTransfer

CONSTANTS a1, a2, k1

Rate(bps, max) == [transfer_fee_basis_points |-> bps, maximum_fee |-> max]

\* A third, at most one token; and everything, at most two tokens.
TwoRates == {Rate(4, 1), Rate(12, 2)}

NoRates == {}

(***************************************************************************)
(* Bounds that depend on the mint.  Without fees: one token, one           *)
(* encryption and two instructions in flight, accounts approved one by     *)
(* one; or one instruction in flight and one switch thrown; or four tokens *)
(* of a1 alone, credited twice before it decrypts.  With fees: two tokens, *)
(* so that both halves of a balance and of a fee are used, minted to a1    *)
(* before a2 exists and deposited by a1 only, and one instruction in       *)
(* flight, on a mint that approves every account and whose fee or          *)
(* harvesting is switched.                                                 *)
(***************************************************************************)
OneToken ==
  /\ fresh <= 1
  /\ mint.minted <= 1
  /\ Cardinality(drafts) <= 2 - switches
  /\ switches = 0 => mint.auditor = NoKey /\ ~mint.auto_approve
  /\ \A a \in Accounts : account[a].limit <= 1

TwoCredits ==
  /\ fresh = 0
  /\ switches = 0
  /\ Cardinality(drafts) <= 1
  /\ mint.auditor = NoKey /\ ~mint.auto_approve
  /\ ~account[a2].open

FeeBounds ==
  /\ mint.minted <= 2
  /\ account[a2].open => mint.minted = 2
  /\ Cardinality(drafts) <= 1
  /\ account[a2].amount = 0
  /\ mint.auditor = NoKey /\ mint.auto_approve /\ mint.authority
  /\ \A a \in Accounts : /\ ~account[a].frozen
                         /\ account[a].public_withheld = 0
                         /\ account[a].allow_public
                         /\ account[a].limit <= 1
                         /\ account[a].configured => account[a].allow_confidential

Bounds ==
  mint.initialized => /\ mint.confidential
                      /\ IF mint.has_fees THEN FeeBounds ELSE OneToken \/ TwoCredits
=============================================================================
