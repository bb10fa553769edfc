---------------------------- MODULE PartsProofs ----------------------------
(***************************************************************************)
(* Proofs about the parts: for every value of their constants each of them *)
(* has its property, whatever the others do.                               *)
(***************************************************************************)
EXTENDS Parts, TotalsProofs, SequenceTheorems

-----------------------------------------------------------------------------
(***************************************************************************)
(* A step of the composition is a step of each part, or leaves it alone.   *)
(***************************************************************************)
LEMMA PartSteps ==
  ASSUME [Next]_vars
  PROVE  /\ Owner!Next \/ UNCHANGED owner_vars
         /\ Hook!Next \/ UNCHANGED hook_vars
         /\ Identity!Next \/ UNCHANGED identity_vars
         /\ GroupsMove \/ UNCHANGED groups_vars
         /\ Interest!Next \/ UNCHANGED interest_vars
         /\ Fees!NextAmount \/ UNCHANGED fees_vars
         /\ Wire!Next \/ UNCHANGED wire_vars
BY DEF Next, vars, FeesMove, OwnerMoves, HookMoves, IdentityMoves, GroupsMove,
       InterestMoves, WireMoves

\* The modules of the parts count with operators of their own.
LEMMA OwnersCount ==
  ASSUME NEW S
  PROVE  Owner!Cardinality(S) = Cardinality(S) /\ Owner!IsFiniteSet(S) = IsFiniteSet(S)
<1>1. Owner!Cardinality(S) = Cardinality(S)
  BY Zenon DEF Owner!Cardinality, Cardinality
<1>2. Owner!IsFiniteSet(S) = IsFiniteSet(S)
  BY DEF Owner!IsFiniteSet, IsFiniteSet
<1> QED
  BY <1>1, <1>2

-----------------------------------------------------------------------------
(***************************************************************************)
(* validate_owner.  While the loop runs, the positions matched so far are  *)
(* those whose keys are among the signers examined, all of which signed.   *)
(***************************************************************************)
Running ==
  /\ decision.status = "running"
  /\ decision.expected = MultisigAddress

Examined ==
  Running =>
    /\ decision.i <= Len(decision.signers) + 1
    /\ decision.matched = Owner!PositionsOf(decision.i - 1)
    /\ decision.num_signers = Cardinality(decision.matched)
    /\ \A p \in 1 .. Len(multisig.signers), j \in 1 .. decision.i - 1 :
         multisig.signers[p] = decision.signers[j] => decision.signers[j] \in decision.signed

QuorumInv == Owner!DecisionIsQuorum /\ Examined

LEMMA ListFacts ==
  ASSUME NEW max \in Nat, NEW s \in Owner!Lists(max)
  PROVE  /\ s \in Seq(Signers) /\ Len(s) \in 0 .. max
         /\ \A j \in 1 .. Len(s) : s[j] \in Signers
<1>1. PICK k \in 0 .. max : s \in [1 .. k -> Signers]
  BY DEF Owner!Lists
<1>2. s \in Seq(Signers) /\ Len(s) = k
  BY <1>1
<1> QED
  BY <1>1, <1>2

LEMMA OwnerNumbers ==
  /\ MAX_SIGNERS \in Nat \ {0} /\ MaxPresented \in Nat /\ MultisigAddress \notin Signers
BY PartsAssumption DEF Owner!MultisigAssumption

LEMMA InitQuorumInv == Init => QuorumInv
<1> SUFFICES ASSUME Init PROVE QuorumInv
  OBVIOUS
<1>1. /\ multisig = [is_initialized |-> FALSE, m |-> 0, signers |-> <<>>]
      /\ owner \in Signers \cup {MultisigAddress} /\ excess = FALSE
      /\ decision = [status |-> "none", op |-> "SetAuthority", expected |-> MultisigAddress,
                     signers |-> <<>>, signed |-> {}, new |-> MultisigAddress, i |-> 1,
                     matched |-> {}, num_signers |-> 0]
  BY DEF Init, Owner!Init, Owner!NoCall, Owner!Owners
<1>2. \A max \in Nat : <<>> \in Owner!Lists(max)
  <2>1. <<>> \in [1 .. 0 -> Signers]
    OBVIOUS
  <2> QED
    BY <2>1 DEF Owner!Lists
<1>3. Owner!TypeOK
  <2>1. multisig \in Owner!MultisigState
    BY <1>1, <1>2, OwnerNumbers DEF Owner!MultisigState
  <2>2. decision \in Owner!CallState
    BY <1>1, <1>2, OwnerNumbers DEF Owner!CallState, Owner!Operations, Owner!Owners
  <2> QED
    BY <1>1, <2>1, <2>2 DEF Owner!TypeOK, Owner!Owners
<1> QED
  BY <1>1, <1>3 DEF QuorumInv, Owner!DecisionIsQuorum, Examined, Running

LEMMA OwnerTypes ==
  ASSUME QuorumInv
  PROVE  /\ Len(multisig.signers) \in 0 .. MAX_SIGNERS
         /\ \A p \in 1 .. Len(multisig.signers) : multisig.signers[p] \in Signers
         /\ Len(decision.signers) \in 0 .. MaxPresented
         /\ \A j \in 1 .. Len(decision.signers) : decision.signers[j] \in Signers
         /\ decision.i \in 1 .. MaxPresented + 1
         /\ multisig.m \in Nat
<1>1. /\ multisig.signers \in Owner!Lists(MAX_SIGNERS) /\ multisig.m \in 0 .. MAX_SIGNERS
      /\ decision.signers \in Owner!Lists(MaxPresented)
      /\ decision.i \in 1 .. MaxPresented + 1
  BY DEF QuorumInv, Owner!DecisionIsQuorum, Owner!TypeOK, Owner!MultisigState,
         Owner!CallState
<1> QED
  BY <1>1, ListFacts, OwnerNumbers

\* What examining one more signer does to the positions matched.
LEMMA ExamineQuorumInv ==
  ASSUME QuorumInv, Owner!ExamineSigner
  PROVE  QuorumInv'
<1> DEFINE ms == multisig.signers
           presented == decision.signers
           i == decision.i
           hits == Owner!Hits
<1>1. /\ decision.status = "running" /\ decision.expected = MultisigAddress
      /\ i <= Len(presented)
      /\ hits = {} \/ presented[i] \in decision.signed
      /\ decision' = [decision EXCEPT !.i = i + 1, !.matched = decision.matched \cup hits,
                        !.num_signers = decision.num_signers + Cardinality(hits)]
      /\ UNCHANGED <<multisig, owner, excess>>
  BY OwnersCount DEF Owner!ExamineSigner, Owner!Looping
<1>2. /\ Len(ms) \in 0 .. MAX_SIGNERS /\ Len(presented) \in 0 .. MaxPresented
      /\ i \in 1 .. MaxPresented + 1 /\ MAX_SIGNERS \in Nat /\ MaxPresented \in Nat
  BY OwnerTypes, OwnerNumbers
<1>3. /\ decision.matched = {p \in 1 .. Len(ms) : \E j \in 1 .. i - 1 : ms[p] = presented[j]}
      /\ decision.num_signers = Cardinality(decision.matched)
      /\ \A p \in 1 .. Len(ms), j \in 1 .. i - 1 :
           ms[p] = presented[j] => presented[j] \in decision.signed
  BY <1>1 DEF QuorumInv, Examined, Running, Owner!PositionsOf, Owner!NumberOf
<1>4. hits = {p \in 1 .. Len(ms) : ms[p] = presented[i] /\ p \notin decision.matched}
  BY DEF Owner!Hits, Owner!NumberOf
<1>5. decision \in Owner!CallState /\ Owner!TypeOK
  BY DEF QuorumInv, Owner!DecisionIsQuorum, Owner!TypeOK
<1> HIDE DEF hits
<1> DEFINE found == decision.matched \cup hits
<1>6. /\ decision'.status = "running" /\ decision'.expected = MultisigAddress
      /\ decision'.signers = presented /\ decision'.signed = decision.signed
      /\ decision'.i = i + 1 /\ decision'.matched = found
      /\ decision'.num_signers = decision.num_signers + Cardinality(hits)
  BY <1>1, <1>5 DEF Owner!CallState
<1>7. found = {p \in 1 .. Len(ms) : \E j \in 1 .. i : ms[p] = presented[j]}
  <2>1. \A j : j \in 1 .. i <=> j \in 1 .. i - 1 \/ j = i
    BY <1>2
  <2> QED
    BY <1>3, <1>4, <2>1
<1>8. /\ Cardinality(found) = decision.num_signers + Cardinality(hits)
      /\ Cardinality(found) \in 0 .. MAX_SIGNERS
      /\ found \subseteq 1 .. MAX_SIGNERS
  <2>1. decision.matched \subseteq 1 .. MAX_SIGNERS /\ hits \subseteq 1 .. MAX_SIGNERS
    BY <1>2, <1>3, <1>4
  <2>2. IsFiniteSet(1 .. MAX_SIGNERS) /\ Cardinality(1 .. MAX_SIGNERS) = MAX_SIGNERS
    <3>1. 1 \in Int /\ MAX_SIGNERS \in Int /\ ~(1 > MAX_SIGNERS) /\ MAX_SIGNERS - 1 + 1 = MAX_SIGNERS
      BY OwnerNumbers
    <3> QED
      BY <3>1, FS_Interval
  <2>3. IsFiniteSet(decision.matched) /\ IsFiniteSet(hits)
    BY <2>1, <2>2, FS_Subset
  <2>4. decision.matched \cap hits = {}
    BY <1>4
  <2>5. /\ Cardinality(decision.matched) \in Nat /\ Cardinality(hits) \in Nat
        /\ Cardinality({}) = 0
    BY <2>3, FS_CardinalityType, FS_EmptySet
  <2>6. Cardinality(found)
          = Cardinality(decision.matched) + Cardinality(hits)
              - Cardinality(decision.matched \cap hits)
    BY <2>3, FS_Union
  <2>7. Cardinality(found) = decision.num_signers + Cardinality(hits)
    <3>1. Cardinality(decision.matched \cap hits) = 0
      BY <2>4, FS_EmptySet
    <3>2. Cardinality(found) = Cardinality(decision.matched) + Cardinality(hits)
      BY <2>5, <2>6, <3>1
    <3> QED
      BY <1>3, <3>2
  <2>8. Cardinality(found) <= MAX_SIGNERS
    BY <2>1, <2>2, FS_Subset
  <2>9. Cardinality(found) \in Nat
    BY <1>3, <2>5, <2>7
  <2>10. Cardinality(found) \in 0 .. MAX_SIGNERS
    BY <1>2, <2>8, <2>9
  <2>11. found \subseteq 1 .. MAX_SIGNERS
    BY <2>1
  <2> QED
    BY <2>7, <2>10, <2>11
<1>9. Owner!TypeOK'
  <2>1. decision' \in Owner!CallState
    <3>1. decision.num_signers + Cardinality(hits) \in 0 .. MAX_SIGNERS
      BY <1>8
    <3>2. i + 1 \in 1 .. MaxPresented + 1
      BY <1>1, <1>2
    <3>3. found \in SUBSET (1 .. MAX_SIGNERS)
      BY <1>8
    <3> HIDE DEF found
    <3> QED
      BY <1>1, <1>5, <3>1, <3>2, <3>3 DEF Owner!CallState, found
  <2> QED
    BY <1>1, <1>5, <2>1 DEF Owner!TypeOK
<1>10. Examined'
  <2>1. decision'.i - 1 = i /\ multisig' = multisig
    BY <1>1, <1>2, <1>6
  <2>2. Owner!PositionsOf(decision.i - 1)' = found
    <3>1. Owner!PositionsOf(decision.i - 1)'
            = {p \in 1 .. Len(multisig'.signers) :
                 \E j \in 1 .. decision'.i - 1 : multisig'.signers[p] = decision'.signers[j]}
      BY DEF Owner!PositionsOf, Owner!NumberOf
    <3>2. decision'.signers = presented
      BY <1>6
    <3> QED
      BY <1>7, <2>1, <3>1, <3>2
  <2>3. ASSUME NEW p \in 1 .. Len(ms), NEW j \in 1 .. i, ms[p] = presented[j]
        PROVE  presented[j] \in decision.signed
    <3>1. CASE j \in 1 .. i - 1
      BY <1>3, <2>3, <3>1
    <3>2. CASE j = i
      <4>1. CASE p \in decision.matched
        BY <1>3, <2>3, <3>2, <4>1
      <4>2. CASE p \notin decision.matched
        BY <1>1, <1>4, <2>3, <3>2, <4>2
      <4> QED
        BY <4>1, <4>2
    <3> QED
      BY <1>2, <3>1, <3>2
  <2> HIDE DEF found
  <2> QED
    <3>1. decision'.i <= Len(decision'.signers) + 1
      BY <1>1, <1>2, <1>6
    <3>2. \A p \in 1 .. Len(multisig'.signers), j \in 1 .. decision'.i - 1 :
            multisig'.signers[p] = decision'.signers[j]
              => decision'.signers[j] \in decision'.signed
      <4>1. decision'.signers = presented /\ decision'.signed = decision.signed
        BY <1>6
      <4> QED
        BY <2>1, <2>3, <4>1
    <3>3. /\ decision'.matched = Owner!PositionsOf(decision.i - 1)'
          /\ decision'.num_signers = Cardinality(decision'.matched)
      BY <1>6, <1>8, <2>2
    <3> QED
      BY <3>1, <3>2, <3>3 DEF Examined
<1> QED
  BY <1>6, <1>9, <1>10 DEF QuorumInv, Owner!DecisionIsQuorum

\* After the loop: what was matched is the quorum's reference.
LEMMA Concluded ==
  ASSUME QuorumInv, Running, decision.i > Len(decision.signers)
  PROVE  Owner!Quorum <=> decision.num_signers >= multisig.m
<1> DEFINE ms == multisig.signers
           presented == decision.signers
<1>1. /\ Len(ms) \in 0 .. MAX_SIGNERS /\ Len(presented) \in 0 .. MaxPresented
      /\ decision.i \in 1 .. MaxPresented + 1 /\ MAX_SIGNERS \in Nat /\ MaxPresented \in Nat
  BY OwnerTypes, OwnerNumbers
<1>2. decision.i - 1 = Len(presented)
  BY <1>1 DEF QuorumInv, Examined
<1>3. decision.num_signers = Owner!Cardinality(Owner!PositionsOf(Len(presented)))
  BY <1>2, OwnersCount DEF QuorumInv, Examined
<1>4. \A p \in 1 .. Len(ms), j \in 1 .. Len(presented) :
        ms[p] = presented[j] => presented[j] \in decision.signed
  BY <1>2 DEF QuorumInv, Examined
<1>5. Owner!SetOf(presented) \cap Owner!SetOf(ms) \subseteq decision.signed
  BY <1>4 DEF Owner!SetOf
<1> QED
  BY <1>3, <1>5 DEF Owner!Quorum

\* The call ends, and with it what is said of a running one.
LEMMA EndedQuorumInv ==
  ASSUME QuorumInv, NEW s \in {"accepted", "refused"}, Running \/ decision.status = "running",
         decision' = [decision EXCEPT !.status = s], multisig' = multisig,
         owner' \in Owner!Owners, excess' \in BOOLEAN,
         decision.expected = MultisigAddress => (s = "accepted" <=> Owner!Quorum)
  PROVE  QuorumInv'
<1>1. /\ decision \in Owner!CallState /\ multisig \in Owner!MultisigState
  BY DEF QuorumInv, Owner!DecisionIsQuorum, Owner!TypeOK
<1>2. /\ decision' \in Owner!CallState
      /\ decision'.status = s /\ decision'.expected = decision.expected
      /\ decision'.signers = decision.signers /\ decision'.signed = decision.signed
  BY <1>1 DEF Owner!CallState
<1>3. Owner!Quorum' = Owner!Quorum
  BY <1>2 DEF Owner!Quorum, Owner!SetOf, Owner!PositionsOf, Owner!NumberOf
<1>4. Owner!DecisionIsQuorum'
  BY <1>1, <1>2, <1>3 DEF Owner!DecisionIsQuorum, Owner!TypeOK
<1> QED
  BY <1>2, <1>4 DEF QuorumInv, Examined, Running

LEMMA OwnerQuorumInv ==
  ASSUME QuorumInv, Owner!Next
  PROVE  QuorumInv'
<1>1. /\ multisig \in Owner!MultisigState /\ owner \in Owner!Owners /\ excess \in BOOLEAN
      /\ decision \in Owner!CallState
  BY DEF QuorumInv, Owner!DecisionIsQuorum, Owner!TypeOK
<1>2. ASSUME NEW m \in 0 .. MAX_SIGNERS, NEW signers \in Owner!Lists(MAX_SIGNERS),
             Owner!InitializeMultisig(m, signers)
      PROVE  QuorumInv'
  <2>1. /\ decision = Owner!NoCall /\ decision' = decision /\ owner' = owner
        /\ excess' = excess
        /\ multisig' = [is_initialized |-> TRUE, m |-> m, signers |-> signers]
    BY <1>2 DEF Owner!InitializeMultisig
  <2>2. decision'.status = "none"
    BY <2>1 DEF Owner!NoCall
  <2>3. multisig' \in Owner!MultisigState
    BY <2>1 DEF Owner!MultisigState
  <2> QED
    BY <1>1, <2>1, <2>2, <2>3
       DEF QuorumInv, Owner!DecisionIsQuorum, Owner!TypeOK, Examined, Running
<1>3. ASSUME NEW op \in Owner!Operations, NEW expected \in Owner!Owners,
             NEW signers \in Owner!Lists(MaxPresented), NEW signed \in SUBSET Signers,
             NEW new \in Owner!Owners, Owner!ValidateOwner(op, expected, signers, signed, new)
      PROVE  QuorumInv'
  <2>1. /\ decision' = [status |-> "running", op |-> op, expected |-> expected,
                        signers |-> signers, signed |-> signed, new |-> new, i |-> 1,
                        matched |-> {}, num_signers |-> 0]
        /\ UNCHANGED <<multisig, owner, excess>>
    BY <1>3 DEF Owner!ValidateOwner
  <2>2. decision' \in Owner!CallState
    BY <2>1, OwnerNumbers DEF Owner!CallState
  <2>3. Owner!PositionsOf(decision.i - 1)' = {}
    BY <2>1 DEF Owner!PositionsOf, Owner!NumberOf
  <2>4. Len(signers) \in Nat
    BY ListFacts, OwnerNumbers
  <2>5. Examined'
    BY <2>1, <2>3, <2>4, FS_EmptySet DEF Examined
  <2> QED
    BY <1>1, <2>1, <2>2, <2>5 DEF QuorumInv, Owner!DecisionIsQuorum, Owner!TypeOK
<1>4. CASE Owner!ExamineSigner
  BY <1>4, ExamineQuorumInv
<1>5. CASE Owner!RefuseUnsigned
  <2>1. /\ decision.status = "running" /\ decision.i \in 1 .. Len(decision.signers)
        /\ Owner!Hits # {} /\ decision.signers[decision.i] \notin decision.signed
        /\ decision' = [decision EXCEPT !.status = "refused"]
        /\ UNCHANGED <<multisig, owner, excess>>
    BY <1>5, OwnerTypes, OwnerNumbers DEF Owner!RefuseUnsigned, Owner!Looping
  <2>2. PICK p \in 1 .. Len(multisig.signers) :
          multisig.signers[p] = decision.signers[decision.i]
    BY <2>1 DEF Owner!Hits, Owner!NumberOf
  <2>3. ~Owner!Quorum
    BY <2>1, <2>2 DEF Owner!Quorum, Owner!SetOf
  <2> QED
    BY <1>1, <2>1, <2>3, EndedQuorumInv
<1>6. CASE Owner!Accept \/ Owner!Refuse
  <2>1. /\ decision.status = "running"
        /\ decision.expected = MultisigAddress => decision.i > Len(decision.signers)
        /\ multisig' = multisig
        /\ \/ Owner!Passed /\ decision' = [decision EXCEPT !.status = "accepted"]
           \/ ~Owner!Passed /\ decision' = [decision EXCEPT !.status = "refused"]
    BY <1>6 DEF Owner!Accept, Owner!Refuse, Owner!Conclude
  <2>2. owner' \in Owner!Owners /\ excess' \in BOOLEAN
    BY <1>1, <1>6 DEF Owner!Accept, Owner!Refuse, Owner!CallState
  <2>3. decision.expected = MultisigAddress => (Owner!Passed <=> Owner!Quorum)
    BY <2>1, Concluded DEF Owner!Passed, Running
  <2> QED
    BY <2>1, <2>2, <2>3, EndedQuorumInv
<1>7. CASE Owner!Return
  <2>1. decision' = Owner!NoCall /\ UNCHANGED <<multisig, owner, excess>>
    BY <1>7 DEF Owner!Return
  <2>2. decision'.status = "none"
    BY <2>1 DEF Owner!NoCall
  <2>3. decision' \in Owner!CallState
    <3>1. <<>> \in [1 .. 0 -> Signers]
      OBVIOUS
    <3>2. <<>> \in Owner!Lists(MaxPresented)
      BY <3>1, OwnerNumbers DEF Owner!Lists
    <3> QED
      BY <2>1, <3>2, OwnerNumbers
         DEF Owner!NoCall, Owner!CallState, Owner!Operations, Owner!Owners
  <2> QED
    BY <1>1, <2>1, <2>2, <2>3
       DEF QuorumInv, Owner!DecisionIsQuorum, Owner!TypeOK, Examined, Running
<1>8. CASE Owner!ReceiveLamports
  <2>1. /\ decision = Owner!NoCall /\ decision' = decision /\ owner' = owner
        /\ multisig' = multisig /\ excess' = TRUE
    BY <1>8 DEF Owner!ReceiveLamports
  <2>2. decision'.status = "none"
    BY <2>1 DEF Owner!NoCall
  <2> QED
    BY <1>1, <2>1, <2>2 DEF QuorumInv, Owner!DecisionIsQuorum, Owner!TypeOK, Examined, Running
<1>9. /\ "SetAuthority" \in Owner!Operations /\ "WithdrawExcessLamports" \in Owner!Operations
      /\ MultisigAddress \in Owner!Owners
  BY DEF Owner!Operations, Owner!Owners
<1> QED
  BY <1>1, <1>2, <1>3, <1>4, <1>5, <1>6, <1>7, <1>8, <1>9 DEF Owner!Next

\* validate_owner accepts exactly a quorum of the multisig's positions, with any
\* number of signers and however keys are repeated.
THEOREM QuorumDecides == Spec => []DecisionIsQuorum
<1>1. Init => QuorumInv
  BY InitQuorumInv
<1>2. QuorumInv /\ [Next]_vars => QuorumInv'
  <2> SUFFICES ASSUME QuorumInv, [Next]_vars PROVE QuorumInv'
    OBVIOUS
  <2>1. CASE Owner!Next
    BY <2>1, OwnerQuorumInv
  <2>2. CASE UNCHANGED owner_vars
    BY <2>2 DEF owner_vars, QuorumInv, Owner!DecisionIsQuorum, Owner!TypeOK, Examined, Running,
                Owner!Quorum, Owner!SetOf, Owner!PositionsOf, Owner!NumberOf
  <2> QED
    BY <2>1, <2>2, PartSteps
<1>3. QuorumInv => DecisionIsQuorum
  BY DEF QuorumInv, DecisionIsQuorum
<1> QED
  BY <1>1, <1>2, <1>3, PTL DEF Spec

-----------------------------------------------------------------------------
(***************************************************************************)
(* Fees.  Without a cap the fee of x is the r that Rounded pins down.      *)
(***************************************************************************)
Rounded(r, n, d) == r \in Nat /\ d * r >= n /\ d * r < n + d

LEMMA CeilRounded ==
  ASSUME NEW n \in Nat, NEW d \in Nat \ {0}
  PROVE  Rounded((n + d - 1) \div d, n, d)
<1> DEFINE m == n + d - 1
           q == m \div d
<1>1. m \in Nat
  OBVIOUS
<1> HIDE DEF m
<1>2. q \in Nat /\ m % d \in 0 .. d - 1 /\ m = d * q + (m % d)
  BY <1>1, Division
<1> HIDE DEF q
<1>3. d * q \in Nat
  BY <1>2
<1>4. d * q >= n /\ d * q < n + d
  BY <1>2, <1>3 DEF m
<1> QED
  BY <1>2, <1>4 DEF Rounded, q, m

\* Multiples of d are in the order of their factors.
LEMMA Factors ==
  ASSUME NEW d \in Nat \ {0}, NEW p \in Int, NEW q \in Int, d * p < d * q
  PROVE  p < q
<1>1. ASSUME q <= p PROVE d * q <= d * p
  BY <1>1
<1> QED
  BY <1>1

LEMMA RoundedOnce ==
  ASSUME NEW d \in Nat \ {0}, NEW n \in Nat, NEW r, NEW s, Rounded(r, n, d), Rounded(s, n, d)
  PROVE  r = s
<1>1. r \in Nat /\ s \in Nat /\ d * r < d * s + d /\ d * s < d * r + d
  BY DEF Rounded
<1>2. d * (s + 1) = d * s + d /\ d * (r + 1) = d * r + d
  BY <1>1
<1>3. r < s + 1 /\ s < r + 1
  BY <1>1, <1>2, Factors
<1> QED
  BY <1>1, <1>3

FeeNumbers ==
  /\ U64_MAX \in Nat /\ ONE_IN_BASIS_POINTS \in Nat \ {0}
  /\ transfer_fee.maximum_fee \in 0 .. U64_MAX
  /\ transfer_fee.transfer_fee_basis_points \in 0 .. ONE_IN_BASIS_POINTS

LesserFee(r) == IF r <= transfer_fee.maximum_fee THEN r ELSE transfer_fee.maximum_fee

LEMMA FeeIs ==
  ASSUME FeeNumbers, NEW x \in 0 .. U64_MAX
  PROVE  \E r \in 0 .. x :
           /\ Rounded(r, x * transfer_fee.transfer_fee_basis_points, ONE_IN_BASIS_POINTS)
           /\ Fees!Fee(x) = LesserFee(r)
           /\ Fees!PostFee(x) = x - Fees!Fee(x)
<1> DEFINE b == transfer_fee.transfer_fee_basis_points
           max == transfer_fee.maximum_fee
           D == ONE_IN_BASIS_POINTS
           r == (x * b + D - 1) \div D
<1>1. /\ b \in 0 .. D /\ max \in 0 .. U64_MAX /\ D \in Nat \ {0} /\ x \in Nat
      /\ U64_MAX \in Nat /\ x <= U64_MAX
  BY DEF FeeNumbers
<1>2. x * b \in Nat
  BY <1>1
<1>3. r \in 0 .. x
  BY <1>1, CeilBound
<1>4. Rounded(r, x * b, D)
  BY <1>1, <1>2, CeilRounded
<1>5. Fees!Fee(x) = LesserFee(r)
  <2>1. CASE b = 0 \/ x = 0
    <3>1. x * b = 0
      BY <1>1, <2>1
    <3>2. Rounded(0, x * b, D)
      BY <1>1, <3>1 DEF Rounded
    <3>3. r = 0
      BY <1>1, <1>2, <1>4, <3>2, RoundedOnce
    <3>4. LesserFee(0) = 0
      BY <1>1 DEF LesserFee
    <3> HIDE DEF r
    <3> QED
      BY <2>1, <3>3, <3>4 DEF Fees!Fee, Fees!calculate_fee
  <2>2. CASE ~(b = 0 \/ x = 0)
    <3>1. Fees!ceil_div(x * b, D) = r
      BY DEF Fees!ceil_div
    <3>2. Fees!CheckedU64(r) = r /\ r # Fees!NoAmount
      <4> HIDE DEF r
      <4> QED
        BY <1>1, <1>3 DEF Fees!CheckedU64, Fees!U64, Fees!NoAmount
    <3>3. Fees!calculate_fee(transfer_fee, x) = Fees!LesserOf(r, max)
      <4> HIDE DEF r
      <4> QED
        BY <2>2, <3>1, <3>2 DEF Fees!calculate_fee
    <3> QED
      BY <3>3 DEF Fees!Fee, Fees!LesserOf, LesserFee
  <2> QED
    BY <2>1, <2>2
<1>6. Fees!PostFee(x) = x - Fees!Fee(x)
  <2> HIDE DEF r
  <2>1. Fees!Fee(x) \in 0 .. x
    BY <1>1, <1>3, <1>5 DEF LesserFee
  <2> HIDE DEF b, max, D
  <2> QED
    BY <1>1, <2>1
       DEF Fees!PostFee, Fees!Fee, Fees!calculate_post_fee_amount, Fees!CheckedU64, Fees!U64,
           Fees!NoAmount
<1> HIDE DEF r
<1> QED
  BY <1>3, <1>4, <1>5, <1>6

LEMMA SplittingCosts ==
  ASSUME FeeNumbers, NEW x \in 0 .. U64_MAX, NEW p \in 0 .. x
  PROVE  Fees!Fee(p) + Fees!Fee(x - p) >= Fees!Fee(x)
<1> DEFINE b == transfer_fee.transfer_fee_basis_points
           D == ONE_IN_BASIS_POINTS
           max == transfer_fee.maximum_fee
           q == x - p
<1>1. /\ b \in 0 .. D /\ max \in 0 .. U64_MAX /\ D \in Nat \ {0} /\ x \in Nat
      /\ U64_MAX \in Nat /\ x <= U64_MAX
  BY DEF FeeNumbers
<1>2. p \in 0 .. U64_MAX /\ q \in 0 .. U64_MAX /\ x = p + q
  BY <1>1
<1> HIDE DEF q
<1>3. PICK r \in 0 .. x : Rounded(r, x * b, D) /\ Fees!Fee(x) = LesserFee(r)
  BY FeeIs
<1>4. PICK s \in 0 .. p : Rounded(s, p * b, D) /\ Fees!Fee(p) = LesserFee(s)
  BY <1>2, FeeIs
<1>5. PICK t \in 0 .. q : Rounded(t, q * b, D) /\ Fees!Fee(q) = LesserFee(t)
  BY <1>2, FeeIs
<1>6. x * b = p * b + q * b /\ p * b \in Nat /\ q * b \in Nat
  BY <1>1, <1>2
<1>7. D * (s + t + 1) = D * s + D * t + D
  BY <1>1, <1>2, <1>4, <1>5
<1>8. D * r < D * (s + t + 1)
  <2>1. /\ D * r < x * b + D /\ D * s >= p * b /\ D * t >= q * b
        /\ D * r \in Nat /\ D * s \in Nat /\ D * t \in Nat
    BY <1>1, <1>2, <1>3, <1>4, <1>5 DEF Rounded
  <2> HIDE DEF b, D
  <2> DEFINE P == p * b
             Q == q * b
             X == x * b
             R == D * r
             S == D * s
             T == D * t
             W == D * (s + t + 1)
  <2>2. /\ R < X + D /\ S >= P /\ T >= Q /\ X = P + Q /\ W = S + T + D
        /\ {R, S, T, P, Q, D} \subseteq Nat
    BY <1>1, <1>6, <1>7, <2>1
  <2> HIDE DEF P, Q, X, R, S, T, W
  <2>3. R < W
    BY <2>2
  <2> QED
    BY <2>3 DEF R, W
<1>9. r < s + t + 1
  <2>1. r \in Int /\ s + t + 1 \in Int
    BY <1>1, <1>2
  <2> QED
    BY <1>1, <1>8, <2>1, Factors
<1>10. LesserFee(s) + LesserFee(t) >= LesserFee(r)
  BY <1>1, <1>2, <1>9 DEF LesserFee
<1> QED
  BY <1>3, <1>4, <1>5, <1>10 DEF q

\* The two sides of what the inverse rounds: r is at least the raw fee of g exactly if
\* g is at least the raw gross amount.
LEMMA GrossBound ==
  ASSUME NEW D \in Nat \ {0}, NEW b \in 0 .. D, b < D, NEW x \in Nat, NEW g \in Nat,
         NEW R, Rounded(R, x * D, D - b)
  PROVE  /\ D * (g - x) >= g * b => g >= R
         /\ g >= R => D * (g - x) >= g * b
         /\ R \in Nat /\ R >= x
         /\ D * (R - x) < R * b + D
         /\ (D - b) * R < x * D + D
<1> DEFINE E == D - b
<1>1. /\ R \in Nat /\ E * R >= x * D /\ E * R < x * D + E /\ E \in Nat \ {0} /\ E <= D
      /\ x * D \in Nat
  BY DEF Rounded
<1>2. /\ D * (g - x) = D * g - D * x /\ E * g = D * g - g * b /\ D * x = x * D
      /\ D * (R - x) = D * R - D * x /\ E * R = D * R - R * b
  BY <1>1
<1> DEFINE Dg == D * g
           DR == D * R
           gb == g * b
           Rb == R * b
           Dx == x * D
           Eg == E * g
           ER == E * R
<1>3. {Dg, DR, gb, Rb, Dx, Eg, ER} \subseteq Int
  BY <1>1
<1>4. /\ D * (g - x) = Dg - Dx /\ Eg = Dg - gb /\ D * (R - x) = DR - Dx /\ ER = DR - Rb
      /\ ER >= Dx /\ ER < Dx + E
  BY <1>1, <1>2
<1>5. ASSUME D * (g - x) >= g * b PROVE g >= R
  <2>1. Dg - Dx >= gb
    BY <1>4, <1>5
  <2>2. E * (g + 1) = Eg + E
    BY <1>1
  <2>3. ER < Eg + E
    <3> HIDE DEF Dg, DR, gb, Rb, Dx, Eg, ER, E
    <3> QED
      BY <1>1, <1>3, <1>4, <2>1
  <2>4. R < g + 1
    <3>1. E * R < E * (g + 1)
      BY <2>2, <2>3
    <3> HIDE DEF E
    <3> QED
      BY <1>1, <3>1, Factors
  <2> QED
    BY <1>1, <2>4
<1>6. ASSUME g >= R PROVE D * (g - x) >= g * b
  <2>1. Eg >= ER
    BY <1>1, <1>6
  <2>2. Dg - Dx >= gb
    <3> HIDE DEF Dg, DR, gb, Rb, Dx, Eg, ER, E
    <3> QED
      BY <1>1, <1>3, <1>4, <2>1
  <2> QED
    BY <1>4, <2>2
<1>7. R >= x
  <2>1. x * D >= x * E
    BY <1>1
  <2>2. E * (R + 1) = ER + E /\ x * E = E * x
    BY <1>1
  <2>3. E * x < E * (R + 1)
    <3> DEFINE xE == x * E
    <3>1. xE \in Int /\ Dx >= xE /\ E * (R + 1) = ER + E /\ E * x = xE
      BY <1>1, <2>1, <2>2
    <3> HIDE DEF xE, Dg, DR, gb, Rb, Dx, Eg, ER, E
    <3>2. xE < ER + E
      BY <1>1, <1>3, <1>4, <3>1
    <3> QED
      BY <3>1, <3>2
  <2> HIDE DEF E
  <2> QED
    BY <1>1, <2>3, Factors
<1>8. D * (R - x) < R * b + D
  <2> HIDE DEF Dg, DR, gb, Rb, Dx, Eg, ER, E
  <2>1. DR - Dx < Rb + D
    BY <1>1, <1>3, <1>4
  <2> QED
    BY <1>4, <2>1 DEF Rb
<1>9. ER < Dx + D
  <2> HIDE DEF Dg, DR, gb, Rb, Dx, Eg, ER, E
  <2> QED
    BY <1>1, <1>3, <1>4
<1> QED
  BY <1>1, <1>5, <1>6, <1>7, <1>8, <1>9

\* The gross amount that calculate_pre_fee_amount computes, before it is checked.
GrossOf(R, x) ==
  IF R - x >= transfer_fee.maximum_fee THEN x + transfer_fee.maximum_fee ELSE R

LEMMA GrossOfIsSmallest ==
  ASSUME FeeNumbers, transfer_fee.transfer_fee_basis_points < ONE_IN_BASIS_POINTS,
         NEW x \in 0 .. U64_MAX, NEW R,
         Rounded(R, x * ONE_IN_BASIS_POINTS,
                 ONE_IN_BASIS_POINTS - transfer_fee.transfer_fee_basis_points)
  PROVE  /\ GrossOf(R, x) \in Nat
         /\ GrossOf(R, x) <= U64_MAX => Fees!PostFee(GrossOf(R, x)) = x
         /\ \A g \in 0 .. U64_MAX : Fees!PostFee(g) = x => g >= GrossOf(R, x)
<1> DEFINE b == transfer_fee.transfer_fee_basis_points
           D == ONE_IN_BASIS_POINTS
           max == transfer_fee.maximum_fee
           G == GrossOf(R, x)
<1>1. /\ b \in 0 .. D /\ b < D /\ max \in 0 .. U64_MAX /\ D \in Nat \ {0} /\ x \in Nat
      /\ U64_MAX \in Nat /\ x <= U64_MAX
  BY DEF FeeNumbers
<1>2. /\ \A g \in Nat : D * (g - x) >= g * b => g >= R
      /\ \A g \in Nat : g >= R => D * (g - x) >= g * b
      /\ R \in Nat /\ R >= x /\ D * (R - x) < R * b + D
  <2>1. /\ R \in Nat /\ R >= x /\ D * (R - x) < R * b + D
    BY <1>1, GrossBound
  <2>2. ASSUME NEW g \in Nat
        PROVE  (D * (g - x) >= g * b => g >= R) /\ (g >= R => D * (g - x) >= g * b)
    BY <1>1, GrossBound
  <2> QED
    BY <2>1, <2>2
<1>3. G \in Nat
  BY <1>1, <1>2 DEF GrossOf
<1>4. ASSUME G <= U64_MAX PROVE Fees!PostFee(G) = x
  <2>1. G \in 0 .. U64_MAX
    BY <1>1, <1>3, <1>4
  <2>2. PICK r \in 0 .. G : /\ Rounded(r, G * b, D) /\ Fees!Fee(G) = LesserFee(r)
                            /\ Fees!PostFee(G) = G - Fees!Fee(G)
    BY <2>1, FeeIs
  <2>3. CASE R - x >= max
    <3>1. G = x + max
      BY <2>3 DEF GrossOf
    <3>2. ASSUME r < max PROVE FALSE
      <4> DEFINE g == x + r
      <4>1. g \in Nat /\ g - x = r /\ g <= G
        BY <1>1, <1>3, <2>2, <3>1, <3>2
      <4>2. g * b <= G * b /\ g * b \in Nat /\ G * b \in Nat
        BY <1>1, <1>3, <4>1
      <4>3. D * r >= G * b /\ D * r \in Nat
        BY <1>1, <1>3, <2>2 DEF Rounded
      <4>4. D * (g - x) >= g * b
        <5> DEFINE gb == g * b
                   Gb == G * b
                   Dr == D * r
        <5>1. gb <= Gb /\ Dr >= Gb /\ {gb, Gb, Dr} \subseteq Nat /\ D * (g - x) = Dr
          BY <4>1, <4>2, <4>3
        <5> HIDE DEF gb, Gb, Dr
        <5>2. Dr >= gb
          BY <5>1
        <5> QED
          BY <5>1, <5>2 DEF gb
      <4>5. g >= R
        BY <1>2, <4>1, <4>4
      <4>6. g = x + r /\ r \in Nat /\ R \in Nat /\ R - x >= max
        BY <1>2, <1>3, <2>2, <2>3
      <4> HIDE DEF g
      <4> QED
        BY <1>1, <3>2, <4>5, <4>6
    <3>3. LesserFee(r) = max
      <4>1. r \in Nat /\ ~(r < max)
        BY <1>3, <3>2
      <4> HIDE DEF G
      <4> QED
        BY <1>1, <4>1 DEF LesserFee
    <3> QED
      BY <1>1, <2>2, <3>1, <3>3
  <2>4. CASE ~(R - x >= max)
    <3>1. G = R
      BY <2>4 DEF GrossOf
    <3>2. R - x \in Nat
      BY <1>1, <1>2
    <3>3. Rounded(R - x, G * b, D)
      BY <1>1, <1>2, <3>1, <3>2 DEF Rounded
    <3>4. r = R - x
      <4>1. G * b \in Nat
        BY <1>1, <1>3
      <4> QED
        BY <1>1, <2>2, <3>3, <4>1, RoundedOnce
    <3>5. LesserFee(r) = R - x
      BY <1>1, <1>2, <2>4, <3>4 DEF LesserFee
    <3> QED
      BY <1>1, <1>2, <2>2, <3>1, <3>5
  <2> QED
    BY <2>3, <2>4
<1>5. ASSUME NEW g \in 0 .. U64_MAX, Fees!PostFee(g) = x PROVE g >= G
  <2>1. PICK r \in 0 .. g : /\ Rounded(r, g * b, D) /\ Fees!Fee(g) = LesserFee(r)
                            /\ Fees!PostFee(g) = g - Fees!Fee(g)
    BY FeeIs
  <2>2. g \in Nat
    BY <1>1
  <2>3. CASE r <= max
    <3>1. g - x = r
      BY <1>1, <1>5, <2>1, <2>2, <2>3 DEF LesserFee
    <3>2. D * (g - x) >= g * b
      BY <2>1, <3>1 DEF Rounded
    <3>3. g >= R
      BY <1>2, <2>2, <3>2
    <3> QED
      BY <1>1, <1>2, <2>2, <3>3 DEF GrossOf
  <2>4. CASE r > max
    <3>1. g = x + max
      BY <1>1, <1>5, <2>1, <2>2, <2>4 DEF LesserFee
    <3> QED
      BY <1>1, <1>2, <3>1 DEF GrossOf
  <2> QED
    BY <1>1, <2>1, <2>2, <2>3, <2>4
<1> QED
  BY <1>3, <1>4, <1>5

\* calculate_pre_fee_amount and the raw gross amount.
LEMMA PreFeeIs ==
  ASSUME FeeNumbers, transfer_fee.transfer_fee_basis_points < ONE_IN_BASIS_POINTS,
         NEW x \in 0 .. U64_MAX
  PROVE  \E R : /\ Rounded(R, x * ONE_IN_BASIS_POINTS,
                           ONE_IN_BASIS_POINTS - transfer_fee.transfer_fee_basis_points)
                /\ Fees!PreFee(x) = Fees!CheckedU64(GrossOf(R, x))
<1> DEFINE b == transfer_fee.transfer_fee_basis_points
           D == ONE_IN_BASIS_POINTS
           max == transfer_fee.maximum_fee
           E == D - b
           R == (x * D + E - 1) \div E
<1>1. /\ b \in 0 .. D /\ b < D /\ max \in 0 .. U64_MAX /\ D \in Nat \ {0} /\ x \in Nat
      /\ U64_MAX \in Nat /\ x <= U64_MAX /\ E \in Nat \ {0} /\ x * D \in Nat
  BY DEF FeeNumbers
<1>2. Rounded(R, x * D, E)
  <2> HIDE DEF E
  <2> QED
    BY <1>1, CeilRounded
<1>3. CASE b = 0 \/ x = 0
  <2>1. Rounded(x, x * D, E)
    <3>1. CASE b = 0
      <4>1. E = D
        BY <1>1, <3>1
      <4>2. D * x = x * D
        BY <1>1
      <4> QED
        BY <1>1, <4>1, <4>2 DEF Rounded
    <3>2. CASE x = 0
      <4>1. E * x = 0 /\ x * D = 0
        BY <1>1, <3>2
      <4> QED
        BY <1>1, <4>1 DEF Rounded
    <3> QED
      BY <1>3, <3>1, <3>2
  <2>2. R = x
    <3> HIDE DEF E, R
    <3> QED
      BY <1>1, <1>2, <2>1, RoundedOnce
  <2>3. GrossOf(R, x) = x
    <3> HIDE DEF R
    <3> QED
      BY <1>1, <2>2 DEF GrossOf
  <2>4. Fees!PreFee(x) = x
    BY <1>1, <1>3 DEF Fees!PreFee, Fees!calculate_pre_fee_amount
  <2>5. Fees!CheckedU64(x) = x
    BY <1>1 DEF Fees!CheckedU64, Fees!U64
  <2> HIDE DEF R
  <2> QED
    BY <1>2, <2>3, <2>4, <2>5
<1>4. CASE ~(b = 0 \/ x = 0)
  <2>1. Fees!ceil_div(x * D, E) = R
    BY DEF Fees!ceil_div
  <2> HIDE DEF R
  <2>2. Fees!PreFee(x) = IF R - x >= max THEN Fees!CheckedU64(x + max)
                                         ELSE Fees!CheckedU64(R)
    BY <1>1, <1>4, <2>1 DEF Fees!PreFee, Fees!calculate_pre_fee_amount
  <2>3. Fees!PreFee(x) = Fees!CheckedU64(GrossOf(R, x))
    BY <2>2 DEF GrossOf
  <2> QED
    BY <1>2, <2>3
<1> QED
  BY <1>3, <1>4

LEMMA PreFeeSmallest ==
  ASSUME FeeNumbers, amount \in 0 .. U64_MAX
  PROVE  Fees!PreFeeIsSmallest
<1> SUFFICES ASSUME transfer_fee.transfer_fee_basis_points < ONE_IN_BASIS_POINTS
             PROVE  Fees!PreFee(amount) = Fees!SmallestGross(amount)
  BY DEF Fees!PreFeeIsSmallest
<1>1. PICK R : /\ Rounded(R, amount * ONE_IN_BASIS_POINTS,
                          ONE_IN_BASIS_POINTS - transfer_fee.transfer_fee_basis_points)
               /\ Fees!PreFee(amount) = Fees!CheckedU64(GrossOf(R, amount))
  BY PreFeeIs
<1> DEFINE G == GrossOf(R, amount)
           all == Fees!GrossAmounts(amount)
<1>2. /\ G \in Nat
      /\ G <= U64_MAX => Fees!PostFee(G) = amount
      /\ \A g \in 0 .. U64_MAX : Fees!PostFee(g) = amount => g >= G
  BY <1>1, GrossOfIsSmallest
<1> HIDE DEF G
<1>3. U64_MAX \in Nat
  BY DEF FeeNumbers
<1>4. all = {g \in 0 .. U64_MAX : Fees!PostFee(g) = amount}
  BY DEF Fees!GrossAmounts, Fees!U64
<1> HIDE DEF all
<1>5. CASE G <= U64_MAX
  <2>1. G \in all /\ \A h \in all : G <= h
    BY <1>2, <1>3, <1>4, <1>5
  <2>2. \A g \in all : (\A h \in all : g <= h) => g = G
    <3>1. \A g \in all : g \in Nat
      BY <1>3, <1>4
    <3> QED
      BY <1>2, <2>1, <3>1
  <2>3. (CHOOSE g \in all : \A h \in all : g <= h) = G
    BY <2>1, <2>2
  <2>4. Fees!CheckedU64(G) = G
    BY <1>2, <1>3, <1>5 DEF Fees!CheckedU64, Fees!U64
  <2>5. Fees!PreFee(amount) = G
    BY <1>1, <2>4 DEF G
  <2>6. Fees!SmallestGross(amount) = G
    BY <2>1, <2>3 DEF Fees!SmallestGross, all
  <2> QED
    BY <2>5, <2>6
<1>6. CASE ~(G <= U64_MAX)
  <2>1. all = {}
    BY <1>2, <1>3, <1>4, <1>6
  <2>2. Fees!CheckedU64(G) = Fees!NoAmount
    BY <1>2, <1>3, <1>6 DEF Fees!CheckedU64, Fees!U64
  <2> QED
    BY <1>1, <2>1, <2>2 DEF Fees!SmallestGross, G, all
<1> QED
  BY <1>5, <1>6

LEMMA RoundTrip ==
  ASSUME FeeNumbers, amount \in 0 .. U64_MAX
  PROVE  Fees!RoundTripLoss
<1> DEFINE b == transfer_fee.transfer_fee_basis_points
           D == ONE_IN_BASIS_POINTS
           max == transfer_fee.maximum_fee
           x == amount
           n == Fees!PostFee(x)
<1> SUFFICES ASSUME b < D
             PROVE  /\ Fees!Fee(x) - Fees!InverseFee(n) >= 0
                    /\ (Fees!Fee(x) - Fees!InverseFee(n)) * (D - b) < D
  BY DEF Fees!RoundTripLoss
<1>1. /\ b \in 0 .. D /\ max \in 0 .. U64_MAX /\ D \in Nat \ {0} /\ x \in Nat
      /\ U64_MAX \in Nat /\ x <= U64_MAX
  BY DEF FeeNumbers
<1>2. PICK r \in 0 .. x : /\ Rounded(r, x * b, D) /\ Fees!Fee(x) = LesserFee(r)
                          /\ Fees!PostFee(x) = x - Fees!Fee(x)
  BY FeeIs
<1>3. n \in 0 .. U64_MAX /\ n = x - LesserFee(r) /\ n <= x /\ LesserFee(r) \in Nat
  BY <1>1, <1>2 DEF LesserFee
<1> HIDE DEF n
<1>4. PICK R : Rounded(R, n * D, D - b) /\ Fees!PreFee(n) = Fees!CheckedU64(GrossOf(R, n))
  BY <1>3, PreFeeIs
<1> DEFINE G == GrossOf(R, n)
<1>5. /\ G \in Nat
      /\ G <= U64_MAX => Fees!PostFee(G) = n
      /\ \A g \in 0 .. U64_MAX : Fees!PostFee(g) = n => g >= G
  BY <1>3, <1>4, GrossOfIsSmallest
<1>6. G <= x /\ G \in 0 .. U64_MAX
  <2>1. x >= G
    BY <1>5 DEF n
  <2> HIDE DEF G
  <2> QED
    BY <1>1, <1>5, <2>1
<1>7. Fees!InverseFee(n) = G - n
  <2> HIDE DEF G
  <2>1. Fees!CheckedU64(G) = G /\ G # Fees!NoAmount
    BY <1>1, <1>6 DEF Fees!CheckedU64, Fees!U64, Fees!NoAmount
  <2>2. Fees!PreFee(n) = G
    BY <1>4, <2>1 DEF G
  <2>3. Fees!InverseFee(n) = Fees!Fee(G)
    BY <2>1, <2>2 DEF Fees!InverseFee, Fees!calculate_inverse_fee, Fees!PreFee, Fees!Fee
  <2>4. PICK s \in 0 .. G : /\ Fees!Fee(G) = LesserFee(s)
                            /\ Fees!PostFee(G) = G - Fees!Fee(G)
    BY <1>6, FeeIs
  <2>5. LesserFee(s) \in Nat /\ Fees!PostFee(G) = n
    <3>1. s \in Nat /\ G <= U64_MAX
      BY <1>5, <1>6, <2>4
    <3> QED
      BY <1>1, <1>5, <3>1 DEF LesserFee
  <2> QED
    BY <1>3, <1>5, <2>3, <2>4, <2>5
<1>8. Fees!Fee(x) - Fees!InverseFee(n) = x - G
  <2> HIDE DEF G
  <2> QED
    BY <1>1, <1>2, <1>3, <1>5, <1>7
<1>9. /\ D * (R - n) < R * b + D /\ (D - b) * R < n * D + D /\ R \in Nat /\ R >= n
      /\ (D - b) * R >= n * D
  <2>1. n \in Nat /\ Rounded(R, n * D, D - b)
    BY <1>3, <1>4
  <2>2. (D - b) * R >= n * D
    BY <2>1 DEF Rounded
  <2>3. /\ D * (R - n) < R * b + D /\ (D - b) * R < n * D + D /\ R \in Nat /\ R >= n
    BY <1>1, <2>1, GrossBound
  <2> QED
    BY <2>2, <2>3
<1>10. (x - G) * (D - b) < D
  <2>1. CASE x = G
    <3>1. (x - G) * (D - b) = 0
      <4> HIDE DEF G
      <4> QED
        BY <1>1, <2>1
    <3> QED
      BY <1>1, <3>1
  <2>2. CASE x # G
    <3>1. G = R
      <4>1. x <= n + max
        BY <1>1, <1>2, <1>3 DEF LesserFee
      <4>2. G = R \/ G = n + max
        BY DEF GrossOf
      <4> HIDE DEF G
      <4> QED
        BY <1>1, <1>3, <1>5, <1>6, <2>2, <4>1, <4>2
    <3>2. x - n <= r
      BY <1>1, <1>2, <1>3 DEF LesserFee
    <3> DEFINE E == D - b
               Dx == D * x
               Dn == n * D
               xb == x * b
               ER == E * R
               Ex == E * x
    <3>3. /\ D * (x - n) <= D * r /\ D * r < x * b + D /\ D * r \in Nat
      <4>1. r \in Nat /\ x - n \in Nat
        BY <1>1, <1>2, <1>3
      <4> QED
        BY <1>1, <1>2, <3>2, <4>1 DEF Rounded
    <3>4. /\ D * (x - n) = Dx - Dn /\ Ex = Dx - xb /\ (x - R) * E = Ex - ER
          /\ {Dx, Dn, xb, ER, Ex, E} \subseteq Int
      BY <1>1, <1>3, <1>9
    <3>5. Dx - Dn < xb + D
      <4> DEFINE Dr == D * r
      <4>1. Dx - Dn <= Dr /\ Dr < xb + D /\ Dr \in Nat
        BY <3>3, <3>4
      <4> HIDE DEF Dr, Dx, Dn, xb
      <4> QED
        BY <1>1, <3>4, <4>1
    <3>6. ER >= Dn
      BY <1>9
    <3> HIDE DEF E, Dx, Dn, xb, ER, Ex
    <3>7. Ex - ER < D
      BY <1>1, <3>4, <3>5, <3>6
    <3> QED
      BY <3>1, <3>4, <3>7 DEF E
  <2> QED
    BY <2>1, <2>2
<1>11. x - G >= 0
  BY <1>1, <1>5, <1>6
<1> QED
  BY <1>8, <1>10, <1>11

FeesInv == FeeNumbers /\ amount \in 0 .. U64_MAX

LEMMA FeesStay == (Init => FeesInv) /\ (FeesInv /\ [Next]_vars => FeesInv')
<1>1. ASSUME Init PROVE FeesInv
  <2>1. /\ transfer_fee.maximum_fee \in MaximumFees
        /\ transfer_fee.transfer_fee_basis_points \in BasisPoints
        /\ amount = 0
    BY <1>1 DEF Init, Fees!Init
  <2>2. /\ U64_MAX \in Nat /\ ONE_IN_BASIS_POINTS \in Nat \ {0}
        /\ BasisPoints \subseteq 0 .. ONE_IN_BASIS_POINTS /\ MaximumFees \subseteq 0 .. U64_MAX
    BY PartsAssumption
  <2>3. /\ transfer_fee.maximum_fee \in 0 .. U64_MAX
        /\ transfer_fee.transfer_fee_basis_points \in 0 .. ONE_IN_BASIS_POINTS
    BY <2>1, <2>2, Zenon
  <2>4. amount \in 0 .. U64_MAX
    BY <2>1, <2>2
  <2> QED
    BY <2>2, <2>3, <2>4 DEF FeeNumbers, FeesInv
<1>2. ASSUME FeesInv, [Next]_vars PROVE FeesInv'
  <2>1. Fees!NextAmount \/ UNCHANGED fees_vars
    BY <1>2, PartSteps
  <2>2. /\ transfer_fee' = transfer_fee /\ amount' \in {amount, amount + 1}
        /\ amount' = amount \/ amount < U64_MAX
    BY <2>1 DEF Fees!NextAmount, fees_vars
  <2> QED
    BY <1>2, <2>2 DEF FeeNumbers, FeesInv
<1> QED
  BY <1>1, <1>2

\* Splitting a transfer never saves fees, for every schedule and amount.
THEOREM SplittingNeverPays == Spec => []SplittingSavesNothing
<1>1. FeesInv => SplittingSavesNothing
  BY SplittingCosts DEF SplittingSavesNothing, Fees!SplittingSavesNothing, FeesInv
<1> QED
  BY <1>1, FeesStay, PTL DEF Spec

\* calculate_pre_fee_amount returns the smallest amount with the given net amount, for
\* every schedule below 100% and every amount.
THEOREM PreFeeIsLeast == Spec => []PreFeeIsSmallest
<1>1. FeesInv => PreFeeIsSmallest
  BY PreFeeSmallest DEF PreFeeIsSmallest, FeesInv
<1> QED
  BY <1>1, FeesStay, PTL DEF Spec

\* calculate_inverse_fee undoes calculate_fee up to a bounded loss, for every schedule
\* below 100% and every amount.
THEOREM InverseLosesLittle == Spec => []RoundTripLoss
<1>1. FeesInv => RoundTripLoss
  BY RoundTrip DEF RoundTripLoss, FeesInv
<1> QED
  BY <1>1, FeesStay, PTL DEF Spec

-----------------------------------------------------------------------------
(***************************************************************************)
(* Interest.  The average is the exponent so far, divided by the time      *)
(* since initialization and truncated towards zero.                        *)
(***************************************************************************)
LEMMA Truncated ==
  ASSUME NEW s \in Int, NEW t \in Nat \ {0}
  PROVE  LET q == Interest!TruncatedDiv(s, t)
         IN  /\ q \in Int
             /\ s >= 0 => t * q <= s /\ s < t * q + t
             /\ s < 0 => t * q >= s /\ s > t * q - t
<1> DEFINE q == Interest!TruncatedDiv(s, t)
<1>1. CASE s >= 0
  <2>1. q = s \div t
    BY <1>1 DEF Interest!TruncatedDiv
  <2>2. s \div t \in Nat /\ s % t \in 0 .. t - 1 /\ s = t * (s \div t) + (s % t)
    <3>1. s \in Nat
      BY <1>1
    <3> QED
      BY <3>1, Division
  <2> HIDE DEF q
  <2>3. q \in Nat /\ s % t \in 0 .. t - 1 /\ s = t * q + (s % t)
    BY <2>1, <2>2
  <2>4. t * q \in Nat
    BY <2>3
  <2>5. t * q <= s /\ s < t * q + t
    BY <2>3, <2>4
  <2> QED
    BY <1>1, <2>3, <2>5 DEF q
<1>2. CASE s < 0
  <2> DEFINE n == -s
             p == n \div t
  <2>1. n \in Nat
    BY <1>2
  <2>2. q = -p
    BY <1>2 DEF Interest!TruncatedDiv
  <2>3. p \in Nat /\ n % t \in 0 .. t - 1 /\ n = t * p + (n % t)
    BY <2>1, Division
  <2> HIDE DEF q, p
  <2>4. t * q = -(t * p) /\ t * p \in Nat /\ q \in Int
    BY <2>2, <2>3
  <2>5. t * q >= s /\ s > t * q - t
    <3> DEFINE P == t * p
               Q == t * q
               m == n % t
    <3>1. Q = -P /\ P \in Nat /\ m \in 0 .. t - 1 /\ n = P + m /\ s = -n /\ n \in Nat
      BY <2>1, <2>3, <2>4
    <3> HIDE DEF P, Q, m, n
    <3>2. Q >= s /\ s > Q - t
      BY <3>1
    <3> QED
      BY <3>2 DEF Q
  <2> QED
    BY <1>2, <2>4, <2>5 DEF q
<1> QED
  BY <1>1, <1>2

\* A weighted mean lies between the least and the greatest of what it weighs.
LEMMA MeanBetween ==
  ASSUME NEW lo \in Int, NEW hi \in Int, NEW a \in lo .. hi, NEW c \in lo .. hi,
         NEW u \in Nat, NEW v \in Nat, u + v # 0
  PROVE  /\ a * u + c * v \in Int /\ u + v \in Nat \ {0}
         /\ Interest!TruncatedDiv(a * u + c * v, u + v) \in lo .. hi
<1> DEFINE t == u + v
           s == a * u + c * v
           q == Interest!TruncatedDiv(s, t)
<1>1. t \in Nat \ {0} /\ s \in Int
  OBVIOUS
<1>2. t * lo <= s /\ s <= t * hi
  <2>1. /\ lo * u <= a * u /\ a * u <= hi * u /\ lo * v <= c * v /\ c * v <= hi * v
        /\ {lo * u, a * u, hi * u, lo * v, c * v, hi * v} \subseteq Int
    OBVIOUS
  <2>2. t * lo = lo * u + lo * v /\ t * hi = hi * u + hi * v
    OBVIOUS
  <2> DEFINE lu == lo * u
             au == a * u
             hu == hi * u
             lv == lo * v
             cv == c * v
             hv == hi * v
  <2>3. /\ lu <= au /\ au <= hu /\ lv <= cv /\ cv <= hv
        /\ {lu, au, hu, lv, cv, hv} \subseteq Int
        /\ t * lo = lu + lv /\ t * hi = hu + hv /\ s = au + cv
    BY <2>1, <2>2
  <2> HIDE DEF lu, au, hu, lv, cv, hv, s, t
  <2> QED
    BY <2>3
<1> HIDE DEF s, t
<1>3. /\ q \in Int
      /\ s >= 0 => t * q <= s /\ s < t * q + t
      /\ s < 0 => t * q >= s /\ s > t * q - t
  BY <1>1, Truncated
<1> HIDE DEF q
<1>4. t * (q + 1) = t * q + t /\ t * (q - 1) = t * q - t
  BY <1>1, <1>3
<1> DEFINE Q == t * q
           L == t * lo
           H == t * hi
<1>5. /\ {Q, L, H, s, t} \subseteq Int /\ L <= s /\ s <= H /\ t > 0
      /\ s >= 0 => Q <= s /\ s < Q + t
      /\ s < 0 => Q >= s /\ s > Q - t
      /\ t * (q + 1) = Q + t /\ t * (q - 1) = Q - t
  BY <1>1, <1>2, <1>3, <1>4
<1>6. L < t * (q + 1) /\ t * (q - 1) < H
  <2> HIDE DEF Q, L, H
  <2> QED
    BY <1>5
<1>7. lo < q + 1 /\ q - 1 < hi
  <2>1. t * lo < t * (q + 1) /\ t * (q - 1) < t * hi
    BY <1>6
  <2>2. q + 1 \in Int /\ q - 1 \in Int
    BY <1>3
  <2> QED
    BY <1>1, <2>1, <2>2, Factors
<1>8. q \in lo .. hi
  BY <1>3, <1>7
<1> QED
  BY <1>1, <1>8 DEF s, t, q

\* Every rate there was lies within the range, and time only moves on.
InterestInv ==
  /\ Interest!TypeOK
  /\ config.present =>
       /\ config.pre_update_average_rate \in range.lo .. range.hi
       /\ config.current_rate \in range.lo .. range.hi
       /\ config.initialization_timestamp <= config.last_update_timestamp
       /\ config.last_update_timestamp <= now

LEMMA InterestNumbers ==
  /\ I16_MIN \in Int /\ I16_MAX \in Int /\ I16_MIN <= 0 /\ 0 <= I16_MAX
  /\ InterestRates \subseteq I16_MIN .. I16_MAX /\ MaxTime \in Nat
BY PartsAssumption DEF Interest!InterestAssumption

LEMMA InterestTypes ==
  ASSUME InterestInv
  PROVE  /\ minted \in BOOLEAN /\ now \in 0 .. MaxTime
         /\ config \in Interest!ConfigState
         /\ range \in [lo : I16_MIN .. I16_MAX, hi : I16_MIN .. I16_MAX]
         /\ config.initialization_timestamp \in 0 .. MaxTime
         /\ config.last_update_timestamp \in 0 .. MaxTime
         /\ config.pre_update_average_rate \in I16_MIN .. I16_MAX
         /\ config.current_rate \in I16_MIN .. I16_MAX
         /\ range.lo \in I16_MIN .. I16_MAX /\ range.hi \in I16_MIN .. I16_MAX
BY DEF InterestInv, Interest!TypeOK, Interest!ConfigState, Interest!RateBasisPoints

LEMMA InitInterestInv == Init => InterestInv
<1> SUFFICES ASSUME Init PROVE InterestInv
  OBVIOUS
<1>1. /\ minted = FALSE
      /\ config = [present |-> FALSE, rate_authority |-> None, initialization_timestamp |-> 0,
               pre_update_average_rate |-> 0, last_update_timestamp |-> 0, current_rate |-> 0]
      /\ now = 0 /\ range = [lo |-> 0, hi |-> 0]
  BY DEF Init, Interest!Init
<1>2. 0 \in I16_MIN .. I16_MAX /\ 0 \in 0 .. MaxTime
  BY InterestNumbers
<1> QED
  BY <1>1, <1>2 DEF InterestInv, Interest!TypeOK, Interest!ConfigState, Interest!RateBasisPoints

\* The exponent and its average at the time of a change of rate.
LEMMA AverageNow ==
  ASSUME InterestInv, config.present
  PROVE  LET t == now - config.initialization_timestamp
             s == Interest!Exponent(now)
             q == Interest!time_weighted_average_rate(now)
         IN  /\ s \in Int /\ t \in Nat
             /\ q \in range.lo .. range.hi
             /\ t = 0 => s = 0
             /\ t # 0 => q = Interest!TruncatedDiv(s, t)
<1> DEFINE t == now - config.initialization_timestamp
           s == Interest!Exponent(now)
           q == Interest!time_weighted_average_rate(now)
           u == config.last_update_timestamp - config.initialization_timestamp
           v == now - config.last_update_timestamp
           a == config.pre_update_average_rate
           c == config.current_rate
           lo == range.lo
           hi == range.hi
<1>1. /\ now \in Nat /\ config.initialization_timestamp \in Nat
      /\ config.last_update_timestamp \in Nat
      /\ config.initialization_timestamp <= config.last_update_timestamp
      /\ config.last_update_timestamp <= now
  BY InterestTypes, InterestNumbers DEF InterestInv
<1>2. u \in Nat /\ v \in Nat /\ t \in Nat /\ u + v = t
  BY <1>1
<1>3. a \in lo .. hi /\ c \in lo .. hi /\ lo \in Int /\ hi \in Int
  BY InterestTypes, InterestNumbers DEF InterestInv
<1>4. s = a * u + c * v
  BY DEF Interest!Exponent, Interest!pre_update_timespan, Interest!post_update_timespan
<1>5. q = IF u + v = 0 THEN c ELSE Interest!TruncatedDiv(s, u + v)
  BY DEF Interest!time_weighted_average_rate, Interest!pre_update_timespan,
         Interest!post_update_timespan
<1> HIDE DEF q, s, t, u, v, a, c, lo, hi
<1>6. s \in Int
  BY <1>2, <1>3, <1>4
<1>7. CASE t = 0
  <2>1. u = 0 /\ v = 0
    BY <1>2, <1>7
  <2>2. s = 0
    BY <1>3, <1>4, <2>1
  <2> QED
    BY <1>2, <1>3, <1>5, <1>6, <1>7, <2>2 DEF q, s, t, u, v, a, c, lo, hi
<1>8. CASE t # 0
  <2>1. Interest!TruncatedDiv(a * u + c * v, u + v) \in lo .. hi
    BY <1>2, <1>3, <1>8, MeanBetween
  <2>2. q = Interest!TruncatedDiv(s, t) /\ q \in lo .. hi
    BY <1>2, <1>4, <1>5, <1>8, <2>1
  <2> QED
    BY <1>2, <1>6, <1>8, <2>2 DEF q, s, t, lo, hi
<1> QED
  BY <1>7, <1>8

LEMMA InterestStep ==
  ASSUME InterestInv, Interest!Next
  PROVE  InterestInv'
<1>1. /\ minted \in BOOLEAN /\ now \in 0 .. MaxTime
      /\ config \in Interest!ConfigState
      /\ range \in [lo : I16_MIN .. I16_MAX, hi : I16_MIN .. I16_MAX]
      /\ range.lo \in I16_MIN .. I16_MAX /\ range.hi \in I16_MIN .. I16_MAX
  BY InterestTypes
<1>2. ASSUME NEW rate \in InterestRates, NEW authority \in {RateAuthority, None},
             Interest!Initialize(rate, authority)
      PROVE  InterestInv'
  <2>1. /\ config' = [present |-> TRUE, rate_authority |-> authority,
                      initialization_timestamp |-> now, pre_update_average_rate |-> rate,
                      last_update_timestamp |-> now, current_rate |-> rate]
        /\ range' = [lo |-> rate, hi |-> rate] /\ minted' = minted /\ now' = now
    BY <1>2 DEF Interest!Initialize
  <2>2. rate \in I16_MIN .. I16_MAX /\ rate \in Int
    BY InterestNumbers
  <2>3. config' \in Interest!ConfigState
    BY <1>1, <2>1, <2>2 DEF Interest!ConfigState, Interest!RateBasisPoints
  <2> QED
    BY <1>1, <2>1, <2>2, <2>3, InterestNumbers
       DEF InterestInv, Interest!TypeOK, Interest!RateBasisPoints
<1>3. ASSUME NEW rate \in InterestRates, Interest!UpdateRate(rate)
      PROVE  InterestInv'
  <2> DEFINE q == Interest!time_weighted_average_rate(now)
             low == Interest!Least(range.lo, rate)
             high == Interest!Greatest(range.hi, rate)
  <2>1. /\ config.present
        /\ config' = [config EXCEPT !.pre_update_average_rate = q,
                              !.last_update_timestamp = now, !.current_rate = rate]
        /\ range' = [lo |-> low, hi |-> high] /\ minted' = minted /\ now' = now
    BY <1>3 DEF Interest!UpdateRate, Interest!FoldInto
  <2>2. rate \in I16_MIN .. I16_MAX
    BY InterestNumbers
  <2>3. q \in range.lo .. range.hi
    BY <2>1, AverageNow
  <2> HIDE DEF q
  <2>4. /\ low \in I16_MIN .. I16_MAX /\ high \in I16_MIN .. I16_MAX
        /\ rate \in low .. high /\ q \in low .. high /\ q \in I16_MIN .. I16_MAX
    BY <1>1, <2>2, <2>3, InterestNumbers DEF Interest!Least, Interest!Greatest
  <2> HIDE DEF low, high
  <2>5. /\ config' \in Interest!ConfigState
        /\ config'.pre_update_average_rate = q /\ config'.current_rate = rate
        /\ config'.last_update_timestamp = now
        /\ config'.initialization_timestamp = config.initialization_timestamp
    BY <1>1, <2>1, <2>2, <2>4 DEF Interest!ConfigState, Interest!RateBasisPoints
  <2>6. range'.lo = low /\ range'.hi = high
        /\ range' \in [lo : I16_MIN .. I16_MAX, hi : I16_MIN .. I16_MAX]
    BY <2>1, <2>4
  <2>7. config.initialization_timestamp <= now /\ now <= now
    BY <2>1, InterestTypes, InterestNumbers DEF InterestInv
  <2> QED
    BY <1>1, <2>1, <2>4, <2>5, <2>6, <2>7 DEF InterestInv, Interest!TypeOK, Interest!RateBasisPoints
<1>4. CASE Interest!InitializeMint
  BY <1>1, <1>4 DEF Interest!InitializeMint, InterestInv, Interest!TypeOK
<1>5. CASE Interest!RenounceAuthority
  <2>1. /\ config' = [config EXCEPT !.rate_authority = None]
        /\ minted' = minted /\ now' = now /\ range' = range
    BY <1>5 DEF Interest!RenounceAuthority
  <2>2. /\ config' \in Interest!ConfigState /\ config'.present = config.present
        /\ config'.pre_update_average_rate = config.pre_update_average_rate
        /\ config'.current_rate = config.current_rate
        /\ config'.last_update_timestamp = config.last_update_timestamp
        /\ config'.initialization_timestamp = config.initialization_timestamp
    BY <1>1, <2>1 DEF Interest!ConfigState
  <2> QED
    BY <1>1, <2>1, <2>2 DEF InterestInv, Interest!TypeOK
<1>6. CASE Interest!Tick
  <2>1. now < MaxTime /\ now' = now + 1 /\ UNCHANGED <<minted, config, range>>
    BY <1>6 DEF Interest!Tick
  <2>2. now' \in 0 .. MaxTime
    BY <1>1, <2>1, InterestNumbers
  <2>3. config.present => config.last_update_timestamp <= now'
    BY <1>1, <2>1, InterestTypes, InterestNumbers DEF InterestInv
  <2> QED
    BY <1>1, <2>1, <2>2, <2>3 DEF InterestInv, Interest!TypeOK
<1> QED
  BY <1>2, <1>3, <1>4, <1>5, <1>6 DEF Interest!Next

LEMMA InterestStays == InterestInv /\ [Next]_vars => InterestInv'
<1> SUFFICES ASSUME InterestInv, [Next]_vars PROVE InterestInv'
  OBVIOUS
<1>1. CASE Interest!Next
  BY <1>1, InterestStep
<1>2. CASE UNCHANGED interest_vars
  BY <1>2 DEF interest_vars, InterestInv, Interest!TypeOK
<1> QED
  BY <1>1, <1>2, PartSteps

\* At a change of rate the exponent becomes the average times the age of the mint.
LEMMA RateJump ==
  ASSUME InterestInv, minted, config.present, Interest!Next, now' = now
  PROVE  Interest!Abs(Interest!Exponent(now)' - Interest!Exponent(now))
           < Interest!Greatest(now - config.initialization_timestamp, 1)
<1> DEFINE t == now - config.initialization_timestamp
           s == Interest!Exponent(now)
           q == Interest!time_weighted_average_rate(now)
           after == Interest!Exponent(now)'
<1>1. s \in Int /\ t \in Nat /\ q \in range.lo .. range.hi /\ (t = 0 => s = 0)
      /\ (t # 0 => q = Interest!TruncatedDiv(s, t))
  BY AverageNow
<1>2. now \in Int /\ range.lo \in Int /\ range.hi \in Int
  BY InterestTypes, InterestNumbers
<1>3. ASSUME after = s
      PROVE  Interest!Abs(after - s) < Interest!Greatest(t, 1)
  <2> HIDE DEF after, s, t
  <2> QED
    BY <1>1, <1>3 DEF Interest!Abs, Interest!Greatest
<1>4. ASSUME NEW rate \in InterestRates, Interest!UpdateRate(rate)
      PROVE  Interest!Abs(after - s) < Interest!Greatest(t, 1)
  <2>1. config' = [config EXCEPT !.pre_update_average_rate = q,
                              !.last_update_timestamp = now, !.current_rate = rate]
    BY <1>4 DEF Interest!UpdateRate, Interest!FoldInto
  <2>2. /\ config'.pre_update_average_rate = q /\ config'.current_rate = rate
        /\ config'.last_update_timestamp = now
        /\ config'.initialization_timestamp = config.initialization_timestamp
    <3> HIDE DEF q
    <3> QED
      BY <2>1, InterestTypes DEF Interest!ConfigState
  <2>3. after = config'.pre_update_average_rate
                  * (config'.last_update_timestamp - config'.initialization_timestamp)
                + config'.current_rate * (now' - config'.last_update_timestamp)
    BY DEF Interest!Exponent, Interest!pre_update_timespan, Interest!post_update_timespan
  <2>4. after = q * t + rate * (now - now)
    <3> HIDE DEF q, after
    <3> QED
      BY <2>2, <2>3
  <2>5. rate \in Int /\ q \in Int /\ now - now = 0
    BY <1>1, <1>2, InterestNumbers
  <2> HIDE DEF after, q, s, t
  <2>6. after = t * q
    BY <1>1, <2>4, <2>5
  <2>7. CASE t = 0
    BY <1>1, <1>3, <2>5, <2>6, <2>7
  <2>8. CASE t # 0
    <3>1. /\ s >= 0 => t * q <= s /\ s < t * q + t
          /\ s < 0 => t * q >= s /\ s > t * q - t
      BY <1>1, <2>8, Truncated
    <3>2. t * q \in Int /\ t >= 1
      BY <1>1, <2>5, <2>8
    <3> DEFINE Q == t * q
    <3>3. /\ s >= 0 => Q <= s /\ s < Q + t
          /\ s < 0 => Q >= s /\ s > Q - t
          /\ Q \in Int /\ after = Q
      BY <2>6, <3>1, <3>2
    <3> HIDE DEF Q
    <3> QED
      BY <1>1, <3>2, <3>3 DEF Interest!Abs, Interest!Greatest
  <2> QED
    BY <2>7, <2>8
<1>5. CASE Interest!RenounceAuthority
  <2>1. /\ config' = [config EXCEPT !.rate_authority = None] /\ now' = now
    BY <1>5 DEF Interest!RenounceAuthority
  <2>2. /\ config'.pre_update_average_rate = config.pre_update_average_rate
        /\ config'.current_rate = config.current_rate
        /\ config'.last_update_timestamp = config.last_update_timestamp
        /\ config'.initialization_timestamp = config.initialization_timestamp
    BY <2>1, InterestTypes DEF Interest!ConfigState
  <2>3. after = s
    BY <2>1, <2>2
       DEF Interest!Exponent, Interest!pre_update_timespan, Interest!post_update_timespan
  <2> QED
    BY <1>3, <2>3
<1>6. ~Interest!Tick
  <2>1. now + 1 # now
    BY <1>2
  <2>2. Interest!Tick => now' = now + 1
    BY DEF Interest!Tick
  <2> QED
    BY <2>1, <2>2
<1>7. \A rate, authority : ~Interest!Initialize(rate, authority)
  BY DEF Interest!Initialize
<1>8. ~Interest!InitializeMint
  BY DEF Interest!InitializeMint
<1> QED
  BY <1>4, <1>5, <1>6, <1>7, <1>8 DEF Interest!Next

LEMMA RateStepHolds == InterestInv /\ [Next]_vars => [Interest!RateStep]_(Interest!vars)
<1> SUFFICES ASSUME InterestInv, [Next]_vars
             PROVE  Interest!RateStep \/ UNCHANGED Interest!vars
  OBVIOUS
<1>1. CASE Interest!Next
  BY <1>1, RateJump DEF Interest!RateStep
<1>2. CASE UNCHANGED interest_vars
  BY <1>2 DEF interest_vars, Interest!vars
<1> QED
  BY <1>1, <1>2, PartSteps

\* The average rate stays within the rates there were, whatever they are and whenever
\* the rate is changed.
THEOREM AverageStaysBetween == Spec => []AverageBetweenRates
<1>1. InterestInv => AverageBetweenRates
  BY DEF InterestInv, AverageBetweenRates, Interest!AverageBetweenRates
<1> QED
  BY <1>1, InitInterestInv, InterestStays, PTL DEF Spec

\* Changing the rate hardly changes what has been earned.
THEOREM RateChangesSmoothly == Spec => RateChangeIsContinuous
BY InitInterestInv, InterestStays, RateStepHolds, PTL
   DEF Spec, RateChangeIsContinuous, Interest!RateChangeIsContinuous

-----------------------------------------------------------------------------
(***************************************************************************)
(* Identity.  What an instruction writes into the entry of a mint, and     *)
(* what it leaves alone.                                                   *)
(***************************************************************************)
MintRecords(A, P, G, M, D) ==
  [initialized : BOOLEAN, mint_authority : A, pointer : P, group : G, member : M, metadata : D]

\* The entries that instructions rewrite, one at a time.
LEMMA PointerEdit ==
  ASSUME NEW A, NEW P, NEW G, NEW M, NEW D, NEW old \in MintRecords(A, P, G, M, D),
         NEW x \in P, NEW new, new = [old EXCEPT !.pointer = x]
  PROVE  /\ new \in MintRecords(A, P, G, M, D)
         /\ new.pointer = x
         /\ new.initialized = old.initialized /\ new.mint_authority = old.mint_authority
         /\ new.group = old.group /\ new.member = old.member /\ new.metadata = old.metadata
BY DEF MintRecords

LEMMA GroupEdit ==
  ASSUME NEW A, NEW P, NEW G, NEW M, NEW D, NEW old \in MintRecords(A, P, G, M, D),
         NEW x \in G, NEW new, new = [old EXCEPT !.group = x]
  PROVE  /\ new \in MintRecords(A, P, G, M, D)
         /\ new.group = x
         /\ new.initialized = old.initialized /\ new.mint_authority = old.mint_authority
         /\ new.pointer = old.pointer /\ new.member = old.member /\ new.metadata = old.metadata
BY DEF MintRecords

LEMMA MemberEdit ==
  ASSUME NEW A, NEW P, NEW G, NEW M, NEW D, NEW old \in MintRecords(A, P, G, M, D),
         NEW x \in M, NEW new, new = [old EXCEPT !.member = x]
  PROVE  /\ new \in MintRecords(A, P, G, M, D)
         /\ new.member = x
         /\ new.initialized = old.initialized /\ new.mint_authority = old.mint_authority
         /\ new.pointer = old.pointer /\ new.group = old.group /\ new.metadata = old.metadata
BY DEF MintRecords

LEMMA MetadataEdit ==
  ASSUME NEW A, NEW P, NEW G, NEW M, NEW D, NEW old \in MintRecords(A, P, G, M, D),
         NEW x \in D, NEW new, new = [old EXCEPT !.metadata = x]
  PROVE  /\ new \in MintRecords(A, P, G, M, D)
         /\ new.metadata = x
         /\ new.initialized = old.initialized /\ new.mint_authority = old.mint_authority
         /\ new.pointer = old.pointer /\ new.group = old.group /\ new.member = old.member
BY DEF MintRecords

\* Rewriting the entry of one mint.
LEMMA OneEdit ==
  ASSUME NEW S, NEW R, NEW f \in [S -> R], NEW m \in S, NEW s \in R,
         NEW g, g = [f EXCEPT ![m] = s]
  PROVE  g \in [S -> R] /\ g[m] = s /\ \A n \in S \ {m} : g[n] = f[n]
OBVIOUS

\* What FixedStep asks of the entry of one mint.
Fixed(old, new) ==
  (old.initialized /\ new.initialized) =>
     /\ \A kind \in Kinds :
          (old.pointer[kind].present /\ old.pointer[kind].authority = None) =>
             new.pointer[kind] = old.pointer[kind]
     /\ (old.group.present /\ old.group.update_authority = None) => new.group = old.group
     /\ (old.metadata.present /\ old.metadata.update_authority = None) =>
           new.metadata = old.metadata
     /\ old.mint_authority = None =>
           /\ new.group.present = old.group.present
           /\ new.metadata.present = old.metadata.present
           /\ new.member = old.member

\* The entries of mints, whatever numbers members have.
Joined == [present : {TRUE}, group : Mints, member_number : Int, under : Int]

IdentityRecord ==
  MintRecords(Identity!MaybeKey, [Kinds -> Identity!Pointers \cup {Identity!Missing}],
              Identity!Groups \cup {Identity!Missing},
              Joined \cup {Identity!Missing},
              Identity!Metadata \cup {Identity!Missing})

IdentityShape ==
  /\ identity \in [Mints -> IdentityRecord]
  /\ identity_incarnation \in [Mints -> 0 .. MaxIdentities]

LEMMA IdentityRewritten ==
  ASSUME IdentityShape, NEW m \in Mints, NEW s \in IdentityRecord,
         identity' = [identity EXCEPT ![m] = s], Fixed(identity[m], s),
         identity_incarnation' \in [Mints -> 0 .. MaxIdentities]
  PROVE  IdentityShape' /\ Identity!FixedStep
<1>1. identity \in [Mints -> IdentityRecord]
  BY DEF IdentityShape
<1>2. /\ identity' \in [Mints -> IdentityRecord] /\ identity'[m] = s
      /\ \A n \in Mints \ {m} : identity'[n] = identity[n]
  BY <1>1, OneEdit
<1>3. \A n \in Mints : Fixed(identity[n], identity'[n])
  BY <1>2 DEF Fixed
<1>4. Identity!FixedStep
  BY <1>3 DEF Identity!FixedStep, Fixed
<1> QED
  BY <1>2, <1>4 DEF IdentityShape

LEMMA IdentityRecords ==
  ASSUME IdentityShape, NEW m \in Mints
  PROVE  /\ identity[m] \in IdentityRecord
         /\ identity[m].pointer \in [Kinds -> Identity!Pointers \cup {Identity!Missing}]
         /\ identity[m].group \in Identity!Groups \cup {Identity!Missing}
         /\ identity[m].member \in Joined \cup {Identity!Missing}
         /\ identity[m].metadata \in Identity!Metadata \cup {Identity!Missing}
         /\ identity_incarnation \in [Mints -> 0 .. MaxIdentities]
<1>1. identity[m] \in IdentityRecord
  BY DEF IdentityShape
<1> QED
  BY <1>1 DEF IdentityShape, IdentityRecord, MintRecords

\* A pointer is rewritten by who has authority over it, or before the mint exists.
LEMMA PointerRewritten ==
  ASSUME IdentityShape, NEW m \in Mints, NEW kind \in Kinds, NEW p \in Identity!Pointers,
         identity' = [identity EXCEPT ![m].pointer[kind] = p],
         ~identity[m].initialized \/ identity[m].pointer[kind].authority # None,
         identity_incarnation' = identity_incarnation
  PROVE  IdentityShape' /\ Identity!FixedStep
<1> DEFINE old == identity[m]
           ps == [old.pointer EXCEPT ![kind] = p]
           s == [old EXCEPT !.pointer = ps]
<1>1. identity' = [identity EXCEPT ![m] = s]
  OBVIOUS
<1>2. /\ old \in IdentityRecord
      /\ old.pointer \in [Kinds -> Identity!Pointers \cup {Identity!Missing}]
      /\ identity_incarnation \in [Mints -> 0 .. MaxIdentities]
  BY IdentityRecords
<1>3. /\ ps \in [Kinds -> Identity!Pointers \cup {Identity!Missing}]
      /\ \A k \in Kinds \ {kind} : ps[k] = old.pointer[k]
  BY <1>2
<1> HIDE DEF ps
<1>4. /\ s \in IdentityRecord
      /\ s.pointer = ps
      /\ s.initialized = old.initialized /\ s.mint_authority = old.mint_authority
      /\ s.group = old.group /\ s.member = old.member /\ s.metadata = old.metadata
  <2>1. /\ old \in IdentityRecord
        /\ ps \in [Kinds -> Identity!Pointers \cup {Identity!Missing}]
    BY <1>2, <1>3
  <2> HIDE DEF old
  <2> QED
    BY <2>1, PointerEdit DEF IdentityRecord
<1> HIDE DEF s
<1>5. Fixed(old, s)
  BY <1>3, <1>4 DEF Fixed
<1> QED
  BY <1>1, <1>2, <1>4, <1>5, IdentityRewritten

LEMMA GroupRewritten ==
  ASSUME IdentityShape, NEW m \in Mints, NEW g \in Identity!Groups,
         identity' = [identity EXCEPT ![m].group = g],
         IF identity[m].group.present THEN identity[m].group.update_authority # None
                                      ELSE identity[m].mint_authority # None,
         identity_incarnation' = identity_incarnation
  PROVE  IdentityShape' /\ Identity!FixedStep
<1> DEFINE old == identity[m]
           s == [old EXCEPT !.group = g]
<1>1. identity' = [identity EXCEPT ![m] = s]
  OBVIOUS
<1>2. /\ old \in IdentityRecord /\ old.group \in Identity!Groups \cup {Identity!Missing}
      /\ identity_incarnation \in [Mints -> 0 .. MaxIdentities]
  BY IdentityRecords
<1>3. /\ s \in IdentityRecord
      /\ s.group = g
      /\ s.initialized = old.initialized /\ s.mint_authority = old.mint_authority
      /\ s.pointer = old.pointer /\ s.member = old.member /\ s.metadata = old.metadata
  BY <1>2, GroupEdit DEF IdentityRecord
<1> HIDE DEF s
<1>4. g.present = TRUE
  BY DEF Identity!Groups
<1>5. old.group.present => old.group.present = TRUE
  <2>1. CASE old.group \in Identity!Groups
    BY <2>1 DEF Identity!Groups
  <2>2. CASE old.group = Identity!Missing
    BY <2>2 DEF Identity!Missing
  <2> QED
    BY <1>2, <2>1, <2>2
<1>6. Fixed(old, s)
  BY <1>3, <1>4, <1>5 DEF Fixed
<1> QED
  BY <1>1, <1>2, <1>3, <1>6, IdentityRewritten

LEMMA MetadataRewritten ==
  ASSUME IdentityShape, NEW m \in Mints, NEW d \in Identity!Metadata,
         identity' = [identity EXCEPT ![m].metadata = d],
         IF identity[m].metadata.present THEN identity[m].metadata.update_authority # None
                                         ELSE identity[m].mint_authority # None,
         identity_incarnation' = identity_incarnation
  PROVE  IdentityShape' /\ Identity!FixedStep
<1> DEFINE old == identity[m]
           s == [old EXCEPT !.metadata = d]
<1>1. identity' = [identity EXCEPT ![m] = s]
  OBVIOUS
<1>2. /\ old \in IdentityRecord /\ old.metadata \in Identity!Metadata \cup {Identity!Missing}
      /\ identity_incarnation \in [Mints -> 0 .. MaxIdentities]
  BY IdentityRecords
<1>3. /\ s \in IdentityRecord
      /\ s.metadata = d
      /\ s.initialized = old.initialized /\ s.mint_authority = old.mint_authority
      /\ s.pointer = old.pointer /\ s.group = old.group /\ s.member = old.member
  BY <1>2, MetadataEdit DEF IdentityRecord
<1> HIDE DEF s
<1>4. d.present = TRUE
  BY DEF Identity!Metadata
<1>5. old.metadata.present => old.metadata.present = TRUE
  <2>1. CASE old.metadata \in Identity!Metadata
    BY <2>1 DEF Identity!Metadata
  <2>2. CASE old.metadata = Identity!Missing
    BY <2>2 DEF Identity!Missing
  <2> QED
    BY <1>2, <2>1, <2>2
<1>6. Fixed(old, s)
  BY <1>3, <1>4, <1>5 DEF Fixed
<1> QED
  BY <1>1, <1>2, <1>3, <1>6, IdentityRewritten

LEMMA PointerStepsFixed ==
  ASSUME IdentityShape, NEW m \in Mints, NEW k \in Keys, Identity!PointerSteps(m, k)
  PROVE  IdentityShape' /\ Identity!FixedStep
<1> DEFINE pointer == identity[m].pointer
           Goal == IdentityShape' /\ Identity!FixedStep
<1>1. pointer \in [Kinds -> Identity!Pointers \cup {Identity!Missing}]
  BY IdentityRecords
<1>2. ASSUME NEW kind \in Kinds, pointer[kind].present
      PROVE  pointer[kind] \in Identity!Pointers
  BY <1>1, <1>2 DEF Identity!Missing
<1> HIDE DEF Goal
<1>3. ASSUME NEW kind, NEW authority \in Identity!MaybeKey, NEW address \in Identity!MaybeAddress,
             Identity!InitializePointer(m, kind, authority, address)
      PROVE  Goal
  <2> DEFINE p == [present |-> TRUE, authority |-> authority, address |-> address]
  <2>1. /\ kind \in Kinds /\ ~identity[m].initialized
        /\ identity' = [identity EXCEPT ![m].pointer[kind] = p]
        /\ identity_incarnation' = identity_incarnation
    BY <1>3 DEF Identity!InitializePointer
  <2>2. p \in Identity!Pointers
    BY DEF Identity!Pointers
  <2> HIDE DEF p
  <2> QED
    BY <2>1, <2>2, PointerRewritten DEF Goal
<1>4. ASSUME NEW kind, NEW address \in Identity!MaybeAddress,
             Identity!UpdatePointer(m, kind, address, k)
      PROVE  Goal
  <2> DEFINE p == [pointer[kind] EXCEPT !.address = address]
  <2>1. /\ kind \in Kinds /\ pointer[kind].present /\ pointer[kind].authority # None
        /\ identity_incarnation' = identity_incarnation
    BY <1>4 DEF Identity!UpdatePointer, Identity!check_update_authority
  <2>2. identity' = [identity EXCEPT ![m].pointer[kind] = p]
    BY <1>4 DEF Identity!UpdatePointer
  <2>3. p \in Identity!Pointers
    BY <1>2, <2>1 DEF Identity!Pointers
  <2> HIDE DEF p
  <2> QED
    BY <2>1, <2>2, <2>3, PointerRewritten DEF Goal
<1>5. ASSUME NEW kind \in Kinds, NEW new \in Identity!MaybeKey,
             Identity!SetPointerAuthority(m, kind, new, k)
      PROVE  Goal
  <2> DEFINE p == [pointer[kind] EXCEPT !.authority = new]
  <2>1. /\ pointer[kind].present /\ pointer[kind].authority # None
        /\ identity_incarnation' = identity_incarnation
    BY <1>5 DEF Identity!SetPointerAuthority, Identity!check_update_authority
  <2>2. identity' = [identity EXCEPT ![m].pointer[kind] = p]
    BY <1>5 DEF Identity!SetPointerAuthority
  <2>3. p \in Identity!Pointers
    BY <1>2, <2>1 DEF Identity!Pointers
  <2> HIDE DEF p
  <2> QED
    BY <2>1, <2>2, <2>3, PointerRewritten DEF Goal
<1>6. \/ \E kind \in {"Metadata", "Group", "Member"}, authority \in Identity!MaybeKey,
            address \in Identity!MaybeAddress :
           Identity!InitializePointer(m, kind, authority, address)
      \/ \E kind \in {"Metadata", "Group", "Member"}, address \in Identity!MaybeAddress :
           Identity!UpdatePointer(m, kind, address, k)
      \/ \E kind \in Kinds, new \in Identity!MaybeKey :
           Identity!SetPointerAuthority(m, kind, new, k)
  BY DEF Identity!PointerSteps, Identity!InitializeMetadataPointer,
         Identity!InitializeGroupPointer, Identity!InitializeMemberPointer,
         Identity!UpdateMetadataPointer, Identity!UpdateGroupPointer,
         Identity!UpdateMemberPointer
<1>7. Goal
  BY <1>3, <1>4, <1>5, <1>6
<1> QED
  BY <1>7 DEF Goal

LEMMA MintStepsFixed ==
  ASSUME IdentityShape, NEW m \in Mints, NEW k \in Keys, Identity!MintSteps(m, k)
  PROVE  IdentityShape' /\ Identity!FixedStep
<1> DEFINE old == identity[m]
           Goal == IdentityShape' /\ Identity!FixedStep
<1>1. /\ old \in IdentityRecord
      /\ identity_incarnation \in [Mints -> 0 .. MaxIdentities]
  BY IdentityRecords
<1> HIDE DEF Goal
<1>2. ASSUME Identity!InitializeMint(m, k) PROVE Goal
  <2> DEFINE s == [old EXCEPT !.initialized = TRUE, !.mint_authority = k]
  <2>1. /\ ~old.initialized /\ identity_incarnation[m] < MaxIdentities
        /\ identity' = [identity EXCEPT ![m].initialized = TRUE, ![m].mint_authority = k]
        /\ identity_incarnation' = [identity_incarnation EXCEPT ![m] = @ + 1]
    BY <1>2 DEF Identity!InitializeMint
  <2>2. identity' = [identity EXCEPT ![m] = s]
    <3>1. identity \in [Mints -> IdentityRecord]
      BY DEF IdentityShape
    <3> QED
      BY <2>1, <3>1 DEF IdentityRecord, MintRecords
  <2>3. s \in IdentityRecord
    BY <1>1 DEF IdentityRecord, MintRecords, Identity!MaybeKey
  <2>4. identity_incarnation' \in [Mints -> 0 .. MaxIdentities]
    <3>1. MaxIdentities \in Nat
      BY PartsAssumption DEF Identity!IdentityAssumption
    <3>2. identity_incarnation[m] + 1 \in 0 .. MaxIdentities
      BY <1>1, <2>1, <3>1
    <3> QED
      BY <1>1, <2>1, <3>2
  <2>5. Fixed(old, s)
    BY <2>1 DEF Fixed
  <2> QED
    BY <2>2, <2>3, <2>4, <2>5, IdentityRewritten DEF Goal
<1>3. ASSUME Identity!RenounceMintAuthority(m, k) PROVE Goal
  <2> DEFINE s == [old EXCEPT !.mint_authority = None]
  <2>1. /\ old.mint_authority # None
        /\ identity' = [identity EXCEPT ![m].mint_authority = None]
        /\ identity_incarnation' = identity_incarnation
    BY <1>3 DEF Identity!RenounceMintAuthority, Identity!check_update_authority
  <2>2. identity' = [identity EXCEPT ![m] = s]
    BY <2>1
  <2>3. s \in IdentityRecord
    BY <1>1 DEF IdentityRecord, MintRecords, Identity!MaybeKey
  <2>4. Fixed(old, s)
    <3>1. /\ s.pointer = old.pointer /\ s.group = old.group /\ s.metadata = old.metadata
      BY <1>1 DEF IdentityRecord, MintRecords
    <3> QED
      BY <2>1, <3>1 DEF Fixed
  <2> QED
    BY <1>1, <2>1, <2>2, <2>3, <2>4, IdentityRewritten DEF Goal
<1>4. ASSUME Identity!CloseMint(m) PROVE Goal
  <2>1. /\ identity' = [identity EXCEPT ![m] = Identity!Blank]
        /\ identity_incarnation' = identity_incarnation
    BY <1>4 DEF Identity!CloseMint
  <2>2. Identity!Blank \in IdentityRecord
    BY DEF Identity!Blank, IdentityRecord, MintRecords, Identity!MaybeKey
  <2>3. Fixed(old, Identity!Blank)
    BY DEF Fixed, Identity!Blank
  <2> QED
    BY <1>1, <2>1, <2>2, <2>3, IdentityRewritten DEF Goal
<1>5. Goal
  BY <1>2, <1>3, <1>4 DEF Identity!MintSteps
<1> QED
  BY <1>5 DEF Goal

LEMMA MetadataStepsFixed ==
  ASSUME IdentityShape, NEW m \in Mints, NEW k \in Keys, Identity!MetadataSteps(m, k)
  PROVE  IdentityShape' /\ Identity!FixedStep
<1> DEFINE old == identity[m]
           Goal == IdentityShape' /\ Identity!FixedStep
<1>1. old.metadata.present => old.metadata \in Identity!Metadata
  <2>1. old.metadata \in Identity!Metadata \cup {Identity!Missing}
    BY IdentityRecords
  <2> QED
    BY <2>1 DEF Identity!Missing
<1> HIDE DEF Goal
<1>2. ASSUME NEW authority \in Keys, NEW fields \in [Fields -> Values],
             Identity!InitializeMetadata(m, authority, fields, k)
      PROVE  Goal
  <2> DEFINE d == [present |-> TRUE, update_authority |-> authority, fields |-> fields]
  <2>1. /\ ~old.metadata.present /\ old.mint_authority # None
        /\ identity' = [identity EXCEPT ![m].metadata = d]
        /\ identity_incarnation' = identity_incarnation
    BY <1>2 DEF Identity!InitializeMetadata, Identity!check_update_authority
  <2>2. d \in Identity!Metadata
    <3>1. fields \in [Fields -> Values \cup {Absent}]
      OBVIOUS
    <3> QED
      BY <3>1 DEF Identity!Metadata, Identity!MaybeKey
  <2> HIDE DEF d
  <2> QED
    BY <2>1, <2>2, MetadataRewritten DEF Goal
<1>3. ASSUME NEW field \in Fields, NEW value \in Values \cup {Absent},
             old.metadata.present, old.metadata.update_authority # None,
             identity' = [identity EXCEPT ![m].metadata.fields[field] = value],
             identity_incarnation' = identity_incarnation
      PROVE  Goal
  <2> DEFINE d == [old.metadata EXCEPT !.fields[field] = value]
  <2>1. identity' = [identity EXCEPT ![m].metadata = d]
    BY <1>3
  <2>2. d \in Identity!Metadata
    BY <1>1, <1>3 DEF Identity!Metadata
  <2> HIDE DEF d
  <2> QED
    BY <1>3, <2>1, <2>2, MetadataRewritten DEF Goal
<1>4. ASSUME NEW field \in Fields, NEW value \in Values, Identity!UpdateField(m, field, value, k)
      PROVE  Goal
  BY <1>3, <1>4 DEF Identity!UpdateField, Identity!check_update_authority
<1>5. ASSUME NEW field \in Fields, Identity!RemoveKey(m, field, k)
      PROVE  Goal
  BY <1>3, <1>5 DEF Identity!RemoveKey, Identity!check_update_authority
<1>6. ASSUME NEW new \in Identity!MaybeKey, Identity!UpdateMetadataAuthority(m, new, k)
      PROVE  Goal
  <2> DEFINE d == [old.metadata EXCEPT !.update_authority = new]
  <2>1. /\ old.metadata.present /\ old.metadata.update_authority # None
        /\ identity' = [identity EXCEPT ![m].metadata.update_authority = new]
        /\ identity_incarnation' = identity_incarnation
    BY <1>6 DEF Identity!UpdateMetadataAuthority, Identity!check_update_authority
  <2>2. identity' = [identity EXCEPT ![m].metadata = d]
    BY <2>1
  <2>3. d \in Identity!Metadata
    BY <1>1, <2>1 DEF Identity!Metadata
  <2> HIDE DEF d
  <2> QED
    BY <2>1, <2>2, <2>3, MetadataRewritten DEF Goal
<1>7. Goal
  BY <1>2, <1>4, <1>5, <1>6 DEF Identity!MetadataSteps
<1> QED
  BY <1>7 DEF Goal

\* A member joins: the group's entry and the member's are rewritten together.
LEMMA MemberFixed ==
  ASSUME IdentityShape, NEW m \in Mints, NEW k \in Keys, NEW g \in Mints, NEW gk \in Keys,
         Identity!InitializeMember(m, g, k, gk)
  PROVE  IdentityShape' /\ Identity!FixedStep
<1> DEFINE host == identity[g]
           n == host.group.size + 1
           gr == [host.group EXCEPT !.size = n]
           s == [host EXCEPT !.group = gr]
           e == [present |-> TRUE, group |-> g, member_number |-> n,
                 under |-> identity_incarnation[g]]
           f == [identity EXCEPT ![g] = s]
           old == identity[m]
           t == [old EXCEPT !.member = e]
<1>1. /\ host.group.present /\ host.group.update_authority # None
      /\ old.mint_authority # None /\ m # g /\ n <= host.group.max_size
      /\ identity_incarnation' = identity_incarnation
  BY DEF Identity!InitializeMember, Identity!check_update_authority, Identity!increment_size
<1>2. identity' = [identity EXCEPT ![g].group.size = n, ![m].member = e]
  BY DEF Identity!InitializeMember, Identity!increment_size
<1>3. /\ host \in IdentityRecord /\ old \in IdentityRecord
      /\ host.group \in Identity!Groups \cup {Identity!Missing}
      /\ identity_incarnation \in [Mints -> 0 .. MaxIdentities]
      /\ identity \in [Mints -> IdentityRecord]
  BY IdentityRecords DEF IdentityShape
<1>4. host.group \in Identity!Groups
  BY <1>1, <1>3 DEF Identity!Missing
<1>5. /\ MaxIdentitySize \in Nat /\ MaxIdentities \in Nat
      /\ host.group.size \in 0 .. MaxIdentitySize /\ host.group.max_size \in 0 .. MaxIdentitySize
      /\ host.group.present = TRUE
  BY <1>4, PartsAssumption DEF Identity!Groups, Identity!IdentityAssumption
<1>6. n \in 0 .. MaxIdentitySize
  BY <1>1, <1>5
<1>7. gr \in Identity!Groups /\ gr.present = TRUE
  BY <1>4, <1>6 DEF Identity!Groups
<1>8. e \in Joined
  <2>1. n \in Int /\ identity_incarnation[g] \in Int
    BY <1>3, <1>5, <1>6
  <2> QED
    BY <2>1 DEF Joined
<1>9. f[m] = old
  BY <1>1, <1>3
<1>10. identity' = [f EXCEPT ![m] = t]
  BY <1>2, <1>9
<1> HIDE DEF gr, e
<1>11. /\ s \in IdentityRecord
       /\ s.group = gr
       /\ s.initialized = host.initialized /\ s.mint_authority = host.mint_authority
       /\ s.pointer = host.pointer /\ s.member = host.member /\ s.metadata = host.metadata
  <2>1. s = [host EXCEPT !.group = gr] /\ gr \in Identity!Groups \cup {Identity!Missing}
    BY <1>7
  <2> HIDE DEF s, host
  <2> QED
    BY <1>3, <2>1, GroupEdit DEF IdentityRecord
<1>12. /\ t \in IdentityRecord
       /\ t.member = e
       /\ t.initialized = old.initialized /\ t.mint_authority = old.mint_authority
       /\ t.pointer = old.pointer /\ t.group = old.group /\ t.metadata = old.metadata
  BY <1>3, <1>8, MemberEdit DEF IdentityRecord
<1> HIDE DEF s, t
<1>13. Fixed(host, s) /\ Fixed(old, t)
  <2> HIDE DEF host, old
  <2>1. Fixed(host, s)
    BY <1>1, <1>5, <1>7, <1>11 DEF Fixed
  <2>2. Fixed(old, t)
    BY <1>1, <1>12 DEF Fixed
  <2> QED
    BY <2>1, <2>2
<1>14. /\ f \in [Mints -> IdentityRecord] /\ f[g] = s
       /\ \A x \in Mints \ {g} : f[x] = identity[x]
  BY <1>3, <1>11
<1> HIDE DEF f
<1>15. /\ identity' \in [Mints -> IdentityRecord] /\ identity'[m] = t
       /\ \A x \in Mints \ {m} : identity'[x] = f[x]
  BY <1>10, <1>12, <1>14, OneEdit
<1>16. \A x \in Mints : Fixed(identity[x], identity'[x])
  <2>1. ASSUME NEW x \in Mints PROVE Fixed(identity[x], identity'[x])
    <3>1. CASE x = m
      BY <1>13, <1>15, <3>1
    <3>2. CASE x = g
      BY <1>1, <1>13, <1>14, <1>15, <3>2
    <3>3. CASE x # m /\ x # g
      <4>1. identity'[x] = identity[x]
        BY <1>14, <1>15, <3>3
      <4> QED
        BY <4>1 DEF Fixed
    <3> QED
      BY <3>1, <3>2, <3>3
  <2> QED
    BY <2>1
<1>17. Identity!FixedStep
  BY <1>16 DEF Identity!FixedStep, Fixed
<1> QED
  BY <1>1, <1>3, <1>15, <1>17 DEF IdentityShape

LEMMA GroupStepsFixed ==
  ASSUME IdentityShape, NEW m \in Mints, NEW k \in Keys, Identity!GroupSteps(m, k)
  PROVE  IdentityShape' /\ Identity!FixedStep
<1> DEFINE old == identity[m]
           Goal == IdentityShape' /\ Identity!FixedStep
<1>1. old.group.present => old.group \in Identity!Groups
  <2>1. old.group \in Identity!Groups \cup {Identity!Missing}
    BY IdentityRecords
  <2> QED
    BY <2>1 DEF Identity!Missing
<1>2. MaxIdentitySize \in Nat
  BY PartsAssumption DEF Identity!IdentityAssumption
<1> HIDE DEF Goal
<1>3. ASSUME NEW authority \in Identity!MaybeKey, NEW size \in 0 .. MaxIdentitySize,
             Identity!InitializeGroup(m, authority, size, k)
      PROVE  Goal
  <2> DEFINE g == [present |-> TRUE, update_authority |-> authority, size |-> 0,
                   max_size |-> size]
  <2>1. /\ ~old.group.present /\ old.mint_authority # None
        /\ identity' = [identity EXCEPT ![m].group = g]
        /\ identity_incarnation' = identity_incarnation
    BY <1>3 DEF Identity!InitializeGroup, Identity!check_update_authority
  <2>2. g \in Identity!Groups
    BY <1>2 DEF Identity!Groups
  <2> HIDE DEF g
  <2> QED
    BY <2>1, <2>2, GroupRewritten DEF Goal
<1>4. ASSUME NEW size \in 0 .. MaxIdentitySize, Identity!UpdateGroupMaxSize(m, size, k)
      PROVE  Goal
  <2> DEFINE g == [old.group EXCEPT !.max_size = size]
  <2>1. /\ old.group.present /\ old.group.update_authority # None
        /\ identity_incarnation' = identity_incarnation
    BY <1>4 DEF Identity!UpdateGroupMaxSize, Identity!check_update_authority
  <2>2. identity' = [identity EXCEPT ![m].group = g]
    BY <1>4 DEF Identity!UpdateGroupMaxSize
  <2>3. g \in Identity!Groups
    BY <1>1, <2>1 DEF Identity!Groups
  <2> HIDE DEF g
  <2> QED
    BY <2>1, <2>2, <2>3, GroupRewritten DEF Goal
<1>5. ASSUME NEW new \in Identity!MaybeKey, Identity!UpdateGroupAuthority(m, new, k)
      PROVE  Goal
  <2> DEFINE g == [old.group EXCEPT !.update_authority = new]
  <2>1. /\ old.group.present /\ old.group.update_authority # None
        /\ identity_incarnation' = identity_incarnation
    BY <1>5 DEF Identity!UpdateGroupAuthority, Identity!check_update_authority
  <2>2. identity' = [identity EXCEPT ![m].group = g]
    BY <1>5 DEF Identity!UpdateGroupAuthority
  <2>3. g \in Identity!Groups
    BY <1>1, <2>1 DEF Identity!Groups
  <2> HIDE DEF g
  <2> QED
    BY <2>1, <2>2, <2>3, GroupRewritten DEF Goal
<1>6. ASSUME NEW g \in Mints, NEW gk \in Keys, Identity!InitializeMember(m, g, k, gk)
      PROVE  Goal
  BY <1>6, MemberFixed DEF Goal
<1>7. Goal
  BY <1>3, <1>4, <1>5, <1>6 DEF Identity!GroupSteps
<1> QED
  BY <1>7 DEF Goal

LEMMA InitIdentityShape == Init => IdentityShape
<1> SUFFICES ASSUME Init PROVE IdentityShape
  OBVIOUS
<1>1. /\ identity = [m \in Mints |-> Identity!Blank]
      /\ identity_incarnation = [m \in Mints |-> 0]
  BY DEF Init, Identity!Init
<1>2. Identity!Blank \in IdentityRecord
  BY DEF Identity!Blank, IdentityRecord, MintRecords, Identity!MaybeKey
<1>3. 0 \in 0 .. MaxIdentities
  BY PartsAssumption DEF Identity!IdentityAssumption
<1> QED
  BY <1>1, <1>2, <1>3 DEF IdentityShape

LEMMA IdentityStep ==
  IdentityShape /\ [Next]_vars => IdentityShape' /\ [Identity!FixedStep]_(Identity!vars)
<1>1. ASSUME IdentityShape, [Next]_vars
      PROVE  IdentityShape' /\ (Identity!FixedStep \/ UNCHANGED Identity!vars)
  <2>1. CASE Identity!Next
    BY <1>1, <2>1, PointerStepsFixed, MintStepsFixed, GroupStepsFixed, MetadataStepsFixed
       DEF Identity!Next
  <2>2. CASE UNCHANGED identity_vars
    BY <1>1, <2>2 DEF identity_vars, Identity!vars, IdentityShape
  <2> QED
    BY <1>1, <2>1, <2>2, PartSteps
<1> QED
  BY <1>1

\* What nobody has authority over any more is never changed while the mint exists,
\* with any number of keys, mints, fields and incarnations.
THEOREM RenouncedStays == Spec => RenouncedIsFixed
BY InitIdentityShape, IdentityStep, PTL
   DEF Spec, RenouncedIsFixed, Identity!RenouncedIsFixed
-----------------------------------------------------------------------------
(***************************************************************************)
(* Groups.  A group that has just been initialized has no members: those   *)
(* of an earlier group at its address joined under a lower incarnation.    *)
(***************************************************************************)
Standing ==
  \A m \in GroupMints :
    /\ mints[m].initialized => incarnation[m] >= 1
    /\ ~mints[m].initialized => ~mints[m].group.present /\ ~mints[m].member.present
    /\ mints[m].member.present =>
         mints[m].member.under <= incarnation[mints[m].member.group]
    /\ mints[m].initialized /\ ~mints[m].group.present => Groups!MembersOf(m) = {}

GroupsInv == Groups!MembersNumbered /\ Standing

GroupNumbers == MaxGroupSize \in Nat /\ MaxGroups \in Nat

LEMMA GroupConstants == GroupNumbers
BY PartsAssumption DEF GroupNumbers, Groups!IdentityAssumption

GroupsRecord ==
  MintRecords(Groups!MaybeKey, [{"Group", "Member"} -> Groups!Pointers \cup {Groups!Missing}],
              Groups!Groups \cup {Groups!Missing}, Groups!Memberships \cup {Groups!Missing},
              Groups!Metadata \cup {Groups!Missing})

LEMMA GroupsRecords ==
  ASSUME GroupsInv, NEW m \in GroupMints
  PROVE  /\ Groups!MintState = GroupsRecord
         /\ mints \in [GroupMints -> GroupsRecord] /\ mints[m] \in GroupsRecord
         /\ mints[m].pointer \in [{"Group", "Member"} -> Groups!Pointers \cup {Groups!Missing}]
         /\ mints[m].group \in Groups!Groups \cup {Groups!Missing}
         /\ mints[m].member \in Groups!Memberships \cup {Groups!Missing}
         /\ incarnation \in [GroupMints -> 0 .. MaxGroups]
         /\ incarnation[m] \in Nat
<1>1. Groups!MintState = GroupsRecord
  BY DEF Groups!MintState, GroupsRecord, MintRecords
<1>2. mints \in [GroupMints -> Groups!MintState]
      /\ incarnation \in [GroupMints -> 0 .. MaxGroups]
  BY DEF GroupsInv, Groups!MembersNumbered, Groups!TypeOK
<1>3. mints[m] \in Groups!MintState
  BY <1>2
<1>4. incarnation[m] \in Nat
  BY <1>2, GroupConstants DEF GroupNumbers
<1> QED
  BY <1>1, <1>2, <1>3, <1>4 DEF Groups!MintState

\* What a present group or membership is.
LEMMA GroupPresent ==
  ASSUME GroupsInv, NEW m \in GroupMints
  PROVE  /\ mints[m].group.present =>
              /\ mints[m].group \in Groups!Groups
              /\ mints[m].group.size \in Nat /\ mints[m].group.max_size \in 0 .. MaxGroupSize
              /\ mints[m].group.size <= mints[m].group.max_size
         /\ mints[m].member.present =>
              /\ mints[m].member \in Groups!Memberships
              /\ mints[m].member.group \in GroupMints
              /\ mints[m].member.member_number \in Nat
              /\ mints[m].member.under \in Nat
<1>1. /\ mints[m].group \in Groups!Groups \cup {Groups!Missing}
      /\ mints[m].member \in Groups!Memberships \cup {Groups!Missing}
  BY GroupsRecords
<1>2. mints[m].group.present => mints[m].group \in Groups!Groups
  BY <1>1 DEF Groups!Missing
<1>3. mints[m].member.present => mints[m].member \in Groups!Memberships
  BY <1>1 DEF Groups!Missing
<1>4. mints[m].group.present => mints[m].group.size <= mints[m].group.max_size
  BY DEF GroupsInv, Groups!MembersNumbered
<1>5. mints[m].group.present =>
        mints[m].group.size \in Nat /\ mints[m].group.max_size \in 0 .. MaxGroupSize
  <2>1. ASSUME NEW g \in Groups!Groups
        PROVE  g.size \in Nat /\ g.max_size \in 0 .. MaxGroupSize
    <3>1. g.size \in 0 .. MaxGroupSize /\ g.max_size \in 0 .. MaxGroupSize
      BY DEF Groups!Groups
    <3> QED
      BY <3>1, GroupConstants DEF GroupNumbers
  <2> QED
    BY <1>2, <2>1
<1>6. mints[m].member.present =>
        /\ mints[m].member.group \in GroupMints
        /\ mints[m].member.member_number \in Nat /\ mints[m].member.under \in Nat
  <2>1. ASSUME NEW e \in Groups!Memberships
        PROVE  e.group \in GroupMints /\ e.member_number \in Nat /\ e.under \in Nat
    <3>1. /\ e.group \in GroupMints /\ e.member_number \in 1 .. MaxGroupSize
          /\ e.under \in 1 .. MaxGroups
      BY DEF Groups!Memberships
    <3> QED
      BY <3>1, GroupConstants DEF GroupNumbers
  <2> QED
    BY <1>3, <2>1
<1> QED
  BY <1>2, <1>3, <1>4, <1>5, <1>6

\* A step after which no group has members it did not have.
LEMMA NobodyJoins ==
  ASSUME GroupsInv, Groups!TypeOK',
         \A x \in GroupMints : mints'[x].member.present =>
           mints[x].member.present /\ mints'[x].member = mints[x].member,
         \A x \in GroupMints : incarnation'[x] >= incarnation[x],
         \A g \in GroupMints : Groups!MembersOf(g)' \subseteq Groups!MembersOf(g),
         \A x \in GroupMints : mints'[x].group.present =>
           /\ mints'[x].group.size <= mints'[x].group.max_size
           /\ \/ mints[x].group.present /\ mints'[x].group.size = mints[x].group.size
              \/ Groups!MembersOf(x) = {},
         \A x \in GroupMints : mints'[x].initialized =>
           /\ incarnation'[x] >= 1
           /\ ~mints'[x].group.present => Groups!MembersOf(x)' = {},
         \A x \in GroupMints : ~mints'[x].initialized =>
           ~mints'[x].group.present /\ ~mints'[x].member.present
  PROVE  GroupsInv'
<1>1. ASSUME NEW g \in GroupMints, NEW x \in Groups!MembersOf(g)'
      PROVE  x \in GroupMints /\ x \in Groups!MembersOf(g) /\ mints'[x].member = mints[x].member
  <2>1. x \in GroupMints /\ mints'[x].member.present
    BY <1>1 DEF Groups!MembersOf
  <2> QED
    BY <1>1, <2>1
<1>2. ASSUME NEW g \in GroupMints
      PROVE  /\ \A m1, m2 \in Groups!MembersOf(g)' :
                  m1 # m2 =>
                    mints'[m1].member.member_number # mints'[m2].member.member_number
             /\ mints'[g].group.present =>
                  /\ \A m \in Groups!MembersOf(g)' :
                       mints'[m].member.member_number <= mints'[g].group.size
                  /\ mints'[g].group.size <= mints'[g].group.max_size
  <2>1. \A m1, m2 \in Groups!MembersOf(g) :
          m1 # m2 => mints[m1].member.member_number # mints[m2].member.member_number
    BY DEF GroupsInv, Groups!MembersNumbered
  <2>2. mints[g].group.present =>
          \A m \in Groups!MembersOf(g) : mints[m].member.member_number <= mints[g].group.size
    BY DEF GroupsInv, Groups!MembersNumbered
  <2> QED
    BY <1>1, <2>1, <2>2
<1>3. ASSUME NEW m \in GroupMints, mints'[m].member.present
      PROVE  mints'[m].member.under <= incarnation'[mints'[m].member.group]
  <2>1. mints[m].member.present /\ mints'[m].member = mints[m].member
    BY <1>3
  <2> DEFINE g == mints[m].member.group
  <2>2. g \in GroupMints /\ mints[m].member.under \in Nat
    BY <2>1, GroupPresent
  <2>3. mints[m].member.under <= incarnation[g]
    BY <2>1 DEF GroupsInv, Standing
  <2>4. incarnation[g] \in Nat /\ incarnation'[g] \in Nat /\ incarnation'[g] >= incarnation[g]
    <3>1. incarnation' \in [GroupMints -> 0 .. MaxGroups]
      BY DEF Groups!TypeOK
    <3>2. incarnation'[g] \in Nat
      BY <2>2, <3>1, GroupConstants DEF GroupNumbers
    <3> QED
      BY <2>2, <3>2, GroupsRecords
  <2> HIDE DEF g
  <2>5. mints[m].member.under <= incarnation'[g]
    BY <2>2, <2>3, <2>4
  <2> QED
    BY <2>1, <2>5 DEF g
<1>4. Standing'
  BY <1>3 DEF Standing
<1>5. Groups!MembersNumbered'
  BY <1>2 DEF Groups!MembersNumbered
<1> QED
  BY <1>4, <1>5 DEF GroupsInv

\* Rewriting the entry of one mint, so that nobody joins.
LEMMA GroupsRewritten ==
  ASSUME GroupsInv, NEW m \in GroupMints, NEW s \in GroupsRecord,
         mints' = [mints EXCEPT ![m] = s], incarnation' = incarnation,
         s.member.present => mints[m].member.present /\ s.member = mints[m].member,
         s.group.present =>
           /\ s.group.size <= s.group.max_size
           /\ \/ mints[m].group.present /\ s.group.size = mints[m].group.size
              \/ Groups!MembersOf(m) = {},
         s.initialized => mints[m].initialized /\ (~s.group.present => ~mints[m].group.present),
         ~s.initialized => ~s.group.present /\ ~s.member.present
  PROVE  GroupsInv'
<1>1. /\ Groups!MintState = GroupsRecord /\ mints \in [GroupMints -> GroupsRecord]
      /\ incarnation \in [GroupMints -> 0 .. MaxGroups]
  BY GroupsRecords
<1>2. /\ mints' \in [GroupMints -> GroupsRecord] /\ mints'[m] = s
      /\ \A x \in GroupMints \ {m} : mints'[x] = mints[x]
  BY <1>1, OneEdit
<1>3. Groups!TypeOK'
  BY <1>1, <1>2 DEF Groups!TypeOK
<1>4. \A x \in GroupMints : mints'[x].member.present =>
        mints[x].member.present /\ mints'[x].member = mints[x].member
  BY <1>2
<1>5. \A g \in GroupMints : Groups!MembersOf(g)' \subseteq Groups!MembersOf(g)
  BY <1>4 DEF Groups!MembersOf
<1>6. \A x \in GroupMints : incarnation'[x] >= incarnation[x]
  BY <1>1, GroupsRecords
<1>7. \A x \in GroupMints : mints[x].group.present => mints[x].group.size <= mints[x].group.max_size
  BY GroupPresent
<1>8. \A x \in GroupMints : mints'[x].group.present =>
           /\ mints'[x].group.size <= mints'[x].group.max_size
           /\ \/ mints[x].group.present /\ mints'[x].group.size = mints[x].group.size
              \/ Groups!MembersOf(x) = {}
  BY <1>2, <1>7
<1>9. \A x \in GroupMints :
        /\ mints[x].initialized => incarnation[x] >= 1
        /\ mints[x].initialized /\ ~mints[x].group.present => Groups!MembersOf(x) = {}
        /\ ~mints[x].initialized => ~mints[x].group.present /\ ~mints[x].member.present
  BY DEF GroupsInv, Standing
<1>10. \A x \in GroupMints : mints'[x].initialized =>
           /\ incarnation'[x] >= 1
           /\ ~mints'[x].group.present => Groups!MembersOf(x)' = {}
  <2>1. \A x \in GroupMints : mints'[x].initialized =>
          mints[x].initialized /\ (~mints'[x].group.present => ~mints[x].group.present)
    BY <1>2
  <2>2. \A x \in GroupMints : Groups!MembersOf(x) = {} => Groups!MembersOf(x)' = {}
    BY <1>5
  <2> QED
    BY <1>9, <2>1, <2>2
<1>11. \A x \in GroupMints : ~mints'[x].initialized =>
         ~mints'[x].group.present /\ ~mints'[x].member.present
  BY <1>2, <1>9
<1> QED
  BY <1>3, <1>4, <1>5, <1>6, <1>8, <1>10, <1>11, NobodyJoins

LEMMA GroupPointer ==
  ASSUME GroupsInv, NEW m \in GroupMints, NEW kind \in {"Group", "Member"},
         Groups!InitializePointer(m, kind, None, m)
  PROVE  GroupsInv'
<1> DEFINE old == mints[m]
           p == [present |-> TRUE, authority |-> None, address |-> m]
           ps == [old.pointer EXCEPT ![kind] = p]
           s == [old EXCEPT !.pointer = ps]
<1>1. ~old.initialized /\ incarnation' = incarnation
  BY DEF Groups!InitializePointer
<1>2. mints' = [mints EXCEPT ![m] = s]
  BY DEF Groups!InitializePointer
<1>3. /\ old \in GroupsRecord
      /\ old.pointer \in [{"Group", "Member"} -> Groups!Pointers \cup {Groups!Missing}]
  BY GroupsRecords
<1>4. p \in Groups!Pointers
  BY DEF Groups!Pointers, Groups!MaybeKey, Groups!MaybeAddress
<1> HIDE DEF p
<1>5. ps \in [{"Group", "Member"} -> Groups!Pointers \cup {Groups!Missing}]
  BY <1>3, <1>4
<1> HIDE DEF ps
<1>6. /\ s \in GroupsRecord /\ s.initialized = old.initialized
      /\ s.group = old.group /\ s.member = old.member
  <2>1. old \in GroupsRecord
    BY <1>3
  <2> HIDE DEF old
  <2> QED
    BY <1>5, <2>1, PointerEdit DEF GroupsRecord
<1> HIDE DEF s
<1>7. ~s.group.present /\ ~s.member.present
  BY <1>1, <1>6 DEF GroupsInv, Standing
<1> QED
  BY <1>1, <1>2, <1>6, <1>7, GroupsRewritten

LEMMA GroupMintBegins ==
  ASSUME GroupsInv, NEW m \in GroupMints, NEW k \in GroupKeys, Groups!InitializeMint(m, k)
  PROVE  GroupsInv'
<1> DEFINE old == mints[m]
           s == [old EXCEPT !.initialized = TRUE, !.mint_authority = k]
<1>1. /\ ~old.initialized /\ incarnation[m] < MaxGroups
      /\ incarnation' = [incarnation EXCEPT ![m] = @ + 1]
      /\ mints' = [mints EXCEPT ![m].initialized = TRUE, ![m].mint_authority = k]
  BY DEF Groups!InitializeMint
<1>2. /\ Groups!MintState = GroupsRecord /\ mints \in [GroupMints -> GroupsRecord]
      /\ incarnation \in [GroupMints -> 0 .. MaxGroups] /\ old \in GroupsRecord
      /\ incarnation[m] \in Nat /\ MaxGroups \in Nat
  BY GroupsRecords, GroupConstants DEF GroupNumbers
<1>3. mints' = [mints EXCEPT ![m] = s]
  BY <1>1, <1>2 DEF GroupsRecord, MintRecords
<1>4. /\ s \in GroupsRecord /\ s.initialized
      /\ s.group = old.group /\ s.member = old.member
  BY <1>2 DEF GroupsRecord, MintRecords, Groups!MaybeKey
<1> HIDE DEF s
<1>5. ~s.group.present /\ ~s.member.present
  BY <1>1, <1>4 DEF GroupsInv, Standing
<1>6. /\ mints' \in [GroupMints -> GroupsRecord] /\ mints'[m] = s
      /\ \A x \in GroupMints \ {m} : mints'[x] = mints[x]
  BY <1>2, <1>3, <1>4, OneEdit
<1>7. /\ incarnation' \in [GroupMints -> 0 .. MaxGroups]
      /\ incarnation'[m] = incarnation[m] + 1
      /\ \A x \in GroupMints \ {m} : incarnation'[x] = incarnation[x]
  <2>1. incarnation[m] + 1 \in 0 .. MaxGroups
    BY <1>1, <1>2
  <2> QED
    BY <1>1, <1>2, <2>1, OneEdit
<1>8. Groups!TypeOK'
  BY <1>2, <1>6, <1>7 DEF Groups!TypeOK
<1>9. \A x \in GroupMints : mints'[x].member.present =>
        mints[x].member.present /\ mints'[x].member = mints[x].member
  BY <1>5, <1>6
<1>10. Groups!MembersOf(m)' = {}
  <2>1. ASSUME NEW x \in GroupMints, mints'[x].member.present, mints'[x].member.group = m,
               mints'[x].member.under = incarnation'[m]
        PROVE  FALSE
    <3>1. mints[x].member.present /\ mints[x].member.group = m
          /\ mints[x].member.under = incarnation[m] + 1
      BY <1>7, <1>9, <2>1
    <3>2. mints[x].member.under <= incarnation[m]
      BY <3>1 DEF GroupsInv, Standing
    <3> QED
      BY <1>2, <3>1, <3>2
  <2> QED
    BY <2>1 DEF Groups!MembersOf
<1>11. \A g \in GroupMints : Groups!MembersOf(g)' \subseteq Groups!MembersOf(g)
  <2>1. ASSUME NEW g \in GroupMints, g # m
        PROVE  Groups!MembersOf(g)' \subseteq Groups!MembersOf(g)
    BY <1>7, <1>9, <2>1 DEF Groups!MembersOf
  <2> QED
    BY <1>10, <2>1
<1>12. \A x \in GroupMints : incarnation'[x] >= incarnation[x]
  BY <1>2, <1>7, GroupsRecords
<1>13. \A x \in GroupMints : mints'[x].group.present =>
           /\ mints'[x].group.size <= mints'[x].group.max_size
           /\ \/ mints[x].group.present /\ mints'[x].group.size = mints[x].group.size
              \/ Groups!MembersOf(x) = {}
  BY <1>5, <1>6, GroupPresent
<1>14. \A x \in GroupMints :
        /\ mints[x].initialized => incarnation[x] >= 1
        /\ mints[x].initialized /\ ~mints[x].group.present => Groups!MembersOf(x) = {}
        /\ ~mints[x].initialized => ~mints[x].group.present /\ ~mints[x].member.present
  BY DEF GroupsInv, Standing
<1>15. \A x \in GroupMints : mints'[x].initialized =>
           /\ incarnation'[x] >= 1
           /\ ~mints'[x].group.present => Groups!MembersOf(x)' = {}
  <2>1. ASSUME NEW x \in GroupMints, x # m, mints'[x].initialized
        PROVE  /\ incarnation'[x] >= 1
               /\ ~mints'[x].group.present => Groups!MembersOf(x)' = {}
    BY <1>6, <1>7, <1>11, <1>14, <2>1
  <2>2. incarnation'[m] >= 1
    BY <1>2, <1>7
  <2> QED
    BY <1>10, <2>1, <2>2
<1>16. \A x \in GroupMints : ~mints'[x].initialized =>
         ~mints'[x].group.present /\ ~mints'[x].member.present
  BY <1>5, <1>6, <1>14
<1> QED
  BY <1>8, <1>9, <1>11, <1>12, <1>13, <1>15, <1>16, NobodyJoins

LEMMA GroupMintCloses ==
  ASSUME GroupsInv, NEW m \in GroupMints, Groups!CloseMint(m)
  PROVE  GroupsInv'
<1>1. mints' = [mints EXCEPT ![m] = Groups!Blank] /\ incarnation' = incarnation
  BY DEF Groups!CloseMint
<1>2. Groups!Blank \in GroupsRecord
  BY DEF Groups!Blank, GroupsRecord, MintRecords, Groups!MaybeKey
<1>3. /\ ~Groups!Blank.initialized /\ ~Groups!Blank.group.present
      /\ ~Groups!Blank.member.present
  BY DEF Groups!Blank, Groups!Missing
<1> QED
  BY <1>1, <1>2, <1>3, GroupsRewritten

\* The group of an initialized mint is rewritten.
LEMMA GroupReplaced ==
  ASSUME GroupsInv, NEW m \in GroupMints, NEW g \in Groups!Groups,
         mints' = [mints EXCEPT ![m].group = g], incarnation' = incarnation,
         mints[m].initialized, g.size <= g.max_size,
         mints[m].group.present => g.size = mints[m].group.size
  PROVE  GroupsInv'
<1> DEFINE old == mints[m]
           s == [old EXCEPT !.group = g]
<1>1. mints' = [mints EXCEPT ![m] = s]
  OBVIOUS
<1>2. old \in GroupsRecord
  BY GroupsRecords
<1>3. /\ s \in GroupsRecord /\ s.initialized = old.initialized
      /\ s.group = g /\ s.member = old.member
  <2> HIDE DEF old
  <2> QED
    BY <1>2, GroupEdit DEF GroupsRecord
<1> HIDE DEF s
<1>4. g.present
  BY DEF Groups!Groups
<1>5. ~old.group.present => Groups!MembersOf(m) = {}
  BY DEF GroupsInv, Standing
<1> QED
  BY <1>1, <1>3, <1>4, <1>5, GroupsRewritten

\* A member joins under the next number.
LEMMA GroupMemberJoins ==
  ASSUME GroupsInv, NEW m \in GroupMints, NEW k \in GroupKeys, NEW g \in GroupMints,
         NEW gk \in GroupKeys, Groups!InitializeMember(m, g, k, gk)
  PROVE  GroupsInv'
<1> DEFINE host == mints[g]
           n == host.group.size + 1
           gr == [host.group EXCEPT !.size = n]
           s == [host EXCEPT !.group = gr]
           e == [present |-> TRUE, group |-> g, member_number |-> n, under |-> incarnation[g]]
           f == [mints EXCEPT ![g] = s]
           old == mints[m]
           t == [old EXCEPT !.member = e]
<1>1. /\ host.group.present /\ old.initialized /\ ~old.member.present
      /\ m # g /\ n <= host.group.max_size
      /\ incarnation' = incarnation
  BY DEF Groups!InitializeMember, Groups!increment_size
<1>2. mints' = [mints EXCEPT ![g].group.size = n, ![m].member = e]
  BY DEF Groups!InitializeMember, Groups!increment_size
<1>3. /\ host \in GroupsRecord /\ old \in GroupsRecord
      /\ Groups!MintState = GroupsRecord
      /\ incarnation \in [GroupMints -> 0 .. MaxGroups]
      /\ incarnation[g] \in Nat
      /\ mints \in [GroupMints -> GroupsRecord]
  BY GroupsRecords
<1>4. /\ host.group \in Groups!Groups /\ host.group.size \in Nat
      /\ host.group.max_size \in 0 .. MaxGroupSize
      /\ MaxGroupSize \in Nat /\ MaxGroups \in Nat
  BY <1>1, GroupPresent, GroupConstants DEF GroupNumbers
<1>5. n \in 1 .. MaxGroupSize /\ n \in 0 .. MaxGroupSize
  BY <1>1, <1>4
<1>6. host.initialized /\ incarnation[g] >= 1
  BY <1>1 DEF GroupsInv, Standing
<1>7. /\ gr \in Groups!Groups /\ gr.present /\ gr.size = n
      /\ gr.max_size = host.group.max_size
  BY <1>4, <1>5 DEF Groups!Groups
<1>8. e \in Groups!Memberships
  <2>1. incarnation[g] \in 1 .. MaxGroups
    BY <1>3, <1>4, <1>6
  <2> QED
    BY <1>5, <2>1 DEF Groups!Memberships
<1>9. e.present /\ e.group = g /\ e.member_number = n /\ e.under = incarnation[g]
  OBVIOUS
<1>10. f[m] = old
  BY <1>1, <1>3
<1>11. mints' = [f EXCEPT ![m] = t]
  BY <1>2, <1>10
<1> HIDE DEF gr, e
<1>12. /\ s \in GroupsRecord /\ s.initialized = host.initialized
       /\ s.group = gr /\ s.member = host.member
  <2>1. host \in GroupsRecord /\ gr \in Groups!Groups \cup {Groups!Missing}
    BY <1>3, <1>7
  <2> HIDE DEF host
  <2> QED
    BY <2>1, GroupEdit DEF GroupsRecord
<1>13. /\ t \in GroupsRecord /\ t.initialized = old.initialized
       /\ t.group = old.group /\ t.member = e
  <2> HIDE DEF old
  <2> QED
    BY <1>3, <1>8, MemberEdit DEF GroupsRecord
<1> HIDE DEF s, t
<1>14. /\ f \in [GroupMints -> GroupsRecord] /\ f[g] = s
       /\ \A x \in GroupMints \ {g} : f[x] = mints[x]
  BY <1>3, <1>12
<1> HIDE DEF f
<1>15. /\ mints' \in [GroupMints -> GroupsRecord] /\ mints'[m] = t
       /\ \A x \in GroupMints \ {m} : mints'[x] = f[x]
  BY <1>11, <1>13, <1>14, OneEdit
<1>16. mints'[g] = s
  BY <1>1, <1>14, <1>15
<1>17. \A x \in GroupMints \ {m, g} : mints'[x] = mints[x]
  BY <1>14, <1>15
<1>18. /\ \A x \in GroupMints \ {m} : mints'[x].member = mints[x].member
       /\ mints'[m].member = e
       /\ \A x \in GroupMints \ {g} : mints'[x].group = mints[x].group
       /\ mints'[g].group = gr
       /\ \A x \in GroupMints : mints'[x].initialized = mints[x].initialized
  BY <1>12, <1>13, <1>15, <1>16, <1>17
<1>19. /\ \A h \in GroupMints \ {g} : Groups!MembersOf(h)' = Groups!MembersOf(h)
       /\ Groups!MembersOf(g)' = Groups!MembersOf(g) \cup {m}
       /\ m \notin Groups!MembersOf(g)
  <2>1. ASSUME NEW h \in GroupMints, NEW x \in GroupMints, x # m
        PROVE  x \in Groups!MembersOf(h)' <=> x \in Groups!MembersOf(h)
    BY <1>1, <1>18, <2>1 DEF Groups!MembersOf
  <2>2. \A h \in GroupMints : m \notin Groups!MembersOf(h)
    BY <1>1 DEF Groups!MembersOf
  <2>3. \A h \in GroupMints \ {g} : m \notin Groups!MembersOf(h)'
    BY <1>9, <1>18 DEF Groups!MembersOf
  <2>4. m \in Groups!MembersOf(g)'
    BY <1>1, <1>9, <1>18 DEF Groups!MembersOf
  <2>5. \A h \in GroupMints : Groups!MembersOf(h)' \subseteq GroupMints
                                /\ Groups!MembersOf(h) \subseteq GroupMints
    BY DEF Groups!MembersOf
  <2>6. ASSUME NEW h \in GroupMints \ {g}
        PROVE  Groups!MembersOf(h)' = Groups!MembersOf(h)
    BY <2>1, <2>2, <2>3, <2>5
  <2>7. Groups!MembersOf(g)' = Groups!MembersOf(g) \cup {m}
    BY <2>1, <2>4, <2>5
  <2> QED
    BY <2>2, <2>6, <2>7
<1>20. \A h \in GroupMints :
         /\ \A m1, m2 \in Groups!MembersOf(h) :
              m1 # m2 => mints[m1].member.member_number # mints[m2].member.member_number
         /\ mints[h].group.present =>
              /\ \A x \in Groups!MembersOf(h) :
                   mints[x].member.member_number <= mints[h].group.size
              /\ mints[h].group.size <= mints[h].group.max_size
  BY DEF GroupsInv, Groups!MembersNumbered
<1>21. \A h \in GroupMints : \A x \in Groups!MembersOf(h) :
         x \in GroupMints /\ mints[x].member.present /\ mints[x].member.member_number \in Nat
  BY GroupPresent DEF Groups!MembersOf
<1>22. \A x \in Groups!MembersOf(g) :
         /\ mints'[x].member = mints[x].member
         /\ mints'[x].member.member_number <= host.group.size
         /\ mints'[x].member.member_number < n
         /\ mints'[x].member.member_number # n
  <2>1. ASSUME NEW x \in Groups!MembersOf(g)
        PROVE  /\ mints'[x].member = mints[x].member
               /\ mints[x].member.member_number <= host.group.size
               /\ mints[x].member.member_number \in Nat
    BY <1>1, <1>18, <1>19, <1>20, <1>21
  <2> QED
    BY <1>4, <2>1
<1>23. ASSUME NEW h \in GroupMints, h # g
       PROVE  /\ \A m1, m2 \in Groups!MembersOf(h)' :
                   m1 # m2 =>
                     mints'[m1].member.member_number # mints'[m2].member.member_number
              /\ mints'[h].group.present =>
                   /\ \A x \in Groups!MembersOf(h)' :
                        mints'[x].member.member_number <= mints'[h].group.size
                   /\ mints'[h].group.size <= mints'[h].group.max_size
  <2>1. Groups!MembersOf(h)' = Groups!MembersOf(h) /\ mints'[h].group = mints[h].group
    BY <1>18, <1>19, <1>23
  <2>2. \A x \in Groups!MembersOf(h) : x # m /\ x \in GroupMints
    BY <1>1, <1>21
  <2>3. \A x \in Groups!MembersOf(h) : mints'[x].member = mints[x].member
    BY <1>18, <2>2
  <2> QED
    BY <1>20, <2>1, <2>3
<1>24. /\ \A m1, m2 \in Groups!MembersOf(g)' :
            m1 # m2 =>
              mints'[m1].member.member_number # mints'[m2].member.member_number
       /\ \A x \in Groups!MembersOf(g)' :
            mints'[x].member.member_number <= mints'[g].group.size
       /\ mints'[g].group.size <= mints'[g].group.max_size
  <2>1. mints'[m].member.member_number = n /\ mints'[g].group.size = n
        /\ mints'[g].group.max_size = host.group.max_size
    BY <1>7, <1>9, <1>18
  <2>2. \A x \in Groups!MembersOf(g)' : x = m \/ x \in Groups!MembersOf(g)
    BY <1>19
  <2>3. \A m1, m2 \in Groups!MembersOf(g) :
          m1 # m2 => mints'[m1].member.member_number # mints'[m2].member.member_number
    BY <1>20, <1>22
  <2>4. ASSUME NEW m1 \in Groups!MembersOf(g)', NEW m2 \in Groups!MembersOf(g)', m1 # m2
        PROVE  mints'[m1].member.member_number # mints'[m2].member.member_number
    BY <1>22, <2>1, <2>2, <2>3, <2>4
  <2>5. ASSUME NEW x \in Groups!MembersOf(g)'
        PROVE  mints'[x].member.member_number <= mints'[g].group.size
    <3>1. CASE x = m
      BY <1>5, <2>1, <3>1
    <3>2. CASE x \in Groups!MembersOf(g)
      <4>1. mints'[x].member.member_number < n /\ mints'[x].member.member_number \in Nat
        BY <1>21, <1>22, <3>2
      <4> QED
        BY <1>5, <2>1, <4>1
    <3> QED
      BY <2>2, <3>1, <3>2
  <2> QED
    BY <1>1, <2>1, <2>4, <2>5
<1>25. Groups!TypeOK'
  BY <1>1, <1>3, <1>15 DEF Groups!TypeOK
<1>26. Groups!MembersNumbered'
  BY <1>23, <1>24, <1>25 DEF Groups!MembersNumbered
<1>27. \A x \in GroupMints :
        /\ mints[x].initialized => incarnation[x] >= 1
        /\ mints[x].initialized /\ ~mints[x].group.present => Groups!MembersOf(x) = {}
        /\ ~mints[x].initialized => ~mints[x].group.present /\ ~mints[x].member.present
        /\ mints[x].member.present =>
             mints[x].member.under <= incarnation[mints[x].member.group]
  BY DEF GroupsInv, Standing
<1>28. ASSUME NEW x \in GroupMints
       PROVE  /\ mints'[x].initialized => incarnation'[x] >= 1
              /\ ~mints'[x].initialized => ~mints'[x].group.present /\ ~mints'[x].member.present
              /\ mints'[x].member.present =>
                   mints'[x].member.under <= incarnation'[mints'[x].member.group]
              /\ mints'[x].initialized /\ ~mints'[x].group.present =>
                   Groups!MembersOf(x)' = {}
  <2>1. CASE x = m
    <3>1. mints'[x].member.under <= incarnation'[mints'[x].member.group]
      <4>1. mints'[x].member.under = incarnation[g]
            /\ incarnation'[mints'[x].member.group] = incarnation[g]
        BY <1>1, <1>9, <1>18, <2>1
      <4> QED
        BY <1>3, <4>1
    <3>2. x # g /\ mints'[x].group = mints[x].group /\ mints[x].initialized
          /\ Groups!MembersOf(x)' = Groups!MembersOf(x)
      BY <1>1, <1>18, <1>19, <2>1
    <3> QED
      BY <1>1, <1>18, <1>27, <3>1, <3>2
  <2>2. CASE x = g
    <3>1. mints'[x].group.present /\ mints'[x].initialized /\ mints'[x].member = mints[x].member
      BY <1>1, <1>6, <1>7, <1>18, <2>2
    <3> QED
      BY <1>1, <1>6, <1>27, <2>2, <3>1
  <2>3. CASE x # m /\ x # g
    <3>1. mints'[x] = mints[x] /\ Groups!MembersOf(x)' = Groups!MembersOf(x)
      BY <1>17, <1>19, <2>3
    <3> QED
      BY <1>1, <1>27, <3>1
  <2> QED
    BY <2>1, <2>2, <2>3
<1>29. Standing'
  BY <1>28 DEF Standing
<1> QED
  BY <1>26, <1>29 DEF GroupsInv

LEMMA GroupsStep == GroupsInv /\ [Next]_vars => GroupsInv'
<1> SUFFICES ASSUME GroupsInv, [Next]_vars PROVE GroupsInv'
  OBVIOUS
<1>1. ASSUME NEW m \in GroupMints, NEW k \in GroupKeys, NEW kind \in {"Group", "Member"},
             Groups!InitializePointer(m, kind, None, m)
      PROVE  GroupsInv'
  BY <1>1, GroupPointer
<1>2. ASSUME NEW m \in GroupMints, NEW k \in GroupKeys, Groups!InitializeMint(m, k)
      PROVE  GroupsInv'
  BY <1>2, GroupMintBegins
<1>3. ASSUME NEW m \in GroupMints, Groups!CloseMint(m)
      PROVE  GroupsInv'
  BY <1>3, GroupMintCloses
<1>4. ASSUME NEW m \in GroupMints, NEW k \in GroupKeys, Groups!GroupSteps(m, k)
      PROVE  GroupsInv'
  <2> DEFINE old == mints[m]
  <2>1. ~old.initialized => ~old.group.present
    BY DEF GroupsInv, Standing
  <2>2. old.group.present =>
          /\ old.group \in Groups!Groups
          /\ old.group.size \in Nat /\ old.group.max_size \in 0 .. MaxGroupSize
          /\ old.group.size <= old.group.max_size
    BY GroupPresent
  <2>3. ASSUME NEW authority \in Groups!MaybeKey, NEW size \in 0 .. MaxGroupSize,
               Groups!InitializeGroup(m, authority, size, k)
        PROVE  GroupsInv'
    <3> DEFINE g == [present |-> TRUE, update_authority |-> authority, size |-> 0,
                     max_size |-> size]
    <3>1. /\ old.initialized /\ ~old.group.present /\ incarnation' = incarnation
          /\ mints' = [mints EXCEPT ![m].group = g]
      BY <2>3 DEF Groups!InitializeGroup
    <3>2. g \in Groups!Groups /\ g.size <= g.max_size
      BY GroupConstants DEF GroupNumbers, Groups!Groups
    <3> HIDE DEF g
    <3> QED
      BY <3>1, <3>2, GroupReplaced
  <2>4. ASSUME NEW size \in 0 .. MaxGroupSize, Groups!UpdateGroupMaxSize(m, size, k)
        PROVE  GroupsInv'
    <3> DEFINE g == [old.group EXCEPT !.max_size = size]
    <3>1. old.group.present /\ old.group.size <= size /\ incarnation' = incarnation
      BY <2>4 DEF Groups!UpdateGroupMaxSize
    <3>2. mints' = [mints EXCEPT ![m].group = g]
      BY <2>4 DEF Groups!UpdateGroupMaxSize
    <3>3. g \in Groups!Groups /\ g.size <= g.max_size /\ g.size = old.group.size
      BY <2>2, <3>1 DEF Groups!Groups
    <3> HIDE DEF g
    <3> QED
      BY <2>1, <3>1, <3>2, <3>3, GroupReplaced
  <2>5. ASSUME NEW new \in Groups!MaybeKey, Groups!UpdateGroupAuthority(m, new, k)
        PROVE  GroupsInv'
    <3> DEFINE g == [old.group EXCEPT !.update_authority = new]
    <3>1. old.group.present /\ incarnation' = incarnation
      BY <2>5 DEF Groups!UpdateGroupAuthority
    <3>2. mints' = [mints EXCEPT ![m].group = g]
      BY <2>5 DEF Groups!UpdateGroupAuthority
    <3>3. g \in Groups!Groups /\ g.size <= g.max_size /\ g.size = old.group.size
      BY <2>2, <3>1 DEF Groups!Groups
    <3> HIDE DEF g
    <3> QED
      BY <2>1, <3>1, <3>2, <3>3, GroupReplaced
  <2> QED
    BY <1>4, <2>3, <2>4, <2>5, GroupMemberJoins DEF Groups!GroupSteps
<1>5. CASE GroupsMove
  BY <1>1, <1>2, <1>3, <1>4, <1>5 DEF GroupsMove
<1>6. CASE UNCHANGED groups_vars
  BY <1>6 DEF groups_vars, GroupsInv, Groups!MembersNumbered, Groups!TypeOK, Standing,
              Groups!MembersOf
<1> QED
  BY <1>5, <1>6, PartSteps

LEMMA InitGroupsInv == Init => GroupsInv
<1> SUFFICES ASSUME Init PROVE GroupsInv
  OBVIOUS
<1>1. /\ mints = [m \in GroupMints |-> Groups!Blank]
      /\ incarnation = [m \in GroupMints |-> 0]
  BY DEF Init, Groups!Init
<1>2. Groups!Blank \in GroupsRecord /\ Groups!MintState = GroupsRecord
  BY DEF Groups!Blank, Groups!MintState, GroupsRecord, MintRecords, Groups!MaybeKey
<1>3. \A m \in GroupMints :
        /\ mints[m] = Groups!Blank /\ ~mints[m].initialized
        /\ ~mints[m].group.present /\ ~mints[m].member.present
  BY <1>1 DEF Groups!Blank, Groups!Missing
<1>4. 0 \in 0 .. MaxGroups
  BY GroupConstants DEF GroupNumbers
<1>5. Groups!TypeOK
  BY <1>1, <1>2, <1>4 DEF Groups!TypeOK
<1>6. \A g \in GroupMints : Groups!MembersOf(g) = {}
  BY <1>3 DEF Groups!MembersOf
<1>7. Groups!MembersNumbered
  BY <1>3, <1>5, <1>6 DEF Groups!MembersNumbered
<1>8. Standing
  BY <1>3, <1>6 DEF Standing
<1> QED
  BY <1>7, <1>8 DEF GroupsInv

\* Members of a group are numbered apart and within its size, and its size within its
\* limit, with any number of mints however often closed and made again.
THEOREM MembersStayNumbered == Spec => []MembersNumbered
<1>1. GroupsInv => MembersNumbered
  BY DEF GroupsInv, MembersNumbered
<1> QED
  BY <1>1, InitGroupsInv, GroupsStep, PTL DEF Spec

-----------------------------------------------------------------------------
(***************************************************************************)
(* The hook.                                                               *)
(***************************************************************************)
LEMMA HooksTotal ==
  ASSUME NEW f, NEW S
  PROVE  Hook!Total(f, S) = Total(f, S) /\ Hook!IsFiniteSet(S) = IsFiniteSet(S)
<1>1. Hook!Cardinality(Units(f, S)) = Cardinality(Units(f, S))
  BY Zenon DEF Hook!Cardinality, Cardinality
<1>2. Hook!Units(f, S) = Units(f, S)
  BY DEF Hook!Units, Units
<1>3. Hook!Total(f, S) = Total(f, S)
  BY <1>1, <1>2 DEF Hook!Total, Total
<1>4. Hook!IsFiniteSet(S) = IsFiniteSet(S)
  BY DEF Hook!IsFiniteSet, IsFiniteSet
<1> QED
  BY <1>3, <1>4

HookNumbers ==
  /\ IsFiniteSet(TokenAccounts)
  /\ MaxSupply \in Nat /\ MaxVersions \in Nat /\ MaxHookMints \in Nat
  /\ None \notin HookAuthorities /\ None \notin Programs /\ TokenProgram # None
  /\ TokenProgram \notin Programs

LEMMA HookConstants == HookNumbers
BY PartsAssumption, HooksTotal DEF Hook!HookAssumption, HookNumbers

Supplied(accs) == Total([a \in TokenAccounts |-> accs[a].amount], TokenAccounts)

LEMMA SupplyIs == Hook!Supply = Supplied(accounts)
BY HooksTotal DEF Hook!Supply, Supplied

\* What the state of an account says about the mint: only accounts left over from an
\* earlier mint at the address can lack the mark.
AccountSound(acc, mt) ==
  /\ ~acc.live => acc.amount = 0
  /\ ~mt.initialized => acc.amount = 0
  /\ acc.born <= mt.incarnation
  /\ mt.initialized /\ acc.live /\ acc.born = mt.incarnation => acc.marked = mt.hook

Sound(accs, mt) ==
  /\ accs \in [TokenAccounts -> Hook!AccountState]
  /\ Supplied(accs) <= MaxSupply
  /\ \A a \in TokenAccounts : AccountSound(accs[a], mt)

\* An account's state with any amount.
AnyAccount == [live : BOOLEAN, amount : Nat, marked : BOOLEAN, transferring : BOOLEAN,
               born : 0 .. MaxHookMints]

Put(accs, a, r) == [accs EXCEPT ![a] = r]

LEMMA SoundUpdate ==
  ASSUME NEW accs, NEW mt, Sound(accs, mt), NEW a \in TokenAccounts, NEW r \in AnyAccount,
         AccountSound(r, mt), Supplied(accs) - accs[a].amount + r.amount <= MaxSupply
  PROVE  /\ Sound(Put(accs, a, r), mt)
         /\ Supplied(Put(accs, a, r)) = Supplied(accs) - accs[a].amount + r.amount
         /\ Put(accs, a, r)[a] = r
         /\ \A x \in TokenAccounts \ {a} : Put(accs, a, r)[x] = accs[x]
<1> DEFINE new == Put(accs, a, r)
           f == [x \in TokenAccounts |-> accs[x].amount]
           g == [x \in TokenAccounts |-> new[x].amount]
<1>1. IsFiniteSet(TokenAccounts) /\ MaxSupply \in Nat
  BY HookConstants DEF HookNumbers
<1>2. accs \in [TokenAccounts -> Hook!AccountState]
  BY DEF Sound
<1>3. \A x \in TokenAccounts : accs[x].amount \in Nat
  <2>1. \A s \in Hook!AccountState : s.amount \in Nat
    <3>1. ASSUME NEW s \in Hook!AccountState PROVE s.amount \in 0 .. MaxSupply
      BY DEF Hook!AccountState
    <3> QED
      BY <1>1, <3>1
  <2> QED
    BY <1>2, <2>1
<1>4. /\ new[a] = r /\ \A x \in TokenAccounts \ {a} : new[x] = accs[x]
      /\ DOMAIN new = TokenAccounts /\ new = [x \in TokenAccounts |-> new[x]]
  BY <1>2 DEF Put
<1> HIDE DEF new
<1>5. r.amount \in Nat
  BY DEF AnyAccount
<1>6. /\ \A x \in TokenAccounts : f[x] \in Nat /\ g[x] \in Nat
      /\ \A x \in TokenAccounts \ {a} : g[x] = f[x]
      /\ f[a] = accs[a].amount /\ g[a] = r.amount
  BY <1>3, <1>4, <1>5
<1> HIDE DEF f, g
<1>7. Total(g, TokenAccounts) = Total(f, TokenAccounts) - f[a] + g[a]
  BY <1>1, <1>6, TotalUpdate
<1>8. Supplied(new) = Supplied(accs) - accs[a].amount + r.amount
  BY <1>6, <1>7 DEF Supplied, f, g
<1>9. Supplied(new) <= MaxSupply
  BY <1>8
<1>10. r.amount <= MaxSupply
  <2>1. g[a] <= Total(g, TokenAccounts) /\ Total(g, TokenAccounts) \in Nat
    BY <1>1, <1>6, TotalBound, TotalType
  <2>2. Total(g, TokenAccounts) <= MaxSupply
    BY <1>9 DEF Supplied, g
  <2> QED
    BY <1>1, <1>5, <1>6, <2>1, <2>2
<1>11. r \in Hook!AccountState
  <2>1. r.amount \in 0 .. MaxSupply
    BY <1>1, <1>5, <1>10
  <2> QED
    BY <2>1 DEF AnyAccount, Hook!AccountState
<1>12. new \in [TokenAccounts -> Hook!AccountState]
  BY <1>2, <1>4, <1>11
<1>13. Sound(new, mt)
  BY <1>4, <1>9, <1>12 DEF Sound
<1> QED
  BY <1>4, <1>8, <1>13 DEF new

LEMMA SoundTypes ==
  ASSUME NEW accs, NEW mt, Sound(accs, mt), NEW a \in TokenAccounts
  PROVE  /\ accs[a] \in AnyAccount /\ accs[a].amount \in Nat /\ Supplied(accs) \in Nat
         /\ accs[a].born \in Nat
         /\ accs[a].amount <= Supplied(accs) /\ Supplied(accs) <= MaxSupply
         /\ MaxSupply \in Nat
<1>1. IsFiniteSet(TokenAccounts) /\ MaxSupply \in Nat /\ MaxHookMints \in Nat
  BY HookConstants DEF HookNumbers
<1>2. \A x \in TokenAccounts : accs[x].amount \in Nat /\ accs[x] \in AnyAccount
                                 /\ accs[x].born \in Nat
  <2>1. ASSUME NEW s \in Hook!AccountState
        PROVE  s.amount \in Nat /\ s \in AnyAccount /\ s.born \in Nat
    <3>1. s.amount \in 0 .. MaxSupply /\ s.born \in 0 .. MaxHookMints
      BY DEF Hook!AccountState
    <3>2. s.amount \in Nat /\ s.born \in Nat
      BY <1>1, <3>1
    <3> QED
      BY <3>2 DEF Hook!AccountState, AnyAccount
  <2> QED
    BY <2>1 DEF Sound
<1> DEFINE f == [x \in TokenAccounts |-> accs[x].amount]
<1>3. \A x \in TokenAccounts : f[x] \in Nat
  BY <1>2
<1>4. f[a] = accs[a].amount
  OBVIOUS
<1> HIDE DEF f
<1>5. f[a] <= Total(f, TokenAccounts) /\ Total(f, TokenAccounts) \in Nat
  BY <1>1, <1>3, TotalBound, TotalType
<1>6. Supplied(accs) = Total(f, TokenAccounts)
  BY DEF Supplied, f
<1> QED
  BY <1>1, <1>2, <1>4, <1>5, <1>6 DEF Sound

\* Setting or clearing a flag.
Flagged(accs, a, b) == [accs EXCEPT ![a].transferring = b]

LEMMA SoundFlag ==
  ASSUME NEW accs, NEW mt, Sound(accs, mt), NEW a \in TokenAccounts, NEW b \in BOOLEAN
  PROVE  LET new == Flagged(accs, a, b)
         IN  /\ Sound(new, mt)
             /\ new[a].transferring = b
             /\ \A x \in TokenAccounts : new[x].amount = accs[x].amount
             /\ \A x \in TokenAccounts \ {a} : new[x] = accs[x]
<1> DEFINE new == Flagged(accs, a, b)
           r == [accs[a] EXCEPT !.transferring = b]
<1>1. /\ accs[a] \in AnyAccount /\ accs[a].amount \in Nat /\ Supplied(accs) \in Nat
      /\ Supplied(accs) <= MaxSupply
  BY SoundTypes
<1>2. /\ r \in AnyAccount /\ r.transferring = b /\ r.amount = accs[a].amount
      /\ r.marked = accs[a].marked /\ r.live = accs[a].live /\ r.born = accs[a].born
  BY <1>1 DEF AnyAccount
<1>3. new = Put(accs, a, r)
  BY DEF Put, Flagged
<1> HIDE DEF r, new
<1>4. AccountSound(r, mt)
  BY <1>2 DEF Sound, AccountSound
<1>5. Supplied(accs) - accs[a].amount + r.amount <= MaxSupply
  BY <1>1, <1>2
<1>6. /\ Sound(new, mt) /\ new[a] = r
      /\ \A x \in TokenAccounts \ {a} : new[x] = accs[x]
  <2>1. r \in AnyAccount
    BY <1>2
  <2>2. /\ Sound(Put(accs, a, r), mt) /\ Put(accs, a, r)[a] = r
        /\ \A x \in TokenAccounts \ {a} : Put(accs, a, r)[x] = accs[x]
    BY <1>4, <1>5, <2>1, SoundUpdate
  <2> QED
    BY <1>3, <2>2
<1>7. \A x \in TokenAccounts : new[x].amount = accs[x].amount
  BY <1>2, <1>6
<1> QED
  BY <1>2, <1>6, <1>7 DEF new

\* Tokens change hands.
Paid(accs, src, dst) ==
  [accs EXCEPT ![src].amount = accs[src].amount - 1, ![dst].amount = accs[dst].amount + 1]

LEMMA SoundMove ==
  ASSUME NEW accs, NEW mt, Sound(accs, mt), NEW src \in TokenAccounts,
         NEW dst \in TokenAccounts, src # dst, accs[src].live, accs[dst].live,
         accs[src].amount > 0
  PROVE  LET new == Paid(accs, src, dst)
         IN  /\ Sound(new, mt)
             /\ new[src].amount < accs[src].amount /\ new[dst].amount > accs[dst].amount
             /\ \A x \in TokenAccounts : new[x].transferring = accs[x].transferring
             /\ \A x \in TokenAccounts \ {src, dst} : new[x] = accs[x]
             /\ mt.initialized
<1> DEFINE new == Paid(accs, src, dst)
           r == [accs[src] EXCEPT !.amount = accs[src].amount - 1]
           s == [accs[dst] EXCEPT !.amount = accs[dst].amount + 1]
           half == Put(accs, src, r)
<1>1. /\ accs[src] \in AnyAccount /\ accs[src].amount \in Nat /\ Supplied(accs) \in Nat
      /\ accs[dst] \in AnyAccount /\ accs[dst].amount \in Nat
      /\ Supplied(accs) <= MaxSupply /\ MaxSupply \in Nat
      /\ accs \in [TokenAccounts -> Hook!AccountState]
  BY SoundTypes DEF Sound
<1>2. accs[src].amount - 1 \in Nat /\ accs[dst].amount + 1 \in Nat
  BY <1>1
<1>3. /\ r \in AnyAccount /\ r.transferring = accs[src].transferring
      /\ r.amount = accs[src].amount - 1
      /\ r.marked = accs[src].marked /\ r.live = accs[src].live /\ r.born = accs[src].born
  BY <1>1, <1>2 DEF AnyAccount
<1>4. /\ s \in AnyAccount /\ s.transferring = accs[dst].transferring
      /\ s.amount = accs[dst].amount + 1
      /\ s.marked = accs[dst].marked /\ s.live = accs[dst].live /\ s.born = accs[dst].born
  BY <1>1, <1>2 DEF AnyAccount
<1>5. new = Put(half, dst, s)
  BY <1>1 DEF Put, Paid
<1>6. /\ AccountSound(accs[src], mt) /\ AccountSound(accs[dst], mt)
  BY DEF Sound
<1>7. mt.initialized
  BY <1>1, <1>6 DEF AccountSound
<1> HIDE DEF r, s, half, new
<1>8. AccountSound(r, mt) /\ AccountSound(s, mt)
  BY <1>3, <1>4, <1>6, <1>7 DEF AccountSound
<1>9. Supplied(accs) - accs[src].amount + r.amount <= MaxSupply
  BY <1>1, <1>3
<1>10. /\ Sound(half, mt) /\ half[src] = r
       /\ Supplied(half) = Supplied(accs) - accs[src].amount + r.amount
       /\ \A x \in TokenAccounts \ {src} : half[x] = accs[x]
  BY <1>3, <1>8, <1>9, SoundUpdate DEF half
<1>11. Supplied(half) - half[dst].amount + s.amount <= MaxSupply
  <2>1. half[dst] = accs[dst]
    BY <1>10
  <2>2. Supplied(half) = Supplied(accs) - 1
    BY <1>1, <1>3, <1>10
  <2> QED
    BY <1>1, <1>4, <2>1, <2>2
<1>12. /\ Sound(new, mt) /\ new[dst] = s
       /\ \A x \in TokenAccounts \ {dst} : new[x] = half[x]
  <2>1. s \in AnyAccount /\ Sound(half, mt)
    BY <1>4, <1>10
  <2>2. /\ Sound(Put(half, dst, s), mt) /\ Put(half, dst, s)[dst] = s
        /\ \A x \in TokenAccounts \ {dst} : Put(half, dst, s)[x] = half[x]
    BY <1>8, <1>11, <2>1, SoundUpdate
  <2> QED
    BY <1>5, <2>2
<1>13. new[src] = r /\ \A x \in TokenAccounts \ {src, dst} : new[x] = accs[x]
  BY <1>10, <1>12
<1>14. \A x \in TokenAccounts : new[x].transferring = accs[x].transferring
  BY <1>3, <1>4, <1>12, <1>13
<1>15. new[src].amount < accs[src].amount /\ new[dst].amount > accs[dst].amount
  BY <1>1, <1>3, <1>4, <1>12, <1>13
<1> QED
  BY <1>7, <1>12, <1>13, <1>14, <1>15 DEF new

\* While a hook runs, the balances have moved from the source to the destination of the
\* call and nothing else has happened.
CallSound ==
  /\ mint.initialized
  /\ hook_call.program = mint.program_id
  /\ Sound(hook_call.before, mint)
  /\ \A a \in TokenAccounts : ~hook_call.before[a].transferring
  /\ accounts[hook_call.source].amount < hook_call.before[hook_call.source].amount
  /\ accounts[hook_call.destination].amount > hook_call.before[hook_call.destination].amount
  /\ \A a \in TokenAccounts \ {hook_call.source, hook_call.destination} :
       accounts[a].amount = hook_call.before[a].amount

\* Exactly the accounts of the call in progress are flagged.
FlagsMark ==
  \A a \in TokenAccounts :
    accounts[a].transferring <=>
      ~Hook!Idle /\ (a = hook_call.source \/ a = hook_call.destination)

HookInv ==
  /\ Hook!TypeOK
  /\ mint.program_id # None => mint.hook
  /\ Sound(accounts, mint)
  /\ draft.stage = "mint_fetched" => draft.program \in Programs
  /\ FlagsMark
  /\ hook_seen.genuine => hook_seen.during
  /\ ~hook_seen.direct => hook_seen.genuine
  /\ ~Hook!Idle => CallSound

LEMMA HookInvMeans == HookInv => Hook!GenuineMeansTransfer
<1> SUFFICES ASSUME HookInv PROVE Hook!GenuineMeansTransfer
  OBVIOUS
<1>1. ~Hook!Idle => hook_call.source \in TokenAccounts /\ hook_call.destination \in TokenAccounts
  BY DEF HookInv, Hook!TypeOK
<1>2. {a \in TokenAccounts : accounts[a].transferring} =
        IF Hook!Idle THEN {} ELSE {hook_call.source, hook_call.destination}
  BY <1>1 DEF HookInv, FlagsMark
<1> QED
  BY <1>2 DEF HookInv, Hook!GenuineMeansTransfer, CallSound

\* What a hook can have seen.
Looks == [program : Programs \cup {None}, direct : BOOLEAN, genuine : BOOLEAN,
          during : BOOLEAN]

LEMMA HookTypes ==
  ASSUME HookInv
  PROVE  /\ mint \in [initialized : BOOLEAN, hook : BOOLEAN,
                      authority : HookAuthorities \cup {None},
                      program_id : Programs \cup {None}, incarnation : 0 .. MaxHookMints]
         /\ mint.initialized \in BOOLEAN /\ mint.hook \in BOOLEAN
         /\ mint.authority \in HookAuthorities \cup {None}
         /\ mint.program_id \in Programs \cup {None}
         /\ mint.incarnation \in 0 .. MaxHookMints /\ mint.incarnation \in Nat
         /\ accounts \in [TokenAccounts -> Hook!AccountState]
         /\ metas \in [Programs -> 0 .. MaxVersions]
         /\ draft = Hook!NoDraft \/ draft \in [stage : {"mint_fetched", "ready"},
                                               program : Programs \cup {None},
                                               version : 0 .. MaxVersions]
         /\ Hook!Idle \/ hook_call \in [status : {"in_hook"}, source : TokenAccounts,
                                        destination : TokenAccounts, program : Programs,
                                        before : [TokenAccounts -> Hook!AccountState],
                                        metas : [Programs -> 0 .. MaxVersions]]
         /\ hook_seen \in Looks
<1>1. mint.incarnation \in 0 .. MaxHookMints => mint.incarnation \in Nat
  BY HookConstants DEF HookNumbers
<1> QED
  BY <1>1 DEF HookInv, Hook!TypeOK, Hook!ProgramIds, Looks

\* An instruction on the mint alone: the accounts must be sound for the new mint too.
LEMMA MintWritten ==
  ASSUME HookInv, Hook!Idle, UNCHANGED <<accounts, metas, draft, hook_call, hook_seen>>,
         mint' \in [initialized : BOOLEAN, hook : BOOLEAN,
                    authority : HookAuthorities \cup {None},
                    program_id : Programs \cup {None}, incarnation : 0 .. MaxHookMints],
         mint'.program_id # None => mint'.hook,
         \A a \in TokenAccounts : AccountSound(accounts[a], mint')
  PROVE  HookInv' /\ Hook!AgreedStep
<1>1. Hook!Idle'
  BY DEF Hook!Idle, Hook!NoCall
<1>2. Sound(accounts', mint')
  BY DEF Sound, HookInv
<1>3. Hook!TypeOK'
  BY HookTypes, <1>1 DEF Hook!TypeOK, Hook!ProgramIds, Looks
<1>4. FlagsMark'
  BY <1>1 DEF HookInv, FlagsMark
<1>5. HookInv'
  BY <1>1, <1>2, <1>3, <1>4 DEF HookInv
<1>6. Hook!AgreedStep
  <2>1. \A a \in TokenAccounts : accounts'[a] = accounts[a] /\ accounts[a].amount \in Nat
    BY SoundTypes DEF HookInv
  <2> QED
    BY <2>1 DEF Hook!AgreedStep
<1> QED
  BY <1>5, <1>6

LEMMA MintStepsSound ==
  ASSUME HookInv, Hook!Idle, UNCHANGED <<accounts, metas, draft, hook_call, hook_seen>>,
         \/ \E authority \in HookAuthorities \cup {None},
               p \in Hook!ProgramIds \cup {TokenProgram} : Hook!InitializeHook(authority, p)
         \/ \E signer \in HookAuthorities, p \in Hook!ProgramIds \cup {TokenProgram} :
               Hook!Update(p, signer)
         \/ \E signer \in HookAuthorities, new \in HookAuthorities \cup {None} :
               Hook!SetAuthority(new, signer)
         \/ Hook!InitializeMint
         \/ Hook!CloseMint
  PROVE  HookInv' /\ Hook!AgreedStep
<1> DEFINE MintType == [initialized : BOOLEAN, hook : BOOLEAN,
                        authority : HookAuthorities \cup {None},
                        program_id : Programs \cup {None}, incarnation : 0 .. MaxHookMints]
           Goal == HookInv' /\ Hook!AgreedStep
<1>1. /\ mint \in MintType /\ mint.initialized \in BOOLEAN
      /\ mint.incarnation \in 0 .. MaxHookMints /\ mint.incarnation \in Nat
      /\ MaxHookMints \in Nat
  BY HookTypes, HookConstants DEF HookNumbers
<1>2. /\ \A a \in TokenAccounts : AccountSound(accounts[a], mint)
      /\ mint.program_id # None => mint.hook
  BY DEF HookInv, Sound
<1> SUFFICES ASSUME TRUE PROVE Goal
  OBVIOUS
<1> HIDE DEF Goal
<1>3. ASSUME NEW authority \in HookAuthorities \cup {None},
             NEW p \in Hook!ProgramIds \cup {TokenProgram}, Hook!InitializeHook(authority, p)
      PROVE  Goal
  <2>1. /\ ~mint.initialized /\ p \in Programs \cup {None}
        /\ mint' = [mint EXCEPT !.hook = TRUE, !.authority = authority, !.program_id = p]
    BY <1>3 DEF Hook!InitializeHook, Hook!ProgramIds
  <2>2. /\ mint' \in MintType /\ mint'.hook /\ ~mint'.initialized
        /\ mint'.incarnation = mint.incarnation
    BY <1>1, <2>1
  <2>3. \A a \in TokenAccounts : AccountSound(accounts[a], mint')
    BY <1>2, <2>1, <2>2 DEF AccountSound
  <2> QED
    BY <2>2, <2>3, MintWritten DEF Goal
<1>4. ASSUME NEW signer \in HookAuthorities, NEW p \in Hook!ProgramIds \cup {TokenProgram},
             Hook!Update(p, signer)
      PROVE  Goal
  <2>1. /\ mint.hook /\ p \in Programs \cup {None}
        /\ mint' = [mint EXCEPT !.program_id = p]
    BY <1>4 DEF Hook!Update, Hook!ProgramIds
  <2>2. /\ mint' \in MintType /\ mint'.hook = mint.hook /\ mint'.initialized = mint.initialized
        /\ mint'.incarnation = mint.incarnation
    BY <1>1, <2>1
  <2>3. \A a \in TokenAccounts : AccountSound(accounts[a], mint')
    BY <1>2, <2>2 DEF AccountSound
  <2> QED
    BY <2>1, <2>2, <2>3, MintWritten DEF Goal
<1>5. ASSUME NEW signer \in HookAuthorities, NEW new \in HookAuthorities \cup {None},
             Hook!SetAuthority(new, signer)
      PROVE  Goal
  <2>1. mint' = [mint EXCEPT !.authority = new]
    BY <1>5 DEF Hook!SetAuthority
  <2>2. /\ mint' \in MintType /\ mint'.hook = mint.hook /\ mint'.initialized = mint.initialized
        /\ mint'.incarnation = mint.incarnation /\ mint'.program_id = mint.program_id
    BY <1>1, <2>1
  <2>3. \A a \in TokenAccounts : AccountSound(accounts[a], mint')
    BY <1>2, <2>2 DEF AccountSound
  <2> QED
    BY <1>2, <2>2, <2>3, MintWritten DEF Goal
<1>6. ASSUME Hook!InitializeMint
      PROVE  Goal
  <2>1. /\ ~mint.initialized /\ mint.incarnation < MaxHookMints
        /\ mint' = [mint EXCEPT !.initialized = TRUE, !.incarnation = @ + 1]
    BY <1>6 DEF Hook!InitializeMint
  <2>2. mint.incarnation + 1 \in 0 .. MaxHookMints
    BY <1>1, <2>1
  <2>3. /\ mint' \in MintType /\ mint'.hook = mint.hook /\ mint'.initialized
        /\ mint'.incarnation = mint.incarnation + 1 /\ mint'.program_id = mint.program_id
    BY <1>1, <2>1, <2>2
  <2>4. ASSUME NEW a \in TokenAccounts PROVE AccountSound(accounts[a], mint')
    <3>1. accounts[a].born <= mint.incarnation /\ accounts[a].amount = 0
      BY <1>2, <2>1 DEF AccountSound
    <3>2. accounts[a].born \in Nat
      BY SoundTypes DEF HookInv
    <3>3. accounts[a].born <= mint'.incarnation /\ accounts[a].born # mint'.incarnation
      BY <1>1, <2>3, <3>1, <3>2
    <3> QED
      BY <2>3, <3>1, <3>3 DEF AccountSound
  <2> QED
    BY <1>2, <2>3, <2>4, MintWritten DEF Goal
<1>7. ASSUME Hook!CloseMint
      PROVE  Goal
  <2>1. /\ Supplied(accounts) = 0
        /\ mint' = [mint EXCEPT !.initialized = FALSE, !.hook = FALSE,
                          !.authority = None, !.program_id = None]
    BY <1>7, SupplyIs DEF Hook!CloseMint
  <2>2. /\ mint' \in MintType /\ ~mint'.initialized
        /\ mint'.incarnation = mint.incarnation /\ mint'.program_id = None
    BY <1>1, <2>1
  <2>3. ASSUME NEW a \in TokenAccounts PROVE accounts[a].amount = 0
    <3>1. accounts[a].amount \in Nat /\ accounts[a].amount <= Supplied(accounts)
      BY SoundTypes DEF HookInv
    <3> QED
      BY <2>1, <3>1
  <2>4. \A a \in TokenAccounts : AccountSound(accounts[a], mint')
    BY <1>2, <2>2, <2>3 DEF AccountSound
  <2> QED
    BY <2>2, <2>4, MintWritten DEF Goal
<1> QED
  BY <1>3, <1>4, <1>5, <1>6, <1>7

\* An instruction on one account: what comes in does not come from another account.
LEMMA AccountWritten ==
  ASSUME HookInv, Hook!Idle, UNCHANGED <<mint, metas, draft, hook_call, hook_seen>>,
         NEW a \in TokenAccounts, NEW r \in AnyAccount,
         accounts' = Put(accounts, a, r), ~r.transferring, AccountSound(r, mint),
         Supplied(accounts) - accounts[a].amount + r.amount <= MaxSupply
  PROVE  HookInv' /\ Hook!AgreedStep
<1>1. /\ Sound(accounts', mint) /\ accounts'[a] = r
      /\ \A x \in TokenAccounts \ {a} : accounts'[x] = accounts[x]
  <2>1. Sound(accounts, mint)
    BY DEF HookInv
  <2>2. /\ Sound(Put(accounts, a, r), mint) /\ Put(accounts, a, r)[a] = r
        /\ \A x \in TokenAccounts \ {a} : Put(accounts, a, r)[x] = accounts[x]
    BY <2>1, SoundUpdate
  <2> QED
    BY <2>2
<1>2. Hook!Idle'
  BY DEF Hook!Idle, Hook!NoCall
<1>3. Hook!TypeOK'
  <2>1. accounts' \in [TokenAccounts -> Hook!AccountState]
    BY <1>1 DEF Sound
  <2> QED
    BY HookTypes, <1>2, <2>1 DEF Hook!TypeOK, Hook!ProgramIds, Looks
<1>4. FlagsMark'
  <2>1. \A x \in TokenAccounts : ~accounts[x].transferring
    BY DEF HookInv, FlagsMark
  <2> QED
    BY <1>1, <1>2, <2>1 DEF FlagsMark
<1>5. HookInv'
  BY <1>1, <1>2, <1>3, <1>4 DEF HookInv
<1>6. Hook!AgreedStep
  <2>1. \A x \in TokenAccounts : accounts[x].amount \in Nat
    BY SoundTypes DEF HookInv
  <2>2. r.amount \in Nat
    BY DEF AnyAccount
  <2> SUFFICES ASSUME NEW src \in TokenAccounts, NEW dst \in TokenAccounts,
                      accounts'[src].amount < accounts[src].amount,
                      accounts'[dst].amount > accounts[dst].amount
               PROVE  FALSE
    BY DEF Hook!AgreedStep
  <2>3. src = a /\ dst = a
    BY <1>1, <2>1
  <2> QED
    BY <1>1, <2>1, <2>2, <2>3
<1> QED
  BY <1>5, <1>6

LEMMA AccountStepsSound ==
  ASSUME HookInv, Hook!Idle, UNCHANGED <<mint, metas, draft, hook_call, hook_seen>>,
         NEW a \in TokenAccounts,
         Hook!InitializeAccount(a) \/ Hook!MintTo(a) \/ Hook!Burn(a)
  PROVE  HookInv' /\ Hook!AgreedStep
<1> DEFINE Goal == HookInv' /\ Hook!AgreedStep
<1>1. /\ accounts[a] \in AnyAccount /\ accounts[a].amount \in Nat
      /\ Supplied(accounts) \in Nat /\ Supplied(accounts) <= MaxSupply /\ MaxSupply \in Nat
      /\ AccountSound(accounts[a], mint) /\ ~accounts[a].transferring
      /\ accounts \in [TokenAccounts -> Hook!AccountState]
  BY SoundTypes DEF HookInv, Sound, FlagsMark
<1>2. /\ mint.incarnation \in 0 .. MaxHookMints /\ mint.incarnation \in Nat
      /\ mint.hook \in BOOLEAN
  BY HookTypes
<1> SUFFICES ASSUME TRUE PROVE Goal
  OBVIOUS
<1> HIDE DEF Goal
<1>3. ASSUME Hook!InitializeAccount(a) PROVE Goal
  <2> DEFINE r == [live |-> TRUE, amount |-> 0, marked |-> mint.hook,
                   transferring |-> FALSE, born |-> mint.incarnation]
  <2>1. mint.initialized /\ ~accounts[a].live /\ accounts' = Put(accounts, a, r)
    BY <1>3 DEF Hook!InitializeAccount, Put
  <2>2. /\ r \in AnyAccount /\ ~r.transferring /\ r.amount = 0 /\ r.live
        /\ r.born = mint.incarnation /\ r.marked = mint.hook
    BY <1>2 DEF AnyAccount
  <2> HIDE DEF r
  <2>3. AccountSound(r, mint)
    BY <1>2, <2>1, <2>2 DEF AccountSound
  <2>4. Supplied(accounts) - accounts[a].amount + r.amount <= MaxSupply
    BY <1>1, <2>2
  <2>5. r \in AnyAccount /\ ~r.transferring
    BY <2>2
  <2> QED
    BY <2>1, <2>3, <2>4, <2>5, AccountWritten DEF Goal
<1>4. ASSUME Hook!MintTo(a) PROVE Goal
  <2> DEFINE r == [accounts[a] EXCEPT !.amount = accounts[a].amount + 1]
  <2>1. /\ mint.initialized /\ accounts[a].live /\ Supplied(accounts) < MaxSupply
        /\ accounts' = Put(accounts, a, r)
    BY <1>1, <1>4, SupplyIs DEF Hook!MintTo, Put
  <2>2. accounts[a].amount + 1 \in Nat
    BY <1>1
  <2>3. /\ r \in AnyAccount /\ r.transferring = accounts[a].transferring
        /\ r.amount = accounts[a].amount + 1 /\ r.live = accounts[a].live
        /\ r.born = accounts[a].born /\ r.marked = accounts[a].marked
    BY <1>1, <2>2 DEF AnyAccount
  <2> HIDE DEF r
  <2>4. AccountSound(r, mint)
    BY <1>1, <2>1, <2>3 DEF AccountSound
  <2>5. Supplied(accounts) - accounts[a].amount + r.amount <= MaxSupply
    BY <1>1, <2>1, <2>3
  <2>6. r \in AnyAccount /\ ~r.transferring
    BY <1>1, <2>3
  <2> QED
    BY <2>1, <2>4, <2>5, <2>6, AccountWritten DEF Goal
<1>5. ASSUME Hook!Burn(a) PROVE Goal
  <2> DEFINE r == [accounts[a] EXCEPT !.amount = accounts[a].amount - 1]
  <2>1. /\ mint.initialized /\ accounts[a].amount > 0
        /\ accounts' = Put(accounts, a, r)
    BY <1>1, <1>5 DEF Hook!Burn, Put
  <2>2. accounts[a].amount - 1 \in Nat
    BY <1>1, <2>1
  <2>3. /\ r \in AnyAccount /\ r.transferring = accounts[a].transferring
        /\ r.amount = accounts[a].amount - 1 /\ r.live = accounts[a].live
        /\ r.born = accounts[a].born /\ r.marked = accounts[a].marked
    BY <1>1, <2>2 DEF AnyAccount
  <2> HIDE DEF r
  <2>4. AccountSound(r, mint)
    BY <1>1, <2>1, <2>3 DEF AccountSound
  <2>5. Supplied(accounts) - accounts[a].amount + r.amount <= MaxSupply
    BY <1>1, <2>1, <2>3
  <2>6. r \in AnyAccount /\ ~r.transferring
    BY <1>1, <2>3
  <2> QED
    BY <2>1, <2>4, <2>5, <2>6, AccountWritten DEF Goal
<1> QED
  BY <1>3, <1>4, <1>5 DEF Goal

\* What a client prepares, and what a hook program wants, moves no tokens.
\* What hook programs and clients keep, and what a hook has seen.
Aside(lists, prepared, look) ==
  /\ lists \in [Programs -> 0 .. MaxVersions]
  /\ prepared = Hook!NoDraft
       \/ prepared \in [stage : {"mint_fetched", "ready"}, program : Programs \cup {None},
                        version : 0 .. MaxVersions]
  /\ prepared.stage = "mint_fetched" => prepared.program \in Programs
  /\ look \in Looks
  /\ look.genuine => look.during
  /\ ~look.direct => look.genuine

\* What touches neither mint nor accounts nor the call in progress.
LEMMA AsideSound ==
  ASSUME HookInv, UNCHANGED <<mint, accounts, hook_call>>, Aside(metas', draft', hook_seen')
  PROVE  HookInv' /\ Hook!AgreedStep
<1>1. Hook!Idle' <=> Hook!Idle
  BY DEF Hook!Idle, Hook!NoCall
<1>2. Hook!TypeOK'
  BY <1>1, HookTypes DEF Hook!TypeOK, Hook!ProgramIds, Looks, Aside
<1>3. FlagsMark'
  BY <1>1 DEF HookInv, FlagsMark
<1>4. ~Hook!Idle' => CallSound'
  BY <1>1 DEF HookInv, CallSound
<1>5. HookInv'
  BY <1>2, <1>3, <1>4 DEF HookInv, Aside
<1>6. Hook!AgreedStep
  <2>1. \A x \in TokenAccounts : accounts'[x] = accounts[x] /\ accounts[x].amount \in Nat
    BY SoundTypes DEF HookInv
  <2>2. hook_call' = Hook!NoCall => Hook!Idle
    BY DEF Hook!Idle
  <2> QED
    BY <2>1, <2>2 DEF Hook!AgreedStep
<1> QED
  BY <1>5, <1>6

LEMMA ClientStepsSound ==
  ASSUME HookInv, Hook!Client
  PROVE  HookInv' /\ Hook!AgreedStep
<1>1. UNCHANGED <<mint, accounts, hook_call, hook_seen>>
  BY DEF Hook!Client, Hook!FetchMint, Hook!FetchMetas, Hook!SendFails, Hook!ChangeMetas
<1>2. MaxVersions \in Nat
  BY HookConstants DEF HookNumbers
<1> DEFINE Typed == /\ metas' \in [Programs -> 0 .. MaxVersions]
                    /\ draft' = Hook!NoDraft
                         \/ draft' \in [stage : {"mint_fetched", "ready"},
                                        program : Programs \cup {None},
                                        version : 0 .. MaxVersions]
                    /\ draft'.stage = "mint_fetched" => draft'.program \in Programs
<1>3. Typed
  <2>1. CASE Hook!FetchMint
    <3>1. mint.program_id \in Programs \cup {None} /\ 0 \in 0 .. MaxVersions
      BY <1>2, HookTypes
    <3>2. metas' = metas /\ draft' = [stage |-> IF mint.program_id = None THEN "ready"
                                                ELSE "mint_fetched",
                                      program |-> mint.program_id, version |-> 0]
      BY <2>1 DEF Hook!FetchMint
    <3> QED
      BY <3>1, <3>2, HookTypes
  <2>2. CASE Hook!FetchMetas
    <3>1. /\ draft.stage = "mint_fetched" /\ draft.program \in Programs
          /\ draft' = [draft EXCEPT !.stage = "ready", !.version = metas[draft.program]]
          /\ metas' = metas
      BY <2>2 DEF Hook!FetchMetas, HookInv
    <3>2. metas[draft.program] \in 0 .. MaxVersions
      BY <3>1, HookTypes
    <3>3. draft \in [stage : {"mint_fetched", "ready"}, program : Programs \cup {None},
                     version : 0 .. MaxVersions]
      BY <3>1, HookTypes DEF Hook!NoDraft
    <3> QED
      BY <3>1, <3>2, <3>3, HookTypes
  <2>3. CASE Hook!SendFails
    BY <2>3, HookTypes DEF Hook!SendFails, Hook!NoDraft
  <2>4. ASSUME NEW p \in Programs, Hook!ChangeMetas(p) PROVE Typed
    <3>1. /\ metas[p] < MaxVersions /\ metas' = [metas EXCEPT ![p] = @ + 1]
          /\ draft' = draft /\ metas \in [Programs -> 0 .. MaxVersions]
      BY <2>4, HookTypes DEF Hook!ChangeMetas
    <3>2. metas[p] + 1 \in 0 .. MaxVersions
      BY <1>2, <3>1
    <3>3. metas' \in [Programs -> 0 .. MaxVersions]
      BY <3>1, <3>2
    <3> QED
      BY <3>1, <3>3, HookTypes DEF HookInv
  <2> QED
    BY <2>1, <2>2, <2>3, <2>4 DEF Hook!Client
<1>4. Aside(metas', draft', hook_seen')
  <2>1. hook_seen' = hook_seen /\ hook_seen \in Looks
    BY <1>1, HookTypes
  <2> QED
    BY <1>3, <2>1 DEF HookInv, Aside
<1> QED
  BY <1>1, <1>4, AsideSound

\* Without a mint or without a hook program: what leaves an account of a mint with a
\* hook program leaves one that is left over.
LEMMA PlainTransfersSound ==
  ASSUME HookInv, NEW src \in TokenAccounts, NEW dst \in TokenAccounts,
         Hook!TransferWithoutMint(src, dst) \/ Hook!TransferUnhooked(src, dst)
  PROVE  HookInv' /\ Hook!AgreedStep
<1>1. /\ Hook!Idle /\ src # dst /\ accounts[src].live /\ accounts[dst].live
      /\ accounts[src].amount > 0 /\ accounts' = Hook!Moved(src, dst)
      /\ UNCHANGED <<mint, metas, draft, hook_call, hook_seen>>
      /\ ~accounts[src].marked \/ mint.program_id = None
  BY DEF Hook!TransferWithoutMint, Hook!TransferUnhooked, Hook!CanMove
<1>2. /\ Sound(accounts, mint) /\ accounts \in [TokenAccounts -> Hook!AccountState]
      /\ \A x \in TokenAccounts : accounts[x].amount \in Nat
      /\ \A x \in TokenAccounts : ~accounts[x].transferring
  BY <1>1, SoundTypes DEF HookInv, Sound, FlagsMark
<1>3. accounts' = Paid(accounts, src, dst)
  BY <1>1, <1>2 DEF Hook!Moved, Paid
<1>4. /\ Sound(accounts', mint) /\ mint.initialized
      /\ accounts'[src].amount < accounts[src].amount
      /\ accounts'[dst].amount > accounts[dst].amount
      /\ \A x \in TokenAccounts : accounts'[x].transferring = accounts[x].transferring
      /\ \A x \in TokenAccounts \ {src, dst} : accounts'[x] = accounts[x]
  BY <1>1, <1>2, <1>3, SoundMove
<1>5. Hook!Idle'
  BY <1>1 DEF Hook!Idle, Hook!NoCall
<1>6. Hook!TypeOK'
  BY <1>1, <1>4, <1>5, HookTypes DEF Hook!TypeOK, Hook!ProgramIds, Sound, Looks
<1>7. FlagsMark'
  BY <1>2, <1>4, <1>5 DEF FlagsMark
<1>8. HookInv'
  BY <1>1, <1>4, <1>5, <1>6, <1>7 DEF HookInv
<1>9. Hook!AgreedStep
  <2> SUFFICES ASSUME NEW s \in TokenAccounts, NEW d \in TokenAccounts,
                      mint.program_id # None, accounts'[s].amount < accounts[s].amount,
                      accounts[s].born = mint.incarnation
               PROVE  FALSE
    BY <1>1 DEF Hook!AgreedStep
  <2>1. accounts'[s].amount \in Nat
    BY <1>4, SoundTypes
  <2>2. s = src
    <3>1. ASSUME s = dst PROVE FALSE
      <4>1. accounts'[dst].amount \in Nat /\ accounts[dst].amount \in Nat
        BY <1>2, <2>1, <3>1
      <4> QED
        BY <1>4, <3>1, <4>1
    <3>2. ASSUME s \notin {src, dst} PROVE FALSE
      BY <1>2, <1>4, <3>2
    <3> QED
      BY <3>1, <3>2
  <2>3. accounts[src].marked = mint.hook /\ mint.hook
    BY <1>1, <1>4, <2>2 DEF HookInv, Sound, AccountSound
  <2> QED
    BY <1>1, <2>3
<1> QED
  BY <1>8, <1>9

LEMMA HookedTransferSound ==
  ASSUME HookInv, NEW src \in TokenAccounts, NEW dst \in TokenAccounts, NEW passed,
         Hook!TransferHooked(src, dst, passed)
  PROVE  HookInv' /\ Hook!AgreedStep
<1> DEFINE paid == Paid(accounts, src, dst)
           half == Flagged(paid, src, TRUE)
           flagged == Flagged(half, dst, TRUE)
<1>1. /\ Hook!Idle /\ src # dst /\ accounts[src].live /\ accounts[dst].live
      /\ accounts[src].amount > 0
      /\ UNCHANGED <<mint, metas, draft>>
      /\ mint.initialized /\ mint.program_id # None
  BY DEF Hook!TransferHooked, Hook!CanMove
<1>2. /\ Sound(accounts, mint) /\ accounts \in [TokenAccounts -> Hook!AccountState]
      /\ \A x \in TokenAccounts : accounts[x].amount \in Nat
      /\ \A x \in TokenAccounts : ~accounts[x].transferring
  BY <1>1, SoundTypes DEF HookInv, Sound, FlagsMark
<1>3. Hook!Moved(src, dst) = paid
  BY <1>1, <1>2 DEF Hook!Moved, Paid
<1>4. /\ accounts' = flagged
      /\ hook_call' = [status |-> "in_hook", source |-> src, destination |-> dst,
                       program |-> mint.program_id, before |-> accounts,
                       metas |-> metas]
      /\ hook_seen' = [program |-> mint.program_id, direct |-> FALSE,
                       genuine |-> flagged[src].transferring /\ flagged[dst].transferring,
                       during |-> TRUE]
  BY <1>3 DEF Hook!TransferHooked, Hook!set_transferring, Hook!Genuine, Flagged
<1> HIDE DEF paid, half, flagged
<1>5. /\ Sound(paid, mint)
      /\ paid[src].amount < accounts[src].amount /\ paid[dst].amount > accounts[dst].amount
      /\ \A x \in TokenAccounts : paid[x].transferring = accounts[x].transferring
      /\ \A x \in TokenAccounts \ {src, dst} : paid[x] = accounts[x]
  BY <1>1, <1>2, SoundMove DEF paid
<1>6. /\ Sound(half, mint) /\ half[src].transferring = TRUE
      /\ \A x \in TokenAccounts : half[x].amount = paid[x].amount
      /\ \A x \in TokenAccounts \ {src} : half[x] = paid[x]
  <2>1. Sound(paid, mint)
    BY <1>5
  <2> QED
    BY <2>1, SoundFlag, ZenonT(30) DEF half
<1>7. /\ Sound(flagged, mint) /\ flagged[dst].transferring = TRUE
      /\ \A x \in TokenAccounts : flagged[x].amount = half[x].amount
      /\ \A x \in TokenAccounts \ {dst} : flagged[x] = half[x]
  <2>1. Sound(half, mint)
    BY <1>6
  <2> QED
    BY <2>1, SoundFlag, ZenonT(30) DEF flagged
<1>8. /\ flagged[src].transferring = TRUE
      /\ \A x \in TokenAccounts \ {src, dst} : flagged[x] = accounts[x]
      /\ flagged[src].amount < accounts[src].amount
      /\ flagged[dst].amount > accounts[dst].amount
  BY <1>1, <1>5, <1>6, <1>7
<1>9. mint.program_id \in Programs
  BY <1>1, HookTypes
<1>10. /\ hook_call'.status = "in_hook" /\ hook_call'.source = src
       /\ hook_call'.destination = dst /\ hook_call'.program = mint.program_id
       /\ hook_call'.before = accounts
  BY <1>4
<1>11. hook_seen'.direct = FALSE /\ hook_seen'.genuine = TRUE /\ hook_seen'.during = TRUE
  BY <1>4, <1>7, <1>8
<1>12. ~Hook!Idle'
  BY <1>10 DEF Hook!Idle, Hook!NoCall
<1>13. Hook!TypeOK'
  <2>1. hook_call' \in [status : {"in_hook"}, source : TokenAccounts,
                        destination : TokenAccounts, program : Programs,
                        before : [TokenAccounts -> Hook!AccountState],
                        metas : [Programs -> 0 .. MaxVersions]]
    BY <1>2, <1>4, <1>9, HookTypes
  <2>2. hook_seen' = [program |-> mint.program_id, direct |-> FALSE, genuine |-> TRUE,
                      during |-> TRUE]
    BY <1>4, <1>7, <1>8
  <2>3. hook_seen' \in Looks
    BY <1>9, <2>2 DEF Looks
  <2> QED
    BY <1>1, <1>4, <1>7, <2>1, <2>3, HookTypes
       DEF Hook!TypeOK, Hook!ProgramIds, Sound, Looks
<1>14. FlagsMark'
  BY <1>2, <1>4, <1>7, <1>8, <1>10, <1>12 DEF FlagsMark
<1>15. CallSound'
  BY <1>1, <1>2, <1>4, <1>8, <1>10, <1>11 DEF CallSound
<1>16. HookInv'
  BY <1>1, <1>4, <1>7, <1>11, <1>13, <1>14, <1>15 DEF HookInv
<1>17. Hook!AgreedStep
  <2>1. hook_call' # Hook!NoCall
    BY <1>10 DEF Hook!NoCall
  <2> QED
    BY <2>1 DEF Hook!AgreedStep
<1> QED
  BY <1>16, <1>17

\* Only the accounts of a transfer in progress carry flags, so what a direct call finds
\* on both of its accounts are those.
LEMMA DirectCallSound ==
  ASSUME HookInv, NEW p \in Programs, NEW src \in TokenAccounts, NEW dst \in TokenAccounts,
         Hook!DirectCall(p, src, dst)
  PROVE  HookInv' /\ Hook!AgreedStep
<1> DEFINE genuine == Hook!Genuine(accounts, src, dst)
           during == Hook!Transferring(src, dst)
<1>1. /\ UNCHANGED <<mint, accounts, metas, draft, hook_call>>
      /\ hook_seen' = [program |-> p, direct |-> TRUE, genuine |-> genuine, during |-> during]
  BY DEF Hook!DirectCall
<1>2. genuine => during
  BY DEF HookInv, FlagsMark, Hook!Genuine, Hook!Transferring
<1>3. during \in BOOLEAN
  BY DEF Hook!Transferring
<1>4. genuine \in BOOLEAN
  <2>1. accounts[src].transferring \in BOOLEAN /\ accounts[dst].transferring \in BOOLEAN
    BY HookTypes DEF Hook!AccountState
  <2> QED
    BY <2>1 DEF Hook!Genuine
<1> HIDE DEF genuine, during
<1>5. /\ hook_seen' \in Looks
      /\ hook_seen'.genuine => hook_seen'.during
      /\ hook_seen'.direct
  BY <1>1, <1>2, <1>3, <1>4 DEF Looks
<1>6. Aside(metas', draft', hook_seen')
  <2>1. Aside(metas, draft, hook_seen)
    BY HookTypes DEF HookInv, Aside
  <2>2. metas' = metas /\ draft' = draft
    BY <1>1
  <2> QED
    BY <1>5, <2>1, <2>2 DEF Aside
<1> QED
  BY <1>1, <1>6, AsideSound

\* When the hook is back: the balances are those of the transfer or those before it.
LEMMA HookReturnsSound ==
  ASSUME HookInv, Hook!HookAccepts \/ Hook!HookRefuses
  PROVE  HookInv' /\ Hook!AgreedStep
<1> DEFINE src == hook_call.source
           dst == hook_call.destination
           half == Flagged(accounts, src, FALSE)
           cleared == Flagged(half, dst, FALSE)
<1>1. /\ ~Hook!Idle /\ hook_call' = Hook!NoCall /\ UNCHANGED <<mint, draft, hook_seen>>
      /\ accounts' = cleared \/ accounts' = hook_call.before
      /\ metas' = metas \/ metas' = hook_call.metas
  BY DEF Hook!HookAccepts, Hook!HookRefuses, Hook!unset_transferring, Flagged
<1>2. /\ CallSound /\ Sound(accounts, mint) /\ Sound(hook_call.before, mint)
      /\ src \in TokenAccounts /\ dst \in TokenAccounts
  BY <1>1, HookTypes DEF HookInv, CallSound
<1>3. \A x \in TokenAccounts : accounts[x].amount \in Nat /\ hook_call.before[x].amount \in Nat
  BY <1>2, SoundTypes
<1> HIDE DEF src, dst, half, cleared
<1>4. /\ Sound(half, mint) /\ half[src].transferring = FALSE
      /\ \A x \in TokenAccounts : half[x].amount = accounts[x].amount
      /\ \A x \in TokenAccounts \ {src} : half[x] = accounts[x]
  <2>1. Sound(accounts, mint) /\ src \in TokenAccounts
    BY <1>2
  <2> QED
    BY <2>1, SoundFlag, ZenonT(30) DEF half
<1>5. /\ Sound(cleared, mint) /\ cleared[dst].transferring = FALSE
      /\ \A x \in TokenAccounts : cleared[x].amount = half[x].amount
      /\ \A x \in TokenAccounts \ {dst} : cleared[x] = half[x]
  <2>1. Sound(half, mint) /\ dst \in TokenAccounts
    BY <1>2, <1>4
  <2> QED
    BY <2>1, SoundFlag DEF cleared
<1>6. \A x \in TokenAccounts : ~cleared[x].transferring
  BY <1>1, <1>4, <1>5 DEF HookInv, FlagsMark, src, dst
<1>7. /\ Sound(accounts', mint) /\ \A x \in TokenAccounts : ~accounts'[x].transferring
  BY <1>1, <1>2, <1>5, <1>6 DEF CallSound
<1>8. Hook!Idle'
  BY <1>1 DEF Hook!Idle, Hook!NoCall
<1>9. Hook!TypeOK'
  <2>1. metas' \in [Programs -> 0 .. MaxVersions]
    BY <1>1, HookTypes
  <2> QED
    BY <1>1, <1>7, <1>8, <2>1, HookTypes DEF Hook!TypeOK, Hook!ProgramIds, Sound, Looks
<1>10. FlagsMark'
  BY <1>7, <1>8 DEF FlagsMark
<1>11. HookInv'
  BY <1>1, <1>7, <1>8, <1>9, <1>10 DEF HookInv
<1>12. Hook!AgreedStep
  <2> SUFFICES ASSUME NEW s \in TokenAccounts, NEW d \in TokenAccounts,
                      accounts'[s].amount < hook_call.before[s].amount,
                      accounts'[d].amount > hook_call.before[d].amount
               PROVE  /\ ~Hook!Idle /\ hook_call.program = mint.program_id
                      /\ s = hook_call.source /\ d = hook_call.destination
    BY <1>1 DEF Hook!AgreedStep
  <2>1. accounts' = cleared
    BY <1>1, <1>3
  <2>2. \A x \in TokenAccounts : accounts'[x].amount = accounts[x].amount
    BY <1>4, <1>5, <2>1
  <2>3. accounts[s].amount < hook_call.before[s].amount
        /\ accounts[d].amount > hook_call.before[d].amount
    BY <2>2
  <2>4. s \in {hook_call.source, hook_call.destination}
        /\ d \in {hook_call.source, hook_call.destination}
    BY <1>2, <1>3, <2>3 DEF CallSound
  <2>5. s # hook_call.destination /\ d # hook_call.source
    BY <1>2, <1>3, <2>3 DEF CallSound
  <2> QED
    BY <1>1, <1>2, <2>4, <2>5 DEF CallSound
<1> QED
  BY <1>11, <1>12

LEMMA InitHookInv == Init => HookInv
<1> SUFFICES ASSUME Init PROVE HookInv
  OBVIOUS
<1>1. /\ mint = [initialized |-> FALSE, hook |-> FALSE, authority |-> None,
                 program_id |-> None, incarnation |-> 0]
      /\ accounts = [a \in TokenAccounts |-> Hook!NoAccount]
      /\ metas = [p \in Programs |-> 0]
      /\ draft = Hook!NoDraft /\ hook_call = Hook!NoCall
      /\ hook_seen = [program |-> None, direct |-> TRUE, genuine |-> FALSE, during |-> FALSE]
  BY DEF Init, Hook!Init
<1>2. /\ 0 \in 0 .. MaxHookMints /\ 0 \in 0 .. MaxSupply /\ 0 \in 0 .. MaxVersions
      /\ IsFiniteSet(TokenAccounts)
  BY HookConstants DEF HookNumbers
<1>3. /\ Hook!NoAccount.amount = 0 /\ Hook!NoAccount.live = FALSE
      /\ Hook!NoAccount.transferring = FALSE /\ Hook!NoAccount.born = 0
      /\ Hook!NoAccount \in Hook!AccountState
  BY <1>2 DEF Hook!NoAccount, Hook!AccountState
<1>4. Hook!Idle
  BY <1>1 DEF Hook!Idle
<1>5. Hook!TypeOK
  BY <1>1, <1>2, <1>3, <1>4 DEF Hook!TypeOK, Hook!ProgramIds
<1>6. Supplied(accounts) <= MaxSupply
  <2> DEFINE f == [a \in TokenAccounts |-> accounts[a].amount]
  <2>1. \A a \in TokenAccounts : f[a] = 0
    BY <1>1, <1>3
  <2> HIDE DEF f
  <2>2. Total(f, TokenAccounts) = 0
    BY <1>2, <2>1, TotalZero
  <2>3. Supplied(accounts) = 0
    BY <2>2 DEF Supplied, f
  <2> QED
    BY <2>3, HookConstants DEF HookNumbers
<1>7. \A a \in TokenAccounts : AccountSound(accounts[a], mint)
  BY <1>1, <1>3 DEF AccountSound
<1>8. Sound(accounts, mint)
  BY <1>1, <1>3, <1>6, <1>7 DEF Sound
<1>9. FlagsMark
  BY <1>1, <1>3, <1>4 DEF FlagsMark
<1>10. draft.stage # "mint_fetched"
  BY <1>1 DEF Hook!NoDraft
<1> QED
  BY <1>1, <1>4, <1>5, <1>8, <1>9, <1>10 DEF HookInv

LEMMA HookStep ==
  ASSUME HookInv, Hook!Next
  PROVE  HookInv' /\ Hook!AgreedStep
<1> DEFINE Goal == HookInv' /\ Hook!AgreedStep
<1> SUFFICES ASSUME TRUE PROVE Goal
  OBVIOUS
<1>1. ASSUME Hook!OnTheMint PROVE Goal
  <2>1. ASSUME NEW a \in TokenAccounts,
               Hook!InitializeAccount(a) \/ Hook!MintTo(a) \/ Hook!Burn(a)
        PROVE  Goal
    <3>1. Hook!Idle /\ UNCHANGED <<mint, metas, draft, hook_call, hook_seen>>
      BY <2>1 DEF Hook!InitializeAccount, Hook!MintTo, Hook!Burn
    <3> QED
      BY <2>1, <3>1, AccountStepsSound
  <2> DEFINE OnMint ==
        \/ \E authority \in HookAuthorities \cup {None},
              p \in Hook!ProgramIds \cup {TokenProgram} : Hook!InitializeHook(authority, p)
        \/ \E signer \in HookAuthorities, p \in Hook!ProgramIds \cup {TokenProgram} :
              Hook!Update(p, signer)
        \/ \E signer \in HookAuthorities, new \in HookAuthorities \cup {None} :
              Hook!SetAuthority(new, signer)
        \/ Hook!InitializeMint
        \/ Hook!CloseMint
  <2>2. ASSUME OnMint PROVE Goal
    <3>1. Hook!Idle /\ UNCHANGED <<accounts, metas, draft, hook_call, hook_seen>>
      BY <2>2 DEF Hook!InitializeHook, Hook!Update, Hook!SetAuthority, Hook!InitializeMint,
                  Hook!CloseMint
    <3> QED
      BY <2>2, <3>1, MintStepsSound
  <2> HIDE DEF Goal
  <2> QED
    BY <1>1, <2>1, <2>2 DEF Hook!OnTheMint
<1>2. ASSUME Hook!Client PROVE Goal
  BY <1>2, ClientStepsSound
<1>3. ASSUME Hook!Transfers PROVE Goal
  <2>1. PICK src \in TokenAccounts, dst \in TokenAccounts :
          \/ Hook!TransferWithoutMint(src, dst)
          \/ Hook!TransferUnhooked(src, dst)
          \/ Hook!TransferHooked(src, dst, Hook!OnchainAccounts)
          \/ draft.stage = "ready" /\ Hook!TransferHooked(src, dst, Hook!OffchainAccounts)
          \/ \E p \in Programs : Hook!DirectCall(p, src, dst)
    BY <1>3 DEF Hook!Transfers
  <2>2. ASSUME Hook!TransferWithoutMint(src, dst) \/ Hook!TransferUnhooked(src, dst)
        PROVE  Goal
    BY <2>2, PlainTransfersSound
  <2>3. ASSUME NEW passed, Hook!TransferHooked(src, dst, passed) PROVE Goal
    BY <2>3, HookedTransferSound
  <2>4. ASSUME NEW p \in Programs, Hook!DirectCall(p, src, dst) PROVE Goal
    BY <2>4, DirectCallSound
  <2> HIDE DEF Goal
  <2> QED
    BY <2>1, <2>2, <2>3, <2>4
<1>4. ASSUME Hook!HookAccepts \/ Hook!HookRefuses PROVE Goal
  BY <1>4, HookReturnsSound
<1> HIDE DEF Goal
<1> QED
  BY <1>1, <1>2, <1>3, <1>4 DEF Hook!Next

LEMMA HookStays ==
  ASSUME HookInv, [Next]_vars
  PROVE  HookInv' /\ [Hook!AgreedStep]_(Hook!vars)
<1>1. CASE Hook!Next
  BY <1>1, HookStep
<1>2. CASE UNCHANGED hook_vars
  BY <1>2 DEF hook_vars, Hook!vars, HookInv, Hook!TypeOK, Hook!Idle, FlagsMark, CallSound
<1> QED
  BY <1>1, <1>2, PartSteps

\* A hook that finds both accounts flagged is called, by whomever, while a transfer of
\* theirs is in progress; the token program's own call always finds them flagged; and
\* the flags are on no account when no hook is running (set_transferring,
\* unset_transferring, check_token_account_is_transferring).
THEOREM HookSeesOnlyTransfers == Spec => []GenuineMeansTransfer
<1>1. Init => HookInv
  BY InitHookInv
<1>2. HookInv /\ [Next]_vars => HookInv'
  BY HookStays
<1>3. HookInv => GenuineMeansTransfer
  BY HookInvMeans DEF GenuineMeansTransfer
<1> QED
  BY <1>1, <1>2, <1>3, PTL DEF Spec

\* Between marked accounts of a mint with a hook program nothing moves that the program
\* named by the mint has not agreed to (process_transfer), whatever client, stale
\* draft or direct call there was.
THEOREM HooksAgree == Spec => HookConsulted
<1>1. Init => HookInv
  BY InitHookInv
<1>2. HookInv /\ [Next]_vars => HookInv' /\ [Hook!AgreedStep]_(Hook!vars)
  BY HookStays
<1> QED
  BY <1>1, <1>2, PTL DEF Spec, HookConsulted, Hook!HookConsulted

-----------------------------------------------------------------------------
(***************************************************************************)
(* Builders and handlers.  What a handler takes one by one is paired with  *)
(* a list that its builder wrote for it; behind that come signers, sources *)
(* or members, as many as there are.                                       *)
(***************************************************************************)
Roles ==
  {"account", "mint", "multisig", "owner", "owned", "authority", "signer", "member", "rent",
   "source", "destination", "delegate", "payer", "native_mint", "system_program",
   "context_state", "instructions_sysvar", "equality", "amount_validity",
   "ciphertext_validity", "fee_sigma", "fee_validity", "range", "lamport_destination",
   "context_authority", "zk_token_proof_program"}
Takes == [role : Roles, writes : BOOLEAN, signature : {"none", "own", "owner"}]
Metas == [role : Roles, is_writable : BOOLEAN, is_signer : BOOLEAN]

\* An account as the builder lists it will do for what the handler takes it for.
Will(take, meta) ==
  /\ take.role = meta.role
  /\ take.writes => meta.is_writable
  /\ take.signature = "own" => meta.is_signer
  /\ take.signature # "owner"

Fits(takes, given) ==
  /\ takes \in Seq(Takes) /\ given \in Seq(Metas)
  /\ Len(takes) = Len(given)
  /\ \A i \in 1 .. Len(takes) : Will(takes[i], given[i])

\* The accounts that are listed and taken in numbers.
Key(n) == Wire!AccountMeta("authority", FALSE, n = 0)
Signer == Wire!AccountMeta("signer", FALSE, TRUE)
Member == Wire!R("member")
Source == Wire!W("source")
Owns == Wire!validate_owner
Signs == Wire!Signs("authority")

members(n) == [i \in 1 .. n |-> Member]

\* The ways in which a handler and the accounts of its instruction fit; the last one
\* is that of UpdateMint and ApproveAccount, which know no multisig.
Shape(handler, given, n, k, sub, takes, listed) ==
  \/ handler = Wire!Free(takes) /\ given = listed
  \/ handler = Wire!Owned(takes) /\ given = listed \o Wire!authority(n)
  \/ handler = Wire!H(takes, "members") /\ given = listed \o members(n)
  \/ handler = Wire!H(takes, "sources") /\ given = listed \o Wire!sources(k)
  \/ /\ handler = Wire!H(Append(takes, Owns), "signers_then_sources")
     /\ given = listed \o Wire!authority(n) \o Wire!sources(k)
  \/ /\ handler = Wire!Free(Append(takes, Signs))
     /\ given = listed \o Wire!authority(n)
     /\ sub \in {"UpdateMint", "ApproveAccount"}

Suits(handler, given, n, k, sub) ==
  \E takes, listed : Fits(takes, listed) /\ Shape(handler, given, n, k, sub, takes, listed)

\* What is taken one by one, and what is left, in all of these.
Unsigned(n, sub) == n > 0 /\ sub \in {"UpdateMint", "ApproveAccount"}

Serves(take, meta, n, sub, rest) ==
  /\ take.role = meta.role
  /\ take.writes => meta.is_writable
  /\ take.signature = "own" => meta.is_signer \/ Unsigned(n, sub)
  /\ take.signature = "owner" =>
       (n = 0 => meta.is_signer) /\ rest \in {"signers", "signers_then_sources"}

\* The accounts behind the first taken ones.
Left(rest, taken, given, n, k) ==
  \/ rest = "ignored"
  \/ /\ rest = "signers" /\ Len(given) = taken + n
     /\ \A i \in taken + 1 .. Len(given) : given[i] = Signer
  \/ rest = "members" /\ \A i \in taken + 1 .. Len(given) : given[i] = Member
  \/ rest = "sources" /\ \A i \in taken + 1 .. Len(given) : given[i] = Source
  \/ /\ rest = "signers_then_sources" /\ Len(given) = taken + n + k
     /\ \A i \in taken + 1 .. taken + n : given[i] = Signer
     /\ \A i \in taken + n + 1 .. Len(given) : given[i] = Source

Served(handler, given, n, k, sub) ==
  /\ handler.takes \in Seq(Takes) /\ given \in Seq(Metas)
  /\ Len(handler.takes) <= Len(given)
  /\ \A i \in 1 .. Len(handler.takes) : Serves(handler.takes[i], given[i], n, sub, handler.rest)
  /\ Left(handler.rest, Len(handler.takes), given, n, k)

LEMMA AccountFacts ==
  /\ \A n : Key(n) \in Metas /\ Key(n).role = "authority" /\ (n = 0 => Key(n).is_signer)
  /\ Signer \in Metas /\ Signer.role = "signer" /\ Signer.is_signer
  /\ Member \in Metas /\ Member.role = "member"
  /\ Source \in Metas /\ Source.role = "source" /\ Source.is_writable
  /\ Owns \in Takes /\ Owns.role = "authority" /\ ~Owns.writes /\ Owns.signature = "owner"
  /\ Signs \in Takes /\ Signs.role = "authority" /\ ~Signs.writes /\ Signs.signature = "own"
BY DEF Key, Signer, Member, Source, Owns, Signs, Wire!AccountMeta, Wire!R, Wire!W,
       Wire!validate_owner, Wire!Signs, Wire!Take, Takes, Metas, Roles

LEMMA Copies ==
  ASSUME NEW S, NEW e \in S, NEW n \in Nat
  PROVE  LET s == [i \in 1 .. n |-> e] IN
         s \in Seq(S) /\ Len(s) = n /\ \A i \in 1 .. n : s[i] = e
OBVIOUS

Concat(st, s, t) == s \in Seq(Metas) /\ t \in Seq(Metas) /\ st = s \o t

\* From the j-th place on, a list repeats an account.
Repeats(t, j, e) == j \in 1 .. Len(t) + 1 /\ \A i \in j .. Len(t) : t[i] = e

LEMMA ListsJoined ==
  ASSUME NEW s, NEW t, NEW st, Concat(st, s, t)
  PROVE  /\ st \in Seq(Metas) /\ Len(st) = Len(s) + Len(t)
         /\ Len(s) \in Nat /\ Len(t) \in Nat
         /\ \A i \in 1 .. Len(s) : st[i] = s[i]
         /\ \A i \in Len(s) + 1 .. Len(s) + Len(t) : st[i] = t[i - Len(s)]
BY DEF Concat

\* An authority is the account itself or followed by n signers.
LEMMA AuthorityListed ==
  ASSUME NEW n \in Nat
  PROVE  /\ Wire!authority(n) \in Seq(Metas)
         /\ Len(Wire!authority(n)) = n + 1
         /\ Wire!authority(n)[1] = Key(n)
         /\ \A i \in 2 .. n + 1 : Wire!authority(n)[i] = Signer
<1> DEFINE signers == [i \in 1 .. n |-> Signer]
           key == <<Key(n)>>
<1>1. Wire!authority(n) = key \o signers
  BY DEF Wire!authority, Key, Signer
<1>2. signers \in Seq(Metas) /\ Len(signers) = n /\ \A i \in 1 .. n : signers[i] = Signer
  BY AccountFacts
<1>3. key \in Seq(Metas) /\ Len(key) = 1 /\ key[1] = Key(n)
  BY AccountFacts
<1> HIDE DEF signers, key
<1>4. Concat(Wire!authority(n), key, signers)
  BY <1>1, <1>2, <1>3 DEF Concat
<1>5. /\ Wire!authority(n) \in Seq(Metas) /\ Len(Wire!authority(n)) = n + 1
      /\ Wire!authority(n)[1] = key[1]
      /\ \A i \in 2 .. n + 1 : Wire!authority(n)[i] = signers[i - 1]
  <2> DEFINE st == Wire!authority(n)
  <2>1. /\ st \in Seq(Metas) /\ Len(st) = Len(key) + Len(signers)
        /\ \A i \in 1 .. Len(key) : st[i] = key[i]
        /\ \A i \in Len(key) + 1 .. Len(key) + Len(signers) : st[i] = signers[i - Len(key)]
    BY <1>4, ListsJoined
  <2> QED
    BY <1>2, <1>3, <2>1
<1> QED
  BY <1>2, <1>3, <1>5

LEMMA OthersListed ==
  ASSUME NEW n \in Nat
  PROVE  /\ members(n) \in Seq(Metas) /\ Len(members(n)) = n
         /\ \A i \in 1 .. n : members(n)[i] = Member
         /\ Wire!sources(n) \in Seq(Metas) /\ Len(Wire!sources(n)) = n
         /\ \A i \in 1 .. n : Wire!sources(n)[i] = Source
BY AccountFacts, Copies DEF members, Wire!sources, Source

\* What stands where in the lists of the shapes.
LEMMA Behind ==
  ASSUME NEW s, NEW t, NEW st, NEW j, NEW e, Concat(st, s, t), Repeats(t, j, e)
  PROVE  /\ st \in Seq(Metas) /\ Len(st) = Len(s) + Len(t)
         /\ \A i \in 1 .. Len(s) : st[i] = s[i]
         /\ Len(t) > 0 => st[Len(s) + 1] = t[1]
         /\ \A i \in Len(s) + j .. Len(s) + Len(t) : st[i] = e
<1>1. /\ st \in Seq(Metas) /\ Len(st) = Len(s) + Len(t)
      /\ Len(s) \in Nat /\ Len(t) \in Nat
      /\ \A i \in 1 .. Len(s) : st[i] = s[i]
      /\ \A i \in Len(s) + 1 .. Len(s) + Len(t) : st[i] = t[i - Len(s)]
  BY ListsJoined
<1>2. j \in 1 .. Len(t) + 1 /\ \A i \in j .. Len(t) : t[i] = e
  BY DEF Repeats
<1>3. ASSUME NEW i \in Len(s) + j .. Len(s) + Len(t) PROVE st[i] = e
  <2>1. i - Len(s) \in j .. Len(t) /\ i \in Len(s) + 1 .. Len(s) + Len(t)
    BY <1>1, <1>2
  <2> QED
    BY <1>1, <1>2, <2>1
<1>4. ASSUME Len(t) > 0 PROVE st[Len(s) + 1] = t[1]
  <2>1. Len(s) + 1 \in Len(s) + 1 .. Len(s) + Len(t) /\ (Len(s) + 1) - Len(s) = 1
    BY <1>1, <1>4
  <2> QED
    BY <1>1, <2>1
<1> QED
  BY <1>1, <1>3, <1>4

LEMMA BehindAuthority ==
  ASSUME NEW listed, NEW n \in Nat, NEW given, Concat(given, listed, Wire!authority(n))
  PROVE  /\ given \in Seq(Metas) /\ Len(given) = Len(listed) + n + 1
         /\ \A i \in 1 .. Len(listed) : given[i] = listed[i]
         /\ given[Len(listed) + 1] = Key(n)
         /\ \A i \in Len(listed) + 2 .. Len(listed) + n + 1 : given[i] = Signer
<1>1. /\ Len(Wire!authority(n)) = n + 1 /\ Wire!authority(n)[1] = Key(n)
      /\ \A i \in 2 .. n + 1 : Wire!authority(n)[i] = Signer
  BY AuthorityListed
<1>2. Repeats(Wire!authority(n), 2, Signer)
  BY <1>1 DEF Repeats
<1>3. Len(listed) \in Nat
  BY DEF Concat
<1>4. /\ given \in Seq(Metas) /\ Len(given) = Len(listed) + Len(Wire!authority(n))
      /\ \A i \in 1 .. Len(listed) : given[i] = listed[i]
      /\ Len(Wire!authority(n)) > 0 => given[Len(listed) + 1] = Wire!authority(n)[1]
      /\ \A i \in Len(listed) + 2 .. Len(listed) + Len(Wire!authority(n)) : given[i] = Signer
  BY <1>2, Behind
<1> QED
  BY <1>1, <1>3, <1>4

LEMMA BehindMembers ==
  ASSUME NEW listed, NEW n \in Nat, NEW given, Concat(given, listed, members(n))
  PROVE  /\ given \in Seq(Metas) /\ Len(given) = Len(listed) + n
         /\ \A i \in 1 .. Len(listed) : given[i] = listed[i]
         /\ \A i \in Len(listed) + 1 .. Len(listed) + n : given[i] = Member
<1>1. Len(members(n)) = n /\ Repeats(members(n), 1, Member)
  BY OthersListed DEF Repeats
<1> QED
  BY <1>1, Behind

LEMMA BehindSources ==
  ASSUME NEW listed, NEW n \in Nat, NEW given, Concat(given, listed, Wire!sources(n))
  PROVE  /\ given \in Seq(Metas) /\ Len(given) = Len(listed) + n
         /\ \A i \in 1 .. Len(listed) : given[i] = listed[i]
         /\ \A i \in Len(listed) + 1 .. Len(listed) + n : given[i] = Source
<1>1. Len(Wire!sources(n)) = n /\ Repeats(Wire!sources(n), 1, Source)
  BY OthersListed DEF Repeats
<1> QED
  BY <1>1, Behind

\* An account that will do serves.
LEMMA WillServes ==
  ASSUME NEW n, NEW sub, NEW rest
  PROVE  /\ \A t, m : Will(t, m) => Serves(t, m, n, sub, rest)
         /\ rest \in {"signers", "signers_then_sources"} => Serves(Owns, Key(n), n, sub, rest)
         /\ n \in Nat /\ sub \in {"UpdateMint", "ApproveAccount"} =>
              Serves(Signs, Key(n), n, sub, rest)
BY AccountFacts DEF Will, Serves, Unsigned

\* One more account taken.
LEMMA OneMore ==
  ASSUME NEW takes \in Seq(Takes), NEW t \in Takes, NEW given \in Seq(Metas),
         NEW n, NEW sub, NEW rest, Len(takes) < Len(given),
         \A i \in 1 .. Len(takes) : Serves(takes[i], given[i], n, sub, rest),
         Serves(t, given[Len(takes) + 1], n, sub, rest)
  PROVE  /\ Append(takes, t) \in Seq(Takes) /\ Len(Append(takes, t)) = Len(takes) + 1
         /\ Len(Append(takes, t)) <= Len(given)
         /\ \A i \in 1 .. Len(Append(takes, t)) :
              Serves(Append(takes, t)[i], given[i], n, sub, rest)
<1>1. /\ Append(takes, t) \in Seq(Takes) /\ Len(Append(takes, t)) = Len(takes) + 1
      /\ \A i \in 1 .. Len(takes) : Append(takes, t)[i] = takes[i]
      /\ Append(takes, t)[Len(takes) + 1] = t /\ Len(takes) \in Nat /\ Len(given) \in Nat
  OBVIOUS
<1> QED
  BY <1>1

\* Handlers of every shape find what they take.
LEMMA SuitsServed ==
  ASSUME NEW handler, NEW given, NEW n \in Nat, NEW k \in Nat, NEW sub,
         Suits(handler, given, n, k, sub)
  PROVE  Served(handler, given, n, k, sub)
<1> PICK takes, listed : Fits(takes, listed) /\ Shape(handler, given, n, k, sub, takes, listed)
  BY DEF Suits
<1> DEFINE taken == Len(takes)
<1>1. /\ takes \in Seq(Takes) /\ listed \in Seq(Metas) /\ Len(listed) = taken /\ taken \in Nat
      /\ \A i \in 1 .. taken : Will(takes[i], listed[i])
  BY DEF Fits
<1>2. \A rest : \A i \in 1 .. taken : Serves(takes[i], listed[i], n, sub, rest)
  BY <1>1, WillServes
<1> HIDE DEF taken
<1>3. CASE handler = Wire!Free(takes) /\ given = listed
  <2>1. handler.takes = takes /\ handler.rest = "ignored"
    BY <1>3 DEF Wire!Free, Wire!H
  <2>2. \A i \in 1 .. taken : Serves(takes[i], given[i], n, sub, "ignored")
    BY <1>2, <1>3
  <2>3. Left("ignored", taken, given, n, k)
    BY DEF Left
  <2> QED
    BY <1>1, <1>3, <2>1, <2>2, <2>3 DEF Served, taken
<1>4. CASE handler = Wire!Owned(takes) /\ given = listed \o Wire!authority(n)
  <2>1. handler.takes = Append(takes, Owns) /\ handler.rest = "signers"
    BY <1>4 DEF Wire!Owned, Wire!H, Owns
  <2>2. Concat(given, listed, Wire!authority(n))
    BY <1>1, <1>4, AuthorityListed DEF Concat
  <2>3. /\ given \in Seq(Metas) /\ Len(given) = taken + n + 1
        /\ \A i \in 1 .. taken : given[i] = listed[i]
        /\ given[taken + 1] = Key(n)
        /\ \A i \in taken + 2 .. Len(given) : given[i] = Signer
    <3>1. /\ given \in Seq(Metas) /\ Len(given) = Len(listed) + n + 1
          /\ \A i \in 1 .. Len(listed) : given[i] = listed[i]
          /\ given[Len(listed) + 1] = Key(n)
          /\ \A i \in Len(listed) + 2 .. Len(listed) + n + 1 : given[i] = Signer
      BY <2>2, BehindAuthority
    <3> QED
      BY <1>1, <3>1
  <2>4. /\ \A i \in 1 .. taken : Serves(takes[i], given[i], n, sub, "signers")
        /\ Serves(Owns, given[taken + 1], n, sub, "signers")
    BY <1>2, <2>3, WillServes
  <2>5. /\ handler.takes \in Seq(Takes) /\ Len(handler.takes) = taken + 1
        /\ Len(handler.takes) <= Len(given)
        /\ \A i \in 1 .. Len(handler.takes) :
             Serves(handler.takes[i], given[i], n, sub, handler.rest)
    BY <1>1, <2>1, <2>3, <2>4, AccountFacts, OneMore DEF taken
  <2>6. Left(handler.rest, Len(handler.takes), given, n, k)
    BY <1>1, <2>1, <2>3, <2>5 DEF Left
  <2> QED
    BY <2>3, <2>5, <2>6 DEF Served
<1>5. CASE handler = Wire!H(takes, "members") /\ given = listed \o members(n)
  <2>1. handler.takes = takes /\ handler.rest = "members"
    BY <1>5 DEF Wire!H
  <2>2. Concat(given, listed, members(n))
    BY <1>1, <1>5, OthersListed DEF Concat
  <2>3. /\ given \in Seq(Metas) /\ Len(given) = taken + n
        /\ \A i \in 1 .. taken : given[i] = listed[i]
        /\ \A i \in taken + 1 .. Len(given) : given[i] = Member
    <3>1. /\ given \in Seq(Metas) /\ Len(given) = Len(listed) + n
          /\ \A i \in 1 .. Len(listed) : given[i] = listed[i]
          /\ \A i \in Len(listed) + 1 .. Len(listed) + n : given[i] = Member
      BY <2>2, BehindMembers
    <3> QED
      BY <1>1, <3>1
  <2>4. \A i \in 1 .. taken : Serves(takes[i], given[i], n, sub, "members")
    BY <1>2, <2>3
  <2>5. Left("members", taken, given, n, k)
    BY <2>3 DEF Left
  <2> QED
    BY <1>1, <2>1, <2>3, <2>4, <2>5 DEF Served, taken
<1>6. CASE handler = Wire!H(takes, "sources") /\ given = listed \o Wire!sources(k)
  <2>1. handler.takes = takes /\ handler.rest = "sources"
    BY <1>6 DEF Wire!H
  <2>2. Concat(given, listed, Wire!sources(k))
    BY <1>1, <1>6, OthersListed DEF Concat
  <2>3. /\ given \in Seq(Metas) /\ Len(given) = taken + k
        /\ \A i \in 1 .. taken : given[i] = listed[i]
        /\ \A i \in taken + 1 .. Len(given) : given[i] = Source
    <3>1. /\ given \in Seq(Metas) /\ Len(given) = Len(listed) + k
          /\ \A i \in 1 .. Len(listed) : given[i] = listed[i]
          /\ \A i \in Len(listed) + 1 .. Len(listed) + k : given[i] = Source
      BY <2>2, BehindSources
    <3> QED
      BY <1>1, <3>1
  <2>4. \A i \in 1 .. taken : Serves(takes[i], given[i], n, sub, "sources")
    BY <1>2, <2>3
  <2>5. Left("sources", taken, given, n, k)
    BY <2>3 DEF Left
  <2> QED
    BY <1>1, <2>1, <2>3, <2>4, <2>5 DEF Served, taken
<1>7. CASE /\ handler = Wire!H(Append(takes, Owns), "signers_then_sources")
           /\ given = listed \o Wire!authority(n) \o Wire!sources(k)
  <2>1. handler.takes = Append(takes, Owns) /\ handler.rest = "signers_then_sources"
    BY <1>7 DEF Wire!H
  <2> DEFINE front == listed \o Wire!authority(n)
  <2>2. Concat(front, listed, Wire!authority(n))
    BY <1>1, AuthorityListed DEF Concat
  <2>3. given = front \o Wire!sources(k)
    BY <1>7
  <2> HIDE DEF front
  <2>4. /\ front \in Seq(Metas) /\ Len(front) = taken + n + 1
        /\ \A i \in 1 .. taken : front[i] = listed[i]
        /\ front[taken + 1] = Key(n)
        /\ \A i \in taken + 2 .. taken + n + 1 : front[i] = Signer
    <3>1. /\ front \in Seq(Metas) /\ Len(front) = Len(listed) + n + 1
          /\ \A i \in 1 .. Len(listed) : front[i] = listed[i]
          /\ front[Len(listed) + 1] = Key(n)
          /\ \A i \in Len(listed) + 2 .. Len(listed) + n + 1 : front[i] = Signer
      BY <2>2, BehindAuthority
    <3> QED
      BY <1>1, <3>1
  <2>5. Concat(given, front, Wire!sources(k))
    BY <2>3, <2>4, OthersListed DEF Concat
  <2>6. /\ given \in Seq(Metas) /\ Len(given) = taken + n + 1 + k
        /\ \A i \in 1 .. taken + n + 1 : given[i] = front[i]
        /\ \A i \in taken + n + 2 .. Len(given) : given[i] = Source
    <3>1. /\ given \in Seq(Metas) /\ Len(given) = Len(front) + k
          /\ \A i \in 1 .. Len(front) : given[i] = front[i]
          /\ \A i \in Len(front) + 1 .. Len(front) + k : given[i] = Source
      BY <2>5, BehindSources
    <3> QED
      BY <1>1, <3>1, <2>4
  <2>7. /\ \A i \in 1 .. taken : given[i] = listed[i]
        /\ given[taken + 1] = Key(n)
        /\ \A i \in taken + 2 .. taken + n + 1 : given[i] = Signer
    BY <1>1, <2>4, <2>6
  <2>8. /\ \A i \in 1 .. taken : Serves(takes[i], given[i], n, sub, "signers_then_sources")
        /\ Serves(Owns, given[taken + 1], n, sub, "signers_then_sources")
    BY <1>2, <2>7, WillServes
  <2>9. /\ handler.takes \in Seq(Takes) /\ Len(handler.takes) = taken + 1
        /\ Len(handler.takes) <= Len(given)
        /\ \A i \in 1 .. Len(handler.takes) :
             Serves(handler.takes[i], given[i], n, sub, handler.rest)
    BY <1>1, <2>1, <2>6, <2>8, AccountFacts, OneMore DEF taken
  <2>10. Left("signers_then_sources", taken + 1, given, n, k)
    <3>1. /\ Len(given) = (taken + 1) + n + k
          /\ \A i \in (taken + 1) + 1 .. (taken + 1) + n : given[i] = Signer
          /\ \A i \in (taken + 1) + n + 1 .. Len(given) : given[i] = Source
      BY <1>1, <2>6, <2>7
    <3> QED
      BY <3>1 DEF Left
  <2> QED
    BY <2>1, <2>6, <2>9, <2>10 DEF Served
<1>8. CASE /\ handler = Wire!Free(Append(takes, Signs))
           /\ given = listed \o Wire!authority(n)
           /\ sub \in {"UpdateMint", "ApproveAccount"}
  <2>1. handler.takes = Append(takes, Signs) /\ handler.rest = "ignored"
    BY <1>8 DEF Wire!Free, Wire!H
  <2>2. Concat(given, listed, Wire!authority(n))
    BY <1>1, <1>8, AuthorityListed DEF Concat
  <2>3. /\ given \in Seq(Metas) /\ Len(given) = taken + n + 1
        /\ \A i \in 1 .. taken : given[i] = listed[i]
        /\ given[taken + 1] = Key(n)
    <3>1. /\ given \in Seq(Metas) /\ Len(given) = Len(listed) + n + 1
          /\ \A i \in 1 .. Len(listed) : given[i] = listed[i]
          /\ given[Len(listed) + 1] = Key(n)
          /\ \A i \in Len(listed) + 2 .. Len(listed) + n + 1 : given[i] = Signer
      BY <2>2, BehindAuthority
    <3> QED
      BY <1>1, <3>1
  <2>4. /\ \A i \in 1 .. taken : Serves(takes[i], given[i], n, sub, "ignored")
        /\ Serves(Signs, given[taken + 1], n, sub, "ignored")
    BY <1>2, <1>8, <2>3, WillServes
  <2>5. /\ handler.takes \in Seq(Takes) /\ Len(handler.takes) = taken + 1
        /\ Len(handler.takes) <= Len(given)
        /\ \A i \in 1 .. Len(handler.takes) :
             Serves(handler.takes[i], given[i], n, sub, handler.rest)
    BY <1>1, <2>1, <2>3, <2>4, AccountFacts, OneMore DEF taken
  <2> QED
    BY <2>1, <2>3, <2>5 DEF Served, Left
<1> QED
  BY <1>3, <1>4, <1>5, <1>6, <1>7, <1>8 DEF Shape

-----------------------------------------------------------------------------
(***************************************************************************)
(* The tables.  A name is looked up in the one table that has it, and the  *)
(* tag that a builder writes is read as the instruction it stands for.     *)
(***************************************************************************)
LEMMA InOneTable ==
  ASSUME NEW tables
  PROVE  /\ DOMAIN Wire!OneTable(tables) = UNION {DOMAIN tables[i] : i \in 1 .. Len(tables)}
         /\ \A i \in 1 .. Len(tables) :
              \A name \in DOMAIN tables[i] : name \in DOMAIN Wire!OneTable(tables)
         /\ \A name \in DOMAIN Wire!OneTable(tables) :
              \E i \in 1 .. Len(tables) :
                 /\ name \in DOMAIN tables[i]
                 /\ Wire!OneTable(tables)[name] = tables[i][name]
<1>1. DOMAIN Wire!OneTable(tables) = UNION {DOMAIN tables[i] : i \in 1 .. Len(tables)}
  BY DEF Wire!OneTable
<1>2. ASSUME NEW name \in DOMAIN Wire!OneTable(tables)
      PROVE  \E i \in 1 .. Len(tables) :
                 /\ name \in DOMAIN tables[i]
                 /\ Wire!OneTable(tables)[name] = tables[i][name]
  <2> DEFINE j == CHOOSE i \in 1 .. Len(tables) : name \in DOMAIN tables[i]
  <2>1. \E i \in 1 .. Len(tables) : name \in DOMAIN tables[i]
    BY <1>1
  <2>2. j \in 1 .. Len(tables) /\ name \in DOMAIN tables[j]
    BY <2>1
  <2>3. Wire!OneTable(tables)[name] = tables[j][name]
    BY <1>1 DEF Wire!OneTable
  <2> QED
    BY <2>2, <2>3
<1>3. ASSUME NEW i \in 1 .. Len(tables), NEW name \in DOMAIN tables[i]
      PROVE  name \in UNION {DOMAIN tables[k] : k \in 1 .. Len(tables)}
  BY Zenon
<1> QED
  BY <1>1, <1>2, <1>3

LEMMA PackIsRead == Wire!pack = Wire!PodTokenInstruction
BY Zenon DEF Wire!pack, Wire!PodTokenInstruction

\* A name that is packed is read back.
Packed(name) == \E i \in 1 .. Len(Wire!pack) : Wire!pack[i] = name

LEMMA ReadBack ==
  ASSUME NEW name, Packed(name)
  PROVE  Wire!PodTokenInstruction[Wire!Tag(name) + 1] = name
<1> DEFINE i == CHOOSE i \in 1 .. Len(Wire!pack) : Wire!pack[i] = name
<1>1. i \in 1 .. Len(Wire!pack) /\ Wire!pack[i] = name
  BY DEF Packed
<1>2. Wire!Tag(name) + 1 = i
  <2>1. Wire!Tag(name) = i - 1
    BY DEF Wire!Tag
  <2>2. i \in Int
    <3>1. Len(Wire!pack) \in Nat
      BY DEF Wire!pack
    <3> QED
      BY <1>1, <3>1
  <2> HIDE DEF i
  <2> QED
    BY <2>1, <2>2
<1> QED
  BY <1>1, <1>2, PackIsRead

LEMMA PackedNames ==
  \A name \in
   {"InitializeMint", "InitializeAccount", "InitializeMultisig", "Transfer", "Approve", "Revoke",
    "SetAuthority", "MintTo", "Burn", "CloseAccount", "FreezeAccount", "ThawAccount",
    "TransferChecked", "ApproveChecked", "MintToChecked", "BurnChecked", "InitializeAccount2",
    "SyncNative", "InitializeAccount3", "InitializeMultisig2", "InitializeMint2",
    "GetAccountDataSize", "InitializeImmutableOwner", "AmountToUiAmount", "UiAmountToAmount",
    "InitializeMintCloseAuthority", "TransferFeeExtension", "ConfidentialTransferExtension",
    "DefaultAccountStateExtension", "Reallocate", "MemoTransferExtension", "CreateNativeMint",
    "InitializeNonTransferableMint", "InterestBearingMintExtension", "CpiGuardExtension",
    "InitializePermanentDelegate", "TransferHookExtension", "ConfidentialTransferFeeExtension",
    "WithdrawExcessLamports", "MetadataPointerExtension", "GroupPointerExtension",
    "GroupMemberPointerExtension"} : Packed(name)
<1>1. Len(Wire!pack) = 42
  BY DEF Wire!pack
<1>2. \A i \in 1 .. 42 : Packed(Wire!pack[i])
  BY <1>1 DEF Packed
<1> QED
  BY <1>2 DEF Wire!pack

LEMMA OtherTables ==
  /\ \A name \in DOMAIN Wire!InitializeHandlers :
       Wire!OneTable(<<Wire!InitializeHandlers, Wire!LedgerHandlers>>)[name]
         = Wire!InitializeHandlers[name]
  /\ \A name \in DOMAIN Wire!LedgerHandlers :
       Wire!OneTable(<<Wire!InitializeHandlers, Wire!LedgerHandlers>>)[name]
         = Wire!LedgerHandlers[name]
<1> DEFINE one == Wire!InitializeHandlers
           two == Wire!LedgerHandlers
<1>1. DOMAIN one \cap DOMAIN two = {}
  BY DEF Wire!InitializeHandlers, Wire!LedgerHandlers
<1>2. Wire!OneTable(<<one, two>>)
        = Wire!OneTable(<<Wire!InitializeHandlers, Wire!LedgerHandlers>>)
  OBVIOUS
<1> HIDE DEF one, two
<1> DEFINE tables == <<one, two>>
<1>3. /\ Len(tables) = 2 /\ tables[1] = one /\ tables[2] = two
  OBVIOUS
<1> HIDE DEF tables
<1>4. \A i \in 1 .. Len(tables) :
        \A name \in DOMAIN tables[i] : name \in DOMAIN Wire!OneTable(tables)
  BY InOneTable
<1>5. ASSUME NEW name \in DOMAIN one \cup DOMAIN two
      PROVE  /\ name \in DOMAIN one => Wire!OneTable(tables)[name] = one[name]
             /\ name \in DOMAIN two => Wire!OneTable(tables)[name] = two[name]
  <2>1. name \in DOMAIN Wire!OneTable(tables)
    BY <1>3, <1>4
  <2>2. PICK i \in 1 .. Len(tables) : /\ name \in DOMAIN tables[i]
                                      /\ Wire!OneTable(tables)[name] = tables[i][name]
    BY <2>1, InOneTable
  <2> QED
    BY <1>1, <1>3, <2>2
<1> QED
  BY <1>2, <1>5 DEF one, two, tables

\* The instructions that stand for all those of an extension.
Extensions ==
  {"TransferFeeExtension", "ConfidentialTransferExtension",
   "ConfidentialTransferFeeExtension", "CpiGuardExtension",
   "MemoTransferExtension", "DefaultAccountStateExtension",
   "InterestBearingMintExtension", "MetadataPointerExtension",
   "GroupPointerExtension", "GroupMemberPointerExtension",
   "TransferHookExtension"}

LEMMA ReadNames ==
  /\ \A name \in Extensions : Wire!PodTokenInstruction[Wire!Tag(name) + 1] = name
  /\ \A name \in DOMAIN Wire!InitializeHandlers \cup DOMAIN Wire!LedgerHandlers :
       Wire!PodTokenInstruction[Wire!Tag(name) + 1] = name /\ name \notin Extensions
<1> DEFINE read(name) == Wire!PodTokenInstruction[Wire!Tag(name) + 1]
<1>1. \A name : Packed(name) => read(name) = name
  BY ReadBack
<1> HIDE DEF read
<1>2. /\ \A name \in Extensions : read(name) = name
      /\ \A name \in DOMAIN Wire!InitializeHandlers \cup DOMAIN Wire!LedgerHandlers :
           read(name) = name
  BY <1>1, PackedNames DEF Extensions, Wire!InitializeHandlers, Wire!LedgerHandlers
<1>3. \A name \in DOMAIN Wire!InitializeHandlers \cup DOMAIN Wire!LedgerHandlers :
        name \notin Extensions
  BY DEF Extensions, Wire!InitializeHandlers, Wire!LedgerHandlers
<1> QED
  BY <1>2, <1>3 DEF read

\* Where an instruction goes that is read as this one.
LEMMA Process ==
  ASSUME NEW sub, NEW data, NEW name, Wire!PodTokenInstruction[Wire!Tag(name) + 1] = name
  PROVE  Wire!process(Wire!Tag(name), sub, data) =
           CASE name = "TransferFeeExtension" -> Wire!TransferFeeHandlers[sub]
             [] name = "ConfidentialTransferExtension" -> Wire!ConfidentialHandlers(data)[sub]
             [] name = "ConfidentialTransferFeeExtension" -> Wire!ConfidentialFeeHandlers(data)[sub]
             [] name \in {"CpiGuardExtension", "MemoTransferExtension"} -> Wire!SwitchHandlers[sub]
             [] name \in {"DefaultAccountStateExtension", "InterestBearingMintExtension",
                  "MetadataPointerExtension", "GroupPointerExtension",
                  "GroupMemberPointerExtension", "TransferHookExtension"} -> Wire!MintHandlers[sub]
             [] OTHER -> Wire!OneTable(<<Wire!InitializeHandlers, Wire!LedgerHandlers>>)[name]
BY DEF Wire!process

LEMMA InitializeDispatched ==
  ASSUME NEW sub, NEW data, NEW name \in DOMAIN Wire!InitializeHandlers
  PROVE  Wire!process(Wire!Tag(name), sub, data) = Wire!InitializeHandlers[name]
<1>1. Wire!PodTokenInstruction[Wire!Tag(name) + 1] = name /\ name \notin Extensions
  BY ReadNames
<1>2. Wire!process(Wire!Tag(name), sub, data)
        = Wire!OneTable(<<Wire!InitializeHandlers, Wire!LedgerHandlers>>)[name]
  BY <1>1, Process DEF Extensions
<1> QED
  BY <1>2, OtherTables

LEMMA LedgerDispatched ==
  ASSUME NEW sub, NEW data, NEW name \in DOMAIN Wire!LedgerHandlers
  PROVE  Wire!process(Wire!Tag(name), sub, data) = Wire!LedgerHandlers[name]
<1>1. Wire!PodTokenInstruction[Wire!Tag(name) + 1] = name /\ name \notin Extensions
  BY ReadNames
<1>2. Wire!process(Wire!Tag(name), sub, data)
        = Wire!OneTable(<<Wire!InitializeHandlers, Wire!LedgerHandlers>>)[name]
  BY <1>1, Process DEF Extensions
<1> QED
  BY <1>2, OtherTables

LEMMA ExtensionsDispatched ==
  ASSUME NEW sub, NEW data
  PROVE  /\ Wire!process(Wire!Tag("TransferFeeExtension"), sub, data)
              = Wire!TransferFeeHandlers[sub]
         /\ Wire!process(Wire!Tag("ConfidentialTransferExtension"), sub, data)
              = Wire!ConfidentialHandlers(data)[sub]
         /\ Wire!process(Wire!Tag("ConfidentialTransferFeeExtension"), sub, data)
              = Wire!ConfidentialFeeHandlers(data)[sub]
BY ReadNames, Process DEF Extensions

LEMMA FieldsDispatched ==
  ASSUME NEW sub, NEW data
  PROVE  /\ \A name \in {"CpiGuardExtension", "MemoTransferExtension"} :
              Wire!process(Wire!Tag(name), sub, data) = Wire!SwitchHandlers[sub]
         /\ \A name \in {"DefaultAccountStateExtension", "InterestBearingMintExtension",
                          "MetadataPointerExtension", "GroupPointerExtension",
                          "GroupMemberPointerExtension", "TransferHookExtension"} :
              Wire!process(Wire!Tag(name), sub, data) = Wire!MintHandlers[sub]
BY ReadNames, Process DEF Extensions

-----------------------------------------------------------------------------
(***************************************************************************)
(* Every builder fits its handler.                                         *)
(***************************************************************************)
\* What Build writes into the data of an instruction.
DataOf(c) ==
  [offset |-> c.offset, num_token_accounts |-> c.sources, close |-> c.close,
   fee |-> c.builder \in Wire!OnFeeMint, ready |-> c.ready]

Asked(c) == c \in Wire!Calls /\ Wire!Sensible(c) /\ ~Wire!refused(c)

Accepted(c, built) ==
  /\ Packed(built.tag)
  /\ Suits(Wire!process(Wire!Tag(built.tag), built.sub, DataOf(c)), built.accounts,
           c.signers, c.sources, built.sub)

\* One account and what it is taken for.
Pair(take, meta) == take \in Takes /\ meta \in Metas /\ Will(take, meta)

LEMMA Pairs ==
  /\ \A role \in Roles : /\ Pair(Wire!Writes(role), Wire!W(role))
                         /\ Pair(Wire!Reads(role), Wire!W(role))
                         /\ Pair(Wire!Reads(role), Wire!R(role))
  /\ Pair(Wire!Take("payer", TRUE, "own"), Wire!AccountMeta("payer", TRUE, TRUE))
BY DEF Pair, Will, Wire!Writes, Wire!Reads, Wire!W, Wire!R, Wire!Take, Wire!AccountMeta, Takes,
       Metas, Roles

LEMMA FitsOne ==
  ASSUME NEW t1, NEW m1, Pair(t1, m1)
  PROVE  Fits(<<t1>>, <<m1>>)
<1> DEFINE t == <<t1>> m == <<m1>>
<1>1. t \in Seq(Takes) /\ m \in Seq(Metas) /\ Len(t) = 1 /\ Len(m) = 1 /\ t[1] = t1 /\ m[1] = m1
  BY DEF Pair
<1> HIDE DEF t, m
<1>2. Fits(t, m)
  BY <1>1 DEF Fits, Pair
<1> QED
  BY <1>2 DEF t, m

LEMMA FitsTwo ==
  ASSUME NEW t1, NEW m1, NEW t2, NEW m2, Pair(t1, m1), Pair(t2, m2)
  PROVE  Fits(<<t1, t2>>, <<m1, m2>>)
<1> DEFINE t == <<t1, t2>> m == <<m1, m2>>
<1>1. /\ t \in Seq(Takes) /\ m \in Seq(Metas) /\ Len(t) = 2 /\ Len(m) = 2
      /\ t[1] = t1 /\ t[2] = t2 /\ m[1] = m1 /\ m[2] = m2
  BY DEF Pair
<1> HIDE DEF t, m
<1>2. Fits(t, m)
  BY <1>1 DEF Fits, Pair
<1> QED
  BY <1>2 DEF t, m

LEMMA FitsThree ==
  ASSUME NEW t1, NEW m1, NEW t2, NEW m2, NEW t3, NEW m3,
         Pair(t1, m1), Pair(t2, m2), Pair(t3, m3)
  PROVE  Fits(<<t1, t2, t3>>, <<m1, m2, m3>>)
<1> DEFINE t == <<t1, t2, t3>> m == <<m1, m2, m3>>
<1>1. /\ t \in Seq(Takes) /\ m \in Seq(Metas) /\ Len(t) = 3 /\ Len(m) = 3
      /\ t[1] = t1 /\ t[2] = t2 /\ t[3] = t3 /\ m[1] = m1 /\ m[2] = m2 /\ m[3] = m3
  BY DEF Pair
<1> HIDE DEF t, m
<1>2. Fits(t, m)
  BY <1>1 DEF Fits, Pair
<1> QED
  BY <1>2 DEF t, m

LEMMA FitsFour ==
  ASSUME NEW t1, NEW m1, NEW t2, NEW m2, NEW t3, NEW m3, NEW t4, NEW m4,
         Pair(t1, m1), Pair(t2, m2), Pair(t3, m3), Pair(t4, m4)
  PROVE  Fits(<<t1, t2, t3, t4>>, <<m1, m2, m3, m4>>)
<1> DEFINE t == <<t1, t2, t3, t4>> m == <<m1, m2, m3, m4>>
<1>1. /\ t \in Seq(Takes) /\ m \in Seq(Metas) /\ Len(t) = 4 /\ Len(m) = 4
      /\ t[1] = t1 /\ t[2] = t2 /\ t[3] = t3 /\ t[4] = t4
      /\ m[1] = m1 /\ m[2] = m2 /\ m[3] = m3 /\ m[4] = m4
  BY DEF Pair
<1> HIDE DEF t, m
<1>2. Fits(t, m)
  BY <1>1 DEF Fits, Pair
<1> QED
  BY <1>2 DEF t, m

\* Longer lists, put together from shorter ones.
LEMMA FitsBoth ==
  ASSUME NEW t1, NEW m1, NEW t2, NEW m2, Fits(t1, m1), Fits(t2, m2)
  PROVE  Fits(t1 \o t2, m1 \o m2)
<1> DEFINE t == t1 \o t2 m == m1 \o m2
<1>1. /\ t1 \in Seq(Takes) /\ t2 \in Seq(Takes) /\ m1 \in Seq(Metas) /\ m2 \in Seq(Metas)
      /\ Len(m1) = Len(t1) /\ Len(m2) = Len(t2)
      /\ \A i \in 1 .. Len(t1) : Will(t1[i], m1[i])
      /\ \A i \in 1 .. Len(t2) : Will(t2[i], m2[i])
  BY DEF Fits
<1>2. /\ t \in Seq(Takes) /\ Len(t) = Len(t1) + Len(t2)
      /\ \A i \in 1 .. Len(t1) : t[i] = t1[i]
      /\ \A i \in Len(t1) + 1 .. Len(t1) + Len(t2) : t[i] = t2[i - Len(t1)]
      /\ Len(t1) \in Nat /\ Len(t2) \in Nat
  BY <1>1
<1>3. /\ m \in Seq(Metas) /\ Len(m) = Len(m1) + Len(m2)
      /\ \A i \in 1 .. Len(m1) : m[i] = m1[i]
      /\ \A i \in Len(m1) + 1 .. Len(m1) + Len(m2) : m[i] = m2[i - Len(m1)]
  <2>1. Concat(m, m1, m2)
    BY <1>1 DEF Concat
  <2> HIDE DEF m
  <2> QED
    BY <2>1, ListsJoined
<1> HIDE DEF t, m
<1>4. ASSUME NEW i \in 1 .. Len(t1) + Len(t2) PROVE Will(t[i], m[i])
  <2>1. CASE i \in 1 .. Len(t1)
    BY <1>1, <1>2, <1>3, <2>1
  <2>2. CASE i \notin 1 .. Len(t1)
    <3>1. i \in Len(t1) + 1 .. Len(t1) + Len(t2) /\ i - Len(t1) \in 1 .. Len(t2)
      BY <1>2, <2>2
    <3> QED
      BY <1>1, <1>2, <1>3, <3>1
  <2> QED
    BY <2>1, <2>2
<1>5. Fits(t, m)
  BY <1>1, <1>2, <1>3, <1>4 DEF Fits
<1> QED
  BY <1>5 DEF t, m

LEMMA Suited ==
  ASSUME NEW takes, NEW listed, Fits(takes, listed), NEW n, NEW k, NEW sub
  PROVE  /\ Suits(Wire!Free(takes), listed, n, k, sub)
         /\ Suits(Wire!Owned(takes), listed \o Wire!authority(n), n, k, sub)
         /\ Suits(Wire!H(takes, "members"), listed \o members(n), n, k, sub)
         /\ Suits(Wire!H(takes, "sources"), listed \o Wire!sources(k), n, k, sub)
         /\ Suits(Wire!H(Append(takes, Owns), "signers_then_sources"),
                  listed \o Wire!authority(n) \o Wire!sources(k), n, k, sub)
         /\ sub \in {"UpdateMint", "ApproveAccount"} =>
              Suits(Wire!Free(Append(takes, Signs)), listed \o Wire!authority(n), n, k, sub)
<1>1. /\ Shape(Wire!Free(takes), listed, n, k, sub, takes, listed)
      /\ Shape(Wire!Owned(takes), listed \o Wire!authority(n), n, k, sub, takes, listed)
      /\ Shape(Wire!H(takes, "members"), listed \o members(n), n, k, sub, takes, listed)
      /\ Shape(Wire!H(takes, "sources"), listed \o Wire!sources(k), n, k, sub, takes, listed)
      /\ Shape(Wire!H(Append(takes, Owns), "signers_then_sources"),
               listed \o Wire!authority(n) \o Wire!sources(k), n, k, sub, takes, listed)
      /\ sub \in {"UpdateMint", "ApproveAccount"} =>
           Shape(Wire!Free(Append(takes, Signs)), listed \o Wire!authority(n), n, k, sub,
                 takes, listed)
  BY Zenon DEF Shape
<1> QED
  BY <1>1 DEF Suits

\* Lists of what is taken, written in other ways.
LEMMA Lists ==
  ASSUME NEW a \in Takes, NEW b \in Takes, NEW c \in Takes
  PROVE  /\ <<a>> \o <<>> \o <<b>> = <<a, b>>
         /\ <<a>> \o <<b>> \o <<c>> = <<a, b, c>>
         /\ Append(<<a>>, b) = <<a, b>>
         /\ Append(<<a, b>>, c) = <<a, b, c>>
<1>1. ASSUME NEW s \in Seq(Takes), NEW t \in Seq(Takes), Len(s) = Len(t),
             \A i \in 1 .. Len(s) : s[i] = t[i]
      PROVE  s = t
  BY <1>1
<1>2. <<a>> \o <<b>> = <<a, b>> /\ <<a>> \o <<>> = <<a>>
  <2> DEFINE s == <<a>> \o <<b>> t == <<a, b>>
  <2>1. /\ s \in Seq(Takes) /\ t \in Seq(Takes) /\ Len(s) = 2 /\ Len(t) = 2
        /\ s[1] = a /\ s[2] = b /\ t[1] = a /\ t[2] = b
    OBVIOUS
  <2> HIDE DEF s, t
  <2>2. s = t
    BY <2>1
  <2>3. <<a>> \o <<>> = <<a>>
    BY SMT
  <2> QED
    BY <2>2, <2>3 DEF s, t
<1>3. <<a, b>> \o <<c>> = <<a, b, c>>
  <2> DEFINE s == <<a, b>> \o <<c>> t == <<a, b, c>>
  <2>1. /\ s \in Seq(Takes) /\ t \in Seq(Takes) /\ Len(s) = 3 /\ Len(t) = 3
        /\ s[1] = a /\ s[2] = b /\ s[3] = c /\ t[1] = a /\ t[2] = b /\ t[3] = c
    OBVIOUS
  <2> HIDE DEF s, t
  <2>2. s = t
    BY <2>1
  <2> QED
    BY <2>2 DEF s, t
<1>4. Append(<<a>>, b) = <<a, b>>
  <2> DEFINE s == Append(<<a>>, b) t == <<a, b>>
  <2>1. /\ s \in Seq(Takes) /\ t \in Seq(Takes) /\ Len(s) = 2 /\ Len(t) = 2
        /\ s[1] = a /\ s[2] = b /\ t[1] = a /\ t[2] = b
    OBVIOUS
  <2> HIDE DEF s, t
  <2>2. s = t
    BY <2>1
  <2> QED
    BY <2>2 DEF s, t
<1>5. Append(<<a, b>>, c) = <<a, b, c>>
  <2> DEFINE s == Append(<<a, b>>, c) t == <<a, b, c>>
  <2>1. /\ s \in Seq(Takes) /\ t \in Seq(Takes) /\ Len(s) = 3 /\ Len(t) = 3
        /\ s[1] = a /\ s[2] = b /\ s[3] = c /\ t[1] = a /\ t[2] = b /\ t[3] = c
    OBVIOUS
  <2> HIDE DEF s, t
  <2>2. s = t
    BY <2>1
  <2> QED
    BY <2>2 DEF s, t
<1>6. <<a>> \o <<b>> \o <<c>> = <<a, b, c>> /\ <<a>> \o <<>> \o <<b>> = <<a, b>>
  BY <1>2, <1>3, Zenon
<1> QED
  BY <1>4, <1>5, <1>6

\* An instruction is decoded as the one that was packed and reaches this handler.
Handles(c, tag, sub, handler) ==
  Packed(tag) /\ Wire!process(Wire!Tag(tag), sub, DataOf(c)) = handler

LEMMA Written ==
  ASSUME NEW tag, NEW sub, NEW given
  PROVE  /\ Wire!E(tag, sub, given).tag = tag /\ Wire!E(tag, sub, given).sub = sub
         /\ Wire!E(tag, sub, given).accounts = given
BY DEF Wire!E

LEMMA FreeAccepted ==
  ASSUME NEW c, NEW tag, NEW sub, NEW takes, NEW listed, Fits(takes, listed),
         Handles(c, tag, sub, Wire!Free(takes))
  PROVE  Accepted(c, Wire!E(tag, sub, listed))
BY Suited, Written DEF Accepted, Handles

LEMMA OwnedAccepted ==
  ASSUME NEW c, NEW tag, NEW sub, NEW takes, NEW listed, Fits(takes, listed),
         Handles(c, tag, sub, Wire!Owned(takes))
  PROVE  Accepted(c, Wire!E(tag, sub, listed \o Wire!authority(c.signers)))
BY Suited, Written DEF Accepted, Handles

LEMMA MembersAccepted ==
  ASSUME NEW c, NEW tag, NEW sub, NEW takes, NEW listed, Fits(takes, listed),
         Handles(c, tag, sub, Wire!H(takes, "members"))
  PROVE  Accepted(c, Wire!E(tag, sub, listed \o members(c.signers)))
BY Suited, Written DEF Accepted, Handles

LEMMA SourcesAccepted ==
  ASSUME NEW c, NEW tag, NEW sub, NEW takes, NEW listed, Fits(takes, listed),
         Handles(c, tag, sub, Wire!H(takes, "sources"))
  PROVE  Accepted(c, Wire!E(tag, sub, listed \o Wire!sources(c.sources)))
BY Suited, Written DEF Accepted, Handles

LEMMA SignersAccepted ==
  ASSUME NEW c, NEW tag, NEW sub, NEW takes, NEW listed, Fits(takes, listed),
         Handles(c, tag, sub, Wire!H(Append(takes, Owns), "signers_then_sources"))
  PROVE  Accepted(c, Wire!E(tag, sub, listed \o Wire!authority(c.signers)
                                        \o Wire!sources(c.sources)))
BY Suited, Written DEF Accepted, Handles

LEMMA UnsignedAccepted ==
  ASSUME NEW c, NEW tag, NEW sub \in {"UpdateMint", "ApproveAccount"}, NEW takes, NEW listed,
         Fits(takes, listed), Handles(c, tag, sub, Wire!Free(Append(takes, Signs)))
  PROVE  Accepted(c, Wire!E(tag, sub, listed \o Wire!authority(c.signers)))
BY Suited, Written DEF Accepted, Handles

\* Whatever a table of builders has fits its handler.
Table(c, builders) == \A b \in DOMAIN builders : Accepted(c, builders[b])

LEMMA TableNames ==
  /\ \A name \in DOMAIN Wire!InitializeHandlers : Packed(name)
  /\ \A name \in DOMAIN Wire!LedgerHandlers : Packed(name)
BY PackedNames DEF Wire!InitializeHandlers, Wire!LedgerHandlers

\* What the handlers of Processor::process take.
LEMMA InitializeHandle ==
  ASSUME NEW c
  PROVE  /\ Handles(c, "InitializeMint", "", Wire!Free(<<Wire!Writes("mint"),
                     Wire!Reads("rent")>>))
         /\ Handles(c, "InitializeMint2", "", Wire!Free(<<Wire!Writes("mint")>>))
         /\ Handles(c, "InitializeAccount", "", Wire!Free(<<Wire!Writes("account"),
                     Wire!Reads("mint"), Wire!Reads("owner"), Wire!Reads("rent")>>))
         /\ Handles(c, "InitializeAccount2", "", Wire!Free(<<Wire!Writes("account"),
                     Wire!Reads("mint"), Wire!Reads("rent")>>))
         /\ Handles(c, "InitializeAccount3", "", Wire!Free(<<Wire!Writes("account"),
                     Wire!Reads("mint")>>))
         /\ Handles(c, "InitializeMultisig", "", Wire!H(<<Wire!Writes("multisig"),
                     Wire!Reads("rent")>>, "members"))
         /\ Handles(c, "InitializeMultisig2", "", Wire!H(<<Wire!Writes("multisig")>>, "members"))
         /\ Handles(c, "InitializeMintCloseAuthority", "", Wire!Free(<<Wire!Writes("mint")>>))
         /\ Handles(c, "InitializeImmutableOwner", "", Wire!Free(<<Wire!Writes("account")>>))
         /\ Handles(c, "CreateNativeMint", "", Wire!Free(<<Wire!Take("payer", TRUE, "own"),
                     Wire!Writes("native_mint"), Wire!Reads("system_program")>>))
         /\ Handles(c, "InitializeNonTransferableMint", "", Wire!Free(<<Wire!Writes("mint")>>))
         /\ Handles(c, "InitializePermanentDelegate", "", Wire!Free(<<Wire!Writes("mint")>>))
<1>1. \A name \in DOMAIN Wire!InitializeHandlers :
        Handles(c, name, "", Wire!InitializeHandlers[name])
  <2>1. \A name \in DOMAIN Wire!InitializeHandlers :
          Wire!process(Wire!Tag(name), "", DataOf(c)) = Wire!InitializeHandlers[name]
    BY InitializeDispatched
  <2> QED
    BY <2>1, TableNames DEF Handles
<1> QED
  BY <1>1 DEF Wire!InitializeHandlers

LEMMA TransferTakes ==
  /\ Wire!process_transfer(FALSE)
       = Wire!Owned(<<Wire!Writes("source"), Wire!Writes("destination")>>)
  /\ Wire!process_transfer(TRUE)
       = Wire!Owned(<<Wire!Writes("source"), Wire!Reads("mint"), Wire!Writes("destination")>>)
  /\ Wire!process_approve(FALSE)
       = Wire!Owned(<<Wire!Writes("source"), Wire!Reads("delegate")>>)
  /\ Wire!process_approve(TRUE)
       = Wire!Owned(<<Wire!Writes("source"), Wire!Reads("mint"), Wire!Reads("delegate")>>)
<1>1. /\ Wire!Writes("source") \in Takes /\ Wire!Writes("destination") \in Takes
      /\ Wire!Reads("mint") \in Takes /\ Wire!Reads("delegate") \in Takes
  BY Pairs DEF Pair, Roles
<1> QED
  BY <1>1, Lists DEF Wire!process_transfer, Wire!process_approve

LEMMA LedgerHandle ==
  ASSUME NEW c
  PROVE  /\ Handles(c, "Transfer", "", Wire!Owned(<<Wire!Writes("source"),
                     Wire!Writes("destination")>>))
         /\ Handles(c, "Approve", "", Wire!Owned(<<Wire!Writes("source"),
                     Wire!Reads("delegate")>>))
         /\ Handles(c, "Revoke", "", Wire!Owned(<<Wire!Writes("source")>>))
         /\ Handles(c, "SetAuthority", "", Wire!Owned(<<Wire!Writes("owned")>>))
         /\ Handles(c, "TransferChecked", "", Wire!Owned(<<Wire!Writes("source"),
                     Wire!Reads("mint"), Wire!Writes("destination")>>))
         /\ Handles(c, "ApproveChecked", "", Wire!Owned(<<Wire!Writes("source"),
                     Wire!Reads("mint"), Wire!Reads("delegate")>>))
         /\ Handles(c, "MintToChecked", "", Wire!Owned(<<Wire!Writes("mint"),
                     Wire!Writes("account")>>))
         /\ Handles(c, "BurnChecked", "", Wire!Owned(<<Wire!Writes("account"),
                     Wire!Writes("mint")>>))
         /\ Handles(c, "MintTo", "", Wire!Owned(<<Wire!Writes("mint"), Wire!Writes("account")>>))
         /\ Handles(c, "Burn", "", Wire!Owned(<<Wire!Writes("account"), Wire!Writes("mint")>>))
         /\ Handles(c, "CloseAccount", "", Wire!Owned(<<Wire!Writes("account"),
                     Wire!Writes("destination")>>))
         /\ Handles(c, "FreezeAccount", "", Wire!Owned(<<Wire!Writes("account"),
                     Wire!Reads("mint")>>))
         /\ Handles(c, "ThawAccount", "", Wire!Owned(<<Wire!Writes("account"),
                     Wire!Reads("mint")>>))
         /\ Handles(c, "SyncNative", "", Wire!Free(<<Wire!Writes("account")>>))
         /\ Handles(c, "GetAccountDataSize", "", Wire!Free(<<Wire!Reads("mint")>>))
         /\ Handles(c, "AmountToUiAmount", "", Wire!Free(<<Wire!Reads("mint")>>))
         /\ Handles(c, "UiAmountToAmount", "", Wire!Free(<<Wire!Reads("mint")>>))
         /\ Handles(c, "Reallocate", "", Wire!Owned(<<Wire!Writes("account"), Wire!Take("payer",
                     TRUE, "own"), Wire!Reads("system_program")>>))
         /\ Handles(c, "WithdrawExcessLamports", "", Wire!Owned(<<Wire!Writes("account"),
                     Wire!Writes("destination")>>))
<1>1. /\ Wire!process_transfer(FALSE)
           = Wire!Owned(<<Wire!Writes("source"), Wire!Writes("destination")>>)
      /\ Wire!process_transfer(TRUE)
           = Wire!Owned(<<Wire!Writes("source"), Wire!Reads("mint"), Wire!Writes("destination")>>)
      /\ Wire!process_approve(FALSE)
           = Wire!Owned(<<Wire!Writes("source"), Wire!Reads("delegate")>>)
      /\ Wire!process_approve(TRUE)
           = Wire!Owned(<<Wire!Writes("source"), Wire!Reads("mint"), Wire!Reads("delegate")>>)
  BY TransferTakes
<1>2. \A name \in DOMAIN Wire!LedgerHandlers : Handles(c, name, "", Wire!LedgerHandlers[name])
  <2>1. \A name \in DOMAIN Wire!LedgerHandlers :
          Wire!process(Wire!Tag(name), "", DataOf(c)) = Wire!LedgerHandlers[name]
    BY LedgerDispatched
  <2> QED
    BY <2>1, TableNames DEF Handles
<1> QED
  BY <1>1, <1>2 DEF Wire!LedgerHandlers, Wire!process_mint_to, Wire!process_burn,
                    Wire!process_toggle_freeze_account

\* The builders of instruction.rs.
LEMMA InitializeAccepted ==
  ASSUME NEW c
  PROVE  Table(c, Wire!InitializeBuilders(c.signers))
<1>1. Accepted(c, Wire!InitializeBuilders(c.signers)["initialize_mint"])
  <2>1. Wire!InitializeBuilders(c.signers)["initialize_mint"]
          = Wire!E("InitializeMint", "", <<Wire!W("mint"), Wire!R("rent")>>)
    BY DEF Wire!InitializeBuilders, Wire!I, Wire!E, members, Member
  <2> QED
    BY <2>1, FitsTwo, Pairs, InitializeHandle, FreeAccepted DEF Roles
<1>2. Accepted(c, Wire!InitializeBuilders(c.signers)["initialize_mint2"])
  <2>1. Wire!InitializeBuilders(c.signers)["initialize_mint2"]
          = Wire!E("InitializeMint2", "", <<Wire!W("mint")>>)
    BY DEF Wire!InitializeBuilders, Wire!I, Wire!E, members, Member
  <2> QED
    BY <2>1, FitsOne, Pairs, InitializeHandle, FreeAccepted DEF Roles
<1>3. Accepted(c, Wire!InitializeBuilders(c.signers)["initialize_account"])
  <2>1. Wire!InitializeBuilders(c.signers)["initialize_account"]
          = Wire!E("InitializeAccount", "", <<Wire!W("account"), Wire!R("mint"), Wire!R("owner"),
                     Wire!R("rent")>>)
    BY DEF Wire!InitializeBuilders, Wire!I, Wire!E, members, Member
  <2> QED
    BY <2>1, FitsFour, Pairs, InitializeHandle, FreeAccepted DEF Roles
<1>4. Accepted(c, Wire!InitializeBuilders(c.signers)["initialize_account2"])
  <2>1. Wire!InitializeBuilders(c.signers)["initialize_account2"]
          = Wire!E("InitializeAccount2", "", <<Wire!W("account"), Wire!R("mint"),
                     Wire!R("rent")>>)
    BY DEF Wire!InitializeBuilders, Wire!I, Wire!E, members, Member
  <2> QED
    BY <2>1, FitsThree, Pairs, InitializeHandle, FreeAccepted DEF Roles
<1>5. Accepted(c, Wire!InitializeBuilders(c.signers)["initialize_account3"])
  <2>1. Wire!InitializeBuilders(c.signers)["initialize_account3"]
          = Wire!E("InitializeAccount3", "", <<Wire!W("account"), Wire!R("mint")>>)
    BY DEF Wire!InitializeBuilders, Wire!I, Wire!E, members, Member
  <2> QED
    BY <2>1, FitsTwo, Pairs, InitializeHandle, FreeAccepted DEF Roles
<1>6. Accepted(c, Wire!InitializeBuilders(c.signers)["initialize_multisig"])
  <2>1. Wire!InitializeBuilders(c.signers)["initialize_multisig"]
          = Wire!E("InitializeMultisig", "", <<Wire!W("multisig"), Wire!R("rent")>> \o
                     members(c.signers))
    BY DEF Wire!InitializeBuilders, Wire!I, Wire!E, members, Member
  <2> QED
    BY <2>1, FitsTwo, Pairs, InitializeHandle, MembersAccepted DEF Roles
<1>7. Accepted(c, Wire!InitializeBuilders(c.signers)["initialize_multisig2"])
  <2>1. Wire!InitializeBuilders(c.signers)["initialize_multisig2"]
          = Wire!E("InitializeMultisig2", "", <<Wire!W("multisig")>> \o members(c.signers))
    BY DEF Wire!InitializeBuilders, Wire!I, Wire!E, members, Member
  <2> QED
    BY <2>1, FitsOne, Pairs, InitializeHandle, MembersAccepted DEF Roles
<1>8. DOMAIN Wire!InitializeBuilders(c.signers) = {"initialize_mint", "initialize_mint2",
        "initialize_account", "initialize_account2", "initialize_account3", "initialize_multisig",
        "initialize_multisig2"}
  BY DEF Wire!InitializeBuilders
<1> QED
  BY <1>1, <1>2, <1>3, <1>4, <1>5, <1>6, <1>7, <1>8 DEF Table

LEMMA TransferAccepted ==
  ASSUME NEW c
  PROVE  Table(c, Wire!TransferBuilders(c.signers))
<1>1. Accepted(c, Wire!TransferBuilders(c.signers)["transfer"])
  <2>1. Wire!TransferBuilders(c.signers)["transfer"]
          = Wire!E("Transfer", "", <<Wire!W("source"), Wire!W("destination")>> \o
                     Wire!authority(c.signers))
    BY DEF Wire!TransferBuilders, Wire!I, Wire!E
  <2> QED
    BY <2>1, FitsTwo, Pairs, LedgerHandle, OwnedAccepted DEF Roles
<1>2. Accepted(c, Wire!TransferBuilders(c.signers)["approve"])
  <2>1. Wire!TransferBuilders(c.signers)["approve"]
          = Wire!E("Approve", "", <<Wire!W("source"), Wire!R("delegate")>> \o
                     Wire!authority(c.signers))
    BY DEF Wire!TransferBuilders, Wire!I, Wire!E
  <2> QED
    BY <2>1, FitsTwo, Pairs, LedgerHandle, OwnedAccepted DEF Roles
<1>3. Accepted(c, Wire!TransferBuilders(c.signers)["revoke"])
  <2>1. Wire!TransferBuilders(c.signers)["revoke"]
          = Wire!E("Revoke", "", <<Wire!W("source")>> \o Wire!authority(c.signers))
    BY DEF Wire!TransferBuilders, Wire!I, Wire!E
  <2> QED
    BY <2>1, FitsOne, Pairs, LedgerHandle, OwnedAccepted DEF Roles
<1>4. Accepted(c, Wire!TransferBuilders(c.signers)["set_authority"])
  <2>1. Wire!TransferBuilders(c.signers)["set_authority"]
          = Wire!E("SetAuthority", "", <<Wire!W("owned")>> \o Wire!authority(c.signers))
    BY DEF Wire!TransferBuilders, Wire!I, Wire!E
  <2> QED
    BY <2>1, FitsOne, Pairs, LedgerHandle, OwnedAccepted DEF Roles
<1>5. DOMAIN Wire!TransferBuilders(c.signers) = {"transfer", "approve", "revoke", "set_authority"}
  BY DEF Wire!TransferBuilders
<1> QED
  BY <1>1, <1>2, <1>3, <1>4, <1>5 DEF Table

LEMMA CheckedAccepted ==
  ASSUME NEW c
  PROVE  Table(c, Wire!CheckedBuilders(c.signers))
<1>1. Accepted(c, Wire!CheckedBuilders(c.signers)["transfer_checked"])
  <2>1. Wire!CheckedBuilders(c.signers)["transfer_checked"]
          = Wire!E("TransferChecked", "", <<Wire!W("source"), Wire!R("mint"),
                     Wire!W("destination")>> \o Wire!authority(c.signers))
    BY DEF Wire!CheckedBuilders, Wire!I, Wire!E
  <2> QED
    BY <2>1, FitsThree, Pairs, LedgerHandle, OwnedAccepted DEF Roles
<1>2. Accepted(c, Wire!CheckedBuilders(c.signers)["approve_checked"])
  <2>1. Wire!CheckedBuilders(c.signers)["approve_checked"]
          = Wire!E("ApproveChecked", "", <<Wire!W("source"), Wire!R("mint"),
                     Wire!R("delegate")>> \o Wire!authority(c.signers))
    BY DEF Wire!CheckedBuilders, Wire!I, Wire!E
  <2> QED
    BY <2>1, FitsThree, Pairs, LedgerHandle, OwnedAccepted DEF Roles
<1>3. Accepted(c, Wire!CheckedBuilders(c.signers)["mint_to_checked"])
  <2>1. Wire!CheckedBuilders(c.signers)["mint_to_checked"]
          = Wire!E("MintToChecked", "", <<Wire!W("mint"), Wire!W("account")>> \o
                     Wire!authority(c.signers))
    BY DEF Wire!CheckedBuilders, Wire!I, Wire!E
  <2> QED
    BY <2>1, FitsTwo, Pairs, LedgerHandle, OwnedAccepted DEF Roles
<1>4. Accepted(c, Wire!CheckedBuilders(c.signers)["burn_checked"])
  <2>1. Wire!CheckedBuilders(c.signers)["burn_checked"]
          = Wire!E("BurnChecked", "", <<Wire!W("account"), Wire!W("mint")>> \o
                     Wire!authority(c.signers))
    BY DEF Wire!CheckedBuilders, Wire!I, Wire!E
  <2> QED
    BY <2>1, FitsTwo, Pairs, LedgerHandle, OwnedAccepted DEF Roles
<1>5. DOMAIN Wire!CheckedBuilders(c.signers) = {"transfer_checked", "approve_checked",
        "mint_to_checked", "burn_checked"}
  BY DEF Wire!CheckedBuilders
<1> QED
  BY <1>1, <1>2, <1>3, <1>4, <1>5 DEF Table

LEMMA SupplyAccepted ==
  ASSUME NEW c
  PROVE  Table(c, Wire!SupplyBuilders(c.signers))
<1>1. Accepted(c, Wire!SupplyBuilders(c.signers)["mint_to"])
  <2>1. Wire!SupplyBuilders(c.signers)["mint_to"]
          = Wire!E("MintTo", "", <<Wire!W("mint"), Wire!W("account")>> \o
                     Wire!authority(c.signers))
    BY DEF Wire!SupplyBuilders, Wire!I, Wire!E
  <2> QED
    BY <2>1, FitsTwo, Pairs, LedgerHandle, OwnedAccepted DEF Roles
<1>2. Accepted(c, Wire!SupplyBuilders(c.signers)["burn"])
  <2>1. Wire!SupplyBuilders(c.signers)["burn"]
          = Wire!E("Burn", "", <<Wire!W("account"), Wire!W("mint")>> \o Wire!authority(c.signers))
    BY DEF Wire!SupplyBuilders, Wire!I, Wire!E
  <2> QED
    BY <2>1, FitsTwo, Pairs, LedgerHandle, OwnedAccepted DEF Roles
<1>3. Accepted(c, Wire!SupplyBuilders(c.signers)["close_account"])
  <2>1. Wire!SupplyBuilders(c.signers)["close_account"]
          = Wire!E("CloseAccount", "", <<Wire!W("account"), Wire!W("destination")>> \o
                     Wire!authority(c.signers))
    BY DEF Wire!SupplyBuilders, Wire!I, Wire!E
  <2> QED
    BY <2>1, FitsTwo, Pairs, LedgerHandle, OwnedAccepted DEF Roles
<1>4. Accepted(c, Wire!SupplyBuilders(c.signers)["freeze_account"])
  <2>1. Wire!SupplyBuilders(c.signers)["freeze_account"]
          = Wire!E("FreezeAccount", "", <<Wire!W("account"), Wire!R("mint")>> \o
                     Wire!authority(c.signers))
    BY DEF Wire!SupplyBuilders, Wire!I, Wire!E
  <2> QED
    BY <2>1, FitsTwo, Pairs, LedgerHandle, OwnedAccepted DEF Roles
<1>5. Accepted(c, Wire!SupplyBuilders(c.signers)["thaw_account"])
  <2>1. Wire!SupplyBuilders(c.signers)["thaw_account"]
          = Wire!E("ThawAccount", "", <<Wire!W("account"), Wire!R("mint")>> \o
                     Wire!authority(c.signers))
    BY DEF Wire!SupplyBuilders, Wire!I, Wire!E
  <2> QED
    BY <2>1, FitsTwo, Pairs, LedgerHandle, OwnedAccepted DEF Roles
<1>6. DOMAIN Wire!SupplyBuilders(c.signers) = {"mint_to", "burn", "close_account",
        "freeze_account", "thaw_account"}
  BY DEF Wire!SupplyBuilders
<1> QED
  BY <1>1, <1>2, <1>3, <1>4, <1>5, <1>6 DEF Table

LEMMA OtherAccepted ==
  ASSUME NEW c
  PROVE  Table(c, Wire!OtherBuilders(c.signers))
<1>1. Accepted(c, Wire!OtherBuilders(c.signers)["sync_native"])
  <2>1. Wire!OtherBuilders(c.signers)["sync_native"]
          = Wire!E("SyncNative", "", <<Wire!W("account")>>)
    BY DEF Wire!OtherBuilders, Wire!I, Wire!E
  <2> QED
    BY <2>1, FitsOne, Pairs, LedgerHandle, InitializeHandle, FreeAccepted DEF Roles
<1>2. Accepted(c, Wire!OtherBuilders(c.signers)["get_account_data_size"])
  <2>1. Wire!OtherBuilders(c.signers)["get_account_data_size"]
          = Wire!E("GetAccountDataSize", "", <<Wire!R("mint")>>)
    BY DEF Wire!OtherBuilders, Wire!I, Wire!E
  <2> QED
    BY <2>1, FitsOne, Pairs, LedgerHandle, InitializeHandle, FreeAccepted DEF Roles
<1>3. Accepted(c, Wire!OtherBuilders(c.signers)["initialize_mint_close_authority"])
  <2>1. Wire!OtherBuilders(c.signers)["initialize_mint_close_authority"]
          = Wire!E("InitializeMintCloseAuthority", "", <<Wire!W("mint")>>)
    BY DEF Wire!OtherBuilders, Wire!I, Wire!E
  <2> QED
    BY <2>1, FitsOne, Pairs, LedgerHandle, InitializeHandle, FreeAccepted DEF Roles
<1>4. Accepted(c, Wire!OtherBuilders(c.signers)["initialize_immutable_owner"])
  <2>1. Wire!OtherBuilders(c.signers)["initialize_immutable_owner"]
          = Wire!E("InitializeImmutableOwner", "", <<Wire!W("account")>>)
    BY DEF Wire!OtherBuilders, Wire!I, Wire!E
  <2> QED
    BY <2>1, FitsOne, Pairs, LedgerHandle, InitializeHandle, FreeAccepted DEF Roles
<1>5. Accepted(c, Wire!OtherBuilders(c.signers)["amount_to_ui_amount"])
  <2>1. Wire!OtherBuilders(c.signers)["amount_to_ui_amount"]
          = Wire!E("AmountToUiAmount", "", <<Wire!R("mint")>>)
    BY DEF Wire!OtherBuilders, Wire!I, Wire!E
  <2> QED
    BY <2>1, FitsOne, Pairs, LedgerHandle, InitializeHandle, FreeAccepted DEF Roles
<1>6. Accepted(c, Wire!OtherBuilders(c.signers)["ui_amount_to_amount"])
  <2>1. Wire!OtherBuilders(c.signers)["ui_amount_to_amount"]
          = Wire!E("UiAmountToAmount", "", <<Wire!R("mint")>>)
    BY DEF Wire!OtherBuilders, Wire!I, Wire!E
  <2> QED
    BY <2>1, FitsOne, Pairs, LedgerHandle, InitializeHandle, FreeAccepted DEF Roles
<1>7. Accepted(c, Wire!OtherBuilders(c.signers)["reallocate"])
  <2>1. Wire!OtherBuilders(c.signers)["reallocate"]
          = Wire!E("Reallocate", "", <<Wire!W("account"), Wire!AccountMeta("payer", TRUE, TRUE),
                     Wire!R("system_program")>> \o Wire!authority(c.signers))
    BY DEF Wire!OtherBuilders, Wire!I, Wire!E
  <2> QED
    BY <2>1, FitsThree, Pairs, LedgerHandle, InitializeHandle, OwnedAccepted DEF Roles
<1>8. Accepted(c, Wire!OtherBuilders(c.signers)["create_native_mint"])
  <2>1. Wire!OtherBuilders(c.signers)["create_native_mint"]
          = Wire!E("CreateNativeMint", "", <<Wire!AccountMeta("payer", TRUE, TRUE),
                     Wire!W("native_mint"), Wire!R("system_program")>>)
    BY DEF Wire!OtherBuilders, Wire!I, Wire!E
  <2> QED
    BY <2>1, FitsThree, Pairs, LedgerHandle, InitializeHandle, FreeAccepted DEF Roles
<1>9. Accepted(c, Wire!OtherBuilders(c.signers)["initialize_non_transferable_mint"])
  <2>1. Wire!OtherBuilders(c.signers)["initialize_non_transferable_mint"]
          = Wire!E("InitializeNonTransferableMint", "", <<Wire!W("mint")>>)
    BY DEF Wire!OtherBuilders, Wire!I, Wire!E
  <2> QED
    BY <2>1, FitsOne, Pairs, LedgerHandle, InitializeHandle, FreeAccepted DEF Roles
<1>10. Accepted(c, Wire!OtherBuilders(c.signers)["initialize_permanent_delegate"])
  <2>1. Wire!OtherBuilders(c.signers)["initialize_permanent_delegate"]
          = Wire!E("InitializePermanentDelegate", "", <<Wire!W("mint")>>)
    BY DEF Wire!OtherBuilders, Wire!I, Wire!E
  <2> QED
    BY <2>1, FitsOne, Pairs, LedgerHandle, InitializeHandle, FreeAccepted DEF Roles
<1>11. DOMAIN Wire!OtherBuilders(c.signers) = {"sync_native", "get_account_data_size",
        "initialize_mint_close_authority", "initialize_immutable_owner", "amount_to_ui_amount",
        "ui_amount_to_amount", "reallocate", "create_native_mint",
        "initialize_non_transferable_mint", "initialize_permanent_delegate"}
  BY DEF Wire!OtherBuilders
<1> QED
  BY <1>1, <1>2, <1>3, <1>4, <1>5, <1>6, <1>7, <1>8, <1>9, <1>10, <1>11 DEF Table

LEMMA ExcessAccepted ==
  ASSUME NEW c
  PROVE  Table(c, [withdraw_excess_lamports |-> Wire!withdraw_excess_lamports(c.signers)])
<1>1. Wire!withdraw_excess_lamports(c.signers)
        = Wire!E("WithdrawExcessLamports", "", <<Wire!W("account"), Wire!W("destination")>> \o
                 Wire!authority(c.signers))
  BY DEF Wire!withdraw_excess_lamports, Wire!I, Wire!E
<1>2. Accepted(c, Wire!withdraw_excess_lamports(c.signers))
  BY <1>1, FitsTwo, Pairs, LedgerHandle, OwnedAccepted DEF Roles
<1> QED
  BY <1>2 DEF Table

\* What reaches the handlers of an extension.
LEMMA ExtensionsHandle ==
  ASSUME NEW c, NEW sub
  PROVE  /\ Handles(c, "TransferFeeExtension", sub, Wire!TransferFeeHandlers[sub])
         /\ Handles(c, "ConfidentialTransferExtension", sub,
                    Wire!ConfidentialHandlers(DataOf(c))[sub])
         /\ Handles(c, "ConfidentialTransferFeeExtension", sub,
                    Wire!ConfidentialFeeHandlers(DataOf(c))[sub])
<1>1. /\ Packed("TransferFeeExtension") /\ Packed("ConfidentialTransferExtension")
      /\ Packed("ConfidentialTransferFeeExtension")
  BY PackedNames
<1> DEFINE data == DataOf(c)
<1>2. data = DataOf(c)
  OBVIOUS
<1> HIDE DEF data
<1>3. /\ Wire!process(Wire!Tag("TransferFeeExtension"), sub, data) = Wire!TransferFeeHandlers[sub]
      /\ Wire!process(Wire!Tag("ConfidentialTransferExtension"), sub, data)
           = Wire!ConfidentialHandlers(data)[sub]
      /\ Wire!process(Wire!Tag("ConfidentialTransferFeeExtension"), sub, data)
           = Wire!ConfidentialFeeHandlers(data)[sub]
  BY ExtensionsDispatched
<1> QED
  BY <1>1, <1>2, <1>3 DEF Handles

LEMMA TransferFeeHandle ==
  ASSUME NEW c
  PROVE  /\ Handles(c, "TransferFeeExtension", "InitializeTransferFeeConfig",
                     Wire!Free(<<Wire!Writes("mint")>>))
         /\ Handles(c, "TransferFeeExtension", "TransferCheckedWithFee",
                     Wire!Owned(<<Wire!Writes("source"), Wire!Reads("mint"),
                     Wire!Writes("destination")>>))
         /\ Handles(c, "TransferFeeExtension", "WithdrawWithheldTokensFromMint",
                     Wire!Owned(<<Wire!Writes("mint"), Wire!Writes("destination")>>))
         /\ Handles(c, "TransferFeeExtension", "WithdrawWithheldTokensFromAccounts",
                     Wire!H(Append(<<Wire!Reads("mint"), Wire!Writes("destination")>>, Owns),
                     "signers_then_sources"))
         /\ Handles(c, "TransferFeeExtension", "HarvestWithheldTokensToMint",
                     Wire!H(<<Wire!Writes("mint")>>, "sources"))
         /\ Handles(c, "TransferFeeExtension", "SetTransferFee",
                     Wire!Owned(<<Wire!Writes("mint")>>))
<1>1. /\ Wire!Reads("mint") \in Takes /\ Wire!Writes("destination") \in Takes /\ Owns \in Takes
  BY Pairs, AccountFacts DEF Pair, Roles
<1>2. <<Wire!Reads("mint"), Wire!Writes("destination"), Wire!validate_owner>>
        = Append(<<Wire!Reads("mint"), Wire!Writes("destination")>>, Owns)
  BY <1>1, Lists DEF Owns
<1>3. \A sub : Handles(c, "TransferFeeExtension", sub, Wire!TransferFeeHandlers[sub])
  BY ExtensionsHandle
<1>4. /\ Wire!TransferFeeHandlers["InitializeTransferFeeConfig"]
           = Wire!Free(<<Wire!Writes("mint")>>)
      /\ Wire!TransferFeeHandlers["TransferCheckedWithFee"]
           = Wire!Owned(<<Wire!Writes("source"), Wire!Reads("mint"), Wire!Writes("destination")>>)
      /\ Wire!TransferFeeHandlers["WithdrawWithheldTokensFromMint"]
           = Wire!Owned(<<Wire!Writes("mint"), Wire!Writes("destination")>>)
      /\ Wire!TransferFeeHandlers["WithdrawWithheldTokensFromAccounts"]
           = Wire!H(Append(<<Wire!Reads("mint"), Wire!Writes("destination")>>, Owns),
                    "signers_then_sources")
      /\ Wire!TransferFeeHandlers["HarvestWithheldTokensToMint"]
           = Wire!H(<<Wire!Writes("mint")>>, "sources")
      /\ Wire!TransferFeeHandlers["SetTransferFee"] = Wire!Owned(<<Wire!Writes("mint")>>)
  BY <1>2, TransferTakes DEF Wire!TransferFeeHandlers
<1> QED
  BY <1>3, <1>4

LEMMA TransferFeeAccepted ==
  ASSUME NEW c
  PROVE  Table(c, Wire!TransferFeeBuilders(c.signers, c.sources))
<1>1. Accepted(c, Wire!TransferFeeBuilders(c.signers, c.sources)["initialize_transfer_fee_config"])
  <2>1. Wire!TransferFeeBuilders(c.signers, c.sources)["initialize_transfer_fee_config"]
          = Wire!E("TransferFeeExtension", "InitializeTransferFeeConfig", <<Wire!W("mint")>>)
    BY DEF Wire!TransferFeeBuilders, Wire!E
  <2> QED
    BY <2>1, FitsOne, Pairs, TransferFeeHandle, FreeAccepted DEF Roles
<1>2. Accepted(c, Wire!TransferFeeBuilders(c.signers, c.sources)["transfer_checked_with_fee"])
  <2>1. Wire!TransferFeeBuilders(c.signers, c.sources)["transfer_checked_with_fee"]
          = Wire!E("TransferFeeExtension", "TransferCheckedWithFee", <<Wire!W("source"),
                     Wire!R("mint"), Wire!W("destination")>> \o Wire!authority(c.signers))
    BY DEF Wire!TransferFeeBuilders, Wire!E
  <2> QED
    BY <2>1, FitsThree, Pairs, TransferFeeHandle, OwnedAccepted DEF Roles
<1>3. Accepted(c, Wire!TransferFeeBuilders(c.signers, c.sources)
                 ["withdraw_withheld_tokens_from_mint"])
  <2>1. Wire!TransferFeeBuilders(c.signers, c.sources)["withdraw_withheld_tokens_from_mint"]
          = Wire!E("TransferFeeExtension", "WithdrawWithheldTokensFromMint", <<Wire!W("mint"),
                     Wire!W("destination")>> \o Wire!authority(c.signers))
    BY DEF Wire!TransferFeeBuilders, Wire!E
  <2> QED
    BY <2>1, FitsTwo, Pairs, TransferFeeHandle, OwnedAccepted DEF Roles
<1>4. Accepted(c, Wire!TransferFeeBuilders(c.signers, c.sources)
                 ["withdraw_withheld_tokens_from_accounts"])
  <2>1. Wire!TransferFeeBuilders(c.signers, c.sources)["withdraw_withheld_tokens_from_accounts"]
          = Wire!E("TransferFeeExtension", "WithdrawWithheldTokensFromAccounts", <<Wire!R("mint"),
                     Wire!W("destination")>> \o Wire!authority(c.signers) \o
                     Wire!sources(c.sources))
    BY DEF Wire!TransferFeeBuilders, Wire!E
  <2> QED
    BY <2>1, FitsTwo, Pairs, TransferFeeHandle, SignersAccepted DEF Roles
<1>5. Accepted(c, Wire!TransferFeeBuilders(c.signers, c.sources)["harvest_withheld_tokens_to_mint"])
  <2>1. Wire!TransferFeeBuilders(c.signers, c.sources)["harvest_withheld_tokens_to_mint"]
          = Wire!E("TransferFeeExtension", "HarvestWithheldTokensToMint", <<Wire!W("mint")>> \o
                     Wire!sources(c.sources))
    BY DEF Wire!TransferFeeBuilders, Wire!E
  <2> QED
    BY <2>1, FitsOne, Pairs, TransferFeeHandle, SourcesAccepted DEF Roles
<1>6. Accepted(c, Wire!TransferFeeBuilders(c.signers, c.sources)["set_transfer_fee"])
  <2>1. Wire!TransferFeeBuilders(c.signers, c.sources)["set_transfer_fee"]
          = Wire!E("TransferFeeExtension", "SetTransferFee", <<Wire!W("mint")>> \o
                     Wire!authority(c.signers))
    BY DEF Wire!TransferFeeBuilders, Wire!E
  <2> QED
    BY <2>1, FitsOne, Pairs, TransferFeeHandle, OwnedAccepted DEF Roles
<1>7. DOMAIN Wire!TransferFeeBuilders(c.signers, c.sources) = {"initialize_transfer_fee_config",
        "transfer_checked_with_fee", "withdraw_withheld_tokens_from_mint",
        "withdraw_withheld_tokens_from_accounts", "harvest_withheld_tokens_to_mint",
        "set_transfer_fee"}
  BY DEF Wire!TransferFeeBuilders
<1> QED
  BY <1>1, <1>2, <1>3, <1>4, <1>5, <1>6, <1>7 DEF Table

\* Extensions of one field; their tables differ in the names only.
LEMMA FieldHandle ==
  ASSUME NEW c
  PROVE  /\ \A tag \in {"CpiGuardExtension", "MemoTransferExtension"},
               sub \in {"Enable", "Disable"} :
              Handles(c, tag, sub, Wire!Owned(<<Wire!Writes("account")>>))
         /\ \A tag \in {"DefaultAccountStateExtension", "InterestBearingMintExtension",
                        "MetadataPointerExtension", "GroupPointerExtension",
                        "GroupMemberPointerExtension", "TransferHookExtension"} :
              /\ Handles(c, tag, "Initialize", Wire!Free(<<Wire!Writes("mint")>>))
              /\ \A sub \in {"Update", "UpdateRate"} :
                   Handles(c, tag, sub, Wire!Owned(<<Wire!Writes("mint")>>))
<1>1. /\ \A tag \in {"CpiGuardExtension", "MemoTransferExtension"} : \A sub :
           Handles(c, tag, sub, Wire!SwitchHandlers[sub])
      /\ \A tag \in {"DefaultAccountStateExtension", "InterestBearingMintExtension",
                     "MetadataPointerExtension", "GroupPointerExtension",
                     "GroupMemberPointerExtension", "TransferHookExtension"} : \A sub :
           Handles(c, tag, sub, Wire!MintHandlers[sub])
  BY FieldsDispatched, PackedNames DEF Handles
<1> QED
  BY <1>1 DEF Wire!SwitchHandlers, Wire!MintHandlers, Wire!OnAccount, Wire!OnMint

LEMMA FieldAccepted ==
  ASSUME NEW c
  PROVE  /\ \A tag \in {"CpiGuardExtension", "MemoTransferExtension"},
               sub \in {"Enable", "Disable"} :
              Accepted(c, Wire!OfAccount(tag, sub, c.signers))
         /\ \A tag \in {"DefaultAccountStateExtension", "InterestBearingMintExtension",
                        "MetadataPointerExtension", "GroupPointerExtension",
                        "GroupMemberPointerExtension", "TransferHookExtension"} :
              /\ Accepted(c, Wire!OfBlankMint(tag))
              /\ \A sub \in {"Update", "UpdateRate"} : Accepted(c, Wire!OfMint(tag, sub, c.signers))
<1>1. /\ Fits(<<Wire!Writes("account")>>, <<Wire!W("account")>>)
      /\ Fits(<<Wire!Writes("mint")>>, <<Wire!W("mint")>>)
  BY FitsOne, Pairs DEF Roles
<1>2. ASSUME NEW tag \in {"CpiGuardExtension", "MemoTransferExtension"},
             NEW sub \in {"Enable", "Disable"}
      PROVE  Accepted(c, Wire!OfAccount(tag, sub, c.signers))
  BY <1>1, FieldHandle, OwnedAccepted DEF Wire!OfAccount
<1>3. ASSUME NEW tag \in {"DefaultAccountStateExtension", "InterestBearingMintExtension",
                          "MetadataPointerExtension", "GroupPointerExtension",
                          "GroupMemberPointerExtension", "TransferHookExtension"}
      PROVE  /\ Accepted(c, Wire!OfBlankMint(tag))
             /\ \A sub \in {"Update", "UpdateRate"} : Accepted(c, Wire!OfMint(tag, sub, c.signers))
  BY <1>1, FieldHandle, FreeAccepted, OwnedAccepted DEF Wire!OfBlankMint, Wire!OfMint
<1> QED
  BY <1>2, <1>3

LEMMA OneFieldAccepted ==
  ASSUME NEW c
  PROVE  Table(c, Wire!OneFieldBuilders(c.signers))
<1> DEFINE tables ==
  <<Wire!CpiGuardBuilders(c.signers),
    Wire!MemoTransferBuilders(c.signers),
    Wire!DefaultAccountStateBuilders(c.signers),
    Wire!InterestBearingMintBuilders(c.signers),
    Wire!MetadataPointerBuilders(c.signers),
    Wire!GroupPointerBuilders(c.signers),
    Wire!GroupMemberPointerBuilders(c.signers),
    Wire!TransferHookBuilders(c.signers)>>
<1>1. Table(c, Wire!CpiGuardBuilders(c.signers))
  BY FieldAccepted DEF Table, Wire!CpiGuardBuilders
<1>2. Table(c, Wire!MemoTransferBuilders(c.signers))
  BY FieldAccepted DEF Table, Wire!MemoTransferBuilders
<1>3. Table(c, Wire!DefaultAccountStateBuilders(c.signers))
  BY FieldAccepted DEF Table, Wire!DefaultAccountStateBuilders
<1>4. Table(c, Wire!InterestBearingMintBuilders(c.signers))
  BY FieldAccepted DEF Table, Wire!InterestBearingMintBuilders
<1>5. Table(c, Wire!MetadataPointerBuilders(c.signers))
  BY FieldAccepted DEF Table, Wire!MetadataPointerBuilders
<1>6. Table(c, Wire!GroupPointerBuilders(c.signers))
  BY FieldAccepted DEF Table, Wire!GroupPointerBuilders
<1>7. Table(c, Wire!GroupMemberPointerBuilders(c.signers))
  BY FieldAccepted DEF Table, Wire!GroupMemberPointerBuilders
<1>8. Table(c, Wire!TransferHookBuilders(c.signers))
  BY FieldAccepted DEF Table, Wire!TransferHookBuilders
<1>9. \A i \in 1 .. Len(tables) : Table(c, tables[i])
  BY <1>1, <1>2, <1>3, <1>4, <1>5, <1>6, <1>7, <1>8
<1>10. Wire!OneFieldBuilders(c.signers) = Wire!OneTable(tables)
  BY DEF Wire!OneFieldBuilders
<1> HIDE DEF tables
<1>11. \A name \in DOMAIN Wire!OneTable(tables) :
         \E i \in 1 .. Len(tables) :
           name \in DOMAIN tables[i] /\ Wire!OneTable(tables)[name] = tables[i][name]
  BY InOneTable
<1>12. \A name \in DOMAIN Wire!OneTable(tables) : Accepted(c, Wire!OneTable(tables)[name])
  BY <1>9, <1>11 DEF Table
<1> QED
  BY <1>10, <1>12 DEF Table

LEMMA ProofFits ==
  ASSUME NEW offset
  PROVE  Fits(Wire!Proof(offset), Wire!proof_location(offset))
BY FitsOne, Pairs DEF Wire!Proof, Wire!proof_location, Roles

\* The confidential extensions.
LEMMA ConfidentialHandle ==
  ASSUME NEW c
  PROVE  /\ Handles(c, "ConfidentialTransferExtension", "InitializeMint",
                     Wire!Free(<<Wire!Writes("mint")>>))
         /\ Handles(c, "ConfidentialTransferExtension", "UpdateMint",
                     Wire!Free(Append(<<Wire!Writes("mint")>>, Signs)))
         /\ Handles(c, "ConfidentialTransferExtension", "ConfigureAccount",
                     Wire!Owned(<<Wire!Writes("account"), Wire!Reads("mint")>> \o
                     Wire!Proof(c.offset)))
         /\ Handles(c, "ConfidentialTransferExtension", "ApproveAccount",
                     Wire!Free(Append(<<Wire!Writes("account"), Wire!Reads("mint")>>, Signs)))
         /\ Handles(c, "ConfidentialTransferExtension", "EmptyAccount",
                     Wire!Owned(<<Wire!Writes("account")>> \o Wire!Proof(c.offset)))
         /\ Handles(c, "ConfidentialTransferExtension", "Deposit",
                     Wire!Owned(<<Wire!Writes("account"), Wire!Reads("mint")>>))
         /\ Handles(c, "ConfidentialTransferExtension", "Withdraw",
                     Wire!Owned(<<Wire!Writes("account"), Wire!Reads("mint")>> \o
                     Wire!Proof(c.offset)))
         /\ Handles(c, "ConfidentialTransferExtension", "ApplyPendingBalance",
                     Wire!Owned(<<Wire!Writes("account")>>))
         /\ Handles(c, "ConfidentialTransferExtension", "EnableConfidentialCredits",
                     Wire!Owned(<<Wire!Writes("account")>>))
         /\ Handles(c, "ConfidentialTransferExtension", "DisableConfidentialCredits",
                     Wire!Owned(<<Wire!Writes("account")>>))
         /\ Handles(c, "ConfidentialTransferExtension", "EnableNonConfidentialCredits",
                     Wire!Owned(<<Wire!Writes("account")>>))
         /\ Handles(c, "ConfidentialTransferExtension", "DisableNonConfidentialCredits",
                     Wire!Owned(<<Wire!Writes("account")>>))
         /\ Handles(c, "ConfidentialTransferExtension", "Transfer",
                     Wire!Owned(<<Wire!Writes("source"), Wire!Reads("mint"),
                     Wire!Writes("destination")>> \o Wire!Proof(c.offset)))
<1>1. /\ Wire!Writes("account") \in Takes /\ Wire!Writes("mint") \in Takes
      /\ Wire!Reads("mint") \in Takes /\ Signs \in Takes
  BY Pairs, AccountFacts DEF Pair, Roles
<1>2. /\ <<Wire!Writes("mint"), Wire!Signs("authority")>> = Append(<<Wire!Writes("mint")>>, Signs)
      /\ <<Wire!Writes("account"), Wire!Reads("mint"), Wire!Signs("authority")>>
           = Append(<<Wire!Writes("account"), Wire!Reads("mint")>>, Signs)
  BY <1>1, Lists DEF Signs
<1>3. \A sub : Handles(c, "ConfidentialTransferExtension", sub,
                       Wire!ConfidentialHandlers(DataOf(c))[sub])
  BY ExtensionsHandle
<1>4. DataOf(c).offset = c.offset
  BY DEF DataOf
<1>5. /\ Wire!ConfidentialHandlers(DataOf(c))["InitializeMint"]
           = Wire!Free(<<Wire!Writes("mint")>>)
      /\ Wire!ConfidentialHandlers(DataOf(c))["UpdateMint"]
           = Wire!Free(Append(<<Wire!Writes("mint")>>, Signs))
      /\ Wire!ConfidentialHandlers(DataOf(c))["ConfigureAccount"]
           = Wire!Owned(<<Wire!Writes("account"), Wire!Reads("mint")>> \o Wire!Proof(c.offset))
      /\ Wire!ConfidentialHandlers(DataOf(c))["ApproveAccount"]
           = Wire!Free(Append(<<Wire!Writes("account"), Wire!Reads("mint")>>, Signs))
      /\ Wire!ConfidentialHandlers(DataOf(c))["EmptyAccount"]
           = Wire!Owned(<<Wire!Writes("account")>> \o Wire!Proof(c.offset))
      /\ Wire!ConfidentialHandlers(DataOf(c))["Deposit"]
           = Wire!Owned(<<Wire!Writes("account"), Wire!Reads("mint")>>)
      /\ Wire!ConfidentialHandlers(DataOf(c))["Withdraw"]
           = Wire!Owned(<<Wire!Writes("account"), Wire!Reads("mint")>> \o Wire!Proof(c.offset))
      /\ Wire!ConfidentialHandlers(DataOf(c))["ApplyPendingBalance"]
           = Wire!Owned(<<Wire!Writes("account")>>)
      /\ Wire!ConfidentialHandlers(DataOf(c))["EnableConfidentialCredits"]
           = Wire!Owned(<<Wire!Writes("account")>>)
      /\ Wire!ConfidentialHandlers(DataOf(c))["DisableConfidentialCredits"]
           = Wire!Owned(<<Wire!Writes("account")>>)
      /\ Wire!ConfidentialHandlers(DataOf(c))["EnableNonConfidentialCredits"]
           = Wire!Owned(<<Wire!Writes("account")>>)
      /\ Wire!ConfidentialHandlers(DataOf(c))["DisableNonConfidentialCredits"]
           = Wire!Owned(<<Wire!Writes("account")>>)
      /\ Wire!ConfidentialHandlers(DataOf(c))["Transfer"]
           = Wire!Owned(<<Wire!Writes("source"), Wire!Reads("mint"), Wire!Writes("destination")>>
                          \o Wire!Proof(c.offset))
  BY <1>2, <1>4 DEF Wire!ConfidentialHandlers, Wire!OnAccount
<1> QED
  BY <1>3, <1>5

LEMMA ConfigureAccepted ==
  ASSUME NEW c
  PROVE  Table(c, Wire!ConfigureBuilders(c.signers, c.offset))
<1>1. Accepted(c, Wire!ConfigureBuilders(c.signers, c.offset)["confidential_initialize_mint"])
  <2>1. Wire!ConfigureBuilders(c.signers, c.offset)["confidential_initialize_mint"]
          = Wire!E("ConfidentialTransferExtension", "InitializeMint", <<Wire!W("mint")>>)
    BY DEF Wire!ConfigureBuilders, Wire!C, Wire!E
  <2> QED
    BY <2>1, FitsOne, Pairs, ConfidentialHandle, FreeAccepted DEF Roles
<1>2. Accepted(c, Wire!ConfigureBuilders(c.signers, c.offset)["update_mint"])
  <2>1. Wire!ConfigureBuilders(c.signers, c.offset)["update_mint"]
          = Wire!E("ConfidentialTransferExtension", "UpdateMint", <<Wire!W("mint")>> \o
                     Wire!authority(c.signers))
    BY DEF Wire!ConfigureBuilders, Wire!C, Wire!E
  <2> QED
    BY <2>1, FitsOne, Pairs, ConfidentialHandle, UnsignedAccepted DEF Roles
<1>3. Accepted(c, Wire!ConfigureBuilders(c.signers, c.offset)["inner_configure_account"])
  <2>1. Wire!ConfigureBuilders(c.signers, c.offset)["inner_configure_account"]
          = Wire!E("ConfidentialTransferExtension", "ConfigureAccount", <<Wire!W("account"),
                     Wire!R("mint")>> \o Wire!proof_location(c.offset) \o
                     Wire!authority(c.signers))
    BY DEF Wire!ConfigureBuilders, Wire!C, Wire!E
  <2>2. Fits(<<Wire!Writes("account"), Wire!Reads("mint")>>, <<Wire!W("account"), Wire!R("mint")>>)
    BY FitsTwo, Pairs DEF Roles
  <2> QED
    BY <2>1, <2>2, FitsBoth, ProofFits, ConfidentialHandle, OwnedAccepted
<1>4. DOMAIN Wire!ConfigureBuilders(c.signers, c.offset) = {"confidential_initialize_mint",
        "update_mint", "inner_configure_account"}
  BY DEF Wire!ConfigureBuilders
<1> QED
  BY <1>1, <1>2, <1>3, <1>4 DEF Table

LEMMA ApproveAccepted ==
  ASSUME NEW c
  PROVE  Table(c, Wire!ApproveBuilders(c.signers, c.offset))
<1>1. Accepted(c, Wire!ApproveBuilders(c.signers, c.offset)["approve_account"])
  <2>1. Wire!ApproveBuilders(c.signers, c.offset)["approve_account"]
          = Wire!E("ConfidentialTransferExtension", "ApproveAccount", <<Wire!W("account"),
                     Wire!R("mint")>> \o Wire!authority(c.signers))
    BY DEF Wire!ApproveBuilders, Wire!C, Wire!E
  <2> QED
    BY <2>1, FitsTwo, Pairs, ConfidentialHandle, UnsignedAccepted DEF Roles
<1>2. Accepted(c, Wire!ApproveBuilders(c.signers, c.offset)["inner_empty_account"])
  <2>1. Wire!ApproveBuilders(c.signers, c.offset)["inner_empty_account"]
          = Wire!E("ConfidentialTransferExtension", "EmptyAccount", <<Wire!W("account")>> \o
                     Wire!proof_location(c.offset) \o Wire!authority(c.signers))
    BY DEF Wire!ApproveBuilders, Wire!C, Wire!E
  <2>2. Fits(<<Wire!Writes("account")>>, <<Wire!W("account")>>)
    BY FitsOne, Pairs DEF Roles
  <2> QED
    BY <2>1, <2>2, FitsBoth, ProofFits, ConfidentialHandle, OwnedAccepted
<1>3. DOMAIN Wire!ApproveBuilders(c.signers, c.offset) = {"approve_account",
        "inner_empty_account"}
  BY DEF Wire!ApproveBuilders
<1> QED
  BY <1>1, <1>2, <1>3 DEF Table

LEMMA BalanceAccepted ==
  ASSUME NEW c
  PROVE  Table(c, Wire!BalanceBuilders(c.signers, c.offset))
<1>1. Accepted(c, Wire!BalanceBuilders(c.signers, c.offset)["deposit"])
  <2>1. Wire!BalanceBuilders(c.signers, c.offset)["deposit"]
          = Wire!E("ConfidentialTransferExtension", "Deposit", <<Wire!W("account"),
                     Wire!R("mint")>> \o Wire!authority(c.signers))
    BY DEF Wire!BalanceBuilders, Wire!C, Wire!E
  <2> QED
    BY <2>1, FitsTwo, Pairs, ConfidentialHandle, OwnedAccepted DEF Roles
<1>2. Accepted(c, Wire!BalanceBuilders(c.signers, c.offset)["inner_withdraw"])
  <2>1. Wire!BalanceBuilders(c.signers, c.offset)["inner_withdraw"]
          = Wire!E("ConfidentialTransferExtension", "Withdraw", <<Wire!W("account"),
                     Wire!R("mint")>> \o Wire!proof_location(c.offset) \o
                     Wire!authority(c.signers))
    BY DEF Wire!BalanceBuilders, Wire!C, Wire!E
  <2>2. Fits(<<Wire!Writes("account"), Wire!Reads("mint")>>, <<Wire!W("account"), Wire!R("mint")>>)
    BY FitsTwo, Pairs DEF Roles
  <2> QED
    BY <2>1, <2>2, FitsBoth, ProofFits, ConfidentialHandle, OwnedAccepted
<1>3. DOMAIN Wire!BalanceBuilders(c.signers, c.offset) = {"deposit", "inner_withdraw"}
  BY DEF Wire!BalanceBuilders
<1> QED
  BY <1>1, <1>2, <1>3 DEF Table

LEMMA ApplyAccepted ==
  ASSUME NEW c
  PROVE  Table(c, [apply_pending_balance |-> Wire!apply_pending_balance(c.signers)])
<1>1. Wire!apply_pending_balance(c.signers)
        = Wire!E("ConfidentialTransferExtension", "ApplyPendingBalance", <<Wire!W("account")>> \o
                 Wire!authority(c.signers))
  BY DEF Wire!apply_pending_balance, Wire!C, Wire!E
<1>2. Accepted(c, Wire!apply_pending_balance(c.signers))
  BY <1>1, FitsOne, Pairs, ConfidentialHandle, OwnedAccepted DEF Roles
<1> QED
  BY <1>2 DEF Table

LEMMA CreditAccepted ==
  ASSUME NEW c
  PROVE  Table(c, Wire!CreditBuilders(c.signers))
<1>1. Accepted(c, Wire!CreditBuilders(c.signers)["enable_confidential_credits"])
  <2>1. Wire!CreditBuilders(c.signers)["enable_confidential_credits"]
          = Wire!E("ConfidentialTransferExtension", "EnableConfidentialCredits",
                     <<Wire!W("account")>> \o Wire!authority(c.signers))
    BY DEF Wire!CreditBuilders, Wire!C, Wire!E
  <2> QED
    BY <2>1, FitsOne, Pairs, ConfidentialHandle, OwnedAccepted DEF Roles
<1>2. Accepted(c, Wire!CreditBuilders(c.signers)["disable_confidential_credits"])
  <2>1. Wire!CreditBuilders(c.signers)["disable_confidential_credits"]
          = Wire!E("ConfidentialTransferExtension", "DisableConfidentialCredits",
                     <<Wire!W("account")>> \o Wire!authority(c.signers))
    BY DEF Wire!CreditBuilders, Wire!C, Wire!E
  <2> QED
    BY <2>1, FitsOne, Pairs, ConfidentialHandle, OwnedAccepted DEF Roles
<1>3. Accepted(c, Wire!CreditBuilders(c.signers)["enable_non_confidential_credits"])
  <2>1. Wire!CreditBuilders(c.signers)["enable_non_confidential_credits"]
          = Wire!E("ConfidentialTransferExtension", "EnableNonConfidentialCredits",
                     <<Wire!W("account")>> \o Wire!authority(c.signers))
    BY DEF Wire!CreditBuilders, Wire!C, Wire!E
  <2> QED
    BY <2>1, FitsOne, Pairs, ConfidentialHandle, OwnedAccepted DEF Roles
<1>4. Accepted(c, Wire!CreditBuilders(c.signers)["disable_non_confidential_credits"])
  <2>1. Wire!CreditBuilders(c.signers)["disable_non_confidential_credits"]
          = Wire!E("ConfidentialTransferExtension", "DisableNonConfidentialCredits",
                     <<Wire!W("account")>> \o Wire!authority(c.signers))
    BY DEF Wire!CreditBuilders, Wire!C, Wire!E
  <2> QED
    BY <2>1, FitsOne, Pairs, ConfidentialHandle, OwnedAccepted DEF Roles
<1>5. DOMAIN Wire!CreditBuilders(c.signers) = {"enable_confidential_credits",
        "disable_confidential_credits", "enable_non_confidential_credits",
        "disable_non_confidential_credits"}
  BY DEF Wire!CreditBuilders
<1> QED
  BY <1>1, <1>2, <1>3, <1>4, <1>5 DEF Table

LEMMA InnerTransferAccepted ==
  ASSUME NEW c
  PROVE  Table(c, Wire!InnerTransferBuilders(c.signers, c.offset))
<1>1. Accepted(c, Wire!InnerTransferBuilders(c.signers, c.offset)["inner_transfer"])
  <2>1. Wire!InnerTransferBuilders(c.signers, c.offset)["inner_transfer"]
          = Wire!E("ConfidentialTransferExtension", "Transfer", <<Wire!W("source"),
                     Wire!R("mint"), Wire!W("destination")>> \o Wire!proof_location(c.offset) \o
                     Wire!authority(c.signers))
    BY DEF Wire!InnerTransferBuilders, Wire!inner_transfer,
           Wire!inner_transfer_with_fee, Wire!C, Wire!E
  <2>2. Fits(<<Wire!Writes("source"), Wire!Reads("mint"), Wire!Writes("destination")>>,
             <<Wire!W("source"), Wire!R("mint"), Wire!W("destination")>>)
    BY FitsThree, Pairs DEF Roles
  <2> QED
    BY <2>1, <2>2, FitsBoth, ProofFits, ConfidentialHandle, OwnedAccepted
<1>2. Accepted(c, Wire!InnerTransferBuilders(c.signers, c.offset)["inner_transfer_with_fee"])
  <2>1. Wire!InnerTransferBuilders(c.signers, c.offset)["inner_transfer_with_fee"]
          = Wire!E("ConfidentialTransferExtension", "Transfer", <<Wire!W("source"),
                     Wire!R("mint"), Wire!W("destination")>> \o Wire!proof_location(c.offset) \o
                     Wire!authority(c.signers))
    BY DEF Wire!InnerTransferBuilders, Wire!inner_transfer,
           Wire!inner_transfer_with_fee, Wire!C, Wire!E
  <2>2. Fits(<<Wire!Writes("source"), Wire!Reads("mint"), Wire!Writes("destination")>>,
             <<Wire!W("source"), Wire!R("mint"), Wire!W("destination")>>)
    BY FitsThree, Pairs DEF Roles
  <2> QED
    BY <2>1, <2>2, FitsBoth, ProofFits, ConfidentialHandle, OwnedAccepted
<1>3. DOMAIN Wire!InnerTransferBuilders(c.signers, c.offset) = {"inner_transfer",
        "inner_transfer_with_fee"}
  BY DEF Wire!InnerTransferBuilders
<1> QED
  BY <1>1, <1>2, <1>3 DEF Table

LEMMA ConfidentialFeeHandle ==
  ASSUME NEW c
  PROVE  /\ Handles(c, "ConfidentialTransferFeeExtension",
                     "InitializeConfidentialTransferFeeConfig",
                     Wire!Free(<<Wire!Writes("mint")>>))
         /\ Handles(c, "ConfidentialTransferFeeExtension", "WithdrawWithheldTokensFromMint",
                     Wire!Owned(<<Wire!Writes("mint"), Wire!Writes("destination")>> \o
                     Wire!Proof(c.offset)))
         /\ Handles(c, "ConfidentialTransferFeeExtension", "WithdrawWithheldTokensFromAccounts",
                     Wire!H(Append(<<Wire!Reads("mint"), Wire!Writes("destination")>> \o
                     Wire!Proof(c.offset), Owns), "signers_then_sources"))
         /\ Handles(c, "ConfidentialTransferFeeExtension", "HarvestWithheldTokensToMint",
                     Wire!H(<<Wire!Writes("mint")>>, "sources"))
         /\ Handles(c, "ConfidentialTransferFeeExtension", "EnableHarvestToMint",
                     Wire!Owned(<<Wire!Writes("mint")>>))
         /\ Handles(c, "ConfidentialTransferFeeExtension", "DisableHarvestToMint",
                     Wire!Owned(<<Wire!Writes("mint")>>))
<1>1. \A sub : Handles(c, "ConfidentialTransferFeeExtension", sub,
                       Wire!ConfidentialFeeHandlers(DataOf(c))[sub])
  BY ExtensionsHandle
<1>2. DataOf(c).offset = c.offset
  BY DEF DataOf
<1> QED
  BY <1>1, <1>2 DEF Wire!ConfidentialFeeHandlers, Wire!OnMint, Owns

LEMMA FeeConfigAccepted ==
  ASSUME NEW c
  PROVE  Table(c, Wire!FeeConfigBuilders(c.signers, c.offset))
<1>1. Accepted(c, Wire!FeeConfigBuilders(c.signers, c.offset)
                 ["initialize_confidential_transfer_fee_config"])
  <2>1. Wire!FeeConfigBuilders(c.signers, c.offset)["initialize_confidential_transfer_fee_config"]
          = Wire!E("ConfidentialTransferFeeExtension", "InitializeConfidentialTransferFeeConfig",
                     <<Wire!W("mint")>>)
    BY DEF Wire!FeeConfigBuilders, Wire!F, Wire!E
  <2> QED
    BY <2>1, FitsOne, Pairs, ConfidentialFeeHandle, FreeAccepted DEF Roles
<1>2. Accepted(c, Wire!FeeConfigBuilders(c.signers, c.offset)["inner_withdraw_from_mint"])
  <2>1. Wire!FeeConfigBuilders(c.signers, c.offset)["inner_withdraw_from_mint"]
          = Wire!E("ConfidentialTransferFeeExtension", "WithdrawWithheldTokensFromMint",
                     <<Wire!W("mint"), Wire!W("destination")>> \o Wire!proof_location(c.offset) \o
                     Wire!authority(c.signers))
    BY DEF Wire!FeeConfigBuilders, Wire!F, Wire!E
  <2>2. Fits(<<Wire!Writes("mint"), Wire!Writes("destination")>>,
             <<Wire!W("mint"), Wire!W("destination")>>)
    BY FitsTwo, Pairs DEF Roles
  <2> QED
    BY <2>1, <2>2, FitsBoth, ProofFits, ConfidentialFeeHandle, OwnedAccepted
<1>3. DOMAIN Wire!FeeConfigBuilders(c.signers, c.offset) = {
        "initialize_confidential_transfer_fee_config", "inner_withdraw_from_mint"}
  BY DEF Wire!FeeConfigBuilders
<1> QED
  BY <1>1, <1>2, <1>3 DEF Table

LEMMA HarvestAccepted ==
  ASSUME NEW c
  PROVE  Table(c, Wire!HarvestBuilders(c.signers, c.sources))
<1>1. Accepted(c, Wire!HarvestBuilders(c.signers, c.sources)["confidential_harvest"])
  <2>1. Wire!HarvestBuilders(c.signers, c.sources)["confidential_harvest"]
          = Wire!E("ConfidentialTransferFeeExtension", "HarvestWithheldTokensToMint",
                     <<Wire!W("mint")>> \o Wire!sources(c.sources))
    BY DEF Wire!HarvestBuilders, Wire!F, Wire!E
  <2> QED
    BY <2>1, FitsOne, Pairs, ConfidentialFeeHandle, SourcesAccepted DEF Roles
<1>2. Accepted(c, Wire!HarvestBuilders(c.signers, c.sources)["enable_harvest_to_mint"])
  <2>1. Wire!HarvestBuilders(c.signers, c.sources)["enable_harvest_to_mint"]
          = Wire!E("ConfidentialTransferFeeExtension", "EnableHarvestToMint",
                     <<Wire!W("mint")>> \o Wire!authority(c.signers))
    BY DEF Wire!HarvestBuilders, Wire!F, Wire!E
  <2> QED
    BY <2>1, FitsOne, Pairs, ConfidentialFeeHandle, OwnedAccepted DEF Roles
<1>3. Accepted(c, Wire!HarvestBuilders(c.signers, c.sources)["disable_harvest_to_mint"])
  <2>1. Wire!HarvestBuilders(c.signers, c.sources)["disable_harvest_to_mint"]
          = Wire!E("ConfidentialTransferFeeExtension", "DisableHarvestToMint",
                     <<Wire!W("mint")>> \o Wire!authority(c.signers))
    BY DEF Wire!HarvestBuilders, Wire!F, Wire!E
  <2> QED
    BY <2>1, FitsOne, Pairs, ConfidentialFeeHandle, OwnedAccepted DEF Roles
<1>4. DOMAIN Wire!HarvestBuilders(c.signers, c.sources) = {"confidential_harvest",
        "enable_harvest_to_mint", "disable_harvest_to_mint"}
  BY DEF Wire!HarvestBuilders
<1> QED
  BY <1>1, <1>2, <1>3, <1>4 DEF Table

LEMMA FromAccountsAccepted ==
  ASSUME NEW c
  PROVE  Table(c, [inner_withdraw_from_accounts |->
                     Wire!inner_withdraw_from_accounts(c.signers, c.sources, c.offset)])
<1>1. Wire!inner_withdraw_from_accounts(c.signers, c.sources, c.offset)
        = Wire!E("ConfidentialTransferFeeExtension", "WithdrawWithheldTokensFromAccounts",
                 <<Wire!W("mint"), Wire!W("destination")>> \o Wire!proof_location(c.offset) \o
                 Wire!authority(c.signers) \o Wire!sources(c.sources))
  BY DEF Wire!inner_withdraw_from_accounts, Wire!F, Wire!E
<1>2. Accepted(c, Wire!inner_withdraw_from_accounts(c.signers, c.sources, c.offset))
  <2>1. Fits(<<Wire!Reads("mint"), Wire!Writes("destination")>>,
             <<Wire!W("mint"), Wire!W("destination")>>)
    BY FitsTwo, Pairs DEF Roles
  <2> QED
    BY <1>1, <2>1, FitsBoth, ProofFits, ConfidentialFeeHandle, SignersAccepted
<1> QED
  BY <1>2 DEF Table

\* A split transfer: its contexts and, when they are closed, what that needs.
LEMMA ContextsFit ==
  ASSUME NEW roles \in Seq(Roles), NEW closes \in BOOLEAN, NEW close \in BOOLEAN, closes => close
  PROVE  Fits([i \in 1 .. Len(roles) |-> Wire!Take(roles[i], closes, "none")],
              [i \in 1 .. Len(roles) |-> Wire!AccountMeta(roles[i], close, FALSE)])
<1> DEFINE takes == [i \in 1 .. Len(roles) |-> Wire!Take(roles[i], closes, "none")]
           given == [i \in 1 .. Len(roles) |-> Wire!AccountMeta(roles[i], close, FALSE)]
<1>1. ASSUME NEW role \in Roles
      PROVE  Pair(Wire!Take(role, closes, "none"), Wire!AccountMeta(role, close, FALSE))
  BY DEF Pair, Will, Takes, Metas, Wire!Take, Wire!AccountMeta
<1>2. Len(roles) \in Nat /\ \A i \in 1 .. Len(roles) : roles[i] \in Roles
  OBVIOUS
<1>3. \A i \in 1 .. Len(roles) : Pair(takes[i], given[i])
  BY <1>1, <1>2
<1>4. /\ takes \in [1 .. Len(roles) -> Takes] /\ given \in [1 .. Len(roles) -> Metas]
  BY <1>3 DEF Pair
<1> HIDE DEF takes, given
<1>5. /\ takes \in Seq(Takes) /\ given \in Seq(Metas)
      /\ Len(takes) = Len(roles) /\ Len(given) = Len(roles)
  BY <1>2, <1>4
<1>6. Fits(takes, given)
  BY <1>3, <1>5 DEF Fits, Pair
<1> QED
  BY <1>6 DEF takes, given

LEMMA SplitContextRoles ==
  Wire!SplitContexts(TRUE) \in Seq(Roles) /\ Wire!SplitContexts(FALSE) \in Seq(Roles)
BY DEF Wire!SplitContexts, Roles

LEMMA ClosingFits ==
  ASSUME NEW closes \in BOOLEAN
  PROVE  Fits(<<Wire!Take("lamport_destination", closes, "none"),
                Wire!Take("context_authority", FALSE, IF closes THEN "own" ELSE "none"),
                Wire!Reads("zk_token_proof_program")>>,
              <<Wire!W("lamport_destination"), Wire!AccountMeta("context_authority", FALSE, TRUE),
                Wire!R("zk_token_proof_program")>>)
<1>1. Pair(Wire!Take("lamport_destination", closes, "none"), Wire!W("lamport_destination"))
  BY DEF Pair, Will, Takes, Metas, Roles, Wire!Take, Wire!AccountMeta, Wire!W
<1>2. Pair(Wire!Take("context_authority", FALSE, IF closes THEN "own" ELSE "none"),
           Wire!AccountMeta("context_authority", FALSE, TRUE))
  BY DEF Pair, Will, Takes, Metas, Roles, Wire!Take, Wire!AccountMeta
<1>3. Pair(Wire!Reads("zk_token_proof_program"), Wire!R("zk_token_proof_program"))
  BY Pairs DEF Roles
<1> QED
  BY <1>1, <1>2, <1>3, FitsThree

LEMMA SplitFits ==
  ASSUME NEW fee \in BOOLEAN, NEW close \in BOOLEAN, NEW ready \in BOOLEAN
  PROVE  \E listed :
           /\ Fits(<<Wire!Writes("source"), Wire!Reads("mint"), Wire!Writes("destination")>>
                     \o Wire!SplitProof(fee, close, ready), listed)
           /\ Wire!split_builder(fee, close)
                = Wire!E("ConfidentialTransferExtension", "TransferWithSplitProofs",
                         listed \o Wire!authority(0))
<1> DEFINE roles == Wire!SplitContexts(fee)
           closes == close /\ ready
           takes == <<Wire!Writes("source"), Wire!Reads("mint"), Wire!Writes("destination")>>
           given == <<Wire!W("source"), Wire!R("mint"), Wire!W("destination")>>
           context_takes == [i \in 1 .. Len(roles) |-> Wire!Take(roles[i], closes, "none")]
           contexts == [i \in 1 .. Len(roles) |-> Wire!AccountMeta(roles[i], close, FALSE)]
           closing_takes ==
             IF close THEN <<Wire!Take("lamport_destination", closes, "none"),
                        Wire!Take("context_authority", FALSE, IF closes THEN "own" ELSE "none"),
                        Wire!Reads("zk_token_proof_program")>> ELSE <<>>
           closing ==
             IF close THEN <<Wire!W("lamport_destination"),
                             Wire!AccountMeta("context_authority", FALSE, TRUE),
                             Wire!R("zk_token_proof_program")>> ELSE <<>>
<1>1. Fits(takes, given)
  BY FitsThree, Pairs DEF Roles
<1>2. Fits(context_takes, contexts)
  <2>1. roles \in Seq(Roles)
    BY SplitContextRoles
  <2> HIDE DEF roles
  <2> QED
    BY <2>1, ContextsFit
<1>3. Fits(closing_takes, closing)
  <2>1. Fits(<<>>, <<>>)
    BY DEF Fits
  <2> QED
    BY <2>1, ClosingFits
<1>4. Wire!SplitProof(fee, close, ready) = context_takes \o closing_takes
  BY DEF Wire!SplitProof
<1>5. /\ Wire!split_builder(fee, close).tag = "ConfidentialTransferExtension"
      /\ Wire!split_builder(fee, close)
           = Wire!E("ConfidentialTransferExtension", "TransferWithSplitProofs",
                    given \o contexts \o closing \o <<Wire!AccountMeta("authority", FALSE, TRUE)>>)
  BY DEF Wire!split_builder, Wire!C, Wire!E
<1>6. <<Wire!AccountMeta("authority", FALSE, TRUE)>> = Wire!authority(0)
  <2> DEFINE key == <<Key(0)>>
  <2>1. Key(0) = Wire!AccountMeta("authority", FALSE, TRUE)
    BY DEF Key
  <2>2. key \in Seq(Metas) /\ Len(key) = 1 /\ key[1] = Key(0)
    BY AccountFacts
  <2>3. /\ Wire!authority(0) \in Seq(Metas) /\ Len(Wire!authority(0)) = 1
        /\ Wire!authority(0)[1] = Key(0)
    <3>1. \A n \in Nat : /\ Wire!authority(n) \in Seq(Metas) /\ Len(Wire!authority(n)) = n + 1
                         /\ Wire!authority(n)[1] = Key(n)
      BY AuthorityListed
    <3> DEFINE n == 0
    <3>2. n \in Nat /\ n + 1 = 1
      OBVIOUS
    <3> HIDE DEF n
    <3>3. /\ Wire!authority(n) \in Seq(Metas) /\ Len(Wire!authority(n)) = 1
          /\ Wire!authority(n)[1] = Key(n)
      BY <3>1, <3>2
    <3> QED
      BY <3>3 DEF n
  <2> HIDE DEF key
  <2>4. key = Wire!authority(0)
    BY <2>2, <2>3
  <2> QED
    BY <2>1, <2>4 DEF key
<1> HIDE DEF roles, takes, given, context_takes, contexts, closing_takes, closing
<1>7. Fits(takes \o (context_takes \o closing_takes), given \o (contexts \o closing))
  BY <1>1, <1>2, <1>3, FitsBoth
<1>8. given \o contexts \o closing = given \o (contexts \o closing)
  <2>1. given \in Seq(Metas) /\ contexts \in Seq(Metas) /\ closing \in Seq(Metas)
    BY <1>1, <1>2, <1>3 DEF Fits
  <2> QED
    BY <2>1, ConcatAssociative
<1> WITNESS given \o contexts \o closing
<1> QED
  BY <1>4, <1>5, <1>6, <1>7, <1>8 DEF takes

\* A call and its table: what the table has for it is accepted, with the proof that the
\* builder appends.
Proven(c, built) ==
  c.builder \in DOMAIN Wire!AppendedProof =>
    Wire!AppendedProof[c.builder] = Wire!ExpectedProof(built.sub, c.builder \in Wire!OnFeeMint)

WellBuilt(c, builders) ==
  c.builder \in DOMAIN builders =>
    Accepted(c, builders[c.builder]) /\ Proven(c, builders[c.builder])

LEMMA TableSound ==
  ASSUME NEW c, NEW builders, Table(c, builders),
         DOMAIN builders \cap DOMAIN Wire!AppendedProof = {}
  PROVE  WellBuilt(c, builders)
BY DEF Table, WellBuilt, Proven

LEMMA CallFacts ==
  ASSUME NEW c, Asked(c)
  PROVE  /\ c.signers \in Nat /\ c.sources \in Nat /\ c.offset \in Nat
         /\ c.close \in BOOLEAN /\ c.ready \in BOOLEAN
         /\ c.builder \in Wire!Builders /\ c.builder \notin Avoided
         /\ c.builder \in Wire!TakesFlags => c.signers = 0
         /\ c.builder \in DOMAIN Wire!AppendedProof => c.offset \in {0, 1}
BY PartsAssumption DEF Asked, Wire!Calls, Wire!Sensible, Wire!refused, Wire!InterfaceAssumption

LEMMA SplitSound ==
  ASSUME NEW c, Asked(c)
  PROVE  WellBuilt(c, Wire!SplitBuilders(c.close))
<1> DEFINE handler(fee) ==
      Wire!Owned(<<Wire!Writes("source"), Wire!Reads("mint"), Wire!Writes("destination")>>
                   \o Wire!SplitProof(fee, c.close, c.ready))
<1>1. DOMAIN Wire!SplitBuilders(c.close)
        = {"transfer_with_split_proofs", "transfer_with_fee_and_split_proofs"}
  BY DEF Wire!SplitBuilders
<1>2. ASSUME c.builder \in DOMAIN Wire!SplitBuilders(c.close), NEW fee \in BOOLEAN,
             DataOf(c).fee = fee
      PROVE  Accepted(c, Wire!split_builder(fee, c.close))
  <2>1. c.signers = 0 /\ c.close \in BOOLEAN /\ c.ready \in BOOLEAN
    BY <1>1, <1>2, CallFacts DEF Wire!TakesFlags
  <2>2. Handles(c, "ConfidentialTransferExtension", "TransferWithSplitProofs", handler(fee))
    <3>1. DataOf(c).close = c.close /\ DataOf(c).ready = c.ready
      BY DEF DataOf
    <3>2. Wire!ConfidentialHandlers(DataOf(c))["TransferWithSplitProofs"]
            = Wire!Owned(<<Wire!Writes("source"), Wire!Reads("mint"), Wire!Writes("destination")>>
                           \o Wire!SplitProof(DataOf(c).fee, DataOf(c).close, DataOf(c).ready))
      BY DEF Wire!ConfidentialHandlers
    <3>3. Wire!ConfidentialHandlers(DataOf(c))["TransferWithSplitProofs"] = handler(fee)
      BY <1>2, <3>1, <3>2, Zenon
    <3> HIDE DEF handler
    <3> QED
      BY <3>3, ExtensionsHandle
  <2>3. PICK listed :
           /\ Fits(<<Wire!Writes("source"), Wire!Reads("mint"), Wire!Writes("destination")>>
                     \o Wire!SplitProof(fee, c.close, c.ready), listed)
           /\ Wire!split_builder(fee, c.close)
                = Wire!E("ConfidentialTransferExtension", "TransferWithSplitProofs",
                         listed \o Wire!authority(0))
    BY <2>1, SplitFits
  <2> QED
    BY <2>1, <2>2, <2>3, OwnedAccepted
<1>3. CASE c.builder = "transfer_with_split_proofs"
  <2>1. DataOf(c).fee = FALSE
    <3> DEFINE on_fee_mint == c.builder \in Wire!OnFeeMint
    <3>1. on_fee_mint = FALSE
      BY <1>3 DEF Wire!OnFeeMint
    <3>2. DataOf(c).fee = on_fee_mint
      BY DEF DataOf
    <3> HIDE DEF on_fee_mint
    <3> QED
      BY <3>1, <3>2
  <2>2. Wire!SplitBuilders(c.close)[c.builder] = Wire!split_builder(FALSE, c.close)
    BY <1>3 DEF Wire!SplitBuilders
  <2> QED
    BY <1>1, <1>2, <1>3, <2>1, <2>2 DEF WellBuilt, Proven, Wire!AppendedProof
<1>4. CASE c.builder = "transfer_with_fee_and_split_proofs"
  <2>1. DataOf(c).fee = TRUE
    BY <1>4 DEF DataOf, Wire!OnFeeMint
  <2>2. Wire!SplitBuilders(c.close)[c.builder] = Wire!split_builder(TRUE, c.close)
    BY <1>4 DEF Wire!SplitBuilders
  <2> QED
    BY <1>1, <1>2, <1>4, <2>1, <2>2 DEF WellBuilt, Proven, Wire!AppendedProof
<1> QED
  BY <1>1, <1>3, <1>4 DEF WellBuilt

\* The builders that append the proof build what their inner ones build.
LEMMA OuterSound ==
  ASSUME NEW c, c.builder # "transfer_with_fee"
  PROVE  WellBuilt(c, Wire!OuterBuilders(c.signers, c.sources, c.offset))
<1> DEFINE outer == Wire!OuterBuilders(c.signers, c.sources, c.offset)
<1> SUFFICES WellBuilt(c, outer)
  OBVIOUS
<1> HIDE DEF outer
<1>1. DOMAIN outer = {"configure_account", "empty_account", "confidential_withdraw",
                      "confidential_transfer", "transfer_with_fee",
                      "confidential_withdraw_from_mint", "confidential_withdraw_from_accounts"}
  BY DEF outer, Wire!OuterBuilders
<1>2. CASE c.builder = "configure_account"
  <2>1. outer["configure_account"]
           = Wire!ConfigureBuilders(c.signers, c.offset)["inner_configure_account"]
    BY DEF outer, Wire!OuterBuilders, Wire!configure_account
  <2>2. /\ "inner_configure_account" \in DOMAIN Wire!ConfigureBuilders(c.signers, c.offset)
        /\ Wire!ConfigureBuilders(c.signers, c.offset)["inner_configure_account"].sub
             = "ConfigureAccount"
    BY DEF Wire!ConfigureBuilders, Wire!C, Wire!E
  <2>3. /\ Accepted(c, outer["configure_account"])
        /\ outer["configure_account"].sub = "ConfigureAccount"
    BY <2>1, <2>2, ConfigureAccepted DEF Table
  <2> QED
    BY <1>2, <2>3 DEF WellBuilt, Proven, Wire!AppendedProof, Wire!ExpectedProof, Wire!OnFeeMint
<1>3. CASE c.builder = "empty_account"
  <2>1. outer["empty_account"] = Wire!ApproveBuilders(c.signers, c.offset)["inner_empty_account"]
    BY DEF outer, Wire!OuterBuilders, Wire!empty_account
  <2>2. /\ "inner_empty_account" \in DOMAIN Wire!ApproveBuilders(c.signers, c.offset)
        /\ Wire!ApproveBuilders(c.signers, c.offset)["inner_empty_account"].sub
             = "EmptyAccount"
    BY DEF Wire!ApproveBuilders, Wire!C, Wire!E
  <2>3. Accepted(c, outer["empty_account"]) /\ outer["empty_account"].sub = "EmptyAccount"
    BY <2>1, <2>2, ApproveAccepted DEF Table
  <2> QED
    BY <1>3, <2>3 DEF WellBuilt, Proven, Wire!AppendedProof, Wire!ExpectedProof, Wire!OnFeeMint
<1>4. CASE c.builder = "confidential_withdraw"
  <2>1. outer["confidential_withdraw"]
           = Wire!BalanceBuilders(c.signers, c.offset)["inner_withdraw"]
    BY DEF outer, Wire!OuterBuilders, Wire!withdraw
  <2>2. /\ "inner_withdraw" \in DOMAIN Wire!BalanceBuilders(c.signers, c.offset)
        /\ Wire!BalanceBuilders(c.signers, c.offset)["inner_withdraw"].sub
             = "Withdraw"
    BY DEF Wire!BalanceBuilders, Wire!C, Wire!E
  <2>3. /\ Accepted(c, outer["confidential_withdraw"])
        /\ outer["confidential_withdraw"].sub = "Withdraw"
    BY <2>1, <2>2, BalanceAccepted DEF Table
  <2> QED
    BY <1>4, <2>3 DEF WellBuilt, Proven, Wire!AppendedProof, Wire!ExpectedProof, Wire!OnFeeMint
<1>5. CASE c.builder = "confidential_transfer"
  <2>1. outer["confidential_transfer"]
           = Wire!InnerTransferBuilders(c.signers, c.offset)["inner_transfer"]
    BY DEF outer, Wire!OuterBuilders, Wire!transfer, Wire!InnerTransferBuilders
  <2>2. /\ "inner_transfer" \in DOMAIN Wire!InnerTransferBuilders(c.signers, c.offset)
        /\ Wire!InnerTransferBuilders(c.signers, c.offset)["inner_transfer"].sub
             = "Transfer"
    BY DEF Wire!InnerTransferBuilders, Wire!inner_transfer, Wire!C, Wire!E
  <2>3. /\ Accepted(c, outer["confidential_transfer"])
        /\ outer["confidential_transfer"].sub = "Transfer"
    BY <2>1, <2>2, InnerTransferAccepted DEF Table
  <2> QED
    BY <1>5, <2>3 DEF WellBuilt, Proven, Wire!AppendedProof, Wire!ExpectedProof, Wire!OnFeeMint
<1>6. CASE c.builder = "confidential_withdraw_from_mint"
  <2>1. outer["confidential_withdraw_from_mint"]
           = Wire!FeeConfigBuilders(c.signers, c.offset)["inner_withdraw_from_mint"]
    BY DEF outer, Wire!OuterBuilders, Wire!withdraw_withheld_tokens_from_mint
  <2>2. /\ "inner_withdraw_from_mint" \in DOMAIN Wire!FeeConfigBuilders(c.signers, c.offset)
        /\ Wire!FeeConfigBuilders(c.signers, c.offset)["inner_withdraw_from_mint"].sub
             = "WithdrawWithheldTokensFromMint"
    BY DEF Wire!FeeConfigBuilders, Wire!F, Wire!E
  <2>3. /\ Accepted(c, outer["confidential_withdraw_from_mint"])
        /\ outer["confidential_withdraw_from_mint"].sub = "WithdrawWithheldTokensFromMint"
    BY <2>1, <2>2, FeeConfigAccepted DEF Table
  <2> QED
    BY <1>6, <2>3 DEF WellBuilt, Proven, Wire!AppendedProof, Wire!ExpectedProof, Wire!OnFeeMint
<1>7. CASE c.builder = "confidential_withdraw_from_accounts"
  <2> DEFINE inner == Wire!inner_withdraw_from_accounts(c.signers, c.sources, c.offset)
  <2>1. outer["confidential_withdraw_from_accounts"] = inner
    BY DEF outer, Wire!OuterBuilders, Wire!withdraw_withheld_tokens_from_accounts
  <2>2. inner.sub = "WithdrawWithheldTokensFromAccounts"
    BY DEF Wire!inner_withdraw_from_accounts, Wire!F, Wire!E
  <2> HIDE DEF inner
  <2>3. Accepted(c, inner)
    BY FromAccountsAccepted DEF Table, inner
  <2>4. /\ Accepted(c, outer["confidential_withdraw_from_accounts"])
        /\ outer["confidential_withdraw_from_accounts"].sub = "WithdrawWithheldTokensFromAccounts"
    BY <2>1, <2>2, <2>3
  <2> QED
    BY <1>7, <2>4 DEF WellBuilt, Proven, Wire!AppendedProof, Wire!ExpectedProof, Wire!OnFeeMint
<1> QED
  BY <1>1, <1>2, <1>3, <1>4, <1>5, <1>6, <1>7 DEF WellBuilt

\* All the tables of builders.
Tables(n, k, offset, close) ==
  <<Wire!InitializeBuilders(n),
    Wire!TransferBuilders(n),
    Wire!SupplyBuilders(n),
    Wire!CheckedBuilders(n),
    Wire!OtherBuilders(n),
    [withdraw_excess_lamports |-> Wire!withdraw_excess_lamports(n)],
    Wire!TransferFeeBuilders(n, k),
    Wire!OneFieldBuilders(n),
    Wire!ConfigureBuilders(n, offset),
    Wire!ApproveBuilders(n, offset),
    Wire!BalanceBuilders(n, offset),
    [apply_pending_balance |-> Wire!apply_pending_balance(n)],
    Wire!CreditBuilders(n),
    Wire!InnerTransferBuilders(n, offset),
    Wire!SplitBuilders(close),
    Wire!FeeConfigBuilders(n, offset),
    Wire!HarvestBuilders(n, k),
    [inner_withdraw_from_accounts |-> Wire!inner_withdraw_from_accounts(n, k, offset)],
    Wire!OuterBuilders(n, k, offset)>>

LEMMA TablesBuilt ==
  ASSUME NEW c
  PROVE  Wire!Built(c) = Wire!OneTable(Tables(c.signers, c.sources, c.offset, c.close))
BY DEF Wire!Built, Tables

LEMMA SameNames ==
  ASSUME NEW s, NEW t, Len(s) = Len(t), \A i \in 1 .. Len(s) : DOMAIN s[i] = DOMAIN t[i]
  PROVE  DOMAIN Wire!OneTable(s) = DOMAIN Wire!OneTable(t)
<1>1. UNION {DOMAIN s[i] : i \in 1 .. Len(s)} = UNION {DOMAIN t[i] : i \in 1 .. Len(t)}
  OBVIOUS
<1> QED
  BY <1>1, InOneTable

LEMMA FieldNames ==
  ASSUME NEW n, NEW m
  PROVE  /\ DOMAIN Wire!OneFieldBuilders(n) = DOMAIN Wire!OneFieldBuilders(m)
         /\ DOMAIN Wire!OneFieldBuilders(n) \cap DOMAIN Wire!AppendedProof = {}
<1> DEFINE tables(l) ==
  <<Wire!CpiGuardBuilders(l),
    Wire!MemoTransferBuilders(l),
    Wire!DefaultAccountStateBuilders(l),
    Wire!InterestBearingMintBuilders(l),
    Wire!MetadataPointerBuilders(l),
    Wire!GroupPointerBuilders(l),
    Wire!GroupMemberPointerBuilders(l),
    Wire!TransferHookBuilders(l)>>
<1>1. \A i \in 1 .. 8 : DOMAIN tables(n)[i] = DOMAIN tables(m)[i]
  BY DEF Wire!CpiGuardBuilders, Wire!MemoTransferBuilders, Wire!DefaultAccountStateBuilders,
         Wire!InterestBearingMintBuilders, Wire!MetadataPointerBuilders,
         Wire!GroupPointerBuilders, Wire!GroupMemberPointerBuilders, Wire!TransferHookBuilders
<1>2. \A i \in 1 .. 8 : DOMAIN tables(n)[i] \cap DOMAIN Wire!AppendedProof = {}
  BY DEF Wire!AppendedProof, Wire!CpiGuardBuilders, Wire!MemoTransferBuilders,
         Wire!DefaultAccountStateBuilders, Wire!InterestBearingMintBuilders,
         Wire!MetadataPointerBuilders, Wire!GroupPointerBuilders,
         Wire!GroupMemberPointerBuilders, Wire!TransferHookBuilders
<1>3. \A l : Len(tables(l)) = 8 /\ Wire!OneFieldBuilders(l) = Wire!OneTable(tables(l))
  BY DEF Wire!OneFieldBuilders
<1> HIDE DEF tables
<1>4. DOMAIN Wire!OneFieldBuilders(n) = DOMAIN Wire!OneFieldBuilders(m)
  BY <1>1, <1>3, SameNames
<1>5. DOMAIN Wire!OneFieldBuilders(n) \cap DOMAIN Wire!AppendedProof = {}
  BY <1>2, <1>3, InOneTable
<1> QED
  BY <1>4, <1>5

\* A builder has the same name in every call.
LEMMA BuiltNames ==
  ASSUME NEW c, NEW d
  PROVE  DOMAIN Wire!Built(c) = DOMAIN Wire!Built(d)
<1> DEFINE tables(e) == Tables(e.signers, e.sources, e.offset, e.close)
<1>1. \A e : Len(tables(e)) = 19
  BY DEF Tables
<1>2. DOMAIN tables(c)[1] = DOMAIN tables(d)[1]
  BY DEF Tables, Wire!InitializeBuilders
<1>3. DOMAIN tables(c)[2] = DOMAIN tables(d)[2]
  BY DEF Tables, Wire!TransferBuilders
<1>4. DOMAIN tables(c)[3] = DOMAIN tables(d)[3]
  BY DEF Tables, Wire!SupplyBuilders
<1>5. DOMAIN tables(c)[4] = DOMAIN tables(d)[4]
  BY DEF Tables, Wire!CheckedBuilders
<1>6. DOMAIN tables(c)[5] = DOMAIN tables(d)[5]
  BY DEF Tables, Wire!OtherBuilders
<1>7. DOMAIN tables(c)[6] = DOMAIN tables(d)[6]
  BY DEF Tables
<1>8. DOMAIN tables(c)[7] = DOMAIN tables(d)[7]
  BY DEF Tables, Wire!TransferFeeBuilders
<1>9. DOMAIN tables(c)[8] = DOMAIN tables(d)[8]
  BY FieldNames DEF Tables
<1>10. DOMAIN tables(c)[9] = DOMAIN tables(d)[9]
  BY DEF Tables, Wire!ConfigureBuilders
<1>11. DOMAIN tables(c)[10] = DOMAIN tables(d)[10]
  BY DEF Tables, Wire!ApproveBuilders
<1>12. DOMAIN tables(c)[11] = DOMAIN tables(d)[11]
  BY DEF Tables, Wire!BalanceBuilders
<1>13. DOMAIN tables(c)[12] = DOMAIN tables(d)[12]
  BY DEF Tables
<1>14. DOMAIN tables(c)[13] = DOMAIN tables(d)[13]
  BY DEF Tables, Wire!CreditBuilders
<1>15. DOMAIN tables(c)[14] = DOMAIN tables(d)[14]
  BY DEF Tables, Wire!InnerTransferBuilders
<1>16. DOMAIN tables(c)[15] = DOMAIN tables(d)[15]
  BY DEF Tables, Wire!SplitBuilders
<1>17. DOMAIN tables(c)[16] = DOMAIN tables(d)[16]
  BY DEF Tables, Wire!FeeConfigBuilders
<1>18. DOMAIN tables(c)[17] = DOMAIN tables(d)[17]
  BY DEF Tables, Wire!HarvestBuilders
<1>19. DOMAIN tables(c)[18] = DOMAIN tables(d)[18]
  BY DEF Tables
<1>20. DOMAIN tables(c)[19] = DOMAIN tables(d)[19]
  BY DEF Tables, Wire!OuterBuilders
<1> HIDE DEF tables
<1>21. \A j \in 1 .. 19 : DOMAIN tables(c)[j] = DOMAIN tables(d)[j]
  BY <1>2, <1>3, <1>4, <1>5, <1>6, <1>7, <1>8, <1>9, <1>10, <1>11,
     <1>12, <1>13, <1>14, <1>15, <1>16, <1>17, <1>18, <1>19, <1>20
<1>22. DOMAIN Wire!OneTable(tables(c)) = DOMAIN Wire!OneTable(tables(d))
  BY <1>1, <1>21, SameNames
<1> QED
  BY <1>22, TablesBuilt DEF tables

\* What a call builds is accepted.
LEMMA BuiltSound ==
  ASSUME NEW c, Asked(c), "transfer_with_fee" \in Avoided
  PROVE  Accepted(c, Wire!Built(c)[c.builder]) /\ Proven(c, Wire!Built(c)[c.builder])
<1> DEFINE tables == Tables(c.signers, c.sources, c.offset, c.close)
<1>1. c.builder # "transfer_with_fee" /\ c.builder \in DOMAIN Wire!Built(c)
  <2>1. c.builder \notin Avoided /\ c.builder \in Wire!Builders
    BY CallFacts
  <2> QED
    BY <2>1, BuiltNames DEF Wire!Builders
<1>2. WellBuilt(c, tables[1])
  <2>1. DOMAIN Wire!InitializeBuilders(c.signers)
          \cap DOMAIN Wire!AppendedProof = {}
    BY DEF Wire!AppendedProof, Wire!InitializeBuilders
  <2> QED
    BY <2>1, InitializeAccepted, TableSound DEF Tables
<1>3. WellBuilt(c, tables[2])
  <2>1. DOMAIN Wire!TransferBuilders(c.signers)
          \cap DOMAIN Wire!AppendedProof = {}
    BY DEF Wire!AppendedProof, Wire!TransferBuilders
  <2> QED
    BY <2>1, TransferAccepted, TableSound DEF Tables
<1>4. WellBuilt(c, tables[3])
  <2>1. DOMAIN Wire!SupplyBuilders(c.signers)
          \cap DOMAIN Wire!AppendedProof = {}
    BY DEF Wire!AppendedProof, Wire!SupplyBuilders
  <2> QED
    BY <2>1, SupplyAccepted, TableSound DEF Tables
<1>5. WellBuilt(c, tables[4])
  <2>1. DOMAIN Wire!CheckedBuilders(c.signers)
          \cap DOMAIN Wire!AppendedProof = {}
    BY DEF Wire!AppendedProof, Wire!CheckedBuilders
  <2> QED
    BY <2>1, CheckedAccepted, TableSound DEF Tables
<1>6. WellBuilt(c, tables[5])
  <2>1. DOMAIN Wire!OtherBuilders(c.signers)
          \cap DOMAIN Wire!AppendedProof = {}
    BY DEF Wire!AppendedProof, Wire!OtherBuilders
  <2> QED
    BY <2>1, OtherAccepted, TableSound DEF Tables
<1>7. WellBuilt(c, tables[6])
  <2>1. DOMAIN [withdraw_excess_lamports |-> Wire!withdraw_excess_lamports(c.signers)]
          \cap DOMAIN Wire!AppendedProof = {}
    BY DEF Wire!AppendedProof
  <2> QED
    BY <2>1, ExcessAccepted, TableSound DEF Tables
<1>8. WellBuilt(c, tables[7])
  <2>1. DOMAIN Wire!TransferFeeBuilders(c.signers, c.sources)
          \cap DOMAIN Wire!AppendedProof = {}
    BY DEF Wire!AppendedProof, Wire!TransferFeeBuilders
  <2> QED
    BY <2>1, TransferFeeAccepted, TableSound DEF Tables
<1>9. WellBuilt(c, tables[8])
  <2>1. DOMAIN Wire!OneFieldBuilders(c.signers)
          \cap DOMAIN Wire!AppendedProof = {}
    BY FieldNames
  <2> QED
    BY <2>1, OneFieldAccepted, TableSound DEF Tables
<1>10. WellBuilt(c, tables[9])
  <2>1. DOMAIN Wire!ConfigureBuilders(c.signers, c.offset)
          \cap DOMAIN Wire!AppendedProof = {}
    BY DEF Wire!AppendedProof, Wire!ConfigureBuilders
  <2> QED
    BY <2>1, ConfigureAccepted, TableSound DEF Tables
<1>11. WellBuilt(c, tables[10])
  <2>1. DOMAIN Wire!ApproveBuilders(c.signers, c.offset)
          \cap DOMAIN Wire!AppendedProof = {}
    BY DEF Wire!AppendedProof, Wire!ApproveBuilders
  <2> QED
    BY <2>1, ApproveAccepted, TableSound DEF Tables
<1>12. WellBuilt(c, tables[11])
  <2>1. DOMAIN Wire!BalanceBuilders(c.signers, c.offset)
          \cap DOMAIN Wire!AppendedProof = {}
    BY DEF Wire!AppendedProof, Wire!BalanceBuilders
  <2> QED
    BY <2>1, BalanceAccepted, TableSound DEF Tables
<1>13. WellBuilt(c, tables[12])
  <2>1. DOMAIN [apply_pending_balance |-> Wire!apply_pending_balance(c.signers)]
          \cap DOMAIN Wire!AppendedProof = {}
    BY DEF Wire!AppendedProof
  <2> QED
    BY <2>1, ApplyAccepted, TableSound DEF Tables
<1>14. WellBuilt(c, tables[13])
  <2>1. DOMAIN Wire!CreditBuilders(c.signers)
          \cap DOMAIN Wire!AppendedProof = {}
    BY DEF Wire!AppendedProof, Wire!CreditBuilders
  <2> QED
    BY <2>1, CreditAccepted, TableSound DEF Tables
<1>15. WellBuilt(c, tables[14])
  <2>1. DOMAIN Wire!InnerTransferBuilders(c.signers, c.offset)
          \cap DOMAIN Wire!AppendedProof = {}
    BY DEF Wire!AppendedProof, Wire!InnerTransferBuilders
  <2> QED
    BY <2>1, InnerTransferAccepted, TableSound DEF Tables
<1>16. WellBuilt(c, tables[15])
  BY <1>1, SplitSound DEF Tables
<1>17. WellBuilt(c, tables[16])
  <2>1. DOMAIN Wire!FeeConfigBuilders(c.signers, c.offset)
          \cap DOMAIN Wire!AppendedProof = {}
    BY DEF Wire!AppendedProof, Wire!FeeConfigBuilders
  <2> QED
    BY <2>1, FeeConfigAccepted, TableSound DEF Tables
<1>18. WellBuilt(c, tables[17])
  <2>1. DOMAIN Wire!HarvestBuilders(c.signers, c.sources)
          \cap DOMAIN Wire!AppendedProof = {}
    BY DEF Wire!AppendedProof, Wire!HarvestBuilders
  <2> QED
    BY <2>1, HarvestAccepted, TableSound DEF Tables
<1>19. WellBuilt(c, tables[18])
  <2>1. DOMAIN [inner_withdraw_from_accounts |->
                  Wire!inner_withdraw_from_accounts(c.signers, c.sources, c.offset)]
          \cap DOMAIN Wire!AppendedProof = {}
    BY DEF Wire!AppendedProof
  <2> QED
    BY <2>1, FromAccountsAccepted, TableSound DEF Tables
<1>20. WellBuilt(c, tables[19])
  BY <1>1, OuterSound DEF Tables
<1>21. Len(tables) = 19
  BY DEF Tables
<1> HIDE DEF tables
<1>22. \A j \in 1 .. Len(tables) : WellBuilt(c, tables[j])
  BY <1>2, <1>3, <1>4, <1>5, <1>6, <1>7, <1>8, <1>9, <1>10, <1>11,
     <1>12, <1>13, <1>14, <1>15, <1>16, <1>17, <1>18, <1>19, <1>20, <1>21
<1>23. Wire!Built(c) = Wire!OneTable(tables)
  BY TablesBuilt DEF tables
<1>24. \A name \in DOMAIN Wire!OneTable(tables) :
         \E j \in 1 .. Len(tables) :
           name \in DOMAIN tables[j] /\ Wire!OneTable(tables)[name] = tables[j][name]
  BY InOneTable
<1>25. PICK j \in 1 .. Len(tables) :
         c.builder \in DOMAIN tables[j] /\ Wire!Built(c)[c.builder] = tables[j][c.builder]
  BY <1>1, <1>23, <1>24
<1> QED
  BY <1>22, <1>25 DEF WellBuilt

-----------------------------------------------------------------------------
(***************************************************************************)
(* An instruction on its way: what was sent fits its handler, and what the *)
(* handler has taken is the front of the list.                             *)
(***************************************************************************)
Backed(instruction) ==
  instruction.data.offset # 0 =>
    /\ instruction.data.offset <= Len(instruction.following)
    /\ instruction.following[instruction.data.offset]
         = Wire!ExpectedProof(instruction.sub, instruction.data.fee)

Fitting(asked, instruction) ==
  /\ asked.signers \in Nat /\ instruction.data.num_token_accounts \in Nat
  /\ Wire!PodTokenInstruction[instruction.tag + 1] = asked.requested
  /\ Suits(Wire!process(instruction.tag, instruction.sub, instruction.data),
           instruction.accounts, asked.signers, instruction.data.num_token_accounts,
           instruction.sub)
  /\ Backed(instruction)

\* What Build sends.
Instruction(c, built) ==
  [tag |-> Wire!Tag(built.tag), sub |-> built.sub, accounts |-> built.accounts,
   data |-> DataOf(c), following |-> Wire!Following(c, built.sub)]

LEMMA InstructionFacts ==
  ASSUME NEW c, NEW built
  PROVE  /\ Instruction(c, built).tag = Wire!Tag(built.tag)
         /\ Instruction(c, built).sub = built.sub
         /\ Instruction(c, built).accounts = built.accounts
         /\ Instruction(c, built).data = DataOf(c)
         /\ Instruction(c, built).following = Wire!Following(c, built.sub)
         /\ DataOf(c).offset = c.offset /\ DataOf(c).num_token_accounts = c.sources
         /\ DataOf(c).fee = (c.builder \in Wire!OnFeeMint)
<1>1. /\ Instruction(c, built).tag = Wire!Tag(built.tag)
      /\ Instruction(c, built).sub = built.sub
      /\ Instruction(c, built).accounts = built.accounts
      /\ Instruction(c, built).data = DataOf(c)
      /\ Instruction(c, built).following = Wire!Following(c, built.sub)
  BY DEF Instruction
<1>2. DataOf(c).offset = c.offset /\ DataOf(c).num_token_accounts = c.sources
  BY DEF DataOf
<1>3. DataOf(c).fee = (c.builder \in Wire!OnFeeMint)
  BY DEF DataOf
<1> QED
  BY <1>1, <1>2, <1>3

\* The proof an instruction needs is among those that follow it.
LEMMA ProofFollows ==
  ASSUME NEW c, Asked(c), NEW sub, NEW proof,
         proof = Wire!ExpectedProof(sub, c.builder \in Wire!OnFeeMint),
         c.builder \in DOMAIN Wire!AppendedProof => Wire!AppendedProof[c.builder] = proof,
         c.offset # 0
  PROVE  /\ c.offset <= Len(Wire!Following(c, sub))
         /\ Wire!Following(c, sub)[c.offset] = proof
<1> DEFINE following == [i \in 1 .. c.offset |-> IF i = c.offset THEN proof ELSE "another"]
<1>1. c.offset \in Nat /\ (c.builder \in DOMAIN Wire!AppendedProof => c.offset \in {0, 1})
  BY CallFacts
<1>2. CASE c.builder \in DOMAIN Wire!AppendedProof
  <2>1. Wire!Following(c, sub) = <<proof>> /\ c.offset = 1
    BY <1>1, <1>2 DEF Wire!Following
  <2> QED
    BY <2>1
<1>3. CASE c.builder \notin DOMAIN Wire!AppendedProof
  <2>1. Wire!Following(c, sub) = following
    BY <1>1, <1>3, Zenon DEF Wire!Following
  <2>2. Len(following) = c.offset /\ following[c.offset] = proof
    BY <1>1
  <2> QED
    BY <1>1, <2>1, <2>2
<1> QED
  BY <1>2, <1>3

LEMMA BuiltFitting ==
  ASSUME NEW c, Asked(c), "transfer_with_fee" \in Avoided,
         NEW built, built = Wire!Built(c)[c.builder]
  PROVE  Fitting([requested |-> built.tag, signers |-> c.signers], Instruction(c, built))
<1>1. Accepted(c, built) /\ Proven(c, built)
  BY BuiltSound
<1>2. c.signers \in Nat /\ c.sources \in Nat
  BY CallFacts
<1> DEFINE instruction == Instruction(c, built)
           asked == [requested |-> built.tag, signers |-> c.signers]
<1>3. asked.requested = built.tag /\ asked.signers = c.signers
  OBVIOUS
<1>4. Wire!PodTokenInstruction[Wire!Tag(built.tag) + 1] = built.tag
  BY <1>1, ReadBack DEF Accepted
<1>5. Backed(instruction)
  <2> DEFINE fee == c.builder \in Wire!OnFeeMint
             proof == Wire!ExpectedProof(built.sub, fee)
  <2>1. c.builder \in DOMAIN Wire!AppendedProof => Wire!AppendedProof[c.builder] = proof
    BY <1>1, Zenon DEF Proven
  <2>2. c.offset # 0 => /\ c.offset <= Len(Wire!Following(c, built.sub))
                        /\ Wire!Following(c, built.sub)[c.offset] = proof
    <3>1. proof = Wire!ExpectedProof(built.sub, c.builder \in Wire!OnFeeMint)
      OBVIOUS
    <3> HIDE DEF proof
    <3> QED
      BY <2>1, <3>1, ProofFollows
  <2>3. instruction.data.fee = fee
    <3>1. instruction.data = DataOf(c)
      BY InstructionFacts
    <3>2. DataOf(c).fee = fee
      BY InstructionFacts
    <3> HIDE DEF fee, instruction
    <3> QED
      BY <3>1, <3>2
  <2>4. /\ instruction.data.offset = c.offset /\ instruction.sub = built.sub
        /\ instruction.following = Wire!Following(c, built.sub)
    BY InstructionFacts
  <2> HIDE DEF fee, instruction
  <2> QED
    BY <2>2, <2>3, <2>4 DEF Backed
<1>6. /\ instruction.tag = Wire!Tag(built.tag) /\ instruction.sub = built.sub
      /\ instruction.accounts = built.accounts /\ instruction.data = DataOf(c)
      /\ instruction.data.num_token_accounts = c.sources
  BY InstructionFacts
<1> HIDE DEF instruction, asked
<1>7. Fitting(asked, instruction)
  BY <1>1, <1>2, <1>3, <1>4, <1>5, <1>6 DEF Fitting, Accepted
<1> QED
  BY <1>7 DEF instruction, asked

-----------------------------------------------------------------------------
\* What a handler has taken, each account with what it is taken for.
Entries == [take : Takes, meta : Metas]
Entry(take, meta) == [take |-> take, meta |-> meta]

Reading ==
  /\ handled = Wire!process(transaction.tag, transaction.sub, transaction.data)
  /\ seen \in Seq(Entries) /\ Len(seen) <= Len(handled.takes)
  /\ \A i \in 1 .. Len(seen) : seen[i] = Entry(handled.takes[i], transaction.accounts[i])

Matched(all) == \A s \in Wire!In(all) : s.take.role = s.meta.role

WireInv ==
  /\ outcome \in {"idle", "sent"} => seen = <<>>
  /\ outcome # "idle" => Fitting(call, transaction)
  /\ outcome = "running" => Reading
  /\ outcome = "done" => Matched(seen)
  /\ outcome \notin {"idle", "sent", "running", "done"} => Unsigned(call.signers, transaction.sub)

\* A handler that is running finds what it takes.
LEMMA ReadingServed ==
  ASSUME Fitting(call, transaction), Reading
  PROVE  Served(handled, transaction.accounts, call.signers, transaction.data.num_token_accounts,
                transaction.sub)
BY SuitsServed DEF Fitting, Reading

\* The entries taken so far.
LEMMA TakenServed ==
  ASSUME Fitting(call, transaction), Reading
  PROVE  \A i \in 1 .. Len(seen) :
           Serves(seen[i].take, seen[i].meta, call.signers, transaction.sub, handled.rest)
<1>1. /\ \A i \in 1 .. Len(handled.takes) :
           Serves(handled.takes[i], transaction.accounts[i], call.signers, transaction.sub,
                  handled.rest)
      /\ Len(handled.takes) \in Nat
  BY ReadingServed DEF Served
<1>2. Len(seen) \in Nat /\ Len(seen) <= Len(handled.takes)
  BY DEF Reading
<1>3. \A i \in 1 .. Len(seen) : seen[i] = Entry(handled.takes[i], transaction.accounts[i])
  BY DEF Reading
<1>4. \A take, meta : Entry(take, meta).take = take /\ Entry(take, meta).meta = meta
  BY DEF Entry
<1>5. \A i \in 1 .. Len(seen) :
        /\ seen[i].take = handled.takes[i] /\ seen[i].meta = transaction.accounts[i]
        /\ i \in 1 .. Len(handled.takes)
  BY <1>1, <1>2, <1>3, <1>4
<1> QED
  BY <1>1, <1>5

LEMMA ServedMatched ==
  ASSUME NEW all, NEW n, NEW sub, NEW rest,
         \A i \in 1 .. Len(all) : Serves(all[i].take, all[i].meta, n, sub, rest)
  PROVE  /\ Matched(all) /\ Wire!Writable(all)
         /\ ~Unsigned(n, sub) =>
              \A s \in Wire!In(all) : s.take.signature = "own" => s.meta.is_signer
         /\ \A s \in Wire!In(all) : s.take.signature = "owner" =>
              (n = 0 => s.meta.is_signer) /\ rest \in {"signers", "signers_then_sources"}
<1>1. \A s \in Wire!In(all) : Serves(s.take, s.meta, n, sub, rest)
  BY DEF Wire!In
<1> QED
  BY <1>1 DEF Matched, Wire!Writable, Serves

\* The accounts behind those taken one by one.
Remains(rest, handler, given, taken) ==
  taken = Len(handler.takes) /\ rest = SubSeq(given, taken + 1, Len(given))

LEMMA RestServed ==
  ASSUME NEW handler, NEW given, NEW n \in Nat, NEW k \in Nat, NEW sub, NEW rest, NEW taken,
         Served(handler, given, n, k, sub), Remains(rest, handler, given, taken)
  PROVE  /\ taken \in Nat /\ Len(given) \in Nat /\ taken <= Len(given)
         /\ rest \in Seq(Metas) /\ Len(rest) = Len(given) - taken
         /\ \A i \in 1 .. Len(rest) : rest[i] = given[taken + i]
<1>1. taken \in Nat /\ Len(given) \in Nat /\ taken <= Len(given) /\ given \in Seq(Metas)
  BY DEF Served, Remains
<1> DEFINE m == taken + 1 l == Len(given)
<1>2. /\ m \in Int /\ l \in Int /\ l - m + 1 = l - taken
      /\ (IF m <= l THEN l - m + 1 ELSE 0) = l - taken
      /\ \A i : i \in 1 .. l - taken => i \in Int /\ m + i - 1 = taken + i
      /\ \A i \in m .. l : i \in 1 .. l
  <2>1. l \in Nat /\ taken \in Nat /\ taken <= l /\ m = taken + 1
    BY <1>1
  <2> HIDE DEF m, l
  <2>2. m \in Int /\ l \in Int /\ l - m + 1 = l - taken
    BY <2>1
  <2>3. (IF m <= l THEN l - m + 1 ELSE 0) = l - taken
    <3>1. CASE m <= l
      BY <2>2, <3>1
    <3>2. CASE ~(m <= l)
      <4>1. l = taken /\ l - taken = 0
        BY <2>1, <3>2
      <4> QED
        BY <3>2, <4>1
    <3> QED
      BY <3>1, <3>2
  <2>4. \A i : i \in 1 .. l - taken => i \in Int /\ m + i - 1 = taken + i
    BY <2>1
  <2>5. \A i \in m .. l : i \in 1 .. l
    BY <2>1
  <2> QED
    BY <2>2, <2>3, <2>4, <2>5
<1>3. \A i \in 1 .. l : given[i] \in Metas
  BY <1>1
<1>4. rest = SubSeq(given, m, l)
  BY DEF Remains
<1> HIDE DEF m, l
<1>5. /\ SubSeq(given, m, l) \in Seq(Metas)
      /\ Len(SubSeq(given, m, l)) = IF m <= l THEN l - m + 1 ELSE 0
      /\ \A i \in 1 .. l - m + 1 : SubSeq(given, m, l)[i] = given[m + i - 1]
  BY <1>2, <1>3, SubSeqProperties
<1>6. rest \in Seq(Metas) /\ Len(rest) = l - taken
  BY <1>2, <1>4, <1>5
<1>7. \A i \in 1 .. l - taken : rest[i] = given[taken + i]
  BY <1>2, <1>4, <1>5
<1> QED
  BY <1>1, <1>6, <1>7 DEF l

\* What a slice is read as: one kind of account, or two.
Slice(rest, first, second, m) ==
  [i \in 1 .. Len(rest) |-> Entry(IF i <= m THEN first ELSE second, rest[i])]

Divided(rest, first, second, m, n, sub, kind) ==
  /\ \A i \in 1 .. Len(rest) : i <= m => Serves(first, rest[i], n, sub, kind)
  /\ \A i \in 1 .. Len(rest) : i > m => Serves(second, rest[i], n, sub, kind)

LEMMA SliceServes ==
  ASSUME NEW rest \in Seq(Metas), NEW first \in Takes, NEW second \in Takes, NEW m \in Nat,
         NEW n, NEW sub, NEW kind, Divided(rest, first, second, m, n, sub, kind)
  PROVE  /\ Slice(rest, first, second, m) \in Seq(Entries)
         /\ Len(Slice(rest, first, second, m)) = Len(rest)
         /\ \A i \in 1 .. Len(rest) :
              /\ Slice(rest, first, second, m)[i]
                   = Entry(IF i <= m THEN first ELSE second, rest[i])
              /\ Serves(Slice(rest, first, second, m)[i].take,
                        Slice(rest, first, second, m)[i].meta, n, sub, kind)
<1> DEFINE slice == Slice(rest, first, second, m)
<1>1. \A take \in Takes, meta \in Metas :
        /\ Entry(take, meta) \in Entries
        /\ Entry(take, meta).take = take /\ Entry(take, meta).meta = meta
  BY DEF Entry, Entries
<1>2. Len(rest) \in Nat /\ \A i \in 1 .. Len(rest) : rest[i] \in Metas
  OBVIOUS
<1>3. \A i \in 1 .. Len(rest) : (IF i <= m THEN first ELSE second) \in Takes
  OBVIOUS
<1>4. /\ DOMAIN slice = 1 .. Len(rest)
      /\ \A i \in 1 .. Len(rest) : slice[i] = Entry(IF i <= m THEN first ELSE second, rest[i])
  BY DEF Slice
<1>5. slice \in [1 .. Len(rest) -> Entries]
  <2>1. slice = [i \in 1 .. Len(rest) |-> Entry(IF i <= m THEN first ELSE second, rest[i])]
    BY DEF Slice
  <2>2. \A i \in 1 .. Len(rest) : Entry(IF i <= m THEN first ELSE second, rest[i]) \in Entries
    BY <1>1, <1>2, <1>3
  <2> HIDE DEF slice
  <2> QED
    BY <2>1, <2>2
<1> HIDE DEF slice
<1>6. slice \in Seq(Entries) /\ Len(slice) = Len(rest)
  BY <1>2, <1>5
<1>7. ASSUME NEW i \in 1 .. Len(rest)
      PROVE  Serves(slice[i].take, slice[i].meta, n, sub, kind)
  <2>1. CASE i <= m
    <3>1. Serves(first, rest[i], n, sub, kind)
      BY <2>1 DEF Divided
    <3> QED
      BY <1>1, <1>2, <1>4, <2>1, <3>1
  <2>2. CASE ~(i <= m)
    <3>1. Serves(second, rest[i], n, sub, kind)
      BY <1>2, <2>2 DEF Divided
    <3> QED
      BY <1>1, <1>2, <1>4, <2>2, <3>1
  <2> QED
    BY <2>1, <2>2
<1> QED
  BY <1>4, <1>6, <1>7 DEF slice

LEMMA SliceKinds ==
  ASSUME NEW n, NEW sub, NEW kind
  PROVE  /\ Wire!Reads("signer") \in Takes /\ Wire!Reads("member") \in Takes
         /\ Wire!Writes("source") \in Takes
         /\ Serves(Wire!Reads("signer"), Signer, n, sub, kind)
         /\ Serves(Wire!Reads("member"), Member, n, sub, kind)
         /\ Serves(Wire!Writes("source"), Source, n, sub, kind)
BY AccountFacts DEF Serves, Wire!Reads, Wire!Writes, Wire!Take, Takes, Roles

\* What the handler makes of the rest when it has taken the others one by one.
RestRead(all, n, sub, kind) ==
  /\ all \in Seq(Entries)
  /\ \A i \in 1 .. Len(all) : Serves(all[i].take, all[i].meta, n, sub, kind)
  /\ kind \in {"signers", "signers_then_sources"} =>
       n <= Len(all) /\ \A i \in 1 .. n : all[i] = Entry(Wire!Reads("signer"), Signer)

LEMMA RestIsRead ==
  ASSUME Fitting(call, transaction), Reading, Wire!Taken = Len(handled.takes)
  PROVE  RestRead(Wire!Rest, call.signers, transaction.sub, handled.rest)
<1> DEFINE n == call.signers
           k == transaction.data.num_token_accounts
           given == transaction.accounts
           taken == Wire!Taken
           sub == transaction.sub
           rest == SubSeq(given, taken + 1, Len(given))
           signer == Wire!Reads("signer")
           member == Wire!Reads("member")
           source == Wire!Writes("source")
<1>1. n \in Nat /\ k \in Nat
  BY DEF Fitting
<1>2. Served(handled, given, n, k, sub)
  BY ReadingServed
<1>3. Left(handled.rest, taken, given, n, k)
  BY <1>2 DEF Served
<1>4. /\ taken \in Nat /\ Len(given) \in Nat /\ taken <= Len(given)
      /\ rest \in Seq(Metas) /\ Len(rest) = Len(given) - taken
      /\ \A i \in 1 .. Len(rest) : rest[i] = given[taken + i]
  <2> HIDE DEF n, k, given, taken, sub
  <2>1. Remains(rest, handled, given, taken)
    BY DEF Remains, taken
  <2> HIDE DEF rest
  <2> QED
    BY <1>1, <1>2, <2>1, RestServed
<1>5. handled.rest = "ignored" => Wire!Rest = <<>>
  BY DEF Wire!Rest
<1>6. handled.rest = "signers" => Wire!Rest = Slice(rest, signer, signer, n)
  BY DEF Wire!Rest, Slice, Entry
<1>7. handled.rest = "members" => Wire!Rest = Slice(rest, member, member, n)
  BY DEF Wire!Rest, Slice, Entry
<1>8. handled.rest = "sources" => Wire!Rest = Slice(rest, source, source, n)
  BY DEF Wire!Rest, Slice, Entry
<1>9. handled.rest = "signers_then_sources" =>
        Wire!Rest = Slice(rest, signer, source, Wire!num_signers(Len(rest)))
  BY DEF Wire!Rest, Slice, Entry
<1>10. Wire!num_signers(Len(rest)) = IF Len(rest) < k THEN 0 ELSE Len(rest) - k
  BY DEF Wire!num_signers
<1>11. /\ signer \in Takes /\ member \in Takes /\ source \in Takes
       /\ \A kind : /\ Serves(signer, Signer, n, sub, kind)
                    /\ Serves(member, Member, n, sub, kind)
                    /\ Serves(source, Source, n, sub, kind)
  BY SliceKinds
<1> HIDE DEF n, k, given, taken, sub, rest, signer, member, source
<1>12. CASE handled.rest = "ignored"
  BY <1>5, <1>12 DEF RestRead
<1>13. CASE handled.rest = "signers"
  <2>1. /\ Len(given) = taken + n
        /\ \A i \in taken + 1 .. Len(given) : given[i] = Signer
    BY <1>3, <1>13 DEF Left
  <2>2. Len(rest) = n /\ \A i \in 1 .. Len(rest) : rest[i] = Signer
    BY <1>1, <1>4, <2>1
  <2>3. /\ Wire!Rest \in Seq(Entries) /\ Len(Wire!Rest) = Len(rest)
        /\ \A i \in 1 .. Len(rest) :
             /\ Wire!Rest[i] = Entry(IF i <= n THEN signer ELSE signer, rest[i])
             /\ Serves(Wire!Rest[i].take, Wire!Rest[i].meta, n, sub, "signers")
    <3>1. Divided(rest, signer, signer, n, n, sub, "signers")
      BY <1>11, <2>2 DEF Divided
    <3> DEFINE slice == Slice(rest, signer, signer, n)
    <3>2. /\ slice \in Seq(Entries) /\ Len(slice) = Len(rest)
          /\ \A i \in 1 .. Len(rest) :
               /\ slice[i] = Entry(IF i <= n THEN signer ELSE signer, rest[i])
               /\ Serves(slice[i].take, slice[i].meta, n, sub, "signers")
      BY <1>1, <1>4, <1>11, <3>1, SliceServes
    <3>3. Wire!Rest = slice
      BY <1>6, <1>13
    <3> QED
      BY <3>2, <3>3
  <2> QED
    BY <1>1, <1>13, <2>2, <2>3 DEF RestRead, n, sub, signer
<1>14. CASE handled.rest = "members"
  <2>1. \A i \in taken + 1 .. Len(given) : given[i] = Member
    BY <1>3, <1>14 DEF Left
  <2>2. \A i \in 1 .. Len(rest) : rest[i] = Member
    BY <1>4, <2>1
  <2>3. /\ Wire!Rest \in Seq(Entries) /\ Len(Wire!Rest) = Len(rest)
        /\ \A i \in 1 .. Len(rest) :
             Serves(Wire!Rest[i].take, Wire!Rest[i].meta, n, sub, "members")
    <3>1. Divided(rest, member, member, n, n, sub, "members")
      BY <1>11, <2>2 DEF Divided
    <3> DEFINE slice == Slice(rest, member, member, n)
    <3>2. /\ slice \in Seq(Entries) /\ Len(slice) = Len(rest)
          /\ \A i \in 1 .. Len(rest) :
               /\ slice[i] = Entry(IF i <= n THEN member ELSE member, rest[i])
               /\ Serves(slice[i].take, slice[i].meta, n, sub, "members")
      BY <1>1, <1>4, <1>11, <3>1, SliceServes
    <3>3. Wire!Rest = slice
      BY <1>7, <1>14
    <3> QED
      BY <3>2, <3>3
  <2> QED
    BY <1>14, <2>3 DEF RestRead, n, sub
<1>15. CASE handled.rest = "sources"
  <2>1. \A i \in taken + 1 .. Len(given) : given[i] = Source
    BY <1>3, <1>15 DEF Left
  <2>2. \A i \in 1 .. Len(rest) : rest[i] = Source
    BY <1>4, <2>1
  <2>3. /\ Wire!Rest \in Seq(Entries) /\ Len(Wire!Rest) = Len(rest)
        /\ \A i \in 1 .. Len(rest) :
             Serves(Wire!Rest[i].take, Wire!Rest[i].meta, n, sub, "sources")
    <3>1. Divided(rest, source, source, n, n, sub, "sources")
      BY <1>11, <2>2 DEF Divided
    <3> DEFINE slice == Slice(rest, source, source, n)
    <3>2. /\ slice \in Seq(Entries) /\ Len(slice) = Len(rest)
          /\ \A i \in 1 .. Len(rest) :
               /\ slice[i] = Entry(IF i <= n THEN source ELSE source, rest[i])
               /\ Serves(slice[i].take, slice[i].meta, n, sub, "sources")
      BY <1>1, <1>4, <1>11, <3>1, SliceServes
    <3>3. Wire!Rest = slice
      BY <1>8, <1>15
    <3> QED
      BY <3>2, <3>3
  <2> QED
    BY <1>15, <2>3 DEF RestRead, n, sub
<1>16. CASE handled.rest = "signers_then_sources"
  <2>1. /\ Len(given) = taken + n + k
        /\ \A i \in taken + 1 .. taken + n : given[i] = Signer
        /\ \A i \in taken + n + 1 .. Len(given) : given[i] = Source
    BY <1>3, <1>16 DEF Left
  <2>2. Len(rest) = n + k
    BY <1>1, <1>4, <2>1
  <2>3. Wire!num_signers(Len(rest)) = n
    BY <1>1, <1>10, <2>2
  <2>4. /\ \A i \in 1 .. Len(rest) : i <= n => rest[i] = Signer
        /\ \A i \in 1 .. Len(rest) : i > n => rest[i] = Source
    BY <1>1, <1>4, <2>1, <2>2
  <2>5. /\ Wire!Rest \in Seq(Entries) /\ Len(Wire!Rest) = Len(rest)
        /\ \A i \in 1 .. Len(rest) :
             /\ Wire!Rest[i] = Entry(IF i <= n THEN signer ELSE source, rest[i])
             /\ Serves(Wire!Rest[i].take, Wire!Rest[i].meta, n, sub, "signers_then_sources")
    <3>1. Divided(rest, signer, source, n, n, sub, "signers_then_sources")
      BY <1>11, <2>4 DEF Divided
    <3> DEFINE slice == Slice(rest, signer, source, n)
    <3>2. /\ slice \in Seq(Entries) /\ Len(slice) = Len(rest)
          /\ \A i \in 1 .. Len(rest) :
               /\ slice[i] = Entry(IF i <= n THEN signer ELSE source, rest[i])
               /\ Serves(slice[i].take, slice[i].meta, n, sub, "signers_then_sources")
      BY <1>1, <1>4, <1>11, <3>1, SliceServes
    <3>3. Wire!Rest = slice
      BY <1>9, <1>16, <2>3
    <3> QED
      BY <3>2, <3>3
  <2>6. \A i \in 1 .. n : i \in 1 .. Len(rest) /\ i <= n
    BY <1>1, <2>2
  <2>7. \A i \in 1 .. n : Wire!Rest[i] = Entry(signer, Signer)
    BY <2>4, <2>5, <2>6
  <2>8. n <= Len(Wire!Rest)
    BY <1>1, <2>2, <2>5
  <2> QED
    BY <1>16, <2>5, <2>7, <2>8 DEF RestRead, n, sub, signer
<1> QED
  BY <1>3, <1>12, <1>13, <1>14, <1>15, <1>16 DEF Left

\* The signers of a slice are as many signatures.
Signature(entry) ==
  entry.take.role = "signer" /\ entry.meta.role = "signer" /\ entry.meta.is_signer

LEMMA CountedSigners ==
  ASSUME NEW n \in Nat, NEW first \in Nat, NEW all \in Seq(Entries), first + n <= Len(all),
         \A i \in first + 1 .. first + n : Signature(all[i])
  PROVE  n <= Wire!Cardinality({i \in 1 .. Len(all) : Signature(all[i])})
<1> DEFINE signed == {i \in 1 .. Len(all) : Signature(all[i])}
           counted == first + 1 .. first + n
<1>1. Len(all) \in Nat
  OBVIOUS
<1>2. IsFiniteSet(1 .. Len(all))
  BY <1>1, FS_Interval
<1>3. IsFiniteSet(signed)
  <2>1. signed \in SUBSET (1 .. Len(all))
    OBVIOUS
  <2> QED
    BY <1>2, <2>1, FS_Subset
<1>4. counted \in SUBSET signed
  BY <1>1
<1>5. Cardinality(counted) = n
  <2> DEFINE a == first + 1 b == first + n
  <2>1. a \in Int /\ b \in Int /\ (a > b => n = 0) /\ b - a + 1 = n
    OBVIOUS
  <2> HIDE DEF a, b
  <2>2. Cardinality(a .. b) = IF a > b THEN 0 ELSE b - a + 1
    BY <2>1, FS_Interval
  <2>3. Cardinality(a .. b) = n
    BY <2>1, <2>2
  <2> QED
    BY <2>3 DEF a, b
<1> HIDE DEF signed, counted
<1>6. n <= Cardinality(signed)
  BY <1>3, <1>4, <1>5, FS_Subset
<1>7. Wire!Cardinality(signed) = Cardinality(signed)
  BY Zenon DEF Wire!Cardinality, Cardinality
<1> QED
  BY <1>6, <1>7 DEF signed

\* All that a handler sees, when it lists what it took and then the rest.
LEMMA AllSigned ==
  ASSUME Fitting(call, transaction), Reading, Wire!Taken = Len(handled.takes),
         NEW all, all = seen \o Wire!Rest
  PROVE  /\ Matched(all) /\ Wire!Writable(all)
         /\ Unsigned(call.signers, transaction.sub) \/ Wire!Signed(all)
<1> DEFINE n == call.signers
           sub == transaction.sub
           kind == handled.rest
           rest == Wire!Rest
<1>1. n \in Nat
  BY DEF Fitting
<1>2. /\ rest \in Seq(Entries)
      /\ \A i \in 1 .. Len(rest) : Serves(rest[i].take, rest[i].meta, n, sub, kind)
      /\ kind \in {"signers", "signers_then_sources"} =>
           n <= Len(rest) /\ \A i \in 1 .. n : rest[i] = Entry(Wire!Reads("signer"), Signer)
  BY RestIsRead DEF RestRead
<1>3. /\ seen \in Seq(Entries)
      /\ \A i \in 1 .. Len(seen) : Serves(seen[i].take, seen[i].meta, n, sub, kind)
  BY TakenServed DEF Reading
<1>4. all = seen \o rest
  OBVIOUS
<1> HIDE DEF rest
<1>5. /\ all \in Seq(Entries) /\ Len(all) = Len(seen) + Len(rest)
      /\ Len(seen) \in Nat /\ Len(rest) \in Nat
      /\ \A i \in 1 .. Len(seen) : all[i] = seen[i]
      /\ \A i \in Len(seen) + 1 .. Len(seen) + Len(rest) : all[i] = rest[i - Len(seen)]
  BY <1>2, <1>3, <1>4
<1>6. \A i \in 1 .. Len(all) : Serves(all[i].take, all[i].meta, n, sub, kind)
  <2> TAKE i \in 1 .. Len(all)
  <2>1. CASE i \in 1 .. Len(seen)
    BY <1>3, <1>5, <2>1
  <2>2. CASE i \notin 1 .. Len(seen)
    <3>1. i \in Len(seen) + 1 .. Len(seen) + Len(rest) /\ i - Len(seen) \in 1 .. Len(rest)
      BY <1>5, <2>2
    <3> QED
      BY <1>2, <1>5, <3>1
  <2> QED
    BY <2>1, <2>2
<1>7. /\ Matched(all) /\ Wire!Writable(all)
      /\ ~Unsigned(n, sub) => \A s \in Wire!In(all) : s.take.signature = "own" => s.meta.is_signer
      /\ \A s \in Wire!In(all) : s.take.signature = "owner" =>
           (n = 0 => s.meta.is_signer) /\ kind \in {"signers", "signers_then_sources"}
  <2> HIDE DEF n, sub, kind
  <2> QED
    BY <1>6, ServedMatched
<1>8. kind \in {"signers", "signers_then_sources"} =>
        n <= Wire!Cardinality({i \in 1 .. Len(all) : Signature(all[i])})
  <2> HAVE kind \in {"signers", "signers_then_sources"}
  <2>1. n <= Len(rest) /\ \A i \in 1 .. n : rest[i] = Entry(Wire!Reads("signer"), Signer)
    BY <1>2
  <2>2. Signature(Entry(Wire!Reads("signer"), Signer))
    BY AccountFacts DEF Signature, Entry, Wire!Reads, Wire!Take
  <2> HIDE DEF n
  <2>3. \A i \in Len(seen) + 1 .. Len(seen) + n :
          i \in Len(seen) + 1 .. Len(seen) + Len(rest) /\ i - Len(seen) \in 1 .. n
    BY <1>1, <1>5, <2>1
  <2>4. \A i \in Len(seen) + 1 .. Len(seen) + n : Signature(all[i])
    BY <1>5, <2>1, <2>2, <2>3
  <2>5. Len(seen) + n <= Len(all)
    BY <1>1, <1>5, <2>1
  <2> QED
    BY <1>1, <1>5, <2>4, <2>5, CountedSigners
<1>9. /\ \A s \in Wire!In(all) : s.take.signature = "own" => s.meta.is_signer
      /\ \A s \in Wire!In(all) : s.take.signature = "owner" =>
           IF n = 0 THEN s.meta.is_signer
           ELSE n <= Wire!Cardinality({i \in 1 .. Len(all) : Signature(all[i])})
      => Wire!Signed(all)
  BY Zenon DEF Wire!Signed, Signature
<1> QED
  BY <1>7, <1>8, <1>9

LEMMA InitWireInv == Init => WireInv
BY DEF Init, Wire!Init, WireInv

LEMMA BuildFits ==
  ASSUME WireInv, "transfer_with_fee" \in Avoided, NEW c \in Wire!Calls, Wire!Build(c)
  PROVE  WireInv'
<1> DEFINE built == Wire!Built(c)[c.builder]
<1>1. Asked(c) /\ outcome = "idle"
  BY DEF Asked, Wire!Build
<1>2. Fitting([requested |-> built.tag, signers |-> c.signers], Instruction(c, built))
  BY <1>1, BuiltFitting
<1>3. /\ call' = [requested |-> built.tag, signers |-> c.signers]
      /\ transaction' = Instruction(c, built)
      /\ outcome' = "sent" /\ seen' = seen
  BY Zenon DEF Wire!Build, Instruction, DataOf
<1> HIDE DEF built
<1> QED
  BY <1>1, <1>2, <1>3 DEF WireInv

LEMMA ProcessFits ==
  ASSUME WireInv, Wire!Process
  PROVE  WireInv'
<1>1. /\ outcome = "sent" /\ outcome' = "running" /\ seen' = <<>>
      /\ handled' = Wire!process(transaction.tag, transaction.sub, transaction.data)
      /\ call' = call /\ transaction' = transaction /\ Fitting(call, transaction)
  BY DEF WireInv, Wire!Process
<1> DEFINE takes == handled'.takes
<1>2. Served(handled', transaction.accounts, call.signers, transaction.data.num_token_accounts,
             transaction.sub)
  BY <1>1, SuitsServed DEF Fitting
<1>3. Len(takes) \in Nat
  BY <1>2 DEF Served
<1>4. Reading'
  BY <1>1, <1>3 DEF Reading
<1> QED
  BY <1>1, <1>4 DEF WireInv

\* The next account is there, and is what it is taken for.
LEMMA NextAccountFits ==
  ASSUME WireInv, Wire!next_account_info
  PROVE  WireInv'
<1> DEFINE given == transaction.accounts
           i == Len(seen) + 1
           one == Entry(handled.takes[i], given[i])
<1>1. /\ outcome = "running" /\ Fitting(call, transaction) /\ Reading
      /\ call' = call /\ transaction' = transaction /\ handled' = handled
      /\ Len(seen) < Len(handled.takes)
  BY DEF WireInv, Wire!next_account_info, Wire!Taken
<1>2. Served(handled, given, call.signers, transaction.data.num_token_accounts, transaction.sub)
  BY <1>1, ReadingServed
<1>3. /\ handled.takes \in Seq(Takes) /\ given \in Seq(Metas) /\ Len(handled.takes) <= Len(given)
      /\ seen \in Seq(Entries)
      /\ \A j \in 1 .. Len(seen) : seen[j] = Entry(handled.takes[j], given[j])
  BY <1>1, <1>2 DEF Served, Reading
<1>4. /\ i \in Nat /\ i <= Len(handled.takes) /\ Len(seen) < Len(given)
      /\ handled.takes[i] \in Takes /\ given[i] \in Metas
  BY <1>1, <1>3
<1>5. outcome' = outcome /\ seen' = Append(seen, one)
  BY <1>4 DEF Wire!next_account_info, Wire!Taken, Entry
<1>6. one \in Entries
  BY <1>4 DEF Entry, Entries
<1> HIDE DEF one
<1>7. /\ seen' \in Seq(Entries) /\ Len(seen') = i
      /\ \A j \in 1 .. Len(seen) : seen'[j] = seen[j]
      /\ seen'[i] = one
  BY <1>3, <1>5, <1>6
<1>8. \A j \in 1 .. Len(seen') : seen'[j] = Entry(handled.takes[j], given[j])
  BY <1>3, <1>7 DEF one
<1>9. Reading'
  BY <1>1, <1>4, <1>7, <1>8 DEF Reading
<1> QED
  BY <1>1, <1>5, <1>9 DEF WireInv

LEMMA FinishFits ==
  ASSUME WireInv, Wire!Finish
  PROVE  WireInv'
<1>1. /\ outcome = "running" /\ Fitting(call, transaction) /\ Reading
      /\ Wire!Taken = Len(handled.takes)
      /\ call' = call /\ transaction' = transaction
      /\ seen' = seen \o Wire!Rest
  BY DEF WireInv, Wire!Finish
<1>2. outcome' = IF ~Wire!ProofFound THEN "InvalidInstructionData"
                 ELSE IF ~Wire!Signed(seen') THEN "MissingRequiredSignature"
                 ELSE IF ~Wire!Writable(seen') THEN "ReadonlyDataModified"
                 ELSE "done"
  BY DEF Wire!Finish
<1>3. Wire!ProofFound
  BY <1>1 DEF Fitting, Backed, Wire!ProofFound
<1> DEFINE all == seen'
<1>4. all = seen \o Wire!Rest
  BY <1>1
<1> HIDE DEF all
<1>5. /\ Matched(all) /\ Wire!Writable(all)
      /\ Unsigned(call.signers, transaction.sub) \/ Wire!Signed(all)
  BY <1>1, <1>4, AllSigned
<1>6. outcome' = IF Wire!Signed(all) THEN "done" ELSE "MissingRequiredSignature"
  BY <1>2, <1>3, <1>5 DEF all
<1>7. Matched(seen')
  BY <1>5 DEF all
<1> QED
  BY <1>1, <1>5, <1>6, <1>7 DEF WireInv, Matched

LEMMA ReturnFits ==
  ASSUME WireInv, Wire!Return
  PROVE  WireInv'
BY DEF WireInv, Wire!Return

LEMMA WireStep ==
  ASSUME WireInv, "transfer_with_fee" \in Avoided, [Next]_vars
  PROVE  WireInv'
<1>1. CASE Wire!Next
  BY <1>1, BuildFits, ProcessFits, NextAccountFits, FinishFits, ReturnFits DEF Wire!Next
<1>2. CASE UNCHANGED wire_vars
  BY <1>2 DEF wire_vars, WireInv, Reading, Matched
<1> QED
  BY <1>1, <1>2, PartSteps

LEMMA WireInvMeans ==
  ASSUME WireInv
  PROVE  Wire!AccountsInTheirRoles /\ Wire!BuiltIsAccepted
<1>1. Wire!BuiltIsAccepted
  BY DEF WireInv, Unsigned, Wire!BuiltIsAccepted
<1>2. outcome \in {"running", "done"} =>
        Wire!PodTokenInstruction[transaction.tag + 1] = call.requested
  BY DEF WireInv, Fitting
<1>3. outcome = "running" => Matched(seen)
  <2> HAVE outcome = "running"
  <2>1. \A i \in 1 .. Len(seen) :
          Serves(seen[i].take, seen[i].meta, call.signers, transaction.sub, handled.rest)
    BY TakenServed DEF WireInv
  <2> QED
    BY <2>1, ServedMatched
<1>4. outcome = "done" => Matched(seen)
  BY DEF WireInv
<1> QED
  BY <1>1, <1>2, <1>3, <1>4 DEF Wire!AccountsInTheirRoles, Matched

\* As long as clients do not call transfer_with_fee, which passes two of its accounts on
\* in the wrong order, handlers take every account for what its builder listed it for
\* (next_account_info and as_slice against the builders of instruction.rs), for any
\* number of signers and sources and wherever the proof is.
THEOREM RolesAsListed ==
  ASSUME "transfer_with_fee" \in Avoided
  PROVE  Spec => []AccountsInTheirRoles
<1>1. Init => WireInv
  BY InitWireInv
<1>2. WireInv /\ [Next]_vars => WireInv'
  BY WireStep
<1>3. WireInv => AccountsInTheirRoles
  BY WireInvMeans DEF AccountsInTheirRoles
<1> QED
  BY <1>1, <1>2, <1>3, PTL DEF Spec

\* What the other builders return is enough for their handlers: no account, signature,
\* proof or right to write is missing, but under a multisig those of UpdateMint and
\* ApproveAccount (process_update_mint and process_approve_account read is_signer).
THEOREM BuildersSuffice ==
  ASSUME "transfer_with_fee" \in Avoided
  PROVE  Spec => []BuiltIsAccepted
<1>1. Init => WireInv
  BY InitWireInv
<1>2. WireInv /\ [Next]_vars => WireInv'
  BY WireStep
<1>3. WireInv => BuiltIsAccepted
  BY WireInvMeans DEF BuiltIsAccepted
<1> QED
  BY <1>1, <1>2, <1>3, PTL DEF Spec
=============================================================================
