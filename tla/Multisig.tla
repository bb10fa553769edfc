------------------------------ MODULE Multisig ------------------------------
(***************************************************************************)
(* A multisignature account as the authority of something, here the owner  *)
(* of a token account.  validate_owner is modelled as the loop it is: one  *)
(* step per presented signer account, each compared with every position of *)
(* the multisig.  An instruction runs alone, so nothing else happens       *)
(* between ValidateOwner and the step that concludes it.                   *)
(***************************************************************************)
EXTENDS Integers, FiniteSets, Sequences

CONSTANTS
  Keys,              \* addresses that can sign
  MultisigAddress,   \* the address of the multisig account, which cannot
  MAX_SIGNERS,       \* 11 in the code
  MaxPresented       \* bound: signer accounts appended to one instruction

MultisigAssumption ==
  /\ IsFiniteSet(Keys)
  /\ MultisigAddress \notin Keys
  /\ MAX_SIGNERS \in Nat \ {0}
  /\ MaxPresented \in Nat

VARIABLES
  multisig,   \* the multisig account
  owner,      \* the owner of a token account
  excess,     \* does the multisig account hold lamports above its reserve?
  call        \* the instruction in progress

vars == <<multisig, owner, excess, call>>

MIN_SIGNERS == 1
is_valid_signer_index(i) == i \in MIN_SIGNERS..MAX_SIGNERS

Owners == Keys \cup {MultisigAddress}
Lists(max) == UNION {[1..k -> Keys] : k \in 0..max}
MultisigState == [is_initialized : BOOLEAN, m : 0..MAX_SIGNERS, signers : Lists(MAX_SIGNERS)]
Operations == {"SetAuthority", "WithdrawExcessLamports"}
CallState == [status : {"none", "running", "accepted", "refused"}, op : Operations,
              expected : Owners, signers : Lists(MaxPresented), signed : SUBSET Keys,
              new : Owners, i : 1..MaxPresented + 1,
              matched : SUBSET (1..MAX_SIGNERS), num_signers : 0..MAX_SIGNERS]

\* n is the length of the list; the unused slots of the array are never read.
NumberOf(ms) == Len(ms.signers)

NoCall == [status |-> "none", op |-> "SetAuthority", expected |-> MultisigAddress,
           signers |-> <<>>, signed |-> {}, new |-> MultisigAddress, i |-> 1,
           matched |-> {}, num_signers |-> 0]

(***************************************************************************)
(* InitializeMultisig and InitializeMultisig2.  m may exceed n: only the   *)
(* builders in instruction.rs refuse that.                                 *)
(***************************************************************************)
InitializeMultisig(m, signers) ==
  /\ call = NoCall
  /\ ~multisig.is_initialized
  /\ is_valid_signer_index(Len(signers))
  /\ is_valid_signer_index(m)
  /\ multisig' = [is_initialized |-> TRUE, m |-> m, signers |-> signers]
  /\ UNCHANGED <<owner, excess, call>>

\* An instruction that asks validate_owner for an authority is executed: a change
\* of the token account's owner, or WithdrawExcessLamports from the multisig
\* account, whose expected owner is the multisig itself.
ValidateOwner(op, expected, signers, signed, new) ==
  /\ call = NoCall
  /\ call' = [status |-> "running", op |-> op, expected |-> expected, signers |-> signers,
              signed |-> signed, new |-> new, i |-> 1, matched |-> {}, num_signers |-> 0]
  /\ UNCHANGED <<multisig, owner, excess>>

\* Mutant: the inner loop stops at the first hit.
FirstHit ==
  LET hits == {p \in 1..NumberOf(multisig) :
                 multisig.signers[p] = call.signers[call.i] /\ p \notin call.matched}
  IN  {p \in hits : \A q \in hits : p <= q}

\* The inner loop does not stop at the first hit: a key listed twice matches twice.
Hits == {p \in 1..NumberOf(multisig) :
           multisig.signers[p] = call.signers[call.i] /\ p \notin call.matched}

Looping ==
  /\ call.status = "running"
  /\ call.expected = MultisigAddress
  /\ call.i <= Len(call.signers)

ExamineSigner ==
  /\ Looping
  /\ Hits = {} \/ call.signers[call.i] \in call.signed
  /\ call' = [call EXCEPT !.i = @ + 1, !.matched = @ \cup Hits,
                          !.num_signers = @ + Cardinality(Hits)]
  /\ UNCHANGED <<multisig, owner, excess>>

\* A listed key is present without having signed.
RefuseUnsigned ==
  /\ Looping
  /\ Hits # {} /\ call.signers[call.i] \notin call.signed
  /\ call' = [call EXCEPT !.status = "refused"]
  /\ UNCHANGED <<multisig, owner, excess>>

Passed ==
  IF call.expected = MultisigAddress
    THEN call.num_signers >= multisig.m
    ELSE call.expected \in call.signed

Conclude ==
  /\ call.status = "running"
  /\ call.expected = MultisigAddress => call.i > Len(call.signers)

Accept ==
  /\ Conclude
  /\ Passed
  /\ call' = [call EXCEPT !.status = "accepted"]
  /\ owner' = IF call.op = "SetAuthority" THEN call.new ELSE owner
  /\ excess' = IF call.op = "WithdrawExcessLamports" THEN FALSE ELSE excess
  /\ UNCHANGED multisig

Refuse ==
  /\ Conclude
  /\ ~Passed
  /\ call' = [call EXCEPT !.status = "refused"]
  /\ UNCHANGED <<multisig, owner, excess>>

\* The instruction is over; its caller sees the result.
Return ==
  /\ call.status \in {"accepted", "refused"}
  /\ call' = NoCall
  /\ UNCHANGED <<multisig, owner, excess>>

\* Anyone may send lamports to the multisig account (system program).
ReceiveLamports ==
  /\ call = NoCall
  /\ ~excess
  /\ excess' = TRUE
  /\ UNCHANGED <<multisig, owner, call>>

Init ==
  /\ multisig = [is_initialized |-> FALSE, m |-> 0, signers |-> <<>>]
  /\ owner \in Owners
  /\ excess = FALSE
  /\ call = NoCall

Next ==
  \/ \E m \in 0..MAX_SIGNERS, signers \in Lists(MAX_SIGNERS) : InitializeMultisig(m, signers)
  \/ \E signers \in Lists(MaxPresented), signed \in SUBSET Keys :
       \/ \E new \in Owners : ValidateOwner("SetAuthority", owner, signers, signed, new)
       \/ ValidateOwner("WithdrawExcessLamports", MultisigAddress, signers, signed, owner)
  \/ ExamineSigner
  \/ RefuseUnsigned
  \/ Accept
  \/ Refuse
  \/ Return
  \/ ReceiveLamports

Spec == Init /\ [][Next]_vars

-----------------------------------------------------------------------------

\* Every variable has its type.
TypeOK ==
  /\ multisig \in MultisigState
  /\ owner \in Owners
  /\ excess \in BOOLEAN
  /\ call \in CallState

SetOf(list) == {list[j] : j \in 1..Len(list)}

\* The reference: the positions of the multisig whose keys are among the first k
\* presented signers, and what a quorum of them is.
PositionsOf(k) ==
  {p \in 1..NumberOf(multisig) : \E j \in 1..k : multisig.signers[p] = call.signers[j]}
Quorum ==
  /\ SetOf(call.signers) \cap SetOf(multisig.signers) \subseteq call.signed
  /\ Cardinality(PositionsOf(Len(call.signers))) >= multisig.m

\* validate_owner decides by the reference: where the multisig is the owner, an
\* instruction is accepted exactly when every listed key that is presented has
\* signed and at least m positions are held by them.  A key listed twice counts
\* twice, one presented twice counts once.
DecisionIsQuorum ==
  /\ TypeOK
  /\ call.expected = MultisigAddress =>
       /\ call.status = "accepted" => Quorum
       /\ call.status = "refused" => ~Quorum

=============================================================================
