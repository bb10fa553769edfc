---------------------------- MODULE SplitProofs ----------------------------
(***************************************************************************)
(* TransferWithSplitProofs: one confidential transfer whose proof is too   *)
(* large for a transaction and is spread over context accounts, written by *)
(* transactions of their own that land in any order                        *)
(* (confidential_transfer/verify_proof.rs, ciphertext_extraction.rs,       *)
(* split_proof_generation.rs).                                             *)
(*                                                                         *)
(* A sender prepares transfers, here intents, from the balance it reads.   *)
(* A context exists only if its statement is true, which is what the proof *)
(* program verifies; but the contexts an instruction names need not belong *)
(* together, so the program compares the commitments they have in common.  *)
(* Commitments are Ciphertext values: amount and randomness.               *)
(*                                                                         *)
(* Under the sender's key an amount is a commitment and a decrypt handle.  *)
(* No proof is about the handles of the amount sent: they are plain data   *)
(* of the instruction, so a handle too is any amount and any randomness,   *)
(* and the pair decrypts to the difference, if the randomness cancels.     *)
(***************************************************************************)
EXTENDS TransferFee, Ciphertext

CONSTANTS
  Intents,       \* the transfers a sender prepares, numbered
  Stepwise,      \* those tried again by every transaction that adds a context
  Amounts,       \* amounts that are sent
  HandleOffsets, \* amounts in an intent's decrypt handles; 0 as the client makes
                 \* them
  Rates,         \* transfer fees that come into force
  MAX_AMOUNT,    \* the largest amount whose halves pass the range proof
  Supply,        \* bound: the sender's first balance, and the fees tried
  MaxChanges     \* bound: changes of the fee in force and freezings

ASSUME SplitAssumption ==
  /\ Intents \subseteq Nat
  /\ Stepwise \subseteq Intents
  /\ Amounts \subseteq Nat
  /\ \A i \in Intents : HandleOffsets[i] \subseteq Int
  /\ MAX_AMOUNT \in Nat
  /\ \A f \in Rates : /\ f.transfer_fee_basis_points \in 0 .. ONE_IN_BASIS_POINTS
                      /\ f.maximum_fee \in Nat
  /\ [transfer_fee_basis_points |-> 0, maximum_fee |-> 0] \notin Rates
  /\ Supply \in Nat
  /\ MaxChanges \in Nat
  /\ \A i \in Intents : {2 * i, 2 * i + 1} \subseteq Labels

VARIABLES
  available,   \* the sender's available_balance: commitment and handle
  pending,     \* the destination's pending balance, lo and hi
  withheld,    \* the destination's withheld fees
  rate,        \* the transfer fee in force
  frozen,      \* the destination is frozen
  intent,      \* what the sender prepared
  contexts,    \* the context accounts that are initialized
  landed,      \* transactions create-and-transfer that have landed
  executed,    \* how often each intent was executed
  changes

vars == <<available, pending, withheld, rate, frozen, intent, contexts,
          landed, executed, changes>>

\* The mint has no TransferFeeConfig.
NoFee == [transfer_fee_basis_points |-> 0, maximum_fee |-> 0]

HasFees == rate # NoFee

\* The context accounts of a transfer: three, or five with a fee.
Roles == {"equality", "validity", "range"}
           \cup IF HasFees THEN {"sigma", "fee_validity"} ELSE {}

NoIntent == [amount |-> -1]

Prepared(i) == intent[i] # NoIntent

\* Ciphertexts under the sender's key.
Balances == [commitment : Ciphertexts, handle : Ciphertexts]

\* Such a ciphertext decrypts to a number if its randomness cancels.
Decrypts(b) == b.commitment.r = b.handle.r

Plain(b) == b.commitment.v - b.handle.v

\* syscall::subtract_with_lo_hi, on both components.
subtract_with_lo_hi(b, lo, hi) ==
  [commitment |-> Minus(b.commitment, LoHi(lo.commitment, hi.commitment)),
   handle |-> Minus(b.handle, LoHi(lo.handle, hi.handle))]

\* The source ciphertext of half an amount: the commitment of the validity
\* context with a decrypt handle of the instruction.
transfer_amount_encryption_from_decrypt_handle(commitment, handle) ==
  [commitment |-> commitment, handle |-> handle]

Init ==
  /\ available = [commitment |-> PlusAmount(Zeroed, Supply), handle |-> Zeroed]
  /\ pending = [lo |-> Zeroed, hi |-> Zeroed]
  /\ withheld = Zeroed
  /\ rate \in Rates \cup {NoFee}
  /\ frozen = FALSE
  /\ intent = [i \in Intents |-> NoIntent]
  /\ contexts = {}
  /\ landed = [i \in Intents |-> {}]
  /\ executed = [i \in Intents |-> 0]
  /\ changes = 0

-----------------------------------------------------------------------------
(***************************************************************************)
(* Preparing a transfer.                                                   *)
(***************************************************************************)
\* What the fee sigma proof states: the fee is the cap, or the claimed delta
\* ONE * fee - rate * amount is the true one, and the range proof keeps that
\* between 0 and ONE.
delta(f, amount, fee) ==
  ONE_IN_BASIS_POINTS * fee - f.transfer_fee_basis_points * amount

FeeProvable(f, amount, fee) ==
  \/ fee = f.maximum_fee
  \/ delta(f, amount, fee) \in 0 .. ONE_IN_BASIS_POINTS

\* transfer_split_proof_data and its counterpart with fees.  They make the
\* handles from the openings of the commitments, DecryptHandle::new, which is
\* offset 0.  A sender that makes its own can put an amount into them, but no
\* other randomness: the balance left has to decrypt for an equality proof.
Prepare(i, amount, fee, offset) ==
  LET label == 2 * i
      lo == Encrypt(Low(amount), label)
      hi == Encrypt(High(amount), label)
      handles == [lo |-> Encrypt(offset, label), hi |-> Encrypt(0, label)]
  IN  /\ ~Prepared(i)
      /\ HasFees => FeeProvable(rate, amount, fee)
      /\ intent' = [intent EXCEPT ![i] =
           [amount |-> amount, lo |-> lo, hi |-> hi, handles |-> handles,
            new_source |-> subtract_with_lo_hi(available,
              transfer_amount_encryption_from_decrypt_handle(lo, handles.lo),
              transfer_amount_encryption_from_decrypt_handle(hi, handles.hi)),
            rate |-> rate, fee |-> fee,
            fee_lo |-> Encrypt(Low(fee), label + 1),
            fee_hi |-> Encrypt(High(fee), label + 1)]]
      /\ UNCHANGED <<available, pending, withheld, rate, frozen, contexts,
                     landed, executed, changes>>

\* Is the statement of a context true?  All are by construction but the range
\* proof, which exists only for amounts in range.
Provable(i, role) ==
  role = "range" => /\ Plain(intent[i].new_source) \in U64
                    /\ intent[i].amount <= MAX_AMOUNT
                    /\ intent[i].fee <= MAX_AMOUNT

-----------------------------------------------------------------------------
(***************************************************************************)
(* The contexts, as the program reads them.  p says whose context an       *)
(* instruction names in each role; handles are those it carries.           *)
(***************************************************************************)
equality(i) == [new_source |-> intent[i].new_source]

validity(i) == [lo |-> intent[i].lo, hi |-> intent[i].hi]

fee_validity(i) == [lo |-> intent[i].fee_lo, hi |-> intent[i].fee_hi]

\* Commitments to the fee, to delta and to the claimed delta (as the client
\* knows it), and the cap.
sigma(i) ==
  LET fee == LoHi(intent[i].fee_lo, intent[i].fee_hi)
      amount == LoHi(intent[i].lo, intent[i].hi)
      bps == intent[i].rate.transfer_fee_basis_points
  IN  [fee |-> fee, max_fee |-> intent[i].rate.maximum_fee, claimed |-> i,
       delta |-> Minus(Times(ONE_IN_BASIS_POINTS, fee), Times(bps, amount))]

range(i) ==
  <<intent[i].new_source, intent[i].lo, intent[i].hi, i,
    intent[i].fee_lo, intent[i].fee_hi>>

\* Mutant: the rate in force is not consulted.
verify_delta_commitment_quoted(lo, hi, fee, proof_delta, f) == TRUE

\* delta is computed again from the amount, the fee and the rate in force.
verify_delta_commitment(lo, hi, fee, proof_delta, f) ==
  LET amount == LoHi(lo, hi)
      bps == f.transfer_fee_basis_points
  IN  proof_delta = Minus(Times(ONE_IN_BASIS_POINTS, fee), Times(bps, amount))

\* Mutant: the range proof may be about other commitments.
range_proof_matches_any(p) == TRUE

\* The range proof was made for the commitments of the other contexts.
range_proof_matches(p) ==
  LET r == range(p["range"])
  IN  /\ r[1] = equality(p["equality"]).new_source
      /\ r[2] = validity(p["validity"]).lo
      /\ r[3] = validity(p["validity"]).hi
      /\ HasFees => /\ r[4] = sigma(p["sigma"]).claimed
                    /\ r[5] = fee_validity(p["fee_validity"]).lo
                    /\ r[6] = fee_validity(p["fee_validity"]).hi

verify_and_extract_fee(p) ==
  LET s == sigma(p["sigma"])
      f == fee_validity(p["fee_validity"])
      v == validity(p["validity"])
  IN  /\ s.max_fee = rate.maximum_fee
      /\ s.fee = LoHi(f.lo, f.hi)
      /\ verify_delta_commitment(v.lo, v.hi, s.fee, s.delta, rate)

verify_and_extract(p) ==
  /\ range_proof_matches(p)
  /\ HasFees => verify_and_extract_fee(p)

Initialized(p) == \A role \in Roles : <<p[role], role>> \in contexts

-----------------------------------------------------------------------------
(***************************************************************************)
(* The rest of process_transfer with the extracted amounts.                *)
(***************************************************************************)
process_source(p, handles) ==
  LET v == validity(p["validity"])
  IN  equality(p["equality"]).new_source
        = subtract_with_lo_hi(available,
            transfer_amount_encryption_from_decrypt_handle(v.lo, handles.lo),
            transfer_amount_encryption_from_decrypt_handle(v.hi, handles.hi))

\* The instruction executes with these contexts and handles; its checks pass.
Accepted(p, handles) ==
  verify_and_extract(p) /\ process_source(p, handles) /\ ~frozen

Effect(p) ==
  LET v == validity(p["validity"])
      f == fee_validity(p["fee_validity"])
  IN  /\ available' = equality(p["equality"]).new_source
      /\ IF HasFees
         THEN /\ pending' = [lo |-> Minus(Plus(pending.lo, v.lo), f.lo),
                             hi |-> Minus(Plus(pending.hi, v.hi), f.hi)]
              /\ withheld' = Plus(withheld, LoHi(f.lo, f.hi))
         ELSE /\ pending' = [lo |-> Plus(pending.lo, v.lo),
                             hi |-> Plus(pending.hi, v.hi)]
              /\ UNCHANGED withheld
      /\ executed' = [executed EXCEPT ![p["validity"]] = @ + 1]

Named(p) == {<<p[role], role>> : role \in Roles}

Picks == [Roles \cup {"fee_validity"} -> {i \in Intents : Prepared(i)}]

\* The handles an instruction may carry: those of any intent, or whatever fits
\* the balance now and the one the equality context is about.
RawHandles(p) ==
  {intent[i].handles : i \in {j \in Intents : Prepared(j)}} \cup
  {[lo |-> Minus(available.handle, equality(p["equality"]).new_source.handle),
    hi |-> Zeroed]}

\* The instruction alone; close is close_split_context_state_on_execution.
TransferWithSplitProofs(p, close) ==
  /\ Initialized(p)
  /\ \E handles \in RawHandles(p) : Accepted(p, handles)
  /\ Effect(p)
  /\ contexts' = IF close THEN contexts \ Named(p) ELSE contexts
  /\ UNCHANGED <<rate, frozen, intent, landed, changes>>

\* The proof program verifies a proof into a context account.
CreateContext(i, role) ==
  /\ Prepared(i)
  /\ i \notin Stepwise
  /\ <<i, role>> \notin contexts
  /\ Provable(i, role)
  /\ contexts' = contexts \cup {<<i, role>>}
  /\ UNCHANGED <<available, pending, withheld, rate, frozen, intent, landed,
                 executed, changes>>

Whole(i) == [x \in Roles \cup {"fee_validity"} |-> i]

\* Mutant: the contexts are checked before the one of this transaction counts.
NoOpStale(i, role, created) == \E x \in Roles : <<i, x>> \notin contexts

\* no_op_on_uninitialized_split_context_state: a named context account still
\* belongs to the system program.
NoOp(i, role, created) == \E x \in Roles : <<i, x>> \notin created

\* One transaction that creates a context and then tries the transfer with
\* no_op_on_uninitialized_split_context_state and
\* close_split_context_state_on_execution.  An error of the transfer undoes
\* the context as well.
CreateAndTransfer(i, role) ==
  LET created == contexts \cup {<<i, role>>}
  IN  /\ Prepared(i)
      /\ i \in Stepwise
      /\ role \notin landed[i]
      /\ <<i, role>> \notin contexts
      /\ Provable(i, role)
      /\ ~frozen
      /\ \/ /\ NoOp(i, role, created)
            /\ contexts' = created
            /\ UNCHANGED <<available, pending, withheld, executed>>
         \/ /\ ~NoOp(i, role, created)
            /\ Accepted(Whole(i), intent[i].handles)
            /\ Effect(Whole(i))
            /\ contexts' = created \ Named(Whole(i))
      /\ landed' = [landed EXCEPT ![i] = @ \cup {role}]
      /\ UNCHANGED <<rate, frozen, intent, changes>>

-----------------------------------------------------------------------------
\* Another transfer fee comes into force.
ChangeFee(f) ==
  /\ HasFees
  /\ changes < MaxChanges
  /\ f # rate
  /\ rate' = f
  /\ changes' = changes + 1
  /\ UNCHANGED <<available, pending, withheld, frozen, intent, contexts,
                 landed, executed>>

ToggleFreeze ==
  /\ changes < MaxChanges
  /\ frozen' = ~frozen
  /\ changes' = changes + 1
  /\ UNCHANGED <<available, pending, withheld, rate, intent, contexts, landed,
                 executed>>

\* The owner applies its own pending balance: the available balance moves on.
ReceiveAmount ==
  /\ changes < MaxChanges
  /\ available' = [available EXCEPT !.commitment = PlusAmount(@, 1)]
  /\ changes' = changes + 1
  /\ UNCHANGED <<pending, withheld, rate, frozen, intent, contexts, landed,
                 executed>>

Next ==
  \/ \E i \in Intents, amount \in Amounts, fee \in 0 .. Supply :
       \E offset \in HandleOffsets[i] :
         (HasFees \/ fee = 0) /\ Prepare(i, amount, fee, offset)
  \/ \E i \in Intents, role \in Roles :
       CreateContext(i, role) \/ CreateAndTransfer(i, role)
  \/ \E p \in Picks, close \in BOOLEAN : TransferWithSplitProofs(p, close)
  \/ \E f \in Rates : ChangeFee(f)
  \/ ToggleFreeze
  \/ ReceiveAmount

Spec == Init /\ [][Next]_vars

-----------------------------------------------------------------------------
(***************************************************************************)
(* Properties.                                                             *)
(***************************************************************************)
\* Types.
TypeOK ==
  /\ available \in Balances
  /\ pending \in [lo : Ciphertexts, hi : Ciphertexts]
  /\ withheld \in Ciphertexts
  /\ rate \in Rates \cup {NoFee}
  /\ frozen \in BOOLEAN
  /\ \A i \in Intents : intent[i].amount \in Amounts \cup {-1}
  /\ contexts \subseteq Intents \X Roles
  /\ landed \in [Intents -> SUBSET Roles]
  /\ executed \in [Intents -> 0 .. 1]
  /\ changes \in 0 .. MaxChanges

\* Whatever contexts an instruction names and whatever handles it carries, the
\* balance it leaves is a number its owner can decrypt, and not negative: no
\* choice passes verify_and_extract whose range proof is not about that balance.
SenderSolvent ==
  /\ TypeOK
  /\ Decrypts(available)
  /\ Plain(available) >= 0

\* An intent whose handles the client made from the openings of its amount.
HandlesOfOpenings(i) == intent[i].handles.lo.v = 0 /\ intent[i].handles.hi.v = 0

\* The fee withheld is never below what the rate in force charges for the
\* amount that arrives or is withheld, whatever rate the proofs were made for.
\* That amount is what the sender's balance loses if the handles are those of
\* split_proof_generation.rs; for other handles nothing in the code says so.
FeeNeverShort ==
  [][LET fee == withheld'.v - withheld.v
         amount == LoHi(pending'.lo, pending'.hi).v
                     - LoHi(pending.lo, pending.hi).v + fee
     IN  \A i \in Intents : executed'[i] # executed[i]
           => /\ fee >= calculate_fee(rate, amount)
              /\ HandlesOfOpenings(i)
                   => Plain(available) - Plain(available') = amount]_vars

\* A transfer whose transactions each create a context and then try it, in any
\* order and with the contexts of other transfers around, has been executed
\* once all of them have landed; and no transfer is ever executed twice,
\* although contexts that are not closed can be named again.
ExecutedOnceAllLanded ==
  \A i \in Intents : /\ executed[i] <= 1
                     /\ landed[i] = Roles => executed[i] = 1

=============================================================================
