---------------------------- MODULE TransferFee ----------------------------
(***************************************************************************)
(* The arithmetic of the transfer-fee extension                            *)
(* (extension/transfer_fee/mod.rs and processor.rs): what a fee schedule   *)
(* charges for an amount, the inverse of that, which of the two schedules  *)
(* of a mint applies in an epoch, and how a new schedule is installed.     *)
(*                                                                         *)
(* Amounts and epochs are u64 in the code.  u128 intermediates cannot      *)
(* overflow there (u64 * u16), so they are plain integers here; every      *)
(* conversion back to u64 keeps its check.                                 *)
(***************************************************************************)
EXTENDS Integers

CONSTANTS
  U64_MAX,              \* the largest u64
  ONE_IN_BASIS_POINTS   \* MAX_FEE_BASIS_POINTS, 100% expressed in basis points

ASSUME FeeAssumption ==
  /\ U64_MAX \in Nat \ {0}
  /\ ONE_IN_BASIS_POINTS \in Nat \ {0}

U64 == 0 .. U64_MAX

\* Option::None where the code returns Option<u64>.
NoAmount == -1

CheckedU64(n) == IF n \in U64 THEN n ELSE NoAmount

(***************************************************************************)
(* struct TransferFee.  Both instructions that store one refuse            *)
(* transfer_fee_basis_points > MAX_FEE_BASIS_POINTS.                       *)
(***************************************************************************)
TransferFees ==
  [epoch : U64, maximum_fee : U64,
   transfer_fee_basis_points : 0 .. ONE_IN_BASIS_POINTS]

\* Mutant: rounds down.
floor_div(numerator, denominator) == numerator \div denominator

ceil_div(numerator, denominator) ==
  (numerator + denominator - 1) \div denominator

LesserOf(a, b) == IF a <= b THEN a ELSE b

calculate_fee(f, pre_fee_amount) ==
  IF f.transfer_fee_basis_points = 0 \/ pre_fee_amount = 0
  THEN 0
  ELSE LET raw_fee == CheckedU64(ceil_div(
                        pre_fee_amount * f.transfer_fee_basis_points,
                        ONE_IN_BASIS_POINTS))
       IN  IF raw_fee = NoAmount THEN NoAmount
           ELSE LesserOf(raw_fee, f.maximum_fee)

calculate_post_fee_amount(f, pre_fee_amount) ==
  LET fee == calculate_fee(f, pre_fee_amount)
  IN  IF fee = NoAmount THEN NoAmount ELSE CheckedU64(pre_fee_amount - fee)

\* Mutant: ignores the cap.
calculate_pre_fee_amount_uncapped(f, post_fee_amount) ==
  LET bps == f.transfer_fee_basis_points
  IN  IF bps = 0 THEN post_fee_amount
      ELSE IF bps = ONE_IN_BASIS_POINTS \/ post_fee_amount = 0 THEN 0
      ELSE CheckedU64(ceil_div(post_fee_amount * ONE_IN_BASIS_POINTS,
                               ONE_IN_BASIS_POINTS - bps))

calculate_pre_fee_amount(f, post_fee_amount) ==
  LET bps == f.transfer_fee_basis_points
      raw_pre_fee_amount == ceil_div(post_fee_amount * ONE_IN_BASIS_POINTS,
                                     ONE_IN_BASIS_POINTS - bps)
  IN  CASE bps = 0 -> post_fee_amount
        [] bps # 0 /\ (bps = ONE_IN_BASIS_POINTS \/ post_fee_amount = 0) -> 0
        [] OTHER ->
             IF raw_pre_fee_amount - post_fee_amount >= f.maximum_fee
             THEN CheckedU64(post_fee_amount + f.maximum_fee)
             ELSE CheckedU64(raw_pre_fee_amount)

\* Mutant: charges the net amount.
fee_of_net_amount(f, post_fee_amount) == calculate_fee(f, post_fee_amount)

calculate_inverse_fee(f, post_fee_amount) ==
  LET pre_fee_amount == calculate_pre_fee_amount(f, post_fee_amount)
  IN  IF pre_fee_amount = NoAmount THEN NoAmount
      ELSE calculate_fee(f, pre_fee_amount)

-----------------------------------------------------------------------------
(***************************************************************************)
(* The two schedules of a TransferFeeConfig.  They are the fields          *)
(* older_transfer_fee and newer_transfer_fee of any record c.              *)
(***************************************************************************)
\* Mutant: the newer schedule starts one epoch late.
get_epoch_fee_late(c, epoch) ==
  IF epoch > c.newer_transfer_fee.epoch
  THEN c.newer_transfer_fee
  ELSE c.older_transfer_fee

get_epoch_fee(c, epoch) ==
  IF epoch >= c.newer_transfer_fee.epoch
  THEN c.newer_transfer_fee
  ELSE c.older_transfer_fee

calculate_epoch_fee(c, epoch, pre_fee_amount) ==
  calculate_fee(get_epoch_fee(c, epoch), pre_fee_amount)

\* InitializeTransferFeeConfig: both schedules start as the same one.
initial_fees(epoch, bps, maximum_fee) ==
  LET fee == [epoch |-> epoch, maximum_fee |-> maximum_fee,
              transfer_fee_basis_points |-> bps]
  IN  [older_transfer_fee |-> fee, newer_transfer_fee |-> fee]

saturating_add(a, b) == LesserOf(a + b, U64_MAX)

\* Mutant: the schedule in force is not kept.
updated_fees_dropping(c, epoch, bps, maximum_fee) ==
  [c EXCEPT !.newer_transfer_fee = [epoch |-> saturating_add(epoch, 2),
                                    maximum_fee |-> maximum_fee,
                                    transfer_fee_basis_points |-> bps]]

\* Mutant: the new schedule starts with the next epoch.
updated_fees_next_epoch(c, epoch, bps, maximum_fee) ==
  [older_transfer_fee |-> get_epoch_fee(c, epoch),
   newer_transfer_fee |-> [epoch |-> saturating_add(epoch, 1),
                           maximum_fee |-> maximum_fee,
                           transfer_fee_basis_points |-> bps]]

\* SetTransferFee: the schedule in force, if it is the newer one, becomes the
\* older one; the new one starts two epochs ahead.
updated_fees(c, epoch, bps, maximum_fee) ==
  [older_transfer_fee |-> IF c.newer_transfer_fee.epoch <= epoch
                          THEN c.newer_transfer_fee
                          ELSE c.older_transfer_fee,
   newer_transfer_fee |-> [epoch |-> saturating_add(epoch, 2),
                           maximum_fee |-> maximum_fee,
                           transfer_fee_basis_points |-> bps]]
=============================================================================
