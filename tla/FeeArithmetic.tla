--------------------------- MODULE FeeArithmetic ---------------------------
(***************************************************************************)
(* The fee arithmetic of TransferFee against its reference meaning, for    *)
(* every schedule and every amount of a u64.  The specification picks a    *)
(* schedule and sweeps the amount upwards, so that properties can also     *)
(* compare neighbouring amounts.                                           *)
(***************************************************************************)
EXTENDS TransferFee

CONSTANTS
  BasisPoints,   \* basis points of the schedules swept
  MaximumFees    \* caps of the schedules swept

VARIABLES
  transfer_fee,  \* the schedule
  amount         \* the amount put into the calculations

vars == <<transfer_fee, amount>>

Init ==
  /\ transfer_fee \in [epoch : {0}, maximum_fee : MaximumFees,
                       transfer_fee_basis_points : BasisPoints]
  /\ amount = 0

NextAmount ==
  /\ amount < U64_MAX
  /\ amount' = amount + 1
  /\ UNCHANGED transfer_fee

Spec == Init /\ [][NextAmount]_vars

-----------------------------------------------------------------------------
Fee(x) == calculate_fee(transfer_fee, x)
PostFee(x) == calculate_post_fee_amount(transfer_fee, x)
PreFee(x) == calculate_pre_fee_amount(transfer_fee, x)
InverseFee(x) == calculate_inverse_fee(transfer_fee, x)

\* The amounts whose net amount is x.
GrossAmounts(x) == {g \in U64 : PostFee(g) = x}

\* The reference meaning of the inverse: the smallest amount whose net amount
\* is x, and None when no u64 has that net amount.
SmallestGross(x) ==
  IF GrossAmounts(x) = {} THEN NoAmount
  ELSE CHOOSE g \in GrossAmounts(x) : \A h \in GrossAmounts(x) : g <= h

(***************************************************************************)
(* calculate_pre_fee_amount returns the smallest amount with the given net *)
(* amount, or None when there is none (its doc comment), for every         *)
(* schedule below 100%.                                                    *)
(***************************************************************************)
PreFeeIsSmallest ==
  transfer_fee.transfer_fee_basis_points < ONE_IN_BASIS_POINTS
    => PreFee(amount) = SmallestGross(amount)

(***************************************************************************)
(* Splitting a transfer never saves fees: the fees of the parts add up to  *)
(* at least the fee of the whole (rounding up, and a cap per transfer).    *)
(***************************************************************************)
SplittingSavesNothing ==
  \A part \in 0 .. amount : Fee(part) + Fee(amount - part) >= Fee(amount)

(***************************************************************************)
(* Going from an amount to its net amount and back through                 *)
(* calculate_inverse_fee never yields a larger fee, and loses less than    *)
(* ONE / (ONE - bps) tokens.                                               *)
(***************************************************************************)
RoundTripLoss ==
  LET loss == Fee(amount) - InverseFee(PostFee(amount))
      bps  == transfer_fee.transfer_fee_basis_points
  IN  bps < ONE_IN_BASIS_POINTS
        => loss >= 0 /\ loss * (ONE_IN_BASIS_POINTS - bps) < ONE_IN_BASIS_POINTS

=============================================================================
