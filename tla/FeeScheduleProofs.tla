------------------------- MODULE FeeScheduleProofs -------------------------
(***************************************************************************)
(* Proofs about FeeSchedule, for every set of keys, every basis-point      *)
(* scale, every choice of arguments and every number of epochs: type       *)
(* correctness, the notice holders get before a schedule applies, and that *)
(* the schedule is fixed while an epoch lasts.                             *)
(***************************************************************************)
EXTENDS FeeSchedule, TLAPS

(***************************************************************************)
(* The inductive invariant.  WholeEpochNotice alone is not inductive: the  *)
(* step to the next epoch needs to know that what may come into force then *)
(* was stored when the current epoch began.  A schedule stored during this *)
(* epoch starts two epochs ahead, so a newer schedule that starts by the   *)
(* next epoch is an old acquaintance.                                      *)
(***************************************************************************)
NewerStoredInTime ==
  fees.newer_transfer_fee.epoch <= epoch + 1
    => fees.newer_transfer_fee \in atStart

InForceStored == InForce \in atStart

IInv == TypeOK /\ InForceStored /\ NewerStoredInTime /\ WholeEpochNotice

(***************************************************************************)
(* The schedules that initialization stores are well typed and identical.  *)
(***************************************************************************)
LEMMA InitialFeesType ==
  ASSUME NEW e \in U64, NEW bps \in 0 .. ONE_IN_BASIS_POINTS, NEW m \in U64
  PROVE  LET f == initial_fees(e, bps, m)
         IN  /\ f \in [older_transfer_fee : TransferFees,
                       newer_transfer_fee : TransferFees]
             /\ f.older_transfer_fee = f.newer_transfer_fee
             /\ f.newer_transfer_fee.epoch = e
BY DEF initial_fees, TransferFees

(***************************************************************************)
(* What SetTransferFee stores, away from the saturation of the epoch: the  *)
(* new schedule starts two epochs ahead, and the older one is the one that *)
(* is in force.                                                            *)
(***************************************************************************)
LEMMA UpdatedFees ==
  ASSUME NEW c \in [older_transfer_fee : TransferFees,
                    newer_transfer_fee : TransferFees],
         NEW e \in 0 .. MaxEpoch, NEW bps \in 0 .. ONE_IN_BASIS_POINTS,
         NEW m \in U64
  PROVE  LET u == updated_fees(c, e, bps, m)
         IN  /\ u \in [older_transfer_fee : TransferFees,
                       newer_transfer_fee : TransferFees]
             /\ u.newer_transfer_fee.epoch = e + 2
             /\ u.older_transfer_fee = get_epoch_fee(c, e)
             /\ get_epoch_fee(u, e) = get_epoch_fee(c, e)
<1>1. c.newer_transfer_fee \in TransferFees /\ c.older_transfer_fee \in TransferFees
  OBVIOUS
<1>2. c.newer_transfer_fee.epoch \in Int
  BY <1>1, FeeAssumption DEF TransferFees, U64
<1>3. saturating_add(e, 2) = e + 2 /\ e + 2 \in U64
  BY FeeAssumption, ScheduleAssumption DEF saturating_add, LesserOf, U64
<1>4. [epoch |-> e + 2, maximum_fee |-> m, transfer_fee_basis_points |-> bps]
        \in TransferFees
  BY <1>3 DEF TransferFees
<1> QED
  BY <1>1, <1>2, <1>3, <1>4 DEF updated_fees, get_epoch_fee

-----------------------------------------------------------------------------
LEMMA InitIInv == Init => IInv
<1> SUFFICES ASSUME Init PROVE IInv
  OBVIOUS
<1>1. 0 \in U64 /\ 0 \in 0 .. ONE_IN_BASIS_POINTS
  BY FeeAssumption DEF U64
<1>2. /\ fees \in [older_transfer_fee : TransferFees, newer_transfer_fee : TransferFees]
      /\ fees.older_transfer_fee = fees.newer_transfer_fee
  BY <1>1, InitialFeesType DEF Init
<1>3. TypeOK
  <2>1. epoch \in 0 .. MaxEpoch
    BY ScheduleAssumption DEF Init
  <2>2. Stored \subseteq TransferFees
    BY <1>2 DEF Stored
  <2> QED
    BY <1>2, <2>1, <2>2, Zenon DEF Init, TypeOK
<1>4. InForce \in Stored /\ fees.newer_transfer_fee \in Stored
  BY DEF InForce, get_epoch_fee, Stored
<1> QED
  BY <1>3, <1>4 DEF Init, IInv, InForceStored, NewerStoredInTime, WholeEpochNotice

(***************************************************************************)
(* One step per instruction.                                               *)
(***************************************************************************)
LEMMA NextIInv == IInv /\ [Next]_vars => IInv'
<1> SUFFICES ASSUME IInv, [Next]_vars PROVE IInv'
  OBVIOUS
<1> USE DEF IInv
<1>0. epoch \in U64 /\ epoch \in Nat
  BY ScheduleAssumption, FeeAssumption DEF TypeOK, U64
<1>1. ASSUME NEW k \in Keys \cup {None}, NEW bps \in BasisPoints,
             NEW m \in MaximumFees, InitializeTransferFeeConfig(k, bps, m)
      PROVE  IInv'
  <2>1. bps \in 0 .. ONE_IN_BASIS_POINTS /\ m \in U64
    BY <1>1, ScheduleAssumption, FeeAssumption DEF InitializeTransferFeeConfig
  <2>2. /\ fees' \in [older_transfer_fee : TransferFees, newer_transfer_fee : TransferFees]
        /\ fees'.older_transfer_fee = fees'.newer_transfer_fee
    BY <1>0, <1>1, <2>1, InitialFeesType DEF InitializeTransferFeeConfig
  <2>3. TypeOK'
    BY <1>1, <2>2 DEF InitializeTransferFeeConfig, TypeOK, Stored
  <2>4. InForce' \in Stored' /\ fees'.newer_transfer_fee \in Stored'
    BY DEF InForce, get_epoch_fee, Stored
  <2> QED
    BY <1>1, <2>3, <2>4 DEF InitializeTransferFeeConfig, InForceStored,
                            NewerStoredInTime, WholeEpochNotice
<1>2. CASE InitializeMint
  BY <1>2 DEF InitializeMint, TypeOK, InForceStored, NewerStoredInTime,
              WholeEpochNotice, InForce
<1>3. ASSUME NEW k \in Keys, NEW bps \in BasisPoints, NEW m \in MaximumFees,
             SetTransferFee(k, bps, m)
      PROVE  IInv'
  <2>1. bps \in 0 .. ONE_IN_BASIS_POINTS /\ m \in U64
    BY <1>3, ScheduleAssumption, FeeAssumption DEF SetTransferFee
  <2>2. /\ fees' \in [older_transfer_fee : TransferFees, newer_transfer_fee : TransferFees]
        /\ fees'.newer_transfer_fee.epoch = epoch + 2
        /\ get_epoch_fee(fees', epoch) = get_epoch_fee(fees, epoch)
    BY <1>3, <2>1, UpdatedFees DEF SetTransferFee, TypeOK
  <2>3. TypeOK'
    BY <1>3, <2>2 DEF SetTransferFee, TypeOK
  <2>4. InForce' = InForce
    BY <1>3, <2>2 DEF SetTransferFee, InForce
  <2>5. NewerStoredInTime'
    BY <1>0, <1>3, <2>2 DEF SetTransferFee, NewerStoredInTime
  <2> QED
    BY <1>3, <2>3, <2>4, <2>5 DEF SetTransferFee, InForceStored, WholeEpochNotice
<1>4. ASSUME NEW k \in Keys, NEW new \in Keys \cup {None}, SetConfigAuthority(k, new)
      PROVE  IInv'
  BY <1>4 DEF SetConfigAuthority, TypeOK, InForceStored, NewerStoredInTime,
              WholeEpochNotice, InForce
<1>5. CASE AdvanceEpoch
  <2>1. epoch' = epoch + 1 /\ fees' = fees /\ atStart' = Stored /\ atPrevStart' = atStart
    BY <1>5 DEF AdvanceEpoch
  <2>2. TypeOK'
    BY <1>0, <1>5, ScheduleAssumption DEF AdvanceEpoch, TypeOK, Stored
  <2>3. InForce' \in Stored' /\ fees'.newer_transfer_fee \in Stored'
    BY DEF InForce, get_epoch_fee, Stored
  <2>4. Stored' = Stored
    BY <2>1 DEF Stored
  \* The schedule in force next was stored when this epoch began.
  <2>5. InForce' \in atStart
    <3>1. CASE epoch + 1 >= fees.newer_transfer_fee.epoch
      <4>1. InForce' = fees.newer_transfer_fee
        BY <2>1, <3>1 DEF InForce, get_epoch_fee
      <4>2. fees.newer_transfer_fee.epoch \in Int
        BY FeeAssumption DEF TypeOK, TransferFees, U64
      <4> QED
        BY <1>0, <3>1, <4>1, <4>2 DEF NewerStoredInTime
    <3>2. CASE ~(epoch + 1 >= fees.newer_transfer_fee.epoch)
      <4>1. fees.newer_transfer_fee.epoch \in Int
        BY FeeAssumption DEF TypeOK, TransferFees, U64
      <4>2. ~(epoch >= fees.newer_transfer_fee.epoch)
        BY <1>0, <3>2, <4>1
      <4>3. InForce' = fees.older_transfer_fee /\ InForce = fees.older_transfer_fee
        BY <2>1, <3>2, <4>2 DEF InForce, get_epoch_fee
      <4> QED
        BY <4>3 DEF InForceStored
    <3> QED
      BY <3>1, <3>2
  <2> QED
    BY <2>1, <2>2, <2>3, <2>4, <2>5 DEF InForceStored, NewerStoredInTime, WholeEpochNotice
<1>6. CASE UNCHANGED vars
  BY <1>6 DEF vars, TypeOK, InForceStored, NewerStoredInTime, WholeEpochNotice, InForce
<1> QED
  BY <1>1, <1>2, <1>3, <1>4, <1>5, <1>6 DEF Next

(***************************************************************************)
(* Type correctness of the fee schedule.                                   *)
(***************************************************************************)
THEOREM TypeCorrect == Spec => []TypeOK
<1>1. IInv => TypeOK
  BY DEF IInv
<1> QED
  BY <1>1, InitIInv, NextIInv, PTL DEF Spec

(***************************************************************************)
(* Whatever the fee authority sends and whenever, the schedule transfers   *)
(* are charged by was stored in the mint one whole epoch before            *)
(* (process_set_transfer_fee starts a schedule two epochs ahead).          *)
(***************************************************************************)
THEOREM NoticeGiven == Spec => []WholeEpochNotice
<1>1. IInv => WholeEpochNotice
  BY DEF IInv
<1> QED
  BY <1>1, InitIInv, NextIInv, PTL DEF Spec

(***************************************************************************)
(* No instruction on an initialized mint changes the schedule of the       *)
(* epoch it is executed in.                                                *)
(***************************************************************************)
THEOREM FeeFixed == Spec => FeeFixedWithinEpoch
<1>1. ASSUME TypeOK, [Next]_vars, is_initialized, epoch' = epoch
      PROVE  InForce' = InForce
  <2>1. CASE fees' = fees
    BY <1>1, <2>1 DEF InForce
  <2>2. ASSUME NEW k \in Keys, NEW bps \in BasisPoints, NEW m \in MaximumFees,
               SetTransferFee(k, bps, m)
        PROVE  InForce' = InForce
    <3>1. bps \in 0 .. ONE_IN_BASIS_POINTS /\ m \in U64
      BY <2>2, ScheduleAssumption, FeeAssumption DEF SetTransferFee
    <3>2. get_epoch_fee(fees', epoch) = get_epoch_fee(fees, epoch)
      BY <1>1, <2>2, <3>1, UpdatedFees DEF SetTransferFee, TypeOK
    <3> QED
      BY <2>2, <3>2 DEF SetTransferFee, InForce
  <2> QED
    BY <1>1, <2>1, <2>2 DEF Next, InitializeTransferFeeConfig, InitializeMint,
                            SetConfigAuthority, AdvanceEpoch, vars
<1>2. TypeOK /\ [Next]_vars
        => [is_initialized /\ epoch' = epoch => InForce' = InForce]_vars
  BY <1>1
<1> QED
  BY <1>2, TypeCorrect, PTL DEF Spec, FeeFixedWithinEpoch
=============================================================================
