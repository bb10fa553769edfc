---------------------------- MODULE FeeSchedule ----------------------------
(***************************************************************************)
(* The life of the transfer-fee schedule of one mint: the instructions     *)
(* InitializeTransferFeeConfig, InitializeMint (its effect on the          *)
(* extension), SetTransferFee and SetAuthority(TransferFeeConfig), against *)
(* the clock sysvar, whose epoch only ever grows.                          *)
(***************************************************************************)
EXTENDS TransferFee

CONSTANTS
  Keys,          \* public keys that sign instructions
  None,          \* an absent authority
  BasisPoints,   \* transfer_fee_basis_points arguments explored
  MaximumFees,   \* maximum_fee arguments explored
  MaxEpoch       \* bound: the last epoch the clock reaches

ASSUME ScheduleAssumption ==
  /\ None \notin Keys
  /\ BasisPoints \subseteq Nat
  /\ MaximumFees \subseteq U64
  /\ MaxEpoch \in Nat
  \* The clock stays clear of the saturation of epoch.saturating_add(2).
  /\ MaxEpoch + 2 <= U64_MAX

VARIABLES
  epoch,           \* Clock::get()?.epoch
  is_initialized,  \* mint.base.is_initialized
  has_config,      \* the TransferFeeConfig extension is present
  authority,       \* transfer_fee_config_authority
  fees,            \* older_transfer_fee and newer_transfer_fee
  \* History: the schedules stored in the mint when the current epoch began,
  \* and when the one before it began (or when the config was initialized).
  atStart, atPrevStart

vars == <<epoch, is_initialized, has_config, authority, fees,
          atStart, atPrevStart>>

Stored == {fees.older_transfer_fee, fees.newer_transfer_fee}

InForce == get_epoch_fee(fees, epoch)

Init ==
  /\ epoch = 0
  /\ is_initialized = FALSE
  /\ has_config = FALSE
  /\ authority = None
  /\ fees = initial_fees(0, 0, 0)
  /\ atStart = Stored
  /\ atPrevStart = Stored

(***************************************************************************)
(* InitializeTransferFeeConfig: only before the mint is initialized, and   *)
(* again overwrites (init_extension::<TransferFeeConfig>(true)).           *)
(***************************************************************************)
InitializeTransferFeeConfig(k, bps, maximum_fee) ==
  /\ ~is_initialized
  /\ bps <= ONE_IN_BASIS_POINTS
  /\ has_config' = TRUE
  /\ authority' = k
  /\ fees' = initial_fees(epoch, bps, maximum_fee)
  /\ atStart' = Stored'
  /\ atPrevStart' = Stored'
  /\ UNCHANGED <<epoch, is_initialized>>

\* InitializeMint of the account that holds the config.
InitializeMint ==
  /\ ~is_initialized
  /\ has_config
  /\ is_initialized' = TRUE
  /\ UNCHANGED <<epoch, has_config, authority, fees, atStart, atPrevStart>>

\* Mutant: no limit on the basis points.
SetUnlimitedTransferFee(k, bps, maximum_fee) ==
  /\ is_initialized
  /\ authority = k
  /\ fees' = updated_fees(fees, epoch, bps, maximum_fee)
  /\ UNCHANGED <<epoch, is_initialized, has_config, authority,
                 atStart, atPrevStart>>

\* SetTransferFee, signed by k.
SetTransferFee(k, bps, maximum_fee) ==
  /\ is_initialized
  /\ authority = k
  /\ bps <= ONE_IN_BASIS_POINTS
  /\ fees' = updated_fees(fees, epoch, bps, maximum_fee)
  /\ UNCHANGED <<epoch, is_initialized, has_config, authority,
                 atStart, atPrevStart>>

\* SetAuthority of type TransferFeeConfig, signed by k: None is for good.
SetConfigAuthority(k, new) ==
  /\ is_initialized
  /\ authority = k
  /\ authority' = new
  /\ UNCHANGED <<epoch, is_initialized, has_config, fees, atStart, atPrevStart>>

\* The clock sysvar moves to the next epoch.
AdvanceEpoch ==
  /\ epoch < MaxEpoch
  /\ epoch' = epoch + 1
  /\ atStart' = Stored
  /\ atPrevStart' = atStart
  /\ UNCHANGED <<is_initialized, has_config, authority, fees>>

Next ==
  \/ \E k \in Keys \cup {None}, bps \in BasisPoints, m \in MaximumFees :
       InitializeTransferFeeConfig(k, bps, m)
  \/ InitializeMint
  \/ \E k \in Keys, bps \in BasisPoints, m \in MaximumFees :
       SetTransferFee(k, bps, m)
  \/ \E k \in Keys, new \in Keys \cup {None} : SetConfigAuthority(k, new)
  \/ AdvanceEpoch

\* Epochs end on their own; nobody has to send an instruction.
Fairness == WF_vars(AdvanceEpoch)

Spec == Init /\ [][Next]_vars /\ Fairness

-----------------------------------------------------------------------------
TypeOK ==
  /\ epoch \in 0 .. MaxEpoch
  /\ is_initialized \in BOOLEAN
  /\ has_config \in BOOLEAN
  /\ authority \in Keys \cup {None}
  /\ fees \in [older_transfer_fee : TransferFees, newer_transfer_fee : TransferFees]
  /\ atStart \subseteq TransferFees
  /\ atPrevStart \subseteq TransferFees

(***************************************************************************)
(* "Set two epochs ahead to avoid rug pulls at the end of an epoch"        *)
(* (process_set_transfer_fee): whatever the authority does and whenever,   *)
(* the schedule in force was already stored in the mint when the previous  *)
(* epoch began, so holders had at least one whole epoch of notice.         *)
(***************************************************************************)
WholeEpochNotice == InForce \in atPrevStart

(***************************************************************************)
(* While an epoch lasts, no sequence of SetTransferFee on an initialized   *)
(* mint changes the schedule that transfers are charged by.                *)
(***************************************************************************)
FeeFixedWithinEpoch ==
  [][is_initialized /\ epoch' = epoch => InForce' = InForce]_vars

(***************************************************************************)
(* Once the fee authority of an initialized mint is renounced, the last    *)
(* schedule it stored comes into force and stays (if the clock has two     *)
(* epochs left to run).                                                    *)
(***************************************************************************)
RenouncedScheduleSettles ==
  (is_initialized /\ authority = None /\ epoch + 2 <= MaxEpoch)
    ~> [](InForce = fees.newer_transfer_fee)
=============================================================================
