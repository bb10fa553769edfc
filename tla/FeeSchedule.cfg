\* One fee authority that can hand over or renounce, two schedules to choose
\* from, enough epochs for three overlapping changes.
SPECIFICATION Spec
CONSTANTS
  U64_MAX = 8
  ONE_IN_BASIS_POINTS = 4
  Keys = {k1, k2}
  None = None
  BasisPoints = {0, 3, 5}
  MaximumFees = {1}
  MaxEpoch = 5
INVARIANTS
  TypeOK
  WholeEpochNotice
PROPERTIES
  FeeFixedWithinEpoch
  RenouncedScheduleSettles
\* The clock stops at MaxEpoch and a renounced mint has no instruction left.
CHECK_DEADLOCK FALSE
