\* Every builder, transfer_with_fee among them.
SPECIFICATION Spec
CONSTANTS
  Avoided = {}
  MaxSigners = 2
  MaxSources = 2
  MaxOffset = 2
INVARIANT AccountsInTheirRoles
