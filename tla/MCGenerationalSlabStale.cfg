CONSTANTS
  Capacity = 2
  Modulus = 3
  MaxInserts = 6
SPECIFICATION Spec
INVARIANT HandlesNeverAlias
CHECK_DEADLOCK FALSE
