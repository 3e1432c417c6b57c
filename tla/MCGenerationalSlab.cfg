CONSTANTS
  Capacity = 3
  Modulus = 3
  MaxInserts = 8
SPECIFICATION Spec
INVARIANTS TypeOK GetExact NoSlotLost RetiredStaysRetired DropExact
CHECK_DEADLOCK FALSE
