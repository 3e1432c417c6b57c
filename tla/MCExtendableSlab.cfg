CONSTANTS
  Capacity = 2
  Threads = {t1, t2}
  MaxSegments = 4
SYMMETRY MCSymmetry
SPECIFICATION Spec
INVARIANTS TypeOK GrowthBounded
PROPERTIES ImplementsSlotPool GrowsOnlyWhenFull
