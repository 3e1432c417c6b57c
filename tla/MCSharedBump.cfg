CONSTANTS
  UsizeMax = 15
  Aligns <- MCAligns
  Sizes <- MCSizes
  Bases <- MCBases
  Capacity = 6
  Threads = {t1, t2}
SYMMETRY MCSymmetry
SPECIFICATION Spec
INVARIANTS TypeOK Disjoint WellPlaced
PROPERTY RefusalIsFinal
