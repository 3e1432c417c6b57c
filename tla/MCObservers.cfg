CONSTANTS
  Threads = {t1, t2}
  UsizeMax = 1000
  Sizes = {2, 4}
  Configs <- MCConfigs
  MaxCalls = 3
  MaxRearms = 1
  MaxCorrupt = 2
SYMMETRY MCSymmetry
SPECIFICATION Spec
CHECK_DEADLOCK FALSE
INVARIANTS NeverOverstated ExactAtRest RisingEdges FaultsOnSchedule
