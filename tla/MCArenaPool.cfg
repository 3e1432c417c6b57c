CONSTANTS
  UsizeMax = 200
  Aligns = {1, 4}
  Sizes = {1, 3}
  Page = 2
  HugePage = 4
  RegionSpan = 32
  MaxRegions = 3
  Confs <- MCConfs
  MaxAlign = 2
  MaxBlocks = 2
SPECIFICATION ArenaSpec
CHECK_DEADLOCK FALSE
INVARIANTS LiveMemoryUsable PoolExact FailureExplained NoBadRelease
