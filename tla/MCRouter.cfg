CONSTANTS
  UsizeMax = 100
  Aligns = {1, 2}
  Sizes = {1, 3}
  Builds <- MCBuilds
  MaxLive = 3
  MaxClasses = 2
  LookupLimit = 2
  MaxStrays = 1
SPECIFICATION RouterSpec
CHECK_DEADLOCK FALSE
INVARIANTS ContentsKept RoutedHome NothingLost
