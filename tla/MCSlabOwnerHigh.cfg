CONSTANTS
  Capacity = 3
  Levels <- MCLevels
  CooldownTicks = 1
  InitialStep = 1
  QueueCapacity = 2
  Remotes = {r1}
  Policies <- MCHighPolicies
SPECIFICATION FairSpec
PROPERTY FullQueueServiced
CHECK_DEADLOCK FALSE
