CONSTANTS
  Capacity = 3
  Levels <- MCLevels
  CooldownTicks = 1
  InitialStep = 1
  QueueCapacity = 2
  Remotes = {r1}
  Policies <- MCPolicies
SPECIFICATION FairSpec
PROPERTIES SpinEndsAfterDrop FullQueueServiced
CHECK_DEADLOCK FALSE
