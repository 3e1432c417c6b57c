CONSTANTS
  Capacity = 3
  Levels <- MCLevels
  CooldownTicks = 1
  InitialStep = 1
  QueueCapacity = 2
  Remotes = {r1, r2}
  Policies <- MCPolicies
SYMMETRY MCSymmetry
SPECIFICATION Spec
INVARIANTS TypeOK ExactlyOnePlace MirrorExact ClosedMeansEmpty NoSpuriousFailure
CHECK_DEADLOCK FALSE
