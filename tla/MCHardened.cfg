CONSTANTS
  Stacks <- MCStacks
  Slots = 4
  Stride = 8
  Line = 1
  Ways = 2
  CountMod = 4
  MaxLive = 2
SPECIFICATION Spec
CHECK_DEADLOCK FALSE
INVARIANTS BlocksIntact NoSecretSurvives TamperingDetected DelayedFree
