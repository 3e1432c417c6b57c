CONSTANTS
  Capacity = 3
  Bases <- MCBases
  MaxStray = 2
SPECIFICATION Spec
INVARIANTS TypeOK ExhaustedMeansAllHeld NoFalseAlarm DropReportExact
PROPERTY ImplementsSlotPool
CHECK_DEADLOCK FALSE
