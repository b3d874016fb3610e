SPECIFICATION Spec
CONSTANTS
  INT_MAX  = 3
  Warnings = TRUE
  Bodies  <- MCBodies
  Labels  <- MCLabels
INVARIANTS
  SameEvents
  WellBuilt
PROPERTY
  NoneWaits
