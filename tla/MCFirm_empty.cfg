SPECIFICATION Spec
CONSTANTS
  INT_MAX  = 3
  Warnings = FALSE
  Bodies  <- MCEmptyRange
  Labels  <- MCLabels
INVARIANT
  RangeAsserted
