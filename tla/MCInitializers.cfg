CONSTANTS
  Objects <- MCObjects
  MaxTokens = 13
SPECIFICATION Spec
INVARIANTS MeaningOK RefusedRightly
CHECK_DEADLOCK FALSE
