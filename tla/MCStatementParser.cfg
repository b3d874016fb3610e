SPECIFICATION Spec
CONSTANTS
  Alphabets <- MCAlphabets
  MaxTokens = 7
INVARIANTS NotAborted ContextIsLexical
PROPERTIES Balanced Terminates
CHECK_DEADLOCK FALSE
