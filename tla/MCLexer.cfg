SPECIFICATION Spec
CONSTANTS
  Files <- MCFiles
  BUF_SIZE = 2
  MAX_PUTBACK = 3
INVARIANTS TokensOK LinesOK
PROPERTY Terminates
CHECK_DEADLOCK FALSE
