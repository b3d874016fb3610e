SPECIFICATION Spec
CONSTANTS
  Symbols = {x, y}
  Dialects = {{"labels", "kr", "nested", "stmtexpr"}}
  MaxEntities = 4
  MaxScopes = 6
  MaxParameters = 1
INVARIANT ChainsOK
CHECK_DEADLOCK FALSE
