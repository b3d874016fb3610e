SPECIFICATION Spec
CONSTANTS
  Symbols = {x, y}
  Dialects = {{"tags", "labels"}, {"labels", "nested", "kr"}, {"tags", "kr"},
              {"tags", "namespace"}, {"tags", "redefine"}}
  MaxEntities = 4
  MaxScopes = 5
  MaxParameters = 1
SYMMETRY Symmetry
INVARIANTS NotAborted ChainsOK ListsOK Balanced
PROPERTY LexicallyScoped
CHECK_DEADLOCK FALSE
