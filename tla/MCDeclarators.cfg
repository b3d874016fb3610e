SPECIFICATION Spec
CONSTANTS
  Typedefs <- MCTypedefs
  Names <- MCNames
  Languages <- MCLanguages
INVARIANTS
  DeclaredAsC99
  ErrorsAreDue
  ParametersOfFunction
  PrintedBack
CHECK_DEADLOCK FALSE
