SPECIFICATION Spec
CONSTANTS
  Members <- MCMembers
  Types <- MCTypes
  Parameters <- MCParameters
  GNU_MODE = TRUE
  Languages <- MCLanguages
  LongSizes = {4, 8}
INVARIANTS
  ParsedByGrammar
  PrintedBack
  TypesAreC99
  ErrorsAreDue
  ConstantsAreConstant
CHECK_DEADLOCK FALSE
