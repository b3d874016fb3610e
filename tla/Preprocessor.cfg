\* Conditionals and included files, macros that name each other, and macros
\* with parameters.
SPECIFICATION Spec
CONSTANTS
  Name = {"M", "N"}
  Alphabets = {
    {"#", "ifdef", "ifndef", "else", "endif", "include", "M", "nl"},
    {"#", "define", "undef", "M", "N", "nl"},
    {"#", "define", "M", "(", ")", "comma", "...", "nl"} }
  IncludeLimit = 1
  MaxConditionals = 3
  MaxDefinitions = 2
  MaxList = 2
  BehindSlips = {"header"}
INVARIANTS NotAborted ExpansionOK DirectivesOK
PROPERTIES Implements Reads
CHECK_DEADLOCK FALSE
