------------------------- MODULE MCStatementParser -------------------------
(***************************************************************************)
(* Alphabets of the inputs for StatementParser: blocks and expressions     *)
(* with the tokens of one construct, or of two that meet.                  *)
(***************************************************************************)
EXTENDS StatementParser

Common == {"lbrace", "rbrace", "(", ")", "semicolon", "name", EOF}

MCAlphabets ==
  { Common \cup {"if", "else", "goto", "label"},
    Common \cup {"while", "do", "break", "return"},
    Common \cup {"for", "int", "__extension__"},
    Common \cup {"switch", "case", ":", "default"},
    Common \cup {"__try", "__except", "__finally", "__leave"},
    Common \cup {"while", "switch", "continue", "int"},
    Common \cup {"int", "comma", "linkage", "string"} }
=============================================================================
