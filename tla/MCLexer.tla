------------------------------ MODULE MCLexer -------------------------------
(***************************************************************************)
(* Lexer on all short files over several alphabets, and on short texts     *)
(* behind every directive. The buffer holds two characters and what may be *)
(* put back, so blocks end everywhere.                                     *)
(***************************************************************************)
EXTENDS Lexer

Over(alphabet, n, decoders) ==
  [bytes : UNION { [1 .. k -> alphabet] : k \in 0 .. n }, decoder : decoders]

Starts == {<< >>, << "l", " " >>, << "p", " " >>, << "d", " " >>, << "i", " " >>, << "b", " " >>, << "a" >>}
Arguments == {<< >>, << "1" >>, << "0" >>, << "\"", "\"" >>, << "x", " " >>, << "u", " " >>, << "e" >>}

Directives ==
  [ bytes : { << "#" >> \o word \o a \o b \o end \o << "d" >> :
                word \in Starts, a \in Arguments, b \in Arguments,
                end \in {<< >>, << "nl" >>, << "\\", "nl", "nl", "#" >>} },
    decoder : {"UTF-8"} ]

Backslashes ==
  [ bytes : { before \o [i \in 1 .. n |-> "\\"] \o after :
                before \in {<< >>, << ".", "." >>, << "%", ":", "%" >>}, n \in 3 .. 6,
                after \in {<< "a" >>, << "nl", "a" >>, << "?", "?", "a" >>} },
    decoder : {"byte"} ]

MCFiles ==
  Over({"\\", "?", "/", "(", "nl"}, 5, {"UTF-8"})
    \cup Over({"/", "*", "\\", "nl", "a"}, 5, {"UTF-8"})
    \cup Over({"\\", "cr", "nl", "a"}, 5, {"UTF-8"})
    \cup Over({"L", "\"", "'", "\\", "1", "x", "nl"}, 4, {"UTF-8"})
    \cup Over({"0", "8", "x", "e", "p", "+", ".", "l"}, 4, {"UTF-8"})
    \cup Over({"%", ":", "<", ">", ".", "#", "-"}, 4, {"UTF-8"})
    \cup Over({"C3", "C0", "E2", "82", "a", "nl"}, 4, {"UTF-8", "byte"})
    \cup Directives \cup Backslashes
=============================================================================
