--------------------------- MODULE MCExpressions ---------------------------
(***************************************************************************)
(* Instances of Expressions: families of texts, each with its tokens and   *)
(* its longest length.                                                     *)
(***************************************************************************)
EXTENDS Expressions

MCMembers == [m |-> <<"int">>, n |-> <<"array", "char">>]

MCTypes ==
  [ c  |-> <<"char">>, h |-> <<"short">>, b |-> <<"bool">>, i |-> <<"int">>, u |-> <<"uint">>,
    l  |-> <<"long">>, d |-> <<"double">>, k |-> <<"const", "int">>,
    p  |-> <<"ptr", "int">>, q |-> <<"ptr", "const", "int">>,
    v  |-> <<"ptr", "void">>, s |-> <<"struct">>, a |-> <<"array", "int">>,
    f  |-> <<"func", "int">>, e |-> <<"enum">> ]

MCParameters == << <<"ptr", "int">>, <<"long">> >>

Language(words, casts, n) ==
  [tokens |-> ToToken(words) \cup { CastTo(t) : t \in casts }, length |-> n]

\* Operators of every level of precedence.
Levels == Language({"i", "=", "?", ":", "||", "==", "-", "*", "(", ")", ","},
                   {}, 6)
Bits   == Language({"i", "|", "^", "&", "&&", "<", "<<"}, {}, 7)
\* Prefix and postfix operators, casts and compound literals.
Unaries == Language({"p", "-", "*", "&", "++", "sizeof", "[", "]", "(", ")",
                     "{}"}, {<<"ptr", "int">>}, 5)
\* One operation on operands of all types.
Operations ==
  Language(DOMAIN MCTypes \cup {"0", "1", "+", "-", "/", "%", "<<", "<", "&&",
                                ",", "=", "+=", "&=", "*", "&", "!", "~", "++"},
           {<<"char">>, <<"ptr", "void">>, <<"struct">>, <<"void">>}, 3)
\* Conditional expressions.
Conditionals ==
  Language({"c", "l", "u", "d", "p", "q", "v", "s", "f", "0", "?", ":"},
           {<<"ptr", "void">>}, 6)
\* Members, calls and elements.
Members3 == Language({"s", "p", "m", "n", ".", "->", "&", "(", ")"}, {}, 6)
Calls == Language({"f", "p", "q", "0", "d", "(", ")", ",", "[", "]"}, {}, 6)
\* Constants.
Constants == Language({"0", "1", "e", "i", "&&", "||", "?", ":", "/", "!", "+"},
                      {<<"bool">>}, 5)

MCLanguages == { Levels, Bits, Unaries, Operations, Conditionals, Members3,
                 Calls, Constants }
=============================================================================
