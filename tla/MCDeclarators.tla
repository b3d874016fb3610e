--------------------------- MODULE MCDeclarators ---------------------------
(***************************************************************************)
(* Instances of Declarators: families of texts, each with its tokens, its  *)
(* longest length and the place of the declaration.                        *)
(***************************************************************************)
EXTENDS Declarators

\* The names of types: int, an array, a function, and void.
MCTypedefs ==
  [ T |-> <<Base("int", {})>>,
    A |-> <<Array({}, FALSE, "3"), Base("int", {})>>,
    F |-> <<Function(<< >>, {}), Base("int", {})>>,
    V |-> <<Base("void", {})>> ]
MCNames == {"x", "y", "_Complexfloat", "_Complexdouble", "_Complexlong"}

Language(prefix, tokens, n, context) ==
  [prefix |-> prefix, tokens |-> tokens, length |-> n, context |-> context]

\* Type specifiers in every order.
Specified ==
  Language(<< >>, {"int", "long", "short", "unsigned", "signed", "char",
                   "double", "_Complex", "x"}, 5, "file")
\* Storage classes and qualifiers, in a block and outside.
Storage(context) ==
  Language(<< >>, {"typedef", "extern", "static", "register", "__thread",
                   "const", "inline", "int", "x", "(", ")"}, 5, context)
TypeNames ==
  Language(<< >>, {"T", "F", "V", "x", "const", "int", "struct", "*",
                   "static"}, 5, "block")
\* Pointers, arrays, functions and parentheses around a name.
Shapes == Language(<<"int">>, {"x", "*", "(", ")", "[", "]", "3"}, 10, "file")
\* Type names.
Abstract ==
  Language(<<"int">>, {"T", "*", "(", ")", "[", "]", "const"}, 7, "typename")
\* Parameters, and the ways to write their types.
Lists == Language(<<"T", "x", "(">>, {"void", "T", "y", "(", ")", ",", "...", "*"},
                  9, "block")
Arrays == Language(<<"int", "x", "(", "int">>,
                   {"*", "[", "]", "static", "const", "3", ")"}, 10, "file")
ParameterTypes ==
  Language(<<"int", "x", "(">>, {"A", "F", "V", "T", "const", "struct", "register",
                                 "*", ",", ")"}, 8, "block")
\* A function that returns a pointer to a function.
Returned ==
  Language(<<"T", "(", "*", "x", "(">>, {"T", ")", "(", "y"}, 12, "block")
\* Several declarators.
Declarators3 ==
  Language(<<"const", "int">>, {"x", "y", "*", ",", "(", ")", "[", "]"}, 8, "block")

MCLanguages == { Specified, Storage("file"), Storage("block"), TypeNames,
                 Shapes, Abstract, Returned, Lists, Arrays, ParameterTypes, Declarators3 }
=============================================================================
