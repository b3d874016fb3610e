---------------------------- MODULE TypePrinter ----------------------------
(***************************************************************************)
(* print_type_ext of type.c and print_declaration of ast.c: a type is      *)
(* printed in two parts, around the name.  The result is the sequence of   *)
(* tokens that is read back.                                               *)
(***************************************************************************)
EXTENDS DeclaredTypes

Flatten(seqs)   == FlattenSeq(seqs)
Separated(list) ==
  Flatten([ i \in DOMAIN list |-> IF i = 1 THEN list[i] ELSE <<",">> \o list[i] ])

\* print_type_qualifiers
Words(q) == SelectSeq(<<"const", "volatile", "restrict">>, LAMBDA w : w \in q)

\* get_atomic_kind_name: the words of an atomic type, a struct or a typedef.
\* _Complex is printed without a space after it.
KindName(kind) ==
  CASE kind = "schar"      -> <<"signed", "char">>
    [] kind = "uchar"      -> <<"unsigned", "char">>
    [] kind = "ushort"     -> <<"unsigned", "short">>
    [] kind = "uint"       -> <<"unsigned", "int">>
    [] kind = "ulong"      -> <<"unsigned", "long">>
    [] kind = "longlong"   -> <<"long", "long">>
    [] kind = "ulonglong"  -> <<"unsigned", "long", "long">>
    [] kind = "longdouble" -> <<"long", "double">>
    [] kind = "complex float"      -> <<"_Complexfloat">>
    [] kind = "complex double"     -> <<"_Complexdouble">>
    [] kind = "complex longdouble" -> <<"_Complexlong", "double">>
    [] OTHER               -> <<kind>>

\* Mutant: an array behind a pointer is printed without parentheses.
Parenthesized_Array(t) == t[1][1] = "func"

\* What a pointer points to decides about the parentheses; a typedef needs
\* none.
Parenthesized(t) == t[1][1] \in {"array", "func"}

RECURSIVE print_type_pre(_), print_type_post(_), print_parameters(_, _)

\* intern_print_type_pre
print_type_pre(t) ==
  LET kind == t[1][1]
      q    == Words(t[1][2])
      pre  == print_type_pre(Tail(t))
  IN CASE kind = "ptr"   -> pre \o (IF Parenthesized(Tail(t)) THEN <<"(">> ELSE << >>)
                                \o <<"*">> \o q
       [] kind = "array" -> pre
       [] kind = "func"  -> q \o pre
       [] OTHER          -> q \o KindName(kind)

\* print_function_type_post: the parameters of a type, or of a declaration.
print_parameters(list, flags) ==
  LET ellipsis == IF "variadic" \in flags THEN << <<"...">> >> ELSE << >>
  IN CASE list \o ellipsis # << >> -> Separated(list \o ellipsis)
       [] "unspecified" \in flags  -> << >>
       [] OTHER                    -> <<"void">>

\* intern_print_type_post
print_type_post(t) ==
  LET kind == t[1][1]
  IN CASE kind = "ptr" ->
            (IF Parenthesized(Tail(t)) THEN <<")">> ELSE << >>)
              \o print_type_post(Tail(t))
       [] kind = "array" ->
            <<"[">> \o (IF t[1][3] THEN <<"static">> ELSE << >>)
              \o Words(t[1][2])
              \o (IF t[1][4] \in {"", "*"} THEN << >> ELSE <<t[1][4]>>)
              \o <<"]">> \o print_type_post(Tail(t))
       [] kind = "func" ->
            <<"(">> \o print_parameters(
                         [ i \in DOMAIN t[1][3] |->
                             print_type_pre(t[1][3][i])
                               \o print_type_post(t[1][3][i]) ], t[1][4])
              \o <<")">> \o print_type_post(Tail(t))
       [] OTHER -> << >>

\* print_type_ext, for a name that may be missing (""), and the parameters of
\* a declared function.  A parameter of an identifier list has no type.
RECURSIVE print_type_ext(_, _, _)
print_type_ext(t, symbol, parameters) ==
  LET name == IF symbol = "" THEN << >> ELSE <<symbol>>
  IN print_type_pre(t) \o name \o
     IF t[1][1] = "func" /\ parameters # << >>
     THEN <<"(">> \o print_parameters(
                       [ i \in DOMAIN parameters |->
                           IF parameters[i].type = << >>
                           THEN <<parameters[i].name>>
                           ELSE print_type_ext(parameters[i].type,
                                               parameters[i].name, << >>) ],
                       t[1][4])
                  \o <<")">> \o print_type_post(Tail(t))
     ELSE print_type_post(t)

print_type(t) == print_type_ext(t, "", << >>)

\* print_declaration, and print_typedef
print_declaration(d) ==
  (IF d.storage = "none" THEN << >> ELSE <<d.storage>>)
    \o (IF d.kind = "function" /\ d.inline THEN <<"inline">> ELSE << >>)
    \o (IF d.kind = "variable" /\ d.thread THEN <<"__thread">> ELSE << >>)
    \o print_type_ext(d.type, d.name, d.parameters)
=============================================================================
