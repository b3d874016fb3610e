--------------------------- MODULE C99Expressions ---------------------------
(***************************************************************************)
(* Reference: what C says of an expression.  The grammar of ISO/IEC        *)
(* 9899:1999 6.5 is unambiguous, so the tree of a text is the one that     *)
(* reads as the text and whose operands are all of the syntactic category  *)
(* that the grammar asks for.  The type of an operation is the one that    *)
(* 6.3 and 6.5 give it for the types of its operands.                      *)
(***************************************************************************)
EXTENDS ConstantExpressions

CONSTANT ParameterTypes   \* the parameters of the one type of functions

\* The conversions that the parser inserted are not part of the text.
RECURSIVE Bare(_)
Bare(e) ==
  IF e.k = "implicit_cast" THEN Bare(e.a[1])
  ELSE [e EXCEPT !.a = [ i \in DOMAIN e.a |-> Bare(e.a[i]) ]]

(***************************************************************************)
(* The grammar.                                                            *)
(***************************************************************************)
\* The syntactic categories, from expression to primary-expression, and the
\* category of the operation of every operator.
Categories ==
  << {<<",">>}, AssignOps, {<<"?">>, <<"?:">>}, {<<"||">>}, {<<"&&">>},
     {<<"|">>}, {<<"^">>}, {<<"&">>}, Equalities, Relations, ShiftOps,
     AddOps, MulOps >>
Assignment == 2
Conditional == 3
LogicalOr == 4
CastExpr == 14
Unary == 15
Postfix == 16
Primary == 17

CategoryOf(tok) == CHOOSE c \in DOMAIN Categories : tok \in Categories[c]

Category(e) ==
  CASE e.p > 0 -> Primary
    [] e.k = "binary" -> CategoryOf(e.tok)
    [] e.k \in {"conditional", "binary_conditional"} -> Conditional
    [] e.k = "cast" -> CastExpr
    [] e.k \in {"prefix", "sizeof", "sizeof_type"} -> Unary
    [] e.k \in {"postfix", "call", "select", "array", "flipped",
                "compound_literal"} -> Postfix
    [] OTHER -> Primary

\* The category that the grammar asks of the i-th operand of e.
Asked(e, i) ==
  CASE e.k = "binary" /\ e.tok \in AssignOps -> IF i = 1 THEN Unary
                                                ELSE Assignment
    [] e.k = "binary" -> CategoryOf(e.tok) + (i - 1)
    [] e.k = "conditional" -> <<LogicalOr, 1, Conditional>>[i]
    [] e.k = "binary_conditional" -> <<LogicalOr, Conditional>>[i]
    [] e.k = "cast" -> CastExpr
    [] e.k = "prefix" -> IF e.tok \in IncDecs THEN Unary ELSE CastExpr
    [] e.k = "sizeof" -> Unary
    [] e.k \in {"postfix", "select"} -> Postfix
    [] e.k \in {"array", "flipped"} -> IF i = 1 THEN Postfix ELSE 1
    [] e.k = "call" -> IF i = 1 THEN Postfix ELSE Assignment
    [] OTHER -> 1

RECURSIVE Grammatical(_)
Grammatical(e) ==
  \A i \in DOMAIN e.a : Category(e.a[i]) >= Asked(e, i) /\ Grammatical(e.a[i])

\* The text of a bare tree.
RECURSIVE Text(_)
Text(e) ==
  LET T(i) == Text(e.a[i])
      args == [ i \in 2 .. Len(e.a) |-> T(i) ]
      RECURSIVE List(_)
      List(i) == IF i > Len(e.a) THEN << >>
                 ELSE args[i] \o (IF i < Len(e.a) THEN << <<",">> >> ELSE << >>)
                        \o List(i + 1)
      inner ==
        CASE e.k \in {"prefix", "sizeof", "cast", "sizeof_type"} -> <<e.tok>> \o T(1)
          [] e.k \in {"postfix", "select"} -> T(1) \o <<e.tok>>
          [] e.k = "binary"  -> T(1) \o <<e.tok>> \o T(2)
          [] e.k = "conditional" ->
               T(1) \o << <<"?">> >> \o T(2) \o << <<":">> >> \o T(3)
          [] e.k = "binary_conditional" ->
               T(1) \o << <<"?">>, <<":">> >> \o T(2)
          [] e.k \in {"array", "flipped"} ->
               T(1) \o << <<"[">> >> \o T(2) \o << <<"]">> >>
          [] e.k = "call" -> T(1) \o << <<"(">> >> \o List(2) \o << <<")">> >>
          [] e.k = "compound_literal" -> << e.tok, <<"{}">> >>
          [] OTHER -> <<e.tok>>
      open  == [ i \in 1 .. e.p |-> <<"(">> ]
      close == [ i \in 1 .. e.p |-> <<")">> ]
  IN open \o inner \o close

\* A member is selected by . or ->, which the tree does not keep.
Spelled(text) ==
  SelectSeq(text, LAMBDA w : w \notin {<<".">>, <<"->">>})
\* e is the tree of the text.
IsTreeOf(e, text) ==
  Grammatical(e) /\ Spelled(Text(e)) = Spelled(text)

(***************************************************************************)
(* The types.                                                              *)
(***************************************************************************)
\* 6.3.1.1: the ranks of the integer types, and their sizes.
Rank(t) ==
  CASE t[1] = "bool" -> 0
    [] t[1] \in {"char", "schar", "uchar"} -> 1
    [] t[1] \in {"short", "ushort"} -> 2
    [] t[1] \in {"int", "uint", "enum"} -> 3
    [] t[1] \in {"long", "ulong"} -> 4
    [] OTHER -> 5
ValueOf(t)  == get_unqualified_type(automatic_type_conversion(t))
Promoted(t) == IF is_type_integer(t) /\ Rank(t) <= 3 /\ t # <<"uint">>
               THEN type_int ELSE t
UnsignedOf(t) == <<"u" \o t[1]>>

\* 6.3.1.8: the common type of two arithmetic types.
Common(t1, t2, longsize) ==
  LET p1 == Promoted(t1)  p2 == Promoted(t2)
      high == IF Rank(p1) >= Rank(p2) THEN p1 ELSE p2
      low  == IF Rank(p1) >= Rank(p2) THEN p2 ELSE p1
  IN CASE <<"double">> \in {t1, t2} -> <<"double">>
       [] p1 = p2 -> p1
       [] is_type_signed(p1) = is_type_signed(p2) -> high
       [] ~is_type_signed(high) -> high
       [] Rank(high) = Rank(low) -> low
       [] get_atomic_type_size(high[1], longsize)
            > get_atomic_type_size(low[1], longsize) -> high
       [] OTHER -> UnsignedOf(high)

\* What an operand designates, and its value.
Designated(e) ==
  CASE e.k = "reference" -> Types[e.tok[1]]
    [] e.k = "prefix" /\ e.tok = <<"*">> -> Tail(ValueOf(e.a[1].t))
    [] e.k = "array"   -> Tail(ValueOf(e.a[1].t))
    [] e.k = "flipped" -> Tail(ValueOf(e.a[2].t))
    [] e.k = "select"  ->
         LET x == e.a[1].t
             s == IF is_type_pointer(x) THEN Tail(ValueOf(x)) ELSE x
         IN get_qualified_type(Members[e.tok[1]], is_const(s))
    [] e.k = "compound_literal" -> Tail(e.tok)
    [] OTHER -> e.t
IsObject(e) ==
  \/ e.k \in {"array", "flipped", "select", "compound_literal"}
  \/ e.k = "prefix" /\ e.tok = <<"*">>
  \/ e.k = "reference"
Modifiable(e) ==
  LET t == Designated(e)
  IN IsObject(e) /\ ~is_const(t) /\ is_type_object(t) /\ ~is_type_array(t)

\* 6.6: the operators of integer constant expressions, and the expressions.
ConstantOperator(e) ==
  /\ e.k \in {"literal", "enumerator", "sizeof", "sizeof_type", "prefix",
              "binary", "conditional", "binary_conditional", "cast"}
  /\ is_type_integer(e.t)
  /\ e.k = "prefix" => e.tok \in ToToken({"-", "+", "~", "!"})
  /\ e.k = "binary" => e.tok \notin AssignOps \cup {<<",">>}
RECURSIVE IntegerConstant(_)
IntegerConstant(e) ==
  /\ ConstantOperator(e)
  /\ e.k \notin {"sizeof", "sizeof_type"} =>
       \A i \in DOMAIN e.a : IntegerConstant(e.a[i])
\* 6.3.2.3: one that is 0, or cast to void *.
NullPointer(e) ==
  LET v == IF e.k = "cast" /\ e.t = <<"ptr", "void">> THEN e.a[1] ELSE e
  IN IntegerConstant(v) /\ fold_constant(v) = Folded(0)

Wrong == <<"constraint violated">>
Require(cond, t) == IF cond THEN t ELSE Wrong

\* 6.5.16.1: may the value of e be assigned to an object of type t?
Assignable(t, e) ==
  LET x == ValueOf(e.t)
      to == Tail(get_unqualified_type(t))  from == Tail(x)
      bare(y) == get_unqualified_type(y)
  IN \/ is_type_arithmetic(t) /\ is_type_arithmetic(x)
     \/ is_type_compound(t) /\ is_type_compound(x)
     \/ Kind(t) = "bool" /\ is_type_pointer(x)
     \/ is_type_pointer(t) /\ NullPointer(e)
     \/ /\ is_type_pointer(t) /\ is_type_pointer(x)
        /\ is_const(from) => is_const(to)
        /\ bare(to) = bare(from) \/ type_void \in {bare(to), bare(from)}

\* 6.5.5 to 6.5.14, for operands of the types x and y.
OperationType(op, x, y, longsize) ==
  LET arithmetic == is_type_arithmetic(x) /\ is_type_arithmetic(y)
      integers   == is_type_integer(x) /\ is_type_integer(y)
      objectPtr(t) == is_type_pointer(t) /\ is_type_object(Tail(t))
      same == get_unqualified_type(Tail(x)) = get_unqualified_type(Tail(y))
  IN CASE op \in MulOps \ {<<"%">>} ->
            Require(arithmetic, Common(x, y, longsize))
       [] op \in BitOps \cup {<<"%">>} ->
            Require(integers, Common(x, y, longsize))
       [] op \in ShiftOps   -> Require(integers, Promoted(x))
       [] op \in LogicalOps -> Require(is_type_scalar(x) /\ is_type_scalar(y),
                                       type_int)
       [] op = <<",">>      -> y
       [] op \in AddOps /\ arithmetic -> Common(x, y, longsize)
       [] op \in AddOps /\ objectPtr(x) /\ is_type_integer(y) -> x
       [] op = <<"+">> /\ objectPtr(y) /\ is_type_integer(x) -> y
       [] op = <<"-">> /\ objectPtr(x) /\ objectPtr(y) /\ same -> type_int
       [] OTHER -> Wrong

\* 6.5.8, 6.5.9: may the values of two operands be compared?
Comparable(op, a, b) ==
  LET x == ValueOf(a.t)  y == ValueOf(b.t)
      to == get_unqualified_type(Tail(x))  from == get_unqualified_type(Tail(y))
  IN \/ is_type_arithmetic(x) /\ is_type_arithmetic(y)
     \/ /\ is_type_pointer(x) /\ is_type_pointer(y)
        /\ to = from \/ (op \in Equalities /\ type_void \in {to, from})
     \/ /\ op \in Equalities
        /\ \/ is_type_pointer(x) /\ NullPointer(b)
           \/ is_type_pointer(y) /\ NullPointer(a)

\* 6.5.15, for the operands x and y.
ConditionalOf(x, y, longsize) ==
  LET s == ValueOf(x.t)  t == ValueOf(y.t)
      to == get_unqualified_type(Tail(s))  from == get_unqualified_type(Tail(t))
      const == is_const(Tail(s)) \/ is_const(Tail(t))
      pointers == is_type_pointer(s) /\ is_type_pointer(t)
      Pointer(u) == PtrTo(get_qualified_type(u, const))
  IN CASE is_type_arithmetic(s) /\ is_type_arithmetic(t) ->
            Common(s, t, longsize)
       [] s = t /\ (s = type_void \/ is_type_compound(s)) -> s
       [] is_type_pointer(s) /\ NullPointer(y) -> s
       [] is_type_pointer(t) /\ NullPointer(x) -> t
       [] pointers /\ to = from -> Pointer(to)
       [] pointers /\ type_void \in {to, from} -> Pointer(type_void)
       [] OTHER -> Wrong

\* The type of a node, or Wrong if a constraint on its operands is violated.
TypeOf(e, longsize) ==
  LET x == ValueOf(e.a[1].t)
      y == ValueOf(e.a[2].t)
      to == Tail(x)
      callee == Tail(to)
      \* the operation of a compound assignment
      simple == CHOOSE op \in MulOps \cup AddOps \cup BitOps \cup ShiftOps :
                  op[1] \o "=" = e.tok[1]
      s == IF is_type_pointer(x) THEN to ELSE x
  IN CASE e.k = "literal" \/ e.k = "enumerator" -> type_int
       [] e.k = "type" -> ValueOf(e.t)
       [] e.k \in {"reference", "compound_literal"} -> ValueOf(Designated(e))
       [] e.k \in {"sizeof", "sizeof_type"} -> <<"uint">>
       [] e.k = "prefix" /\ e.tok = <<"*">> ->
            Require(is_type_pointer(x), ValueOf(to))
       [] e.k = "prefix" /\ e.tok = <<"&">> ->
            Require(IsObject(e.a[1]), PtrTo(Designated(e.a[1])))
       [] e.k = "prefix" /\ e.tok = <<"!">> ->
            Require(is_type_scalar(x), type_int)
       [] e.k = "prefix" /\ e.tok = <<"~">> ->
            Require(is_type_integer(x), Promoted(x))
       [] e.k = "prefix" /\ e.tok \in AddOps ->
            Require(is_type_arithmetic(x), Promoted(x))
       [] e.k \in {"prefix", "postfix"} ->
            Require(/\ Modifiable(e.a[1])
                    /\ is_type_arithmetic(x)
                         \/ (is_type_pointer(x) /\ is_type_object(to)), x)
       [] e.k = "cast" ->
            Require(\/ e.t = type_void
                    \/ /\ is_type_scalar(e.t) /\ is_type_scalar(x)
                       /\ ~(is_type_pointer(e.t) /\ is_type_float(x))
                       /\ ~(is_type_float(e.t) /\ is_type_pointer(x)), e.t)
       [] e.k = "binary" /\ e.tok = <<"=">> ->
            Require(Modifiable(e.a[1]) /\ Assignable(x, e.a[2]), x)
       [] e.k = "binary" /\ e.tok \in AssignOps ->
            Require(/\ Modifiable(e.a[1])
                    /\ OperationType(simple, x, y, longsize) # Wrong
                    /\ ~is_type_pointer(y), x)
       [] e.k = "binary" /\ e.tok \in Relations \cup Equalities ->
            Require(Comparable(e.tok, e.a[1], e.a[2]), type_int)
       [] e.k = "binary" -> OperationType(e.tok, x, y, longsize)
       [] e.k = "conditional" ->
            Require(is_type_scalar(x), ConditionalOf(e.a[2], e.a[3], longsize))
       [] e.k = "binary_conditional" ->
            Require(is_type_scalar(x), ConditionalOf(e.a[1], e.a[2], longsize))
       [] e.k \in {"array", "flipped"} ->
            LET p == IF e.k = "array" THEN x ELSE y
                i == IF e.k = "array" THEN y ELSE x
            IN Require(is_type_pointer(p) /\ is_type_integer(i)
                         /\ is_type_object(Tail(p)), ValueOf(Tail(p)))
       [] e.k = "select" ->
            Require(is_type_compound(s), ValueOf(Members[e.tok[1]]))
       [] e.k = "call" ->
            Require(/\ is_type_pointer(x) /\ is_type_function(to)
                    /\ Len(e.a) = Len(ParameterTypes) + 1
                    /\ \A i \in DOMAIN ParameterTypes :
                         Assignable(ParameterTypes[i], e.a[i + 1]), callee)
       [] OTHER -> Wrong

\* The names that are read when e is evaluated, and whether it has an effect:
\* what && || ?: decide by a constant is not evaluated.
RECURSIVE Reads(_)
Reads(e) ==
  LET constant == Reads(e.a[1]) = {} /\ fold_constant(e.a[1]).ok
      true     == IsTrue(e.a[1])
  IN CASE e.k = "reference" -> {e.tok}
       [] e.k \in {"call", "postfix"} \/ e.tok \in IncDecs \cup AssignOps ->
            {<<"effect">>}
       [] e.k \in {"sizeof", "sizeof_type"} -> {}
       [] e.k = "binary" /\ e.tok \in LogicalOps /\ constant
            /\ true = (e.tok = <<"||">>) -> {}
       [] e.k = "conditional" /\ constant ->
            Reads(e.a[IF true THEN 2 ELSE 3])
       [] e.k = "binary_conditional" /\ constant ->
            IF true THEN {} ELSE Reads(e.a[2])
       [] OTHER -> UNION { Reads(e.a[i]) : i \in DOMAIN e.a }

RECURSIVE Nodes(_)
Nodes(e) == {e} \cup UNION { Nodes(e.a[i]) : i \in DOMAIN e.a }
=============================================================================
