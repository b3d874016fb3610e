------------------------ MODULE ConstantExpressions ------------------------
(***************************************************************************)
(* Which expressions are constant (ast.c), and what the constant ones are  *)
(* folded to.                                                              *)
(***************************************************************************)
EXTENDS ExpressionNodes, Bitwise

PanicClass    == -1     \* panic("couldn't fold constant")
VariableClass == 0      \* EXPR_CLASS_VARIABLE
ErrorClass    == 1      \* EXPR_CLASS_ERROR
ConstantClass == 2      \* EXPR_CLASS_CONSTANT

Lower(x, y)  == IF x < y THEN x ELSE y
Higher(x, y) == IF x > y THEN x ELSE y

\* What translating a constant expression leads to: a constant, or, after a
\* division by zero, an operation that is none.
Folded(v)  == [ok |-> TRUE, v |-> v]
NotFolded  == [ok |-> FALSE, v |-> 0]
AsInt(b)   == IF b THEN 1 ELSE 0

\* The operators & and | on the two's complement of any width.
Neg(a) == -a - 1
AndInt(a, b) ==
  CASE a >= 0 /\ b >= 0 -> a & b
    [] a >= 0 /\ b < 0  -> a - (a & Neg(b))
    [] a < 0 /\ b >= 0  -> b - (b & Neg(a))
    [] OTHER            -> Neg(Neg(a) | Neg(b))
OrInt(a, b) == Neg(AndInt(Neg(a), Neg(b)))

Quotient(a, b) ==
  LET q == (IF a < 0 THEN -a ELSE a) \div (IF b < 0 THEN -b ELSE b)
  IN IF (a < 0) # (b < 0) THEN -q ELSE q

Apply(op, a, b) ==
  CASE op = <<"+">>  -> a + b
    [] op = <<"-">>  -> a - b
    [] op = <<"*">>  -> a * b
    [] op = <<"/">>  -> Quotient(a, b)
    [] op = <<"%">>  -> a - b * Quotient(a, b)
    [] op = <<"&">>  -> AndInt(a, b)
    [] op = <<"|">>  -> OrInt(a, b)
    [] op = <<"^">>  -> OrInt(a, b) - AndInt(a, b)
    [] op = <<"<<">> -> a * 2 ^ (b % 8)
    [] op = <<">>">> -> a \div 2 ^ (b % 8)
    [] op = <<"<">>  -> AsInt(a < b)
    [] op = <<">">>  -> AsInt(a > b)
    [] op = <<"<=">> -> AsInt(a <= b)
    [] op = <<">=">> -> AsInt(a >= b)
    [] op = <<"==">> -> AsInt(a = b)
    [] op = <<"!=">> -> AsInt(a # b)

ApplyUnary(op, a) ==
  CASE op = <<"-">> -> -a
    [] op = <<"+">> -> a
    [] op = <<"~">> -> Neg(a)
    [] op = <<"!">> -> AsInt(a = 0)

\* What the constant e is folded to.  Values stay small: no constant of the
\* instances is large enough to be changed by a conversion, but for _Bool.
RECURSIVE fold_constant(_)
fold_constant(e) ==
  CASE e.k = "literal"     -> Folded(IF e.tok = <<"1">> THEN 1 ELSE 0)
    [] e.k = "enumerator"  -> Folded(0)
    [] e.k \in {"sizeof", "sizeof_type"} -> Folded(4)
    [] e.k \in {"cast", "implicit_cast"} ->
         LET f == fold_constant(e.a[1])
         IN IF f.ok /\ Kind(e.t) = "bool" THEN Folded(AsInt(f.v # 0)) ELSE f
    [] e.k = "prefix" ->
         LET f == fold_constant(e.a[1])
         IN IF f.ok THEN Folded(ApplyUnary(e.tok, f.v)) ELSE f
    [] e.k = "binary" /\ e.tok \in LogicalOps ->
         LET f == fold_constant(e.a[1])
         IN CASE ~f.ok -> f
              [] f.v = 0 /\ e.tok = <<"&&">> -> Folded(0)
              [] f.v # 0 /\ e.tok = <<"||">> -> Folded(1)
              [] OTHER -> LET g == fold_constant(e.a[2])
                          IN IF g.ok THEN Folded(AsInt(g.v # 0)) ELSE g
    [] e.k = "binary" ->
         LET f == fold_constant(e.a[1])  g == fold_constant(e.a[2])
         IN IF f.ok /\ g.ok /\ ~(e.tok \in {<<"/">>, <<"%">>} /\ g.v = 0)
            THEN Folded(Apply(e.tok, f.v, g.v)) ELSE NotFolded
    [] e.k = "conditional" ->
         LET f == fold_constant(e.a[1])
         IN IF f.ok THEN fold_constant(IF f.v # 0 THEN e.a[2] ELSE e.a[3])
            ELSE f
    [] e.k = "binary_conditional" ->
         LET f == fold_constant(e.a[1])
         IN IF f.ok /\ f.v = 0 THEN fold_constant(e.a[2]) ELSE f
    [] OTHER -> NotFolded

IsTrue(e) == fold_constant(e).v # 0

RECURSIVE is_constant_expression(_)

\* A pointer whose value is known.
RECURSIVE is_constant_pointer(_)
is_constant_pointer(e) ==
  LET class == is_constant_expression(e)
  IN IF class = VariableClass /\ e.k = "cast"
     THEN is_constant_pointer(e.a[1]) ELSE class

\* An object at a known address.
RECURSIVE is_object_with_constant_address(_)
is_object_with_constant_address(e) ==
  CASE e.k = "select" ->
         IF is_type_pointer(e.a[1].t) THEN is_constant_pointer(e.a[1])
         ELSE is_object_with_constant_address(e.a[1])
    [] e.k \in {"array", "flipped"} ->
         LET ref == IF e.k = "array" THEN e.a[1] ELSE e.a[2]
             idx == is_constant_expression(
                      IF e.k = "array" THEN e.a[2] ELSE e.a[1])
         IN IF idx # ConstantClass THEN idx
            ELSE Higher(is_object_with_constant_address(ref),
                        is_constant_pointer(ref))
    [] e.k = "prefix" /\ e.tok = <<"*">> -> is_constant_pointer(e.a[1])
    [] e.k = "invalid" -> ErrorClass
    [] OTHER -> VariableClass

\* Mutant: both operands of && and || are always asked for their class.
LogicalClass_Both(e) ==
  Lower(is_constant_expression(e.a[1]), is_constant_expression(e.a[2]))

\* && and ||: the second operand counts only if the first does not decide.
LogicalClass(e) ==
  LET class == is_constant_expression(e.a[1])
  IN CASE class # ConstantClass -> class
       [] ~fold_constant(e.a[1]).ok -> PanicClass
       [] IsTrue(e.a[1]) = (e.tok = <<"||">>) -> ConstantClass
       [] OTHER -> is_constant_expression(e.a[2])

\* The class of an expression.
is_constant_expression(e) ==
  CASE e.k \in {"literal", "enumerator", "sizeof", "sizeof_type"} ->
         ConstantClass
    [] e.k = "reference" ->
         IF is_type_valid(e.t) THEN VariableClass ELSE ErrorClass
    [] e.k = "prefix" /\ e.tok = <<"&">> ->
         is_object_with_constant_address(e.a[1])
    [] e.k = "prefix" /\ e.tok \in ToToken({"-", "+", "~", "!"}) ->
         is_constant_expression(e.a[1])
    [] e.k \in {"cast", "implicit_cast"} ->
         IF is_type_scalar(e.t) THEN is_constant_expression(e.a[1])
         ELSE IF is_type_valid(e.t) THEN VariableClass ELSE ErrorClass
    [] e.k = "binary" /\ e.tok \in LogicalOps -> LogicalClass(e)
    [] e.k = "binary" /\ e.tok \notin AssignOps \cup {<<",">>} ->
         Lower(is_constant_expression(e.a[1]), is_constant_expression(e.a[2]))
    [] e.k = "compound_literal" -> ConstantClass
    [] e.k \in {"conditional", "binary_conditional"} ->
         LET class == is_constant_expression(e.a[1])
         IN CASE class # ConstantClass -> class
              [] ~fold_constant(e.a[1]).ok -> PanicClass
              [] IsTrue(e.a[1]) ->
                   IF e.k = "conditional" THEN is_constant_expression(e.a[2])
                   ELSE ConstantClass
              [] OTHER -> is_constant_expression(e.a[Len(e.a)])
    [] e.k = "invalid" -> ErrorClass
    [] OTHER -> VariableClass
=============================================================================
