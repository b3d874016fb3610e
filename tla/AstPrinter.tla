----------------------------- MODULE AstPrinter -----------------------------
(***************************************************************************)
(* How ast.c writes an expression as C again: the tokens that are read     *)
(* from what it prints.  Options: all expressions in parentheses, and the  *)
(* implicit casts shown.                                                   *)
(***************************************************************************)
EXTENDS ExpressionNodes

\* The precedence of the operator of a node.
BinaryPrecedence(op) ==
  CASE op = <<",">>       -> PREC_EXPRESSION
    [] op \in AssignOps    -> PREC_ASSIGNMENT
    [] op = <<"||">>      -> PREC_LOGICAL_OR
    [] op = <<"&&">>      -> PREC_LOGICAL_AND
    [] op = <<"|">>       -> PREC_OR
    [] op = <<"^">>       -> PREC_XOR
    [] op = <<"&">>       -> PREC_AND
    [] op \in Equalities   -> PREC_EQUALITY
    [] op \in Relations    -> PREC_RELATIONAL
    [] op \in ShiftOps     -> PREC_SHIFT
    [] op \in AddOps       -> PREC_ADDITIVE
    [] op \in MulOps       -> PREC_MULTIPLICATIVE

get_expression_precedence(e) ==
  CASE e.k = "binary" -> BinaryPrecedence(e.tok)
    [] e.k \in {"conditional", "binary_conditional"} -> PREC_CONDITIONAL
    [] e.k \in {"prefix", "cast", "implicit_cast", "compound_literal",
                "sizeof", "sizeof_type"} -> PREC_UNARY
    [] e.k \in {"postfix", "call", "select", "array", "flipped"} ->
         PREC_POSTFIX
    [] OTHER -> PREC_PRIMARY

right_to_left(prec) ==
  IF prec \in {PREC_ASSIGNMENT, PREC_CONDITIONAL, PREC_UNARY} THEN 1 ELSE 0

\* No blank separates a prefix operator from its operand: two equal signs are
\* read as one token.
Glue(op, text) ==
  CASE op \in ToToken({"-", "+", "&"}) /\ text[1] = op ->
         << <<op[1] \o op[1]>> >> \o Tail(text)
    [] op \in ToToken({"-", "+"}) /\ text[1] = <<op[1] \o op[1]>> ->
         << text[1], op >> \o Tail(text)
    [] OTHER -> <<op>> \o text

Parentheses(text) == << <<"(">> >> \o text \o << <<")">> >>

\* e where it is printed: the casts that are not shown are skipped.
Shown(e, opts) ==
  IF e.k = "implicit_cast" /\ ~opts.casts THEN e.a[1] ELSE e

RECURSIVE print_expression_prec(_, _, _)

print_binary_expression(e, opts) ==
  LET prec == get_expression_precedence(e)
      r2l  == right_to_left(prec)
  IN print_expression_prec(e.a[1], prec + r2l, opts) \o <<e.tok>>
       \o print_expression_prec(e.a[2], prec + 1 - r2l, opts)

print_conditional(e, opts) ==
  print_expression_prec(e.a[1], PREC_LOGICAL_OR, opts) \o << <<"?">> >>
    \o (IF e.k = "conditional"
        THEN print_expression_prec(e.a[2], PREC_EXPRESSION, opts) ELSE << >>)
    \o << <<":">> >>
    \o print_expression_prec(e.a[Len(e.a)], PREC_CONDITIONAL, opts)

RECURSIVE PrintArguments(_, _)
PrintArguments(args, opts) ==
  IF args = << >> THEN << >>
  ELSE print_expression_prec(Head(args), PREC_ASSIGNMENT, opts)
         \o (IF Len(args) > 1 THEN << <<",">> >> ELSE << >>)
         \o PrintArguments(Tail(args), opts)

\* A node without the parentheses around it.
PrintNode(e, opts) ==
  CASE e.k \in {"prefix", "cast", "implicit_cast"} ->
         Glue(e.tok, print_expression_prec(e.a[1], PREC_UNARY, opts))
    [] e.k = "postfix" ->
         print_expression_prec(e.a[1], PREC_POSTFIX, opts) \o <<e.tok>>
    [] e.k = "binary" -> print_binary_expression(e, opts)
    [] e.k \in {"conditional", "binary_conditional"} ->
         print_conditional(e, opts)
    [] e.k \in {"array", "flipped"} ->
         print_expression_prec(e.a[1], PREC_POSTFIX, opts) \o << <<"[">> >>
           \o print_expression_prec(e.a[2], PREC_BOTTOM, opts)
           \o << <<"]">> >>
    [] e.k = "call" ->
         print_expression_prec(e.a[1], PREC_POSTFIX, opts)
           \o Parentheses(PrintArguments(Tail(e.a), opts))
    [] e.k = "select" ->
         print_expression_prec(e.a[1], PREC_POSTFIX, opts)
           \o << IF is_type_pointer(e.a[1].t) THEN <<"->">> ELSE <<".">>,
                 e.tok >>
    [] e.k = "sizeof" ->
         <<e.tok>> \o print_expression_prec(e.a[1], PREC_TOP, opts)
    [] e.k = "sizeof_type" -> <<e.tok, e.a[1].tok>>
    [] e.k = "compound_literal" -> << e.tok, <<"{}">> >>
    [] OTHER -> <<e.tok>>

\* Mutant: the parentheses of the source alone are printed again.
print_expression_prec_Written(e, top_prec, opts) ==
  LET s == Shown(e, opts)
  IN IF s.p > 0 \/ (opts.all /\ top_prec # PREC_BOTTOM)
     THEN Parentheses(PrintNode(s, opts)) ELSE PrintNode(s, opts)

print_expression_prec(e, top_prec, opts) ==
  LET s == Shown(e, opts)
      parenthesized == \/ s.p > 0
                       \/ opts.all /\ top_prec # PREC_BOTTOM
                       \/ top_prec > get_expression_precedence(s)
  IN IF parenthesized THEN Parentheses(PrintNode(s, opts))
     ELSE PrintNode(s, opts)

print_expression(e, opts) == print_expression_prec(e, PREC_BOTTOM, opts)
=============================================================================
