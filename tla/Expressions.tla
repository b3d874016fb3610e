---------------------------- MODULE Expressions ----------------------------
(***************************************************************************)
(* The parser of expressions (parse_subexpression of parser.c): operators  *)
(* by precedence, with the semantic checks as soon as an operation is      *)
(* complete.  The stack holds the operations that wait for an operand; the *)
(* text is chosen token by token.  A finished tree is printed (ast.c) and  *)
(* what was printed is parsed again.                                       *)
(***************************************************************************)
EXTENDS ExpressionTypes, AstPrinter

C99 == INSTANCE C99Expressions WITH ParameterTypes <- Parameters

CONSTANTS Languages,    \* sets of tokens, with the longest text of each
          LongSizes     \* the sizes of long

VARIABLES
  stack,      \* the calls of parse functions that wait for an operand
  prec,       \* the precedence that parse_subexpression was called with
  left,       \* the expression parsed so far
  mode,       \* what is to be read next
  token, text,\* the current token, and those before it
  todo,       \* the tokens that were printed and are to be parsed
  worst,      \* the worst that was reported
  opts,       \* the options of the printer
  original,   \* the tree that was printed
  setting     \* the language of the run, and the size of long

vars == <<stack, prec, left, mode, token, text, todo, worst, opts, original,
          setting>>

NoTree == Node("none", <<"?">>, << >>, type_error_type)
End    == <<";">>
Braces == <<"{}">>
NoOptions == [all |-> FALSE, casts |-> FALSE]
Frame(c, tok, done, p) == [c |-> c, tok |-> tok, done |-> done, prec |-> p]
Top == stack[Len(stack)]
longsize == setting.longsize

Init ==
  /\ setting \in { [lang |-> l, longsize |-> s] :
                     l \in Languages, s \in LongSizes }
  /\ token \in setting.lang.tokens
  /\ stack = << >> /\ prec = PREC_EXPRESSION /\ left = NoTree
  /\ mode = "operand" /\ text = << >> /\ todo = << >> /\ worst = Silent
  /\ opts = NoOptions /\ original = NoTree

\* next_token: any token of the language while the text may grow, or the next
\* one of what was printed.
next_token ==
  /\ text' = Append(text, token)
  /\ IF original = NoTree
     THEN /\ token' \in IF Len(text) + 2 > setting.lang.length THEN {End}
                        ELSE setting.lang.tokens \cup {End}
          /\ UNCHANGED todo
     ELSE token' = Head(todo) /\ todo' = Tail(todo)
  /\ UNCHANGED <<opts, original, setting>>
Keep == UNCHANGED <<token, text, todo, opts, original, setting>>

\* A parse function that calls parse_subexpression(p) after the token.
Call(c, tok, done, p) ==
  /\ stack' = Append(stack, Frame(c, tok, done, prec))
  /\ prec' = p /\ left' = NoTree /\ mode' = "operand"
  /\ UNCHANGED worst

\* The expression is complete; its caller goes on with the infix operators.
Becomes(r) ==
  /\ left' = r.n /\ worst' = Worse(worst, r.d)
  /\ mode' = IF r.d = Panics THEN "panicked" ELSE "infix"
Leave == stack' = Front(stack) /\ prec' = Top.prec
Refuse == /\ mode' = "refused" /\ worst' = Worse(worst, Errs)
          /\ UNCHANGED <<stack, prec, left>> /\ Keep

(***************************************************************************)
(* Operands.                                                               *)
(***************************************************************************)
AtOperand == mode = "operand"

\* A prefix operator.  The types in parentheses after sizeof are not operands.
ParsePrefix ==
  /\ AtOperand /\ token \in PrefixOps \cup TypeProps
  /\ Call(IF token \in TypeProps THEN "typeprop" ELSE "prefix", token, << >>,
          PREC_UNARY)
  /\ next_token

\* parse_reference and the literals
parse_primary_expression ==
  /\ AtOperand /\ token \in Names \cup Literals
  /\ LET declared == Types[token[1]]
         e == CASE token \in Literals -> Node("literal", token, << >>, type_int)
                [] Kind(declared) = "enum" ->
                     Node("enumerator", token, << >>, declared)
                [] OTHER -> Node("reference", token, << >>,
                                 automatic_type_conversion(declared))
     IN Becomes(Good(e))
  /\ next_token /\ UNCHANGED <<stack, prec>>

parse_parenthesized_expression ==
  /\ AtOperand /\ token = <<"(">>
  /\ Call("parentheses", token, << >>, PREC_EXPRESSION)
  /\ next_token

\* A type in parentheses starts a cast or a compound literal.
parse_cast ==
  /\ AtOperand /\ IsCast(token)
  /\ stack # << >> => Top.c # "typeprop"
  /\ stack' = Append(stack, Frame("cast", token, << >>, prec))
  /\ mode' = "type" /\ next_token /\ UNCHANGED <<prec, left, worst>>

\* After sizeof, it may be all there is.
ParseTypePropType ==
  /\ AtOperand /\ IsCast(token) /\ stack # << >> /\ Top.c = "typeprop"
  /\ stack' = [stack EXCEPT ![Len(stack)].done =
                 <<Node("type", token, << >>, Tail(token))>>]
  /\ mode' = "type" /\ next_token /\ UNCHANGED <<prec, left, worst>>

CompoundLiteral(tok) ==
  Node("compound_literal", tok, << >>, automatic_type_conversion(Tail(tok)))

\* Is it a compound literal?  The operand of sizeof that starts with one is
\* taken to end with it.
AfterType ==
  /\ mode = "type"
  /\ LET ofType == Top.c = "typeprop"
         type   == IF ofType THEN Top.done[1].tok ELSE Top.tok
     IN CASE token = Braces /\ ofType ->
               /\ Becomes(TypeProp(Top.tok, CompoundLiteral(type)))
               /\ Leave /\ next_token
          [] token = Braces /\ ~ofType ->
               /\ Becomes(Good(CompoundLiteral(type))) /\ Leave /\ next_token
          [] token # Braces /\ ofType ->
               /\ Becomes(Good(Node("sizeof_type", Top.tok, Top.done, size_t)))
               /\ Leave /\ Keep
          [] OTHER ->
               /\ mode' = "operand" /\ prec' = PREC_CAST
               /\ Keep /\ UNCHANGED <<stack, left, worst>>

\* "unexpected token, expected an expression"; && there takes the address of a
\* label and is left out.
NoOperand ==
  /\ AtOperand
  /\ token \notin PrefixOps \cup TypeProps \cup Names \cup Literals
                    \cup ToToken({"(", "&&"})
  /\ ~IsCast(token)
  /\ Refuse

(***************************************************************************)
(* Infix operators.                                                        *)
(***************************************************************************)

\* init_expression_parsers: the precedence of an infix operator.
infix_precedence(tok) ==
  CASE tok \in ToToken({"[", "(", ".", "->", "++", "--"}) -> PREC_POSTFIX
    [] tok \in MulOps     -> PREC_MULTIPLICATIVE
    [] tok \in AddOps     -> PREC_ADDITIVE
    [] tok \in ShiftOps   -> PREC_SHIFT
    [] tok \in Relations  -> PREC_RELATIONAL
    [] tok \in Equalities -> PREC_EQUALITY
    [] tok = <<"&">>      -> PREC_AND
    [] tok = <<"^">>      -> PREC_XOR
    [] tok = <<"|">>      -> PREC_OR
    [] tok = <<"&&">>     -> PREC_LOGICAL_AND
    [] tok = <<"||">>     -> PREC_LOGICAL_OR
    [] tok = <<"?">>      -> PREC_CONDITIONAL
    [] tok \in AssignOps  -> PREC_ASSIGNMENT
    [] tok = <<",">>      -> PREC_EXPRESSION
    [] OTHER              -> PREC_BOTTOM

\* Mutant: the right operand of an operator may hold the operator again.
right_precedence_Same(tok) == infix_precedence(tok)

\* The precedence of the right operand (CREATE_BINEXPR_PARSER).
right_precedence(tok) ==
  IF tok \in AssignOps THEN PREC_ASSIGNMENT ELSE infix_precedence(tok) + 1

BinaryOps == MulOps \cup AddOps \cup ShiftOps \cup Relations \cup Equalities
               \cup BitOps \cup LogicalOps \cup AssignOps \cup {<<",">>}

\* The token belongs to this call of parse_subexpression.
AtInfix == /\ mode = "infix"
           /\ infix_precedence(token) # PREC_BOTTOM
           /\ infix_precedence(token) >= prec

ParseBinary ==
  /\ AtInfix /\ token \in BinaryOps
  /\ Call("binary", token, <<left>>, right_precedence(token))
  /\ next_token

ParsePostfix ==
  /\ AtInfix /\ token \in IncDecs
  /\ Becomes(semantic_incdec(Node("postfix", token, <<left>>,
                                  type_error_type)))
  /\ next_token /\ UNCHANGED <<stack, prec>>

parse_array_expression ==
  /\ AtInfix /\ token = <<"[">>
  /\ Call("array", token, <<left>>, PREC_EXPRESSION)
  /\ next_token

\* A call, a member, and a conditional look at the token after theirs.
ParseLookahead ==
  /\ AtInfix /\ token \in ToToken({"(", ".", "->", "?"})
  /\ stack' = Append(stack, Frame(CASE token = <<"(">> -> "call"
                                   [] token = <<"?">> -> "question"
                                   [] OTHER -> "select", token, <<left>>, prec))
  /\ mode' = "lookahead" /\ left' = NoTree
  /\ next_token /\ UNCHANGED <<prec, worst>>

\* A call without arguments, and the first argument.
parse_call_expression ==
  /\ mode = "lookahead" /\ Top.c = "call"
  /\ IF token = <<")">>
     THEN Becomes(semantic_call(Top.done[1], << >>)) /\ Leave /\ next_token
     ELSE /\ mode' = "operand" /\ prec' = PREC_ASSIGNMENT
          /\ Keep /\ UNCHANGED <<stack, left, worst>>

parse_select_expression ==
  /\ mode = "lookahead" /\ Top.c = "select"
  /\ IF token \in Names \cup ToToken(DOMAIN Members)
     THEN /\ Becomes(semantic_select(Top.done[1], Top.tok, token))
          /\ Leave /\ next_token
     ELSE Refuse

\* The second operand may be missing in GNU C.
parse_conditional_expression ==
  /\ mode = "lookahead" /\ Top.c = "question"
  /\ IF GNU_MODE /\ token = <<":">>
     THEN /\ stack' = [stack EXCEPT ![Len(stack)].c = "colon"]
          /\ mode' = "operand" /\ prec' = PREC_CONDITIONAL
          /\ next_token /\ UNCHANGED <<left, worst>>
     ELSE /\ mode' = "operand" /\ prec' = PREC_EXPRESSION
          /\ Keep /\ UNCHANGED <<stack, left, worst>>

(***************************************************************************)
(* parse_subexpression returns to the function that called it.             *)
(***************************************************************************)
AtReturn(c) ==
  /\ mode = "infix" /\ ~AtInfix /\ stack # << >> /\ Top.c = c
Expect(tok) == token = tok

ReturnOperation ==
  /\ \/ /\ AtReturn("prefix")
        /\ Becomes(semantic_prefix(Node("prefix", Top.tok, <<left>>,
                                        type_error_type)))
     \/ /\ AtReturn("typeprop")
        /\ Becomes(TypeProp(Top.tok, left))
     \/ /\ AtReturn("cast")
        /\ Becomes(semantic_cast(Node("cast", Top.tok, <<left>>,
                                      Tail(Top.tok))))
     \/ /\ AtReturn("binary")
        /\ Becomes(semantic_binary(Binary(Top.tok, Top.done[1], left),
                                   longsize))
     \/ /\ AtReturn("colon")
        /\ LET gnu == Len(Top.done) = 1
           IN Becomes(semantic_conditional(Top.done[1], Top.done[Len(Top.done)],
                                           left, gnu, longsize))
  /\ Leave /\ Keep

ReturnParentheses ==
  /\ AtReturn("parentheses")
  /\ IF Expect(<<")">>)
     THEN Becomes(Good([left EXCEPT !.p = @ + 1])) /\ Leave /\ next_token
     ELSE Refuse

ReturnIndex ==
  /\ AtReturn("array")
  /\ IF Expect(<<"]">>)
     THEN /\ Becomes(semantic_array_access(Top.done[1], left))
          /\ Leave /\ next_token
     ELSE Refuse

ReturnArgument ==
  /\ AtReturn("call")
  /\ CASE token = <<",">> ->
            /\ stack' = [stack EXCEPT ![Len(stack)].done = Append(@, left)]
            /\ mode' = "operand" /\ prec' = PREC_ASSIGNMENT /\ left' = NoTree
            /\ next_token /\ UNCHANGED worst
       [] token = <<")">> ->
            /\ Becomes(semantic_call(Top.done[1], Append(Tail(Top.done), left)))
            /\ Leave /\ next_token
       [] OTHER -> Refuse

ReturnTrue ==
  /\ AtReturn("question")
  /\ IF Expect(<<":">>)
     THEN /\ stack' = [stack EXCEPT ![Len(stack)] =
                         [@ EXCEPT !.c = "colon", !.done = Append(@, left)]]
          /\ mode' = "operand" /\ prec' = PREC_CONDITIONAL /\ left' = NoTree
          /\ next_token /\ UNCHANGED worst
     ELSE Refuse

\* The caller of parse_expression expects the end of the statement.
ReturnExpression ==
  /\ mode = "infix" /\ ~AtInfix /\ stack = << >>
  /\ IF Expect(End)
     THEN mode' = "finished" /\ Keep /\ UNCHANGED <<stack, prec, left, worst>>
     ELSE Refuse

\* What was parsed without an error is printed, and read again.
PrintAst ==
  /\ mode = "finished" /\ original = NoTree /\ worst < Errs
  /\ original' = left
  /\ opts' \in { NoOptions, [all |-> TRUE, casts |-> FALSE],
                 [all |-> FALSE, casts |-> TRUE] }
  /\ LET printed == print_expression(left, opts') \o <<End, End>>
     IN token' = Head(printed) /\ todo' = Tail(printed)
  /\ text' = << >> /\ stack' = << >> /\ prec' = PREC_EXPRESSION
  /\ left' = NoTree /\ mode' = "operand" /\ worst' = Silent
  /\ UNCHANGED setting

Next ==
  \/ ParsePrefix \/ parse_primary_expression \/ parse_parenthesized_expression
  \/ parse_cast \/ ParseTypePropType \/ AfterType \/ NoOperand
  \/ ParseBinary \/ ParsePostfix \/ parse_array_expression \/ ParseLookahead
  \/ parse_call_expression \/ parse_select_expression
  \/ parse_conditional_expression
  \/ ReturnOperation \/ ReturnParentheses \/ ReturnIndex \/ ReturnArgument
  \/ ReturnTrue \/ ReturnExpression \/ PrintAst

Spec == Init /\ [][Next]_vars

(***************************************************************************)
(* Properties.                                                             *)
(***************************************************************************)
FirstPass  == mode = "finished" /\ original = NoTree
SecondPass == original # NoTree

\* A compound literal right after sizeof ends the operand, and so does a type,
\* after which an index may follow.
LiteralOperand(n) ==
  \/ n.k = "sizeof"  /\ n.a[1].k = "compound_literal"
  \/ n.k = "flipped" /\ n.a[1].k = "sizeof_type"

\* A text without constraint violations is read as the grammar of C says:
\* every operator takes as much as its precedence and its associativity give
\* it.  (Only the operand of sizeof is cut short.)
ParsedByGrammar ==
  FirstPass /\ worst < Errs =>
    LET tree == C99!Bare(left)
    IN \/ C99!IsTreeOf(tree, text)
       \/ \E n \in C99!Nodes(tree) : LiteralOperand(n)

\* The nodes whose sign the printer runs together with the next one.
Glued(e, o) ==
  \E n \in C99!Nodes(e) :
    /\ n.k = "prefix" /\ n.tok \in ToToken({"-", "+", "&"})
    /\ LET operand == print_expression_prec(n.a[1], PREC_UNARY, o)
       IN Glue(n.tok, operand) # <<n.tok>> \o operand

\* The tree, with the conversions that were printed as casts, and without a
\* trace of the parentheses.
RECURSIVE Written(_, _)
Written(e, o) ==
  LET s == Shown(e, o)
  IN [s EXCEPT !.p = 0, !.k = IF @ = "implicit_cast" THEN "cast" ELSE @,
               !.a = [ i \in DOMAIN s.a |-> Written(s.a[i], o) ]]
IsCopy(e, of, o) == Written(e, o) = Written(of, o)

\* --print-ast writes C: what it prints is read without complaint as the tree
\* that was printed, whatever parentheses the source had.  (Unless two signs
\* meet; the casts of comparisons that were not checked
\* may be refused.)
PrintedBack ==
  SecondPass => \/ Glued(original, opts)
                \/ /\ mode # "refused" /\ (worst < Errs \/ opts.casts)
                   /\ mode = "finished" => IsCopy(left, original, opts)

\* What is known not to follow the standard: unary operators do not promote,
\* _Bool is not promoted, comparisons with pointers are not checked, nor are
\* the operand of ++ and -- but for its kind, the type of an index, the type
\* of an element, and whether the operands of % are integers.
Unchecked(n) ==
  LET Operand(i) == C99!ValueOf(n.a[i].t)
  IN \/ n.k = "prefix" /\ n.tok \in AddOps \cup {<<"~">>}
        /\ C99!Promoted(Operand(1)) # Operand(1)
     \/ \E i \in DOMAIN n.a : Operand(i) = <<"bool">>
     \/ n.k = "binary" /\ n.tok \in Relations \cup Equalities
        /\ \E i \in {1, 2} : is_type_pointer(Operand(i))
     \/ n.k \in {"prefix", "postfix"} /\ n.tok \in IncDecs
     \/ n.k = "array" /\ (~is_type_integer(Operand(2))
                           \/ ~is_type_object(Tail(Operand(1))))
     \/ n.k = "flipped" /\ (~is_type_integer(Operand(1))
                             \/ ~is_type_object(Tail(Operand(2))))
     \/ n.k = "binary" /\ n.tok \in ToToken({"%", "%="})
        /\ \E i \in {1, 2} : is_type_float(Operand(i))
     \/ LiteralOperand(n)

\* The type of a value; that of enumerators is int.
ValueType(t) ==
  LET v == C99!ValueOf(t) IN IF v = <<"enum">> THEN type_int ELSE v

\* In what is accepted without a warning every operation has the type that
\* the standard gives it, and no constraint of the standard is violated.
TypesAreC99 ==
  FirstPass /\ worst = Silent =>
    \A n \in C99!Nodes(C99!Bare(left)) :
      \/ Unchecked(n)
      \/ ValueType(n.t) = ValueType(C99!TypeOf(n, longsize))

\* The tree does not tell . from ->.
WrongSelection(n) ==
  n.k = "select" /\ IF is_type_pointer(n.a[1].t) THEN <<".">> \in ToSet(text)
                    ELSE <<"->">> \in ToSet(text)

\* An error is only reported if a constraint of the standard is violated, by
\* an operation whose operands are without error.
ErrorsAreDue ==
  FirstPass /\ worst = Errs =>
    \E n \in C99!Nodes(C99!Bare(left)) :
      /\ \A i \in DOMAIN n.a : is_type_valid(n.a[i].t)
      /\ C99!TypeOf(n, longsize) = C99!Wrong \/ WrongSelection(n)

\* An expression that is classified as constant reads no variable and has no
\* effect; every integer constant expression is classified as constant, and so
\* is one whose variables are skipped by && || and ?:.  (A compound literal
\* counts as constant.)
ConstantsAreConstant ==
  FirstPass /\ worst = Silent =>
    LET tree  == C99!Bare(left)
        class == is_constant_expression(left)
        literal == \E n \in C99!Nodes(tree) : n.k = "compound_literal"
        fixed == /\ C99!Reads(tree) = {}
                 /\ \A n \in C99!Nodes(tree) :
                      n.k = "reference" \/ C99!ConstantOperator(n)
    IN /\ class = ConstantClass => C99!Reads(tree) = {} \/ literal
       /\ C99!IntegerConstant(tree) \/ fixed =>
            class \in {ConstantClass, PanicClass}
====
