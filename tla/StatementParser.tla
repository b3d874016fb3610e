-------------------------- MODULE StatementParser --------------------------
(***************************************************************************)
(* The recursive descent through statements, declarations and function     *)
(* bodies (src/parser.c), on any input: what the parsing functions do to   *)
(* the globals they share, on their normal and on their error paths.       *)
(*                                                                         *)
(* The C call stack is the variable stack; an action is the code between   *)
(* two calls, or between two tokens that are expected. The input is what   *)
(* the parser asks for next: any token of the alphabet.                    *)
(*                                                                         *)
(* Tokens stand for classes: "int" for what begins a declaration (also an  *)
(* identifier that is, or is guessed to be, a type name), "label" for an   *)
(* identifier with ":" behind it, "name" for other identifiers and         *)
(* constants and, in a declarator, for the name with its parameter list,   *)
(* "linkage" for extern and a string. Braces, semicolons and commas are    *)
(* words here: the provers do not take strings of these characters.        *)
(***************************************************************************)
EXTENDS Integers, Sequences, FiniteSets, SequencesExt

CONSTANTS
  Alphabets,  \* sets of Tokens: what an input is made of
  MaxTokens   \* bound: tokens of the input

EOF == "EOF"

Tokens ==
  { "lbrace", "rbrace", "(", ")", "semicolon", ":", "comma", "name", "string", "int", "label",
    "linkage", "if", "else", "while", "do", "for", "switch", "case", "default", "goto",
    "break", "continue", "return", "__try", "__except", "__finally",
    "__leave", "__extension__", EOF }

ASSUME StatementParserAssumption ==
  /\ Alphabets \subseteq SUBSET Tokens
  /\ MaxTokens \in Nat

VARIABLES
  alphabet,          \* the one the input is made of
  token,             \* the token that is looked at
  left,              \* how many more the input may have
  token_anchor_set,
  globals,           \* parent, loop, switch, try, scope, function, linkage:
                     \*   current_parent and so on; jumps: whose gotos and
                     \*   labels goto_first and label_first list;
                     \*   gcc_extension: in_gcc_extension
  stack,             \* the active functions
  ret,               \* what the last one to return returned
  slips              \* history: what the input so far did that the code does not
                     \*   cope with: "switch", no ")" behind a selector; "for",
                     \*   __extension__ before a missing first ";"; "nested", a
                     \*   GNU nested function; "try", no "{" behind __try,
                     \*   __finally or the filter of __except

vars == << alphabet, token, left, token_anchor_set, globals, stack, ret, slips >>

\* A statement, scope, ... is named by the place of its function in stack.
Null == 0

\* An active function: where it is, and the globals and the anchors as it
\* found them. Its local variables prev_parent, rem, old_scope,
\* old_gcc_extension, old_current_function and old_linkage are among
\* those; found_anchors is compared by parse_externals() only.
Activation(function, g, A) ==
  [function |-> function, at |-> "start", found |-> g, found_anchors |-> A]

-----------------------------------------------------------------------------
(***************************************************************************)
(* The input.                                                              *)
(***************************************************************************)
Input == << token, left >>

NextOf(input) ==
  IF input[1] = EOF THEN { input }
  ELSE { << EOF, 0 >> }
         \cup { << t, input[2] - 1 >> : t \in IF input[2] = 0 THEN {} ELSE alphabet }

next_token == NextOf(Input)

\* Tokens are eaten until there is one of these.
EatenTo(tokens) ==
  IF token \in tokens THEN { Input }
  ELSE { << EOF, 0 >> }
         \cup { << t, left - 1 >> : t \in IF left = 0 THEN {} ELSE tokens \cap alphabet }

\* Brackets are passed over as a whole, with what follows them.
Bracketed == { "lbrace", "(" }
Passed ==
  IF token \notin Bracketed THEN next_token
  ELSE UNION { NextOf(input) : input \in
                 { << EOF, 0 >> } \cup IF left = 0 THEN {} ELSE {<< "rbrace", left - 1 >>} }

Anchors == { t \in alphabet : token_anchor_set[t] # 0 }
at_anchor == token \in Anchors
eat_until_anchor == EatenTo(Anchors)

Read(inputs) == \E input \in inputs : token' = input[1] /\ left' = input[2]

\* The macro expect: the token is read, or the input up to an anchor is
\* eaten, and the token with it if it is there.
Present(t) == token = t /\ Read(next_token)
MissingBefore(t, more) ==
  /\ token # t
  /\ Read(UNION { IF input[1] = t THEN NextOf(input) ELSE { input } :
                    input \in EatenTo(Anchors \cup more \cup { t }) })
Missing(t) == MissingBefore(t, {})
Expect(t) == Present(t) \/ Missing(t)

\* The anchor set counts in unsigned char; tokens that are not in the input
\* are left out. A token that is removed though
\* it is not there fails an assertion: the count is negative then.
Width == 256
add_anchor_tokens(A, tokens) ==
  [t \in alphabet |-> IF t \in tokens THEN (A[t] + 1) % Width ELSE A[t]]
rem_anchor_tokens(A, tokens) ==
  [t \in alphabet |-> IF t \in tokens THEN A[t] - 1 ELSE A[t]]

-----------------------------------------------------------------------------
(***************************************************************************)
(* Calls and returns.                                                      *)
(***************************************************************************)
Top == Last(stack)
Me == Len(stack)

Aborted == ret = "abort" \/ \E t \in alphabet : token_anchor_set[t] < 0

In(functions, at) ==
  stack # <<>> /\ Top.at = at /\ Top.function \in functions /\ ~Aborted

\* The slip that the input makes in this step.
Made ==
  IF In({"switch"}, "condition") /\ token # ")" THEN {"switch"}
  ELSE IF In({"for"}, "initialiser") /\ token # "semicolon"
            /\ globals.gcc_extension # Top.found.gcc_extension THEN {"for"}
  ELSE IF In({"declaration"}, "rest") /\ token = "lbrace" /\ globals.function # Null
            /\ Len(stack') > Len(stack) THEN {"nested"}
  ELSE IF In({"compound"}, "start") /\ token # "lbrace" THEN {"try"}
  ELSE {}

Note == slips' = slips \cup Made

\* The active function is now called so, and goes on at another place, ...
Resume(function, at) ==
  stack' = Append(Front(stack), [Top EXCEPT !.function = function, !.at = at])

Stay(function, at, A, g) ==
  /\ Resume(function, at)
  /\ token_anchor_set' = A /\ globals' = g
  /\ UNCHANGED << alphabet, ret >> /\ Note

\* ... or calls another and will go on there, ...
CallFrom(function, at, callee, A, g) ==
  /\ stack' = Append(Front(stack), [Top EXCEPT !.function = function, !.at = at])
                \o << Activation(callee, g, A) >>
  /\ token_anchor_set' = A /\ globals' = g
  /\ UNCHANGED << alphabet, ret >> /\ Note

Call(at, callee, A, g) == CallFrom(Top.function, at, callee, A, g)

\* ... or returns; the functions of statements through parse_statement(),
\* which added ";".
Return(value, A, g) ==
  /\ stack' = Front(stack)
  /\ ret' = value
  /\ token_anchor_set' = A /\ globals' = g
  /\ UNCHANGED alphabet /\ Note

ReturnStatement(value, A, g) == Return(value, rem_anchor_tokens(A, {"semicolon"}), g)

Abort ==
  /\ ret' = "abort"
  /\ UNCHANGED << alphabet, token, left, token_anchor_set, globals, stack >>
  /\ Note

Plus(tokens) == add_anchor_tokens(token_anchor_set, tokens)
Minus(tokens) == rem_anchor_tokens(token_anchor_set, tokens)

PUSH_PARENT == [globals EXCEPT !.parent = Me]
POP_PARENT == [globals EXCEPT !.parent = Top.found.parent]

-----------------------------------------------------------------------------
(***************************************************************************)
(* Declarations.                                                           *)
(***************************************************************************)
\* parse_externals() is called, or goes on, with nothing to leak.
Externals ==
  /\ In({"externals"}, "start")
  /\ Stay("externals", "loop", Plus({"rbrace", EOF}), globals)
  /\ UNCHANGED << token, left >>

Leaked ==
  \/ token_anchor_set # add_anchor_tokens(Top.found_anchors, {"rbrace", EOF})
  \/ globals.gcc_extension

External ==
  /\ In({"externals"}, "loop") /\ token \notin {"rbrace", EOF} /\ ~Leaked
  /\ Call("loop", "external", token_anchor_set, globals)
  /\ UNCHANGED << token, left >>

LeakFound ==
  /\ In({"externals"}, "loop") /\ token \notin {"rbrace", EOF} /\ Leaked
  /\ Abort

\* The outermost parse_externals() is called again behind a stray "}" by
\* parse_translation_unit().
EndOfExternals ==
  /\ In({"externals"}, "loop") /\ token \in {"rbrace", EOF}
  /\ IF Me > 1 \/ token = EOF
     THEN Return("ok", Minus({"rbrace", EOF}), globals) /\ UNCHANGED << token, left >>
     ELSE /\ Read(next_token)
          /\ Stay("externals", "start", Minus({"rbrace", EOF}), globals)

ExternalDeclaration ==
  /\ In({"external"}, "start")
  /\ token \in {"int", "name", "label", "__extension__", "("}
  /\ Stay("declaration", "start", token_anchor_set, globals)
  /\ UNCHANGED << token, left >>

Linkage ==
  /\ In({"external"}, "start") /\ token = "linkage"
  /\ Read(next_token)
  /\ Stay("linkage", "opening", token_anchor_set, [globals EXCEPT !.linkage = Me])

Stray ==
  /\ In({"external"}, "start")
  /\ token \notin {"int", "name", "label", "__extension__", "(", "linkage"}
  /\ Read(Passed)
  /\ Return("ok", token_anchor_set, globals)

LinkageOpening ==
  /\ In({"linkage"}, "opening")
  /\ IF token = "lbrace"
     THEN /\ Read(next_token)
          /\ Call("closing", "externals", token_anchor_set, globals)
     ELSE /\ UNCHANGED << token, left >>
          /\ Call("single", "external", token_anchor_set, globals)

EndLinkage ==
  /\ \/ In({"linkage"}, "closing") /\ Expect("rbrace")
     \/ In({"linkage"}, "single") /\ UNCHANGED << token, left >>
  /\ Return("ok", token_anchor_set, [globals EXCEPT !.linkage = Top.found.linkage])

\* parse_external_declaration(), and parse_declaration(), which a for calls.
Specifier ==
  /\ In({"declaration", "for_declaration"}, "start") /\ token \in {"int", "__extension__", "linkage"}
  /\ Read(IF token = "linkage" THEN {<< "string", left >>} ELSE next_token)
  /\ Stay(Top.function, "start", token_anchor_set, globals)

DeclaratorAnchors == {"comma", "semicolon", "lbrace"}

EndOfSpecifiers ==
  /\ In({"declaration", "for_declaration"}, "start")
  /\ token \notin {"int", "__extension__", "linkage"}
  /\ IF token = "semicolon"
     THEN Read(next_token) /\ Return("ok", token_anchor_set, globals)
     ELSE /\ UNCHANGED << token, left >>
          /\ Call("rest", "declarator",
                  IF Top.function = "declaration" THEN Plus(DeclaratorAnchors)
                  ELSE token_anchor_set, globals)

Declarator ==
  /\ In({"declarator"}, "start")
  /\ \/ /\ token = "name" /\ Read(next_token)
        /\ Return("ok", token_anchor_set, globals)
     \/ /\ token = "label" /\ Read({<< ":", left >>})
        /\ Return("ok", token_anchor_set, globals)
     \/ /\ token = "(" /\ Read(next_token)
        /\ Call("inner", "declarator", Plus({")"}), globals)
     \/ /\ token \notin {"name", "label", "("} /\ Read(eat_until_anchor)
        /\ Return("invalid", token_anchor_set, globals)

InnerDeclarator ==
  /\ In({"declarator"}, "inner")
  /\ Stay("declarator", "closing", Minus({")"}), globals)
  /\ UNCHANGED << token, left >>

CloseDeclarator ==
  /\ In({"declarator"}, "closing") /\ Expect(")")
  /\ Return("ok", token_anchor_set, globals)

\* Behind a declarator: the end of the declaration, or another declarator, ...
DeclarationRest ==
  /\ In({"declaration"}, "rest") /\ token \in {"semicolon", "comma"}
  /\ Read(next_token)
  /\ LET A == Minus(DeclaratorAnchors)
     IN IF token = "semicolon" THEN Return("ok", A, globals)
        ELSE Call("next", "declarator", add_anchor_tokens(A, {"semicolon", "comma"}), globals)

ForDeclarationRest ==
  /\ In({"for_declaration"}, "rest")
  /\ Stay("for_declaration", "next", Plus({"semicolon", "comma"}), globals)
  /\ UNCHANGED << token, left >>

NextDeclarator ==
  /\ In({"declaration", "for_declaration"}, "next")
  /\ IF token = "comma"
     THEN Read(next_token) /\ Call("next", "declarator", token_anchor_set, globals)
     ELSE Expect("semicolon") /\ Return("ok", Minus({"semicolon", "comma"}), globals)

\* ... or neither: what follows is skipped, ...
NoFunction ==
  /\ In({"declaration"}, "rest") /\ token \notin {"semicolon", "comma", "lbrace"}
  /\ Read({ << EOF, 0 >> } \cup IF left = 0 THEN {} ELSE {<< "semicolon", left - 1 >>})
  /\ Return("ok", Minus(DeclaratorAnchors), globals)

\* ... or a body: of what is not a function, or defined already, ...
SkippedBody ==
  /\ In({"declaration"}, "rest") /\ token = "lbrace"
  /\ Read(Passed)
  /\ Return("ok", Minus(DeclaratorAnchors), globals)

\* ... or of a function.
FunctionBody ==
  /\ In({"declaration"}, "rest") /\ token = "lbrace"
  /\ Call("body", "compound", Minus(DeclaratorAnchors),
          [globals EXCEPT !.scope = Me, !.function = Me, !.jumps = Me, !.parent = Null])
  /\ UNCHANGED << token, left >>

EndOfFunction ==
  /\ In({"declaration"}, "body")
  /\ Return("ok", token_anchor_set,
            [globals EXCEPT !.scope = Top.found.scope, !.function = Top.found.function])
  /\ UNCHANGED << token, left >>

-----------------------------------------------------------------------------
(***************************************************************************)
(* Expressions: a primary expression with the argument lists behind it,    *)
(* and the comma operator, which is not for arguments.                     *)
(***************************************************************************)
Expressions == { "expression", "assignment_expression" }

\* A type name is read as a whole.
Typename ==
  { input \in next_token :
      input[1] \notin {"int", "linkage", "__extension__", "(", "name", "label"} }

Primary ==
  /\ In(Expressions, "start") /\ token \in {"name", "label", "string", "int"}
  /\ Read(CASE token = "label" -> {<< ":", left >>}
            [] token = "int" -> Typename
            [] OTHER -> next_token)
  /\ Stay(Top.function, "infix", token_anchor_set, globals)

NoPrimary ==
  /\ In(Expressions, "start")
  /\ token \notin {"name", "label", "string", "int", "(", "__extension__"}
  /\ Read(eat_until_anchor)
  /\ Stay(Top.function, "infix", token_anchor_set, globals)

ExtendedOperand ==
  /\ In(Expressions, "start") /\ token = "__extension__"
  /\ Read(next_token)
  /\ Call("extended", "assignment_expression", token_anchor_set,
          [globals EXCEPT !.gcc_extension = TRUE])

EndOfExtendedOperand ==
  /\ In(Expressions, "extended")
  /\ Stay(Top.function, "infix", token_anchor_set,
          [globals EXCEPT !.gcc_extension = Top.found.gcc_extension])
  /\ UNCHANGED << token, left >>

Parenthesis ==
  /\ In(Expressions, "start") /\ token = "("
  /\ Read(next_token)
  /\ Stay(Top.function, "opened", token_anchor_set, globals)

Cast ==
  /\ In(Expressions, "opened") /\ token = "int"
  /\ Read(Typename)
  /\ Stay(Top.function, "cast", token_anchor_set, globals)

\* Behind it is what is cast; compound literals are left out.
EndOfCast ==
  /\ In(Expressions, "cast")
  /\ \/ /\ Present(")") /\ token' # "lbrace"
        /\ Stay(Top.function, "start", token_anchor_set, globals)
     \/ /\ Missing(")")
        /\ Stay(Top.function, "infix", token_anchor_set, globals)

Parenthesized ==
  /\ In(Expressions, "opened") /\ token # "int"
  /\ Call("closing", IF token = "lbrace" THEN "compound" ELSE "expression", Plus({")"}), globals)
  /\ UNCHANGED << token, left >>

EndOfParenthesized ==
  /\ In(Expressions, "closing")
  /\ Stay(Top.function, "closed", Minus({")"}), globals)
  /\ UNCHANGED << token, left >>

Closed ==
  /\ In(Expressions, "closed") /\ Expect(")")
  /\ Stay(Top.function, "infix", token_anchor_set, globals)

CallOperator ==
  /\ In(Expressions, "infix") /\ token = "("
  /\ Read(next_token)
  /\ Stay(Top.function, "arguments", Plus({")", "comma"}), globals)

Argument ==
  /\ In(Expressions, "arguments") /\ token # ")"
  /\ Call("argument", "assignment_expression", token_anchor_set, globals)
  /\ UNCHANGED << token, left >>

NextArgument ==
  /\ In(Expressions, "argument") /\ token = "comma"
  /\ Read(next_token)
  /\ Call("argument", "assignment_expression", token_anchor_set, globals)

EndOfArguments ==
  /\ \/ In(Expressions, "arguments") /\ token = ")"
     \/ In(Expressions, "argument") /\ token # "comma"
  /\ Stay(Top.function, "closed", Minus({")", "comma"}), globals)
  /\ UNCHANGED << token, left >>

Comma ==
  /\ In({"expression"}, "infix") /\ token = "comma"
  /\ Read(next_token)
  /\ Call("infix", "assignment_expression", token_anchor_set, globals)

EndOfExpression ==
  /\ In(Expressions, "infix")
  /\ token # "(" /\ (token = "comma" => Top.function = "assignment_expression")
  /\ Return("ok", token_anchor_set, globals)
  /\ UNCHANGED << token, left >>

-----------------------------------------------------------------------------
(***************************************************************************)
(* Statements. intern_parse_statement() adds ";" and calls the function    *)
(* for the statement, which eats its keyword.                              *)
(***************************************************************************)
FunctionOf ==
  [ if |-> "if", while |-> "while", switch |-> "switch", do |-> "do", for |-> "for",
    case |-> "case", default |-> "default", goto |-> "goto", return |-> "return",
    continue |-> "break", break |-> "break", __leave |-> "break",
    __try |-> "__try", __extension__ |-> "__extension__" ]

\* These are their own inner statements' parents from the start.
Pushes == {"if", "while", "switch", "do", "default", "__try"}

Keyword ==
  /\ In({"statement"}, "start") /\ token \in DOMAIN FunctionOf
  /\ Read(next_token)
  /\ Stay(FunctionOf[token], "keyword", Plus({"semicolon"}),
          IF token \in Pushes THEN PUSH_PARENT ELSE globals)

Label ==
  /\ In({"statement"}, "start") /\ token = "label"
  /\ Read(next_token)
  /\ Stay("label", "inner", Plus({"semicolon"}), PUSH_PARENT)

EmptyStatement ==
  /\ In({"statement"}, "start") /\ token = "semicolon"
  /\ Read(next_token)
  /\ Return("ok", token_anchor_set, globals)

\* A compound, a declaration or an expression.
Wrapped ==
  /\ In({"statement"}, "start")
  /\ token \in {"lbrace", "int", "linkage", "name", "string", "("}
  /\ LET callee == IF token = "lbrace" THEN "compound"
                   ELSE IF token \in {"int", "linkage"} THEN "declaration" ELSE "expression"
     IN CallFrom(IF callee = "expression" THEN "expression_statement" ELSE "statement",
                 "wrapped", callee, Plus({"semicolon"}), globals)
  /\ UNCHANGED << token, left >>

EndOfWrapped ==
  /\ In({"statement"}, "wrapped")
  /\ ReturnStatement("ok", token_anchor_set, globals)
  /\ UNCHANGED << token, left >>

\* Mutant: a token no statement begins with is never eaten.
Unexpected_NotEaten ==
  /\ In({"statement"}, "start")
  /\ token \in {"rbrace", ")", ":", "comma", "else", "__except", "__finally", EOF}
  /\ UNCHANGED << token, left >>
  /\ Return("invalid", token_anchor_set, globals)

Unexpected ==
  /\ In({"statement"}, "start")
  /\ token \in {"rbrace", ")", ":", "comma", "else", "__except", "__finally", EOF}
  /\ Read(IF at_anchor THEN { Input } ELSE next_token)
  /\ Return("invalid", token_anchor_set, globals)

\* __extension__, any number of times, in front of a statement.
MoreExtension ==
  /\ In({"__extension__"}, "keyword") /\ token = "__extension__"
  /\ Read(next_token)
  /\ Stay("__extension__", "keyword", token_anchor_set, globals)

Extended ==
  /\ In({"__extension__"}, "keyword") /\ token # "__extension__"
  /\ Call("extended", "statement", token_anchor_set, [globals EXCEPT !.gcc_extension = TRUE])
  /\ UNCHANGED << token, left >>

EndOfExtended ==
  /\ In({"__extension__"}, "extended")
  /\ ReturnStatement(ret, token_anchor_set,
                     [globals EXCEPT !.gcc_extension = Top.found.gcc_extension])
  /\ UNCHANGED << token, left >>

\* The tokens a statement may begin with, and the end of the compound.
StatementAnchors ==
  { "rbrace", "(", "lbrace", "name", "string", "int", "label", "linkage", "__extension__",
    "break", "case", "continue", "default", "do", "for", "goto", "if",
    "return", "switch", "while" }

Brace ==
  /\ In({"compound"}, "start") /\ token = "lbrace"
  /\ Read(next_token)
  /\ Stay("compound", "loop", Plus(StatementAnchors), [PUSH_PARENT EXCEPT !.scope = Me])

NoBrace ==
  /\ In({"compound"}, "start") /\ token # "lbrace"
  /\ Abort

InCompound ==
  /\ In({"compound"}, "loop") /\ token \notin {"rbrace", EOF}
  /\ Call("statement", "statement", token_anchor_set, globals)
  /\ UNCHANGED << token, left >>

\* A statement that is invalid ends the compound if an anchor is looked at:
\* a "}" as well, which then ends the compound around this one.
AfterStatement ==
  /\ In({"compound"}, "statement") /\ ~ (ret = "invalid" /\ at_anchor)
  /\ Stay("compound", "loop", token_anchor_set, globals)
  /\ UNCHANGED << token, left >>

LeaveCompound ==
  Return("ok", Minus(StatementAnchors), [POP_PARENT EXCEPT !.scope = Top.found.scope])

EndOfCompound ==
  /\ In({"compound"}, "loop") /\ token \in {"rbrace", EOF}
  /\ Read(next_token)
  /\ LeaveCompound

BrokenCompound ==
  /\ In({"compound"}, "statement") /\ ret = "invalid" /\ at_anchor
  /\ LeaveCompound
  /\ UNCHANGED << token, left >>

-----------------------------------------------------------------------------
(***************************************************************************)
(* if, loops and switch.                                                   *)
(***************************************************************************)
Invalid(A) == ReturnStatement("invalid", A, POP_PARENT)

\* The "(" in front of a condition.
Opening ==
  /\ In({"if", "while", "switch"}, "keyword") /\ Present("(")
  /\ Call("condition", "expression",
          Plus(IF Top.function = "if" THEN {")", "lbrace"} ELSE {")"}), globals)

NoOpening ==
  /\ In({"while", "switch"}, "keyword") /\ Missing("(")
  /\ Invalid(token_anchor_set)

\* Mutant: the error path removes the ")" it has not added.
IfNoOpening_RemovesParenthesis ==
  /\ In({"if"}, "keyword") /\ MissingBefore("(", {"lbrace"})
  /\ Call("then", "statement", add_anchor_tokens(Minus({")"}), {"else"}), globals)

IfNoOpening ==
  /\ In({"if"}, "keyword") /\ MissingBefore("(", {"lbrace"})
  /\ Call("then", "statement", Plus({"else"}), globals)

IfCondition ==
  /\ In({"if"}, "condition")
  /\ Stay("if", "closing", Minus({")"}), globals)
  /\ UNCHANGED << token, left >>

IfThen ==
  /\ In({"if"}, "closing") /\ Expect(")")
  /\ Call("then", "statement", add_anchor_tokens(Minus({"lbrace"}), {"else"}), globals)

IfElse ==
  /\ In({"if"}, "then") /\ token = "else"
  /\ Read(next_token)
  /\ Call("else", "statement", Minus({"else"}), globals)

EndOfIf ==
  /\ \/ In({"if"}, "then") /\ token # "else" /\ ReturnStatement("ok", Minus({"else"}), POP_PARENT)
     \/ In({"if"}, "else") /\ ReturnStatement("ok", token_anchor_set, POP_PARENT)
  /\ UNCHANGED << token, left >>

\* The statement a loop repeats: parse_loop_body().
LoopBody(A) == Call("body", "statement", A, [globals EXCEPT !.loop = Me])
LeftLoop == [globals EXCEPT !.loop = Top.found.loop]

WhileCondition ==
  /\ In({"while"}, "condition")
  /\ Stay("while", "closing", Minus({")"}), globals)
  /\ UNCHANGED << token, left >>

WhileBody ==
  /\ In({"while"}, "closing")
  /\ \/ Present(")") /\ LoopBody(token_anchor_set)
     \/ Missing(")") /\ Invalid(token_anchor_set)

EndOfWhile ==
  /\ In({"while"}, "body")
  /\ ReturnStatement("ok", token_anchor_set, [POP_PARENT EXCEPT !.loop = Top.found.loop])
  /\ UNCHANGED << token, left >>

DoBody ==
  /\ In({"do"}, "keyword")
  /\ LoopBody(Plus({"while"}))
  /\ UNCHANGED << token, left >>

DoWhile ==
  /\ In({"do"}, "body")
  /\ Stay("do", "while", Minus({"while"}), LeftLoop)
  /\ UNCHANGED << token, left >>

DoOpening ==
  /\ In({"do"}, "while")
  /\ \/ Present("while") /\ Stay("do", "opening", token_anchor_set, globals)
     \/ Missing("while") /\ Invalid(token_anchor_set)

DoCondition ==
  /\ In({"do"}, "opening")
  /\ \/ Present("(") /\ Call("condition", "expression", Plus({")"}), globals)
     \/ Missing("(") /\ Invalid(token_anchor_set)

DoClosing ==
  /\ In({"do"}, "condition")
  /\ Stay("do", "closing", Minus({")"}), globals)
  /\ UNCHANGED << token, left >>

DoSemicolon ==
  /\ In({"do"}, "closing")
  /\ \/ Present(")") /\ Stay("do", "semicolon", token_anchor_set, globals)
     \/ Missing(")") /\ Invalid(token_anchor_set)

EndOfDo ==
  /\ In({"do"}, "semicolon")
  /\ \/ Present("semicolon") /\ ReturnStatement("ok", token_anchor_set, POP_PARENT)
     \/ Missing("semicolon") /\ Invalid(token_anchor_set)

ForOpening ==
  /\ In({"for"}, "keyword")
  /\ \/ /\ Present("(")
        /\ Stay("for", "first", Plus({")"}), [PUSH_PARENT EXCEPT !.scope = Me])
     \/ /\ Missing("(")
        /\ ReturnStatement("invalid", token_anchor_set, globals)

ForExtension ==
  /\ In({"for"}, "first") /\ token = "__extension__"
  /\ Read(next_token)
  /\ Stay("for", "first", token_anchor_set, [globals EXCEPT !.gcc_extension = TRUE])

NoExtension == [globals EXCEPT !.gcc_extension = Top.found.gcc_extension]

\* The three clauses. A declaration ends with its own ";".
ForFirst ==
  /\ In({"for"}, "first") /\ token # "__extension__"
  /\ IF token = "semicolon"
     THEN Read(next_token) /\ Stay("for", "second", token_anchor_set, NoExtension)
     ELSE /\ UNCHANGED << token, left >>
          /\ IF token \in {"int", "linkage"}
             THEN Call("declared", "for_declaration", token_anchor_set, globals)
             ELSE Call("initialised", "expression", Plus({"semicolon"}), globals)

ForDeclared ==
  /\ In({"for"}, "declared")
  /\ Stay("for", "second", token_anchor_set, NoExtension)
  /\ UNCHANGED << token, left >>

ForInitialised ==
  /\ In({"for"}, "initialised")
  /\ Stay("for", "initialiser", Minus({"semicolon"}), globals)
  /\ UNCHANGED << token, left >>

\* Mutant: the error path forgets the anchor.
BrokenFor_ParenthesisStays(A) ==
  ReturnStatement("invalid", A, [POP_PARENT EXCEPT !.scope = Top.found.scope])

\* end_error2
BrokenFor(A) ==
  ReturnStatement("invalid", rem_anchor_tokens(A, {")"}),
                  [POP_PARENT EXCEPT !.scope = Top.found.scope])

ForInitialiser ==
  /\ In({"for"}, "initialiser")
  /\ \/ Present("semicolon") /\ Stay("for", "second", token_anchor_set, NoExtension)
     \/ Missing("semicolon") /\ BrokenFor(token_anchor_set)

ForSecond ==
  /\ In({"for"}, "second") /\ token # "semicolon"
  /\ Call("condition", "expression", Plus({"semicolon"}), globals)
  /\ UNCHANGED << token, left >>

ForCondition ==
  /\ In({"for"}, "condition")
  /\ Stay("for", "semicolon", Minus({"semicolon"}), globals)
  /\ UNCHANGED << token, left >>

ForSemicolon ==
  /\ \/ In({"for"}, "second") /\ token = "semicolon"
     \/ In({"for"}, "semicolon")
  /\ \/ Present("semicolon") /\ Stay("for", "third", token_anchor_set, globals)
     \/ Missing("semicolon") /\ BrokenFor(token_anchor_set)

ForThird ==
  /\ In({"for"}, "third") /\ token # ")"
  /\ Call("step", "expression", token_anchor_set, globals)
  /\ UNCHANGED << token, left >>

ForBody ==
  /\ \/ In({"for"}, "third") /\ token = ")"
     \/ In({"for"}, "step")
  /\ \/ Present(")") /\ LoopBody(Minus({")"}))
     \/ Missing(")") /\ BrokenFor(token_anchor_set)

EndOfFor ==
  /\ In({"for"}, "body")
  /\ ReturnStatement("ok", token_anchor_set,
       [POP_PARENT EXCEPT !.scope = Top.found.scope, !.loop = Top.found.loop])
  /\ UNCHANGED << token, left >>

\* The ")" is still an anchor when it is expected, and stays one if it is
\* missing.
SwitchBody ==
  /\ In({"switch"}, "condition")
  /\ \/ /\ Present(")")
        /\ Call("body", "statement", Minus({")"}), [globals EXCEPT !.switch = Me])
     \/ /\ Missing(")")
        /\ Invalid(token_anchor_set)

EndOfSwitch ==
  /\ In({"switch"}, "body")
  /\ ReturnStatement("ok", token_anchor_set, [POP_PARENT EXCEPT !.switch = Top.found.switch])
  /\ UNCHANGED << token, left >>

-----------------------------------------------------------------------------
(***************************************************************************)
(* Labels, jumps and __try.                                                *)
(***************************************************************************)
CaseValue ==
  /\ In({"case"}, "keyword")
  /\ Call("value", "expression", token_anchor_set, globals)
  /\ UNCHANGED << token, left >>

\* The label is linked to current_switch.
CaseColon ==
  /\ \/ In({"case"}, "value") \/ In({"default"}, "keyword")
  /\ Expect(":")
  /\ Stay(Top.function, "inner", token_anchor_set, PUSH_PARENT)

\* parse_label_inner_statement()
LabelInner ==
  /\ In({"label", "case", "default"}, "inner")
  /\ token # "rbrace" /\ (token = "semicolon" => Top.function # "label")
  /\ Call("end", "statement", token_anchor_set, globals)
  /\ UNCHANGED << token, left >>

EndOfLabel ==
  /\ \/ In({"label", "case", "default"}, "end") /\ UNCHANGED << token, left >>
     \/ /\ In({"label", "case", "default"}, "inner") /\ token = "rbrace"
        /\ UNCHANGED << token, left >>
     \/ In({"label"}, "inner") /\ token = "semicolon" /\ Read(next_token)
  /\ ReturnStatement("ok", token_anchor_set, POP_PARENT)

\* The goto is linked to the others of the function.
Goto ==
  /\ In({"goto"}, "keyword") /\ token \in {"name", "label"}
  /\ Read(IF token = "label" THEN {<< ":", left >>} ELSE next_token)
  /\ Stay("goto", "semicolon", token_anchor_set, globals)

NoGoto ==
  /\ In({"goto"}, "keyword") /\ token \notin {"name", "label"}
  /\ Read(eat_until_anchor)
  /\ ReturnStatement("invalid", token_anchor_set, globals)

ReturnValue ==
  /\ In({"return"}, "keyword") /\ token # "semicolon"
  /\ Call("semicolon", "expression", token_anchor_set, globals)
  /\ UNCHANGED << token, left >>

Semicolon ==
  /\ \/ In({"break"}, "keyword")
     \/ In({"return"}, "keyword") /\ token = "semicolon"
     \/ In({"return", "goto"}, "semicolon")
     \/ In({"expression_statement"}, "wrapped")
  /\ Expect("semicolon")
  /\ ReturnStatement("ok", token_anchor_set, globals)

Try ==
  /\ In({"__try"}, "keyword")
  /\ Call("tried", "compound", token_anchor_set, [globals EXCEPT !.try = Me])
  /\ UNCHANGED << token, left >>

\* Mutant: the handler still belongs to the __try.
Tried_TryStays ==
  /\ In({"__try"}, "tried")
  /\ Stay("__try", "handlers", token_anchor_set, POP_PARENT)
  /\ UNCHANGED << token, left >>

\* The handler's parent is the one of the __try.
Tried ==
  /\ In({"__try"}, "tried")
  /\ Stay("__try", "handlers", token_anchor_set, [POP_PARENT EXCEPT !.try = Top.found.try])
  /\ UNCHANGED << token, left >>

Finally ==
  /\ In({"__try"}, "handlers") /\ token = "__finally"
  /\ Read(next_token)
  /\ Call("handled", "compound", token_anchor_set, globals)

Except ==
  /\ In({"__try"}, "handlers") /\ token = "__except"
  /\ Read(next_token)
  /\ Stay("__try", "except", token_anchor_set, globals)

ExceptFilter ==
  /\ In({"__try"}, "except")
  /\ \/ Present("(") /\ Call("filter", "expression", Plus({")"}), globals)
     \/ Missing("(") /\ ReturnStatement("invalid", token_anchor_set, globals)

EndOfFilter ==
  /\ In({"__try"}, "filter")
  /\ Stay("__try", "closing", Minus({")"}), globals)
  /\ UNCHANGED << token, left >>

ExceptHandler ==
  /\ In({"__try"}, "closing")
  /\ \/ Present(")") /\ Call("handled", "compound", token_anchor_set, globals)
     \/ Missing(")") /\ ReturnStatement("invalid", token_anchor_set, globals)

EndOfTry ==
  /\ \/ In({"__try"}, "handled") /\ ReturnStatement("ok", token_anchor_set, globals)
     \/ /\ In({"__try"}, "handlers") /\ token \notin {"__finally", "__except"}
        /\ ReturnStatement("invalid", token_anchor_set, globals)
  /\ UNCHANGED << token, left >>

-----------------------------------------------------------------------------
Next ==
  \/ Externals \/ External \/ LeakFound \/ EndOfExternals \/ ExternalDeclaration
  \/ Linkage \/ Stray \/ LinkageOpening \/ EndLinkage
  \/ Specifier \/ EndOfSpecifiers \/ Declarator \/ InnerDeclarator \/ CloseDeclarator
  \/ DeclarationRest \/ ForDeclarationRest \/ NextDeclarator \/ NoFunction
  \/ SkippedBody \/ FunctionBody \/ EndOfFunction
  \/ Primary \/ NoPrimary \/ ExtendedOperand \/ EndOfExtendedOperand
  \/ Parenthesis \/ Cast \/ EndOfCast \/ Parenthesized \/ EndOfParenthesized \/ Closed
  \/ CallOperator \/ Argument \/ NextArgument \/ EndOfArguments \/ Comma \/ EndOfExpression
  \/ Keyword \/ Label \/ EmptyStatement \/ Wrapped \/ EndOfWrapped \/ Unexpected
  \/ MoreExtension \/ Extended \/ EndOfExtended
  \/ Brace \/ NoBrace \/ InCompound \/ AfterStatement \/ EndOfCompound \/ BrokenCompound
  \/ Opening \/ NoOpening \/ IfNoOpening \/ IfCondition \/ IfThen \/ IfElse \/ EndOfIf
  \/ WhileCondition \/ WhileBody \/ EndOfWhile
  \/ DoBody \/ DoWhile \/ DoOpening \/ DoCondition \/ DoClosing \/ DoSemicolon \/ EndOfDo
  \/ ForOpening \/ ForExtension \/ ForFirst \/ ForDeclared \/ ForInitialised
  \/ ForInitialiser \/ ForSecond \/ ForCondition \/ ForSemicolon \/ ForThird
  \/ ForBody \/ EndOfFor \/ SwitchBody \/ EndOfSwitch
  \/ CaseValue \/ CaseColon \/ LabelInner \/ EndOfLabel \/ Goto \/ NoGoto
  \/ ReturnValue \/ Semicolon \/ Try \/ Tried \/ Finally \/ Except \/ ExceptFilter
  \/ EndOfFilter \/ ExceptHandler \/ EndOfTry

Init ==
  /\ alphabet \in Alphabets
  /\ token \in alphabet /\ left = MaxTokens
  /\ token_anchor_set = [t \in alphabet |-> IF t = EOF THEN 1 ELSE 0]
  /\ globals = [ parent |-> Null, loop |-> Null, switch |-> Null, try |-> Null,
                 scope |-> Null, function |-> Null, linkage |-> Null,
                 jumps |-> Null, gcc_extension |-> FALSE ]
  /\ stack = << Activation("externals", globals, token_anchor_set) >>
  /\ ret = "ok"
  /\ slips = {}

Spec == Init /\ [][Next]_vars /\ WF_vars(Next)

-----------------------------------------------------------------------------
(***************************************************************************)
(* Properties.                                                             *)
(***************************************************************************)
\* No assertion of the parser fails, and parse_externals() finds no leak, on
\* any input but those with a slip: rem_anchor_token() finds its token,
\* eat('{') its brace, and between two external declarations the anchor set
\* and in_gcc_extension are as before the first.
NotAborted == Aborted => slips # {}

\* A parsing function returns with the anchor set, the current parent, loop,
\* switch, try, scope, function and linkage, and in_gcc_extension as it was
\* called with, whichever way it leaves. (The labels and gotos of a function
\* remain listed behind its end.)
Balanced ==
  [][ Len(stack') < Len(stack) /\ slips' = {}
        => /\ token_anchor_set' = Top.found_anchors
           /\ [globals' EXCEPT !.jumps = Top.found.jumps] = Top.found ]_vars

Innermost(places) == Max(places \cup {Null})
Places(functions, ats) ==
  { p \in DOMAIN stack : stack[p].function \in functions /\ stack[p].at \in ats }
OtherPlaces(functions, ats) ==
  { p \in DOMAIN stack : stack[p].function \in functions /\ stack[p].at \notin ats }

Function == Innermost(Places({"declaration"}, {"body"}))
OfFunction(places) == { p \in places : p > Function }

\* The globals always name the constructs around the token that is looked
\* at: break, continue, __leave, case and return, declarations, gotos and
\* labels act on the innermost loop, switch, __try, scope and function that
\* they are in, and a new statement's parent is the innermost statement.
ContextIsLexical ==
  slips = {} =>
    /\ globals.function = Function
    /\ Function # Null => globals.jumps = Function
    /\ globals.loop = Innermost(OfFunction(Places({"while", "do", "for"}, {"body"})))
    /\ globals.switch = Innermost(OfFunction(Places({"switch"}, {"body"})))
    /\ globals.try = Innermost(OfFunction(Places({"__try"}, {"tried"})))
    /\ globals.linkage = Innermost(Places({"linkage"}, {"opening", "closing", "single"}))
    /\ globals.scope = Innermost(OtherPlaces({"compound"}, {"start"})
                                   \cup OtherPlaces({"for"}, {"keyword"})
                                   \cup Places({"declaration"}, {"body"}))
    /\ globals.parent =
         Innermost(OfFunction(OtherPlaces({"compound"}, {"start"})
                                \cup OtherPlaces({"for"}, {"keyword"})
                                \cup OtherPlaces({"if", "while", "switch", "do", "label", "default"}, {})
                                \cup Places({"case"}, {"inner", "end"})
                                \cup Places({"__try"}, {"keyword", "tried"})))

\* The parser comes to the end of every input, however broken, unless it
\* aborts: error recovery never waits for a token that does not come.
Terminates == <>(stack = <<>> \/ Aborted)
=============================================================================
