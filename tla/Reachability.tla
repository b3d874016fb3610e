---------------------------- MODULE Reachability ----------------------------
(***************************************************************************)
(* The reachability analysis of the parser (src/parser.c, check_reachable  *)
(* and its helpers; src/walk_statements.c), run on every function body     *)
(* when -Wreturn-type, -Wunreachable-code or -Wmissing-noreturn is on.     *)
(*                                                                         *)
(* check_reachable() is a recursive depth-first marking. Its call stack is *)
(* the variable stack (innermost call first): a frame says what remains to *)
(* be done in one invocation, and an action runs the code from there to    *)
(* the next call or return. When the marking is over, walk_statements()    *)
(* visits the whole body and check_unreachable() emits the warnings.       *)
(***************************************************************************)
EXTENDS ControlFlow, FiniteSets

CONSTANT
  Bodies       \* the function bodies to analyse, a sequence; b.live is a set
               \* of control points that holds all those that can be executed

(***************************************************************************)
(* What parser and semantic analysis guarantee of a tree.                  *)
(***************************************************************************)
StatementOK(b, s) ==
  LET st    == b.stmt[s]
      maybe == Stmts(b) \cup {Null}
  IN /\ st.kind \in StatementKinds
     /\ {st.next, st.parent, st.body, st.other, st.target} \subseteq maybe
     /\ {st.expr, st.init, st.step} \subseteq Exprs(b) \cup {Null}
     /\ st.truth \in {-1, 0, 1}
     /\ st.cases \in Seq({ c \in Stmts(b) : b.stmt[c].kind = "case" })
     /\ st.kind \in Loops \cup {"if", "label", "case", "try"} => st.body # Null
     /\ st.kind = "try" =>
          /\ st.other \in Stmts(b)
          /\ b.stmt[st.other].kind = "compound"
          /\ b.stmt[st.other].next = Null
          /\ b.stmt[st.other].parent = st.parent
     /\ st.expr = Null => st.kind \notin {"decl", "if", "switch", "expr", "computed", "while", "do"}
     /\ st.parent # Null =>
          b.stmt[st.parent].kind \in Transparent \cup Loops \cup {"try"}

ExpressionOK(b, e) ==
  LET ex == b.expr[e] IN
  /\ ex.kind \in ExpressionKinds
  /\ ex.sub \in Seq(Exprs(b))
  /\ ex.kind = "cond" => Len(ex.sub) \in {2, 3}
  /\ ex.kind = "stmt" => ex.body \in Stmts(b) /\ b.stmt[ex.body].kind = "compound"

BodyOK(b) ==
  /\ Stmts(b) \subseteq Nat \ {0} /\ 1 \in Stmts(b)
  /\ Exprs(b) \subseteq Nat \ {0}
  /\ b.addressed \subseteq Stmts(b)
  /\ \A s \in Stmts(b) : StatementOK(b, s)
  /\ \A e \in Exprs(b) : ExpressionOK(b, e)

ASSUME BodiesAssumption == \A i \in DOMAIN Bodies : BodyOK(Bodies[i])

ASSUME LiveAssumption == \A i \in DOMAIN Bodies : Closed(Bodies[i], Bodies[i].live)

-----------------------------------------------------------------------------
VARIABLES
  fn,                  \* the function under analysis
  stack,               \* pending work, the innermost call first
  ret,                 \* the value expression_returns() has just returned
  reaches_end,         \* the global of that name
  reachable,           \* the statements whose base.reachable is set
  condition_reachable, \* for statements, likewise
  step_reachable,
  noreturn_candidate,  \* the global of that name
  end_warned,          \* "control reaches end of non-void function"
  warnings,            \* <<what, statement>> reported as unreachable
  phase                \* "mark", then "walk", then "done"

marks == << reachable, condition_reachable, step_reachable >>
facts == << noreturn_candidate, end_warned >>
vars == << fn, stack, ret, reaches_end, marks, facts, warnings, phase >>

body == Bodies[fn]
stmt == body.stmt
expr == body.expr

FrameOps ==
  { "visit",     \* check_reachable(at)
    "after",     \* at is "last" and next = at->next: go on from there
    "head",      \* continue_while, continue_do_while, continue_for
    "test",      \* evaluate the condition of the for statement at
    "decide",    \* the controlling expression of at has been evaluated;
                 \* flag: there is none
    "cases",     \* the loop over the case labels of a switch, from i
    "break", "continue", "leave",   \* look at the parent of at
    "eval",      \* expression_returns(at)
    "operand",   \* operand i of at has been evaluated
    "close",     \* the end of the statement expression at; flag: reaches_end
    "walk",      \* walk_statements(at)
    "walklist",  \* the loop over the statements of a compound, from at
    "walkexpr" } \* walk_expression(at)

Pending(op, at, i, flag) == [op |-> op, at |-> at, i |-> i, flag |-> flag]
Frame(op, at) == Pending(op, at, 0, FALSE)

Top == Head(stack)
At(ops) == stack # <<>> /\ Top.op \in ops

Return        == stack' = Tail(stack)
Continue(f)   == stack' = <<f>> \o Tail(stack)
Call(f, then) == stack' = <<f, then>> \o Tail(stack)

OnlyStack == UNCHANGED << fn, ret, reaches_end, marks, facts, warnings, phase >>

\* Mutant: a statement is not marked when it is visited.
MarkTop_Forgotten ==
  UNCHANGED << fn, ret, reaches_end, marks, facts, warnings, phase >>

\* stmt->base.reachable = true
MarkTop ==
  /\ reachable' = reachable \cup {Top.at}
  /\ UNCHANGED << fn, ret, reaches_end, condition_reachable, step_reachable,
                  facts, warnings, phase >>

\* if (!expression_returns(...)) return; and the code after it.
Evaluate(s) ==
  IF stmt[s].expr = Null
  THEN Continue(Pending("decide", s, 0, TRUE))
  ELSE Call(Frame("eval", stmt[s].expr), Frame("decide", s))

Returns == Top.flag \/ ret

Init ==
  /\ fn \in DOMAIN Bodies
  /\ stack = << Frame("visit", 1) >>
  /\ ret = FALSE
  /\ reaches_end = FALSE
  /\ reachable = {} /\ condition_reachable = {} /\ step_reachable = {}
  /\ noreturn_candidate = TRUE
  /\ end_warned = FALSE
  /\ warnings = {}
  /\ phase = "mark"

-----------------------------------------------------------------------------
(***************************************************************************)
(* check_reachable(s): the first switch.                                   *)
(***************************************************************************)
VisitAgain ==
  /\ At({"visit"}) /\ Top.at \in reachable
  /\ Return
  /\ OnlyStack

\* The statements that evaluate an expression first.
VisitEvaluating ==
  /\ At({"visit"}) /\ Top.at \notin reachable
  /\ stmt[Top.at].kind \in Evaluating
  /\ MarkTop
  /\ Evaluate(Top.at)

\* Where control goes from a statement that evaluates nothing.
Onward(s) ==
  LET st == stmt[s] IN
  CASE st.kind = "simple"                        -> Frame("after", s)
    [] st.kind = "compound"                      ->
         IF st.body = Null THEN Frame("after", s) ELSE Frame("visit", st.body)
    [] st.kind \in {"label", "case"}             -> Frame("visit", st.body)
    [] st.kind = "for"                           -> Frame("test", s)
    [] st.kind \in {"break", "continue", "leave"} -> Frame(st.kind, s)

VisitPlain ==
  /\ At({"visit"}) /\ Top.at \notin reachable
  /\ stmt[Top.at].kind \notin Evaluating \cup {"do", "goto", "try"}
  /\ MarkTop
  /\ Continue(Onward(Top.at))

\* A do statement is marked when its condition is reached, not here.
VisitDo ==
  /\ At({"visit"}) /\ Top.at \notin reachable
  /\ stmt[Top.at].kind = "do"
  /\ Continue(Frame("visit", stmt[Top.at].body))
  /\ OnlyStack

VisitGoto ==
  /\ At({"visit"}) /\ Top.at \notin reachable
  /\ stmt[Top.at].kind = "goto"
  /\ MarkTop
  /\ IF stmt[Top.at].target = Null
     THEN Return
     ELSE Continue(Frame("visit", stmt[Top.at].target))
\* Mutant: the handler is not visited.
VisitTry_NoHandler ==
  /\ At({"visit"}) /\ Top.at \notin reachable
  /\ stmt[Top.at].kind = "try"
  /\ MarkTop
  /\ Continue(Frame("visit", stmt[Top.at].body))

VisitTry ==
  /\ At({"visit"}) /\ Top.at \notin reachable
  /\ stmt[Top.at].kind = "try"
  /\ MarkTop
  /\ Call(Frame("visit", stmt[Top.at].body), Frame("visit", stmt[Top.at].other))

-----------------------------------------------------------------------------
(***************************************************************************)
(* The code after the evaluation of the controlling expression.            *)
(***************************************************************************)
DecideNoReturn ==
  /\ At({"decide"}) /\ ~Returns
  /\ Return
  /\ OnlyStack

DecideReturn ==
  /\ At({"decide"}) /\ Returns
  /\ stmt[Top.at].kind = "return"
  /\ noreturn_candidate' = FALSE
  /\ Return
  /\ UNCHANGED << fn, ret, reaches_end, marks, end_warned, warnings, phase >>

DecidePlain ==
  /\ At({"decide"}) /\ Returns
  /\ stmt[Top.at].kind \in {"expr", "decl"}
  /\ Continue(Frame("after", Top.at))
  /\ OnlyStack

\* A computed goto is taken to go to the statement around it.
DecideComputed ==
  /\ At({"decide"}) /\ Returns
  /\ stmt[Top.at].kind = "computed"
  /\ IF stmt[Top.at].parent = Null
     THEN Return
     ELSE Continue(Frame("visit", stmt[Top.at].parent))
  /\ OnlyStack

\* if, while, do and for: the controlled statement when the condition may
\* hold, then the other way out when it may not.
DecideBranch ==
  /\ At({"decide"}) /\ Returns
  /\ LET s     == Top.at
         st    == stmt[s]
         other == IF st.kind = "if" /\ st.other # Null
                  THEN Frame("visit", st.other) ELSE Frame("after", s)
     IN /\ st.kind \in Loops \cup {"if"}
        /\ \/ Truth(body, s) > 0 /\ Continue(Frame("visit", st.body))
           \/ Truth(body, s) = 0 /\ Call(Frame("visit", st.body), other)
           \/ Truth(body, s) < 0 /\ Continue(other)
  /\ OnlyStack
\* Mutant: a switch without a matching label is not left.
DecideSwitchConstant_NotLeft ==
  /\ At({"decide"}) /\ Returns
  /\ LET s        == Top.at
         cases    == stmt[s].cases
         matching == { i \in DOMAIN cases : Matches(body, s, cases[i]) }
         defaults == { i \in DOMAIN cases : IsDefault(body, cases[i]) }
     IN /\ stmt[s].kind = "switch" /\ stmt[s].sel # Dynamic
        /\ \/ \E i \in matching :
                (\A j \in matching : i <= j) /\ Continue(Frame("visit", cases[i]))
           \/ matching = {} /\ \E i \in defaults :
                (\A j \in defaults : i >= j) /\ Continue(Frame("visit", cases[i]))
           \/ matching = {} /\ defaults = {} /\ Return
  /\ OnlyStack

\* switch on a constant: the first label that matches, else the last
\* default label, else the statement is left.
DecideSwitchConstant ==
  /\ At({"decide"}) /\ Returns
  /\ LET s        == Top.at
         cases    == stmt[s].cases
         matching == { i \in DOMAIN cases : Matches(body, s, cases[i]) }
         defaults == { i \in DOMAIN cases : IsDefault(body, cases[i]) }
     IN /\ stmt[s].kind = "switch" /\ stmt[s].sel # Dynamic
        /\ \/ \E i \in matching :
                (\A j \in matching : i <= j) /\ Continue(Frame("visit", cases[i]))
           \/ matching = {} /\ \E i \in defaults :
                (\A j \in defaults : i >= j) /\ Continue(Frame("visit", cases[i]))
           \/ matching = {} /\ defaults = {} /\ Continue(Frame("after", s))
  /\ OnlyStack

DecideSwitch ==
  /\ At({"decide"}) /\ Returns
  /\ stmt[Top.at].kind = "switch" /\ stmt[Top.at].sel = Dynamic
  /\ Continue(Pending("cases", Top.at, 1, FALSE))
  /\ OnlyStack

NextCase ==
  /\ At({"cases"})
  /\ Top.i <= Len(stmt[Top.at].cases)
  /\ Call(Frame("visit", stmt[Top.at].cases[Top.i]), Pending("cases", Top.at, Top.i + 1, FALSE))
  /\ OnlyStack
\* Mutant: a switch with a default label can be left as well.
NoMoreCases_DefaultForgotten ==
  /\ At({"cases"})
  /\ Top.i > Len(stmt[Top.at].cases)
  /\ Continue(Frame("after", Top.at))
  /\ OnlyStack

NoMoreCases ==
  /\ At({"cases"})
  /\ Top.i > Len(stmt[Top.at].cases)
  /\ IF \E c \in CaseLabels(body, Top.at) : IsDefault(body, c)
     THEN Return
     ELSE Continue(Frame("after", Top.at))
  /\ OnlyStack

-----------------------------------------------------------------------------
(***************************************************************************)
(* The loop at the end of check_reachable(): on to the next statement, or  *)
(* up until a statement says where control goes.                           *)
(***************************************************************************)
AfterNext ==
  /\ At({"after"}) /\ stmt[Top.at].next # Null
  /\ Continue(Frame("visit", stmt[Top.at].next))
  /\ OnlyStack

AfterBody ==
  /\ At({"after"}) /\ stmt[Top.at].next = Null /\ stmt[Top.at].parent = Null
  /\ noreturn_candidate' = FALSE
  /\ end_warned' = TRUE
  /\ Return
  /\ UNCHANGED << fn, ret, reaches_end, marks, warnings, phase >>

AfterStmtExpr ==
  /\ At({"after"}) /\ stmt[Top.at].next = Null
  /\ IsStmtExpr(body, stmt[Top.at].parent)
  /\ reaches_end' = TRUE
  /\ Return
  /\ UNCHANGED << fn, ret, marks, facts, warnings, phase >>

AfterLast ==
  /\ At({"after"}) /\ stmt[Top.at].next = Null
  /\ LET up == stmt[Top.at].parent IN
       /\ up # Null /\ ~IsStmtExpr(body, up)
       /\ \/ stmt[up].kind \in Transparent /\ Continue(Frame("after", up))
          \/ stmt[up].kind \in Loops /\ Continue(Frame("head", up))
          \/ stmt[up].kind = "try" /\ Continue(Frame("visit", stmt[up].other))
  /\ OnlyStack

\* break, continue and __leave look for the statement they belong to; with
\* none the statement has been diagnosed and leads nowhere.
Seek ==
  /\ At({"break", "continue", "leave"})
  /\ LET up   == stmt[Top.at].parent
         kind == IF up = Null THEN "none" ELSE stmt[up].kind
         fits == CASE Top.op = "break"    -> kind \in Loops \cup {"switch"}
                   [] Top.op = "continue" -> kind \in Loops
                   [] Top.op = "leave"    -> kind = "try"
     IN \/ up = Null /\ Return
        \/ up # Null /\ ~fits /\ Continue(Frame(Top.op, up))
        \/ fits /\ Top.op = "break" /\ Continue(Frame("after", up))
        \/ fits /\ Top.op = "continue" /\ Continue(Frame("head", up))
        \/ fits /\ Top.op = "leave" /\ Continue(Frame("visit", stmt[up].other))
  /\ OnlyStack

\* The end of a loop body, or a continue.
LoopAgain ==
  /\ At({"head"}) /\ stmt[Top.at].kind # "for" /\ Top.at \in reachable
  /\ Return
  /\ OnlyStack

LoopCondition ==
  /\ At({"head"}) /\ stmt[Top.at].kind # "for" /\ Top.at \notin reachable
  /\ MarkTop
  /\ Evaluate(Top.at)

LoopStep ==
  /\ At({"head"}) /\ stmt[Top.at].kind = "for"
  /\ step_reachable' = step_reachable \cup {Top.at}
  /\ Continue(Frame("test", Top.at))
  /\ UNCHANGED << fn, ret, reaches_end, reachable, condition_reachable, facts, warnings, phase >>

TestAgain ==
  /\ At({"test"}) /\ Top.at \in condition_reachable
  /\ Return
  /\ OnlyStack

TestCondition ==
  /\ At({"test"}) /\ Top.at \notin condition_reachable
  /\ condition_reachable' = condition_reachable \cup {Top.at}
  /\ Evaluate(Top.at)
  /\ UNCHANGED << fn, ret, reaches_end, reachable, step_reachable, facts, warnings, phase >>

-----------------------------------------------------------------------------
(***************************************************************************)
(* expression_returns(e) and initializer_returns().                        *)
(***************************************************************************)
\* The arguments of a call of a noreturn function are not looked at.
EvalLeaf ==
  /\ At({"eval"})
  /\ \/ expr[Top.at].kind = "value" /\ ret' = TRUE
     \/ expr[Top.at].kind = "noreturn" /\ ret' = FALSE
     \/ expr[Top.at].kind \in {"seq", "list"} /\ expr[Top.at].sub = <<>> /\ ret' = TRUE
  /\ Return
  /\ UNCHANGED << fn, reaches_end, marks, facts, warnings, phase >>

EvalOperands ==
  /\ At({"eval"})
  /\ expr[Top.at].kind \in {"seq", "list", "cond"} /\ expr[Top.at].sub # <<>>
  /\ Call(Frame("eval", expr[Top.at].sub[1]),
          Pending("operand", Top.at, 1, TRUE))
  /\ OnlyStack

\* A sequence stops at the first operand that does not return, ?: at the
\* first arm that does; a braced initializer looks at all its elements.
MoreOperands ==
  LET e == Top.at IN
  /\ Top.i < Len(expr[e].sub)
  /\ CASE expr[e].kind = "seq"  -> ret
       [] expr[e].kind = "list" -> TRUE
       [] expr[e].kind = "cond" -> IF Top.i = 1 THEN ret ELSE ~ret

NextOperand ==
  /\ At({"operand"}) /\ MoreOperands
  /\ Call(Frame("eval", expr[Top.at].sub[Top.i + 1]),
          Pending("operand", Top.at, Top.i + 1, Top.flag /\ ret))
  /\ OnlyStack

LastOperand ==
  /\ At({"operand"}) /\ ~MoreOperands
  /\ ret' = (ret /\ (expr[Top.at].kind = "list" => Top.flag))
  /\ Return
  /\ UNCHANGED << fn, reaches_end, marks, facts, warnings, phase >>

OpenStmtExpr ==
  /\ At({"eval"}) /\ expr[Top.at].kind = "stmt"
  /\ reaches_end' = FALSE
  /\ Call(Frame("visit", expr[Top.at].body),
          Pending("close", Top.at, 0, reaches_end))
  /\ UNCHANGED << fn, ret, marks, facts, warnings, phase >>

CloseStmtExpr ==
  /\ At({"close"})
  /\ ret' = reaches_end
  /\ reaches_end' = Top.flag
  /\ Return
  /\ UNCHANGED << fn, marks, facts, warnings, phase >>

-----------------------------------------------------------------------------
(***************************************************************************)
(* walk_statements(body, check_unreachable).                               *)
(***************************************************************************)
StartWalk ==
  /\ phase = "mark" /\ stack = <<>>
  /\ phase' = "walk"
  /\ stack' = << Frame("walk", 1) >>
  /\ UNCHANGED << fn, ret, reaches_end, marks, facts, warnings >>

\* check_unreachable(s)
Unreachable(s) ==
  LET st   == stmt[s]
      dead == s \notin reachable
      report(what, S) == { <<what, s>> : x \in { y \in {s} : S } }
  IN CASE st.kind = "do" -> report("condition", dead /\ Truth(body, s) >= 0)
       [] st.kind = "for" ->
            IF dead /\ s \notin step_reachable THEN {<<"statement", s>>}
            ELSE report("init", dead /\ st.init # Null)
                 \cup report("condition", s \notin condition_reachable /\ st.expr # Null)
                 \cup report("step", s \notin step_reachable /\ st.step # Null)
       [] st.kind = "compound" -> report("statement", dead /\ st.body = Null)
       [] st.kind = "decl" -> report("statement", dead /\ expr[st.expr].sub # <<>>)
       [] OTHER -> report("statement", dead)

Walk(op, x) == IF x = Null THEN <<>> ELSE << Frame(op, x) >>

Children(s) ==
  LET st == stmt[s] IN
  CASE st.kind = "compound" -> Walk("walklist", st.body)
    [] st.kind = "do"       -> Walk("walk", st.body) \o Walk("walkexpr", st.expr)
    [] st.kind = "for"      -> Walk("walkexpr", st.init) \o Walk("walkexpr", st.expr)
                               \o Walk("walkexpr", st.step) \o Walk("walk", st.body)
    [] st.kind = "goto"     -> <<>>
    [] st.kind = "computed" -> <<>>
    [] OTHER                -> Walk("walkexpr", st.expr) \o Walk("walk", st.body)
                               \o Walk("walk", st.other)

WalkStatement ==
  /\ At({"walk"})
  /\ warnings' = warnings \cup Unreachable(Top.at)
  /\ stack' = Children(Top.at) \o Tail(stack)
  /\ UNCHANGED << fn, ret, reaches_end, marks, facts, phase >>

WalkList ==
  /\ At({"walklist"})
  /\ stack' = Walk("walk", Top.at) \o Walk("walklist", stmt[Top.at].next) \o Tail(stack)
  /\ OnlyStack

\* Braced initializers are not descended into.
WalkExpression ==
  /\ At({"walkexpr"})
  /\ LET ex == expr[Top.at] IN
       stack' = (CASE ex.kind = "stmt" -> Walk("walk", ex.body)
                   [] ex.kind \in {"seq", "cond", "noreturn"} ->
                        [i \in DOMAIN ex.sub |-> Frame("walkexpr", ex.sub[i])]
                   [] OTHER -> <<>>) \o Tail(stack)
  /\ OnlyStack

Finish ==
  /\ phase = "walk" /\ stack = <<>>
  /\ phase' = "done"
  /\ UNCHANGED << fn, stack, ret, reaches_end, marks, facts, warnings >>

-----------------------------------------------------------------------------
Visit  == VisitAgain \/ VisitEvaluating \/ VisitPlain \/ VisitDo \/ VisitGoto \/ VisitTry
Decide == \/ DecideNoReturn \/ DecideReturn \/ DecidePlain \/ DecideComputed
          \/ DecideBranch \/ DecideSwitchConstant \/ DecideSwitch
          \/ NextCase \/ NoMoreCases
Leave  == AfterNext \/ AfterBody \/ AfterStmtExpr \/ AfterLast \/ Seek
Loop  == LoopAgain \/ LoopCondition \/ LoopStep \/ TestAgain \/ TestCondition
Eval   == EvalLeaf \/ EvalOperands \/ NextOperand \/ LastOperand
          \/ OpenStmtExpr \/ CloseStmtExpr
WalkAll == StartWalk \/ WalkStatement \/ WalkList \/ WalkExpression \/ Finish

Next == Visit \/ Decide \/ Leave \/ Loop \/ Eval \/ WalkAll

\* The analysis is sequential code: it runs until it is done.
Spec == Init /\ [][Next]_vars /\ WF_vars(Next)
-----------------------------------------------------------------------------
(***************************************************************************)
(* Properties.                                                             *)
(***************************************************************************)
X == body.live

\* The control point a mark or a warning speaks of.
PointOf(s) == IF stmt[s].kind \in {"while", "do"} THEN Test(s) ELSE In(s)

PointOfWarning(w) ==
  CASE w[1] = "condition" -> Test(w[2])
    [] w[1] = "init"      -> In(w[2])
    [] w[1] = "step"      -> StepOf(w[2])
    [] OTHER              -> PointOf(w[2])

\* Whatever the analysis marks as reachable can be executed, and it denies
\* noreturn or reports a missing return only when the function can be left
\* that way: dead code is never taken for live code.
MarkedIsExecutable ==
  /\ \A s \in reachable : PointOf(s) \in X
  /\ \A s \in condition_reachable : Test(s) \in X
  /\ \A s \in step_reachable : StepOf(s) \in X
  /\ end_warned => FallOff \in X
  /\ ~noreturn_candidate => {Exit, FallOff} \cap X # {}

\* -Wunreachable-code only reports what cannot be executed (cparser.1:208):
\* the depth-first search has missed no path, whichever jump entered a loop
\* first.  (It has missed the arguments of a noreturn call: a statement
\* expression there is walked and reported.  ArgumentsOK excludes it.)
WarnedIsUnreachable == \A w \in warnings : PointOfWarning(w) \notin X

\* When the marking is over, the end of the function has been seen if and
\* only if control can get there, and the function is a candidate for
\* noreturn only if control cannot leave it (cparser.1:180).  (A return or goto
\* in the arguments of a noreturn call is missed; see ArgumentsOK.)
LeavingIsKnown ==
  phase # "mark" =>
    /\ FallOff \in X => end_warned
    /\ noreturn_candidate => {Exit, FallOff} \cap X = {}

\* Every loop, goto and nested statement expression notwithstanding, the
\* analysis comes to its end.
Termination == <>(phase = "done")
=============================================================================
