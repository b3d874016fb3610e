--------------------------- MODULE MCReachability ---------------------------
(***************************************************************************)
(* Loops of every kind, with break, continue, goto and constant            *)
(* conditions; switch, __try and statement expressions.                    *)
(*                                                                         *)
(* TLC evaluates a constant definition once, but the definition that a cfg *)
(* gives for a constant every time it is used: so the runs assign to Bodies *)
(* a name (MC...) for the family.                                          *)
(***************************************************************************)
EXTENDS Reachability, Families, TLC

(***************************************************************************)
(* Function bodies for Reachability: families of small trees whose leaves, *)
(* loop kinds and constant conditions vary.                                *)
(***************************************************************************)
Node(kind, parent, next) ==
  [kind |-> kind, next |-> next, parent |-> parent, body |-> 0, other |-> 0,
   expr |-> 0, init |-> 0, step |-> 0, truth |-> 0, target |-> 0,
   cases |-> <<>>, sel |-> Dynamic, range |-> <<>>]

Around(kind, parent, next, inner) == [Node(kind, parent, next) EXCEPT !.body = inner]

\* Leaf statement s: a kind, "goto n" for goto the label n, or "call" for a
\* call of a noreturn function.
GotoTarget(leaf) == CHOOSE n \in 0 .. 20 : leaf = "goto " \o ToString(n)

LeafKinds == { "expr", "return", "computed", "break", "continue", "leave", "simple" }

LeafOf(s, leaf, parent, next) ==
  [Node(IF leaf = "call" THEN "expr" ELSE IF leaf \in LeafKinds THEN leaf ELSE "goto",
        parent, next) EXCEPT
     !.expr   = IF leaf \in {"expr", "call", "return", "computed"} THEN s ELSE 0,
     !.target = IF leaf \in LeafKinds \cup {"call"} THEN 0 ELSE GotoTarget(leaf)]

ExprOf(kind, sub, inner) == [kind |-> kind, sub |-> sub, body |-> inner]

\* Statements whose own expression has their number: plain values, except
\* for those in calls.
Values(stmts, calls) ==
  [e \in { s \in DOMAIN stmts : stmts[s].expr = s } |->
     ExprOf(IF e \in calls THEN "noreturn" ELSE "value", <<>>, 0)]

Calls(leaves) == { s \in DOMAIN leaves : leaves[s] = "call" }

\* The least set that has R, what follows its points outside of stop and the
\* lists it completes; new are the points that have been added last.
RECURSIVE Grow(_, _, _, _)
Grow(b, stop, R, new) ==
  LET more == { n \in ListsDone(b, R) \cup UNION { Succ(b, m) : m \in new \ stop } : n \notin R }
  IN IF more = {} THEN R ELSE Grow(b, stop, R \cup more, more)

\* What can be executed before control has arrived at t; for Null, all that
\* can be executed.
Before(b, t) == Grow(b, { In(t) }, { In(1) }, { In(1) })

\* The statement expression around a statement or an expression.
RECURSIVE OwnerOfStmt(_, _)
OwnerOfStmt(b, s) ==
  IF IsStmtExpr(b, s) THEN CHOOSE e \in StmtExprs(b) : b.expr[e].body = s
  ELSE IF b.stmt[s].parent = Null THEN Null
  ELSE OwnerOfStmt(b, b.stmt[s].parent)

RECURSIVE OwnerOfExpr(_, _)
OwnerOfExpr(b, e) ==
  LET users == { s \in Stmts(b) : e \in {b.stmt[s].expr, b.stmt[s].init, b.stmt[s].step} }
      ups   == { f \in Exprs(b) : \E i \in DOMAIN b.expr[f].sub : b.expr[f].sub[i] = e }
  IN IF users # {} THEN OwnerOfStmt(b, CHOOSE s \in users : TRUE)
     ELSE IF ups # {} THEN OwnerOfExpr(b, CHOOSE f \in ups : TRUE)
     ELSE Null

\* A shape is what a body is built from: its statements, those whose
\* expression is a call of a noreturn function, and its other expressions.
Shape(stmts, calls, more) == [stmts |-> stmts, expr |-> more @@ Values(stmts, calls)]

\* TLC computes the values of f once, not each time f is applied.
Once(f) == f @@ <<>>

WithLive(b) == [b EXCEPT !.live = b.before[Null]]

Body(shape) ==
  LET b == [stmt |-> shape.stmts, expr |-> shape.expr,
            addressed |-> { l \in DOMAIN shape.stmts : shape.stmts[l].kind = "label" },
            live |-> {}, owner |-> <<>>, before |-> <<>>]
  IN WithLive([b EXCEPT
       !.before = Once([t \in Tops(b) \cup {Null} |-> Before(b, t)]),
       !.owner = [stmt |-> Once([s \in Stmts(b) |-> OwnerOfStmt(b, s)]),
                  expr |-> Once([e \in Exprs(b) |-> OwnerOfExpr(b, e)])]])

BodiesOf(shapes) == [ i \in DOMAIN shapes |-> Body(shapes[i]) ]

\* { A; L3: B; loop (t) { if (d) C else D; L10: E; } F; }
\* A for loop has all three clauses, "forever" is for (;;).
LoopShape(loop, t, d, A, C, D, E, F) ==
  LET stmts ==
    << Around("compound", 0, 0, 2),
       LeafOf(2, A, 1, 3),
       Around("label", 1, 5, 4),
       LeafOf(4, "expr", 3, 0),
       [Around(IF loop = "forever" THEN "for" ELSE loop, 1, 12, 6) EXCEPT
          !.expr = IF loop = "forever" THEN 0 ELSE 5, !.truth = t,
          !.init = IF loop = "for" THEN 20 ELSE 0,
          !.step = IF loop = "for" THEN 21 ELSE 0],
       Around("compound", 5, 0, 7),
       [Around("if", 6, 10, 8) EXCEPT !.expr = 7, !.truth = d, !.other = 9],
       LeafOf(8, C, 7, 0),
       LeafOf(9, D, 7, 0),
       Around("label", 6, 0, 11),
       LeafOf(11, E, 10, 0),
       LeafOf(12, F, 1, 0) >>
  IN Shape(stmts, Calls(<<"", A, "", "", "", "", "", C, D, "", E, F>>),
          IF loop = "for"
          THEN 20 :> ExprOf("value", <<>>, 0) @@ 21 :> ExprOf("value", <<>>, 0)
          ELSE <<>>)

\* { switch (sel) { case 0: A; case 1 ... 3: B; [default:] C; } D; }
SwitchShape(sel, hasDefault, A, B, C, D) ==
  LET stmts ==
    << Around("compound", 0, 0, 2),
       [Around("switch", 1, 10, 3) EXCEPT !.expr = 2, !.sel = sel,
          !.cases = IF hasDefault THEN <<4, 6, 8>> ELSE <<4, 6>>],
       Around("compound", 2, 0, 4),
       [Around("case", 3, 6, 5) EXCEPT !.range = <<0, 0>>],
       LeafOf(5, A, 4, 0),
       [Around("case", 3, 8, 7) EXCEPT !.range = <<1, 3>>],
       LeafOf(7, B, 6, 0),
       Around(IF hasDefault THEN "case" ELSE "label", 3, 0, 9),
       LeafOf(9, C, 8, 0),
       LeafOf(10, D, 1, 0) >>
  IN Shape(stmts, Calls(<<"", "", "", "", A, "", B, "", C, D>>), <<>>)

\* { L2: __try { A; B; } __finally { C; } D; }
TryShape(A, B, C, D) ==
  LET stmts ==
    << Around("compound", 0, 0, 2),
       Around("label", 1, 9, 3),
       [Around("try", 2, 0, 4) EXCEPT !.other = 7],
       Around("compound", 3, 0, 5),
       LeafOf(5, A, 4, 6),
       LeafOf(6, B, 4, 0),
       Around("compound", 2, 0, 8),
       LeafOf(8, C, 7, 0),
       LeafOf(9, D, 1, 0) >>
  IN Shape(stmts, Calls(<<"", "", "", "", A, B, "", C, D>>), <<>>)

\* { S; L8: D; } where S, of kind outer, evaluates an expression of kind op
\* with two operands: the statement expression ({ A; L5: B; C; }) and one
\* that is a value, a call of a noreturn function or a second statement
\* expression ({ L12: E; }); op "cond" is ({ ... }) ?: second, and op
\* "arms" is x ? ({ ... }) : second.
StmtExprShape(outer, op, A, B, C, second, D, E) ==
  LET stmts ==
    << Around("compound", 0, 0, 2),
       [Node(outer, 1, 8) EXCEPT !.expr = 20],
       Around("compound", 1, 0, 4),
       LeafOf(4, A, 3, 5),
       Around("label", 3, 7, 6),
       LeafOf(6, B, 5, 0),
       LeafOf(7, C, 3, 0),
       Around("label", 1, 10, 9),
       LeafOf(9, D, 8, 0),
       Node("simple", 1, 0),
       Around("compound", 1, 0, 12),
       Around("label", 11, 0, 13),
       LeafOf(13, E, 12, 0) >>
      exprs == 20 :> ExprOf("seq", <<21>>, 0) @@ 24 :> ExprOf("value", <<>>, 0)
               @@ 21 :> (IF op = "arms" THEN ExprOf("cond", <<24, 22, 23>>, 0)
                                        ELSE ExprOf(op, <<22, 23>>, 0))
               @@ 22 :> ExprOf("stmt", <<>>, 3)
               @@ 23 :> ExprOf(second, <<>>, IF second = "stmt" THEN 11 ELSE 0)
  IN Shape(stmts, Calls(<<"", "", "", A, "", B, C, "", D, "", "", "", E>>), exprs)


-----------------------------------------------------------------------------
\* Loops of every kind, entered from the top or by goto. A do loop is
\* not entered by goto before its top: the analysis gets that wrong (see the
\* README).
LoopChoices ==
  Product(<< << <<"while", "expr">>, <<"while", "goto 10">>, <<"for", "expr">>,
                <<"for", "goto 10">>, <<"do", "expr">>,
                <<"forever", "expr">> >>,
             <<-1, 0, 1>>, <<0, 1>>,
             <<"expr", "break", "continue", "call", "goto 3", "goto 10">>,
             <<"return", "goto 10">>,
             <<"expr", "continue">>,
             <<"expr", "goto 3">> >>)

LoopShapes ==
  [ i \in DOMAIN LoopChoices |->
            LET x == LoopChoices[i]
            IN LoopShape(x[1][1], x[2], x[3], x[1][2], x[4], x[5], x[6], x[7]) ]

SwitchChoices ==
  Product(<< << <<>>, <<-1>>, <<0>>, <<1>>, <<2>>, <<3>>, <<4>> >>, <<TRUE, FALSE>>,
             <<"expr", "break", "call">>, <<"expr", "break", "goto 8">>,
             <<"expr", "break", "return">>, <<"expr", "goto 6">> >>)

SwitchShapes ==
  [ i \in DOMAIN SwitchChoices |->
            LET x == SwitchChoices[i]
            IN SwitchShape(x[1], x[2], x[3], x[4], x[5], x[6]) ]

\* The try statement is the last of its list here (see FinallyBodies).
TryChoices ==
  Product(<< <<"expr", "leave", "return", "goto 2", "call">>,
             <<"expr", "leave", "return", "goto 2", "goto 9", "goto 0", "break">>,
             <<"expr", "return", "goto 2", "computed">>,
             <<"expr", "leave", "continue", "computed">> >>)

TryShapes ==
  [ i \in DOMAIN TryChoices |->
      LET x == TryChoices[i] IN TryShape(x[1], x[2], x[3], x[4]) ]

\* Statement expressions as operands. None is jumped into or out of but by
\* a goto out of the outermost.
StmtExprChoices ==
  Product(<< <<"expr", "decl", "return">>, << <<"seq", "value">>, <<"seq", "noreturn">>, <<"seq", "stmt">>,
                <<"list", "value">>, <<"list", "noreturn">>, <<"list", "stmt">>,
                <<"cond", "value">>, <<"arms", "noreturn">> >>,
             <<"expr", "goto 5", "goto 8", "call">>,
             <<"expr", "return">>, <<"expr", "goto 5">>,
             <<"expr", "return">>,
             <<"expr", "goto 12", "call">> >>)

StmtExprShapes ==
  [ i \in DOMAIN StmtExprChoices |->
      LET x == StmtExprChoices[i]
      IN StmtExprShape(x[1], x[2][1], x[3], x[4], x[5], x[2][2], x[6], x[7]) ]

MCBodyFamilies == BodiesOf(LoopShapes \o SwitchShapes \o TryShapes \o StmtExprShapes)

MCAllBodies == MCBodyFamilies

\* The theorems are about these bodies, but for those with a goto that leaves
\* a statement expression.
Jumpless(b) ==
  \A s \in Stmts(b) : b.stmt[s].target # Null =>
    b.owner.stmt[b.stmt[s].target] = b.owner.stmt[s]

ASSUME RegularAssumption ==
  \A i \in DOMAIN Bodies : Jumpless(Bodies[i]) => Regular(Bodies[i])

ASSUME ExactAssumption ==
  \A i \in DOMAIN Bodies : Jumpless(Bodies[i]) => Exact(Bodies[i])
=============================================================================
