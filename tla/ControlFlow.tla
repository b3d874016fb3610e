----------------------------- MODULE ControlFlow -----------------------------
(***************************************************************************)
(* The syntax tree of one C function body, as the parser hands it to the   *)
(* reachability analysis, and an independent definition of which control   *)
(* points of it can be executed.                                           *)
(*                                                                         *)
(* A body b is a record with these fields:                                 *)
(*   b.stmt[s]  the statement s (statement 1 is the body's compound);      *)
(*   b.expr[e]  the expression e;                                          *)
(*   b.addressed  the labels whose address is taken with &&label;          *)
(*   b.owner    the innermost statement expression around each statement   *)
(*              and each expression (not a part of the program's own data);*)
(*   b.live     a set of control points, see Closed below;                 *)
(*   b.before   sets of control points, see TopFirst below.                *)
(* Statements and expressions are numbered, 0 is the NULL pointer.         *)
(*                                                                         *)
(* Only what decides the flow of control is kept of an expression:         *)
(*   value     its evaluation always completes;                            *)
(*   noreturn  a call of a noreturn function, sub its arguments, or throw, *)
(*             sub what is thrown;                                         *)
(*   seq       operands evaluated from left to right: a call, an           *)
(*             operator, an array access, a declaration's initializers;    *)
(*   list      a braced initializer;                                       *)
(*   cond      c ? t : f, sub = <<c, t, f>>, or <<c, f>> for c ?: f;       *)
(*   stmt      a GNU statement expression ({ ... }), body its compound.    *)
(***************************************************************************)
EXTENDS Integers, Sequences

Null == 0

StatementKinds ==
  { "simple", "decl", "compound", "return", "if", "switch", "expr",
    "continue", "break", "goto", "computed", "label", "case",
    "while", "do", "for", "try", "leave" }

ExpressionKinds == { "value", "noreturn", "seq", "list", "cond", "stmt" }

Loops == { "while", "do", "for" }

\* Statements with a controlling expression (or initializers) that is
\* evaluated as soon as control arrives at the statement.
Evaluating == { "decl", "return", "if", "switch", "expr", "computed", "while" }

\* Statements whose completion completes the statement around them.
Transparent == { "compound", "if", "switch", "label", "case" }

Stmts(b) == DOMAIN b.stmt
Exprs(b) == DOMAIN b.expr

StmtExprs(b) == { e \in Exprs(b) : b.expr[e].kind = "stmt" }

\* c is the compound statement of a statement expression.
IsStmtExpr(b, c) == \E e \in StmtExprs(b) : b.expr[e].body = c

\* determine_truth(): 1 and -1 for a constant condition, 0 otherwise. A for
\* statement without a condition loops for ever.
Truth(b, s) == IF b.stmt[s].expr = Null THEN 1 ELSE b.stmt[s].truth

\* The selector of a switch statement: <<>>, or <<v>> for a constant v.
Dynamic == <<>>

IsDefault(b, c) == b.stmt[c].range = <<>>

Matches(b, s, c) ==
  /\ ~IsDefault(b, c)
  /\ b.stmt[c].range[1] <= b.stmt[s].sel[1]
  /\ b.stmt[s].sel[1] <= b.stmt[c].range[2]

CaseLabels(b, s) == { b.stmt[s].cases[i] : i \in 1 .. Len(b.stmt[s].cases) }

-----------------------------------------------------------------------------
(***************************************************************************)
(* The control points, and which one may follow which (C99 6.8; GNU        *)
(* statement expressions and computed gotos; MS structured exception       *)
(* handling). Branches on constant conditions are pruned, as the           *)
(* documentation of -Wunreachable-code suggests; nothing here follows the  *)
(* code of the analysis.                                                   *)
(***************************************************************************)
In(s)     == <<"in", s>>        \* control arrives at statement s
Test(s)   == <<"test", s>>      \* the expression of s is to be evaluated
Took(s)   == <<"took", s>>      \* the expression of s has been evaluated
StepOf(s) == <<"step", s>>      \* the third clause of the for statement s
End(s)    == <<"end", s>>       \* statement s has completed
Begin(e)  == <<"begin", e>>     \* expression e is to be evaluated
Done(e)   == <<"done", e>>      \* expression e has been evaluated
Up(s, k)  == <<k, s>>           \* k \in {"break", "continue", "leave"} in s
Exit      == <<"exit", 0>>      \* a return statement is executed
FallOff   == <<"falloff", 0>>   \* control reaches the end of the function

Selected(b, s) ==
  LET labels   == CaseLabels(b, s)
      matching == { c \in labels : Matches(b, s, c) }
      defaults == { c \in labels : IsDefault(b, c) }
      orEnd(C) == IF C = {} THEN { End(s) } ELSE { In(c) : c \in C }
  IN IF b.stmt[s].sel = Dynamic
     THEN { In(c) : c \in labels } \cup orEnd(defaults)
     ELSE IF matching # {} THEN orEnd(matching) ELSE orEnd(defaults)

Branch(b, s) ==
  LET otherwise == IF b.stmt[s].kind = "if" /\ b.stmt[s].other # Null
                   THEN In(b.stmt[s].other) ELSE End(s)
  IN    { n \in { In(b.stmt[s].body) } : Truth(b, s) >= 0 }
   \cup { n \in { otherwise } : Truth(b, s) <= 0 }

AfterTook(b, s) ==
  LET kind == b.stmt[s].kind IN
  CASE kind \in {"expr", "decl"}     -> { End(s) }
    [] kind = "return"               -> { Exit }
    [] kind = "switch"               -> Selected(b, s)
    [] kind = "computed"             -> { In(l) : l \in b.addressed }
    [] kind \in Loops \cup {"if"}    -> Branch(b, s)

\* A compound that has run to its end completes, or completes its
\* statement expression.
Completed(b, s) ==
  IF IsStmtExpr(b, s)
  THEN { Done(e) : e \in { x \in StmtExprs(b) : b.expr[x].body = s } }
  ELSE { End(s) }

\* The first and third clauses of a for statement are taken to complete.
Begins(E) == { Begin(e) : e \in E \ {Null} }

AfterIn(b, s) ==
  LET st == b.stmt[s] IN
  CASE st.kind = "simple"                        -> { End(s) }
    [] st.kind \in Evaluating                    -> { Test(s) }
    [] st.kind = "for"                           -> { Test(s) } \cup Begins({st.init})
    [] st.kind \in {"label", "case", "do"}       -> { In(st.body) }
    [] st.kind = "compound"                      ->
         IF st.body = Null THEN Completed(b, s) ELSE { In(st.body) }
    [] st.kind = "goto"                          ->
         { In(t) : t \in {st.target} \ {Null} }
    [] st.kind = "try"                           -> { In(st.body), In(st.other) }
    [] st.kind \in {"break", "continue", "leave"} -> { Up(s, st.kind) }

\* The try statement whose handler (the block of __except or __finally) is s.
TriesOf(b, s) == { t \in Stmts(b) : b.stmt[t].kind = "try" /\ b.stmt[t].other = s }

AfterEnd(b, s) ==
  LET st == b.stmt[s]
      up == st.parent
  IN IF TriesOf(b, s) # {} THEN { End(t) : t \in TriesOf(b, s) }
     ELSE IF st.next # Null THEN { In(st.next) }
     ELSE IF up = Null THEN { FallOff }
     ELSE LET kind == b.stmt[up].kind IN
       CASE kind = "compound"                -> Completed(b, up)
         [] kind = "for"                     -> { StepOf(up) }
         [] kind \in {"while", "do"}         -> { Test(up) }
         [] kind = "try"                     -> { In(b.stmt[up].other) }
         [] kind \in Transparent \ {"compound"} -> { End(up) }

\* break, continue and __leave act on the smallest enclosing statement
\* they fit.
AfterUp(b, s, k) ==
  LET up   == b.stmt[s].parent
      kind == IF up = Null THEN "none" ELSE b.stmt[up].kind
  IN IF up = Null THEN {}
     ELSE IF k = "break" /\ kind \in Loops \cup {"switch"} THEN { End(up) }
     ELSE IF k = "continue" /\ kind = "for" THEN { StepOf(up) }
     ELSE IF k = "continue" /\ kind \in {"while", "do"} THEN { Test(up) }
     ELSE IF k = "leave" /\ kind = "try" THEN { In(b.stmt[up].other) }
     ELSE { Up(up, k) }

\* What may follow operand i of e: the next operand, the end of e, or, for
\* the condition of ?:, either arm; nothing after the last argument of a call
\* that does not return.
AfterOperand(b, e, i) ==
  LET sub == b.expr[e].sub IN
  CASE b.expr[e].kind = "cond" ->
         IF i > 1 THEN { Done(e) }
         ELSE { Begin(sub[j]) : j \in 2 .. Len(sub) }
              \cup (IF Len(sub) = 2 THEN { Done(e) } ELSE {})
    [] b.expr[e].kind = "seq"  ->
         { IF i = Len(sub) THEN Done(e) ELSE Begin(sub[i + 1]) }
    [] b.expr[e].kind = "noreturn" ->
         IF i = Len(sub) THEN {} ELSE { Begin(sub[i + 1]) }
    [] b.expr[e].kind = "list" -> {}

AfterBegin(b, e) ==
  LET ex == b.expr[e] IN
  CASE ex.kind = "value"    -> { Done(e) }
    [] ex.kind = "noreturn" -> IF ex.sub = <<>> THEN {} ELSE { Begin(ex.sub[1]) }
    [] ex.kind = "stmt"     -> { In(ex.body) }
    [] ex.kind = "list"     -> { Begin(ex.sub[i]) : i \in DOMAIN ex.sub }
    [] ex.kind \in {"seq", "cond"} ->
         { IF ex.sub = <<>> THEN Done(e) ELSE Begin(ex.sub[1]) }

AfterDone(b, e) ==
       { Took(s) : s \in { x \in Stmts(b) : b.stmt[x].expr = e } }
  \cup UNION { UNION { AfterOperand(b, f, i) :
                         i \in { j \in 1 .. Len(b.expr[f].sub) : b.expr[f].sub[j] = e } } :
               f \in Exprs(b) }

AfterTest(b, s) ==
  { IF b.stmt[s].expr = Null THEN Took(s) ELSE Begin(b.stmt[s].expr) }

Succ(b, n) ==
  LET tag == n[1]
      x   == n[2]
  IN CASE tag = "in"     -> AfterIn(b, x)
       [] tag = "test"   -> AfterTest(b, x)
       [] tag = "took"   -> AfterTook(b, x)
       [] tag = "step"   -> { Test(x) } \cup Begins({b.stmt[x].step})
       [] tag = "end"    -> AfterEnd(b, x)
       [] tag = "begin"  -> AfterBegin(b, x)
       [] tag = "done"   -> AfterDone(b, x)
       [] tag \in {"break", "continue", "leave"} -> AfterUp(b, x, tag)
       [] OTHER          -> {}

\* The elements of a braced initializer are evaluated in any order, and it
\* is done when all of them are.
ListsDone(b, R) ==
  { Done(e) : e \in { x \in Exprs(b) :
      /\ b.expr[x].kind = "list" /\ Begin(x) \in R
      /\ \A i \in DOMAIN b.expr[x].sub : Done(b.expr[x].sub[i]) \in R } }

\* R holds the entry of b and every control point that can follow those of
\* R. The least such set is the executable part of b.
Closed(b, R) ==
  /\ In(1) \in R
  /\ \A n \in R : Succ(b, n) \subseteq R
  /\ ListsDone(b, R) \subseteq R

-----------------------------------------------------------------------------
(***************************************************************************)
(* The bodies on which the marking is exact as far as it goes.             *)
(***************************************************************************)
OwnersOK(b) ==
  /\ b.owner.stmt \in [Stmts(b) -> StmtExprs(b) \cup {Null}]
  /\ b.owner.expr \in [Exprs(b) -> StmtExprs(b) \cup {Null}]
  /\ b.owner.stmt[1] = Null

\* No goto leads into or out of a statement expression, and what belongs
\* together has one owner.
Confined(b) ==
  /\ \A s \in Stmts(b) :
       /\ \A t \in ({b.stmt[s].next, b.stmt[s].body, b.stmt[s].other, b.stmt[s].target}
                    \cup CaseLabels(b, s)) \ {Null} :
            b.owner.stmt[t] = b.owner.stmt[s]
       /\ ~IsStmtExpr(b, s) /\ b.stmt[s].parent # Null =>
            b.owner.stmt[b.stmt[s].parent] = b.owner.stmt[s]
       /\ b.stmt[s].expr # Null => b.owner.expr[b.stmt[s].expr] = b.owner.stmt[s]
  /\ \A e \in Exprs(b) : \A i \in 1 .. Len(b.expr[e].sub) :
       b.owner.expr[b.expr[e].sub[i]] = b.owner.expr[e]

\* A statement expression is not empty and is not left by break, continue
\* or __leave.
StmtExprsOK(b) ==
  \A e \in StmtExprs(b) :
    /\ b.owner.stmt[b.expr[e].body] = e
    /\ b.stmt[b.expr[e].body].body # Null
    /\ \A k \in {"break", "continue", "leave"} : Up(b.expr[e].body, k) \notin b.live

\* A __try statement is the last of its list; the statement around a
\* computed goto has been entered from its top.
OthersOK(b) ==
  \A s \in Stmts(b) :
    /\ b.stmt[s].kind = "try" => b.stmt[s].next = Null
    /\ b.stmt[s].kind = "computed" /\ b.stmt[s].parent # Null =>
         In(b.stmt[s].parent) \in b.live

Regular(b) == OwnersOK(b) /\ Confined(b) /\ StmtExprsOK(b) /\ OthersOK(b)

-----------------------------------------------------------------------------
(***************************************************************************)
(* The bodies on which it misses nothing either.                           *)
(***************************************************************************)
\* No part of the tree belongs to two others.
Tree(b) ==
  /\ \A s, t \in Stmts(b) :
       b.stmt[s].expr # Null /\ b.stmt[s].expr = b.stmt[t].expr => s = t
  /\ \A s \in Stmts(b), e \in Exprs(b) : \A i \in 1 .. Len(b.expr[e].sub) :
       b.expr[e].sub[i] # b.stmt[s].expr
  /\ \A e, f \in Exprs(b) :
       \A i \in 1 .. Len(b.expr[e].sub), j \in 1 .. Len(b.expr[f].sub) :
         b.expr[e].sub[i] = b.expr[f].sub[j] => e = f /\ i = j
  /\ \A s, t \in Stmts(b) :
       b.stmt[s].kind = "try" /\ b.stmt[t].kind = "try"
         /\ b.stmt[s].other = b.stmt[t].other => s = t

\* What the analysis does not look into, the first and third clauses of for
\* and the last operand of ?:, has no statement expression in it; the
\* second of c ?: f is taken to return.
Plain == { "value", "noreturn" }

Clauses(b) == (UNION { {b.stmt[s].init, b.stmt[s].step} : s \in Stmts(b) }) \ {Null}

ClausesOK(b) ==
  \A q \in Clauses(b) :
    /\ b.expr[q].kind \in Plain
    /\ \A s \in Stmts(b) : b.stmt[s].expr # q
    /\ \A e \in Exprs(b) : \A i \in 1 .. Len(b.expr[e].sub) : b.expr[e].sub[i] # q

ArmsOK(b) ==
  \A e \in Exprs(b) :
    LET sub == b.expr[e].sub
    IN b.expr[e].kind = "cond" =>
         /\ Len(sub) = 2 => b.expr[sub[2]].kind = "value"
         /\ Len(sub) = 3 => b.expr[sub[3]].kind \in Plain

\* Nor does it look into the arguments of a call of a noreturn function, so
\* these are taken to do no more than return; they are left out here.
ArgumentsOK(b) ==
  \A e \in Exprs(b) : b.expr[e].kind = "noreturn" => b.expr[e].sub = <<>>

\* A switch on a constant has no label twice.
LabelsOK(b) ==
  \A s \in Stmts(b) :
    b.stmt[s].kind = "switch" /\ b.stmt[s].sel # Dynamic =>
      \A c, d \in CaseLabels(b, s) :
        /\ Matches(b, s, c) /\ Matches(b, s, d) => c = d
        /\ IsDefault(b, c) /\ IsDefault(b, d) => c = d

\* The statements at which a computed goto may lead, and what the analysis
\* takes it to lead to instead.
Computed(b, s) == (b.addressed \cup {b.stmt[s].parent}) \ {Null}

Tops(b) ==
  { s \in Stmts(b) : b.stmt[s].kind = "do" }
  \cup UNION { Computed(b, s) : s \in { x \in Stmts(b) : b.stmt[x].kind = "computed" } }

\* Y holds every control point that can be executed before control has
\* arrived at t.
Until(b, t, Y) ==
  /\ In(1) \in Y
  /\ \A n \in Y \ {In(t)} : Succ(b, n) \subseteq Y
  /\ ListsDone(b, Y) \subseteq Y

\* No jump leads into a do loop before it has been entered from its top, and
\* a computed goto only leads back. b.before[t] shows it.
TopFirst(b) ==
  /\ \A t \in Tops(b) : Until(b, t, b.before[t])
  /\ \A s \in Stmts(b) :
       /\ b.stmt[s].kind = "do" => Test(s) \notin b.before[s]
       /\ b.stmt[s].kind = "computed" =>
            \A t \in Computed(b, s) : Test(s) \notin b.before[t]

Exact(b) ==
  /\ Tree(b) /\ ClausesOK(b) /\ ArmsOK(b) /\ ArgumentsOK(b) /\ LabelsOK(b)
  /\ TopFirst(b)
=============================================================================
