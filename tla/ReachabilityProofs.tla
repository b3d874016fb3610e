------------------------- MODULE ReachabilityProofs -------------------------
(***************************************************************************)
(* For every function body in which no jump enters or leaves a statement   *)
(* expression (and the other conditions of Regular), whatever              *)
(* check_reachable() marks can be executed.                                *)
(*                                                                         *)
(* The inductive invariant says of each pending call why it was made: its  *)
(* control point is live. Two globals need more, since their meaning       *)
(* depends on the call that reads them. ret is read by the frame that      *)
(* waits for the value of an expression (RetOK); reaches_end belongs to    *)
(* the innermost statement expression being evaluated (EndOK), which is    *)
(* the owner of the frame on top; Link says that owners and expected       *)
(* values agree from each frame to the one below.                          *)
(***************************************************************************)
EXTENDS Reachability, TLAPS

Fr == [op : FrameOps, at : Nat, i : Nat, flag : BOOLEAN]

Produces(f) == f.op \in {"eval", "operand", "close"}
Waits(f)    == f.op = "operand" \/ (f.op = "decide" /\ ~f.flag)

WaitsFor(b, f) ==
  IF f.op = "operand" THEN b.expr[f.at].sub[f.i] ELSE b.stmt[f.at].expr

\* The statement expression in which f runs, and that of the frame below.
Own(b, f) ==
  IF f.op = "close" THEN f.at
  ELSE IF Produces(f) THEN b.owner.expr[f.at] ELSE b.owner.stmt[f.at]

Outer(b, f) == IF f.op = "close" THEN b.owner.expr[f.at] ELSE Own(b, f)

Link(b, f, g) ==
  /\ Outer(b, f) = Own(b, g)
  /\ Produces(f) <=> Waits(g)
  /\ Produces(f) => WaitsFor(b, g) = f.at

\* g may take the place of f.
SameExit(b, f, g) ==
  /\ Outer(b, f) = Outer(b, g)
  /\ Produces(f) <=> Produces(g)
  /\ Produces(f) => f.at = g.at

OperandOK(b, f) ==
  LET sub == b.expr[f.at].sub IN
  /\ b.expr[f.at].kind \in {"seq", "list", "cond"}
  /\ f.i \in 1 .. Len(sub)
  /\ b.expr[f.at].kind = "list" =>
       /\ Begin(f.at) \in b.live
       /\ f.flag => \A j \in 1 .. f.i - 1 : Done(sub[j]) \in b.live
  /\ b.expr[f.at].kind = "cond" /\ f.i > 1 =>
       \A j \in 2 .. Len(sub) : Begin(sub[j]) \in b.live

DecideOK(b, f) ==
  /\ b.stmt[f.at].kind \in Evaluating \cup Loops
  /\ Test(f.at) \in b.live
  /\ f.flag <=> b.stmt[f.at].expr = Null

\* Why f is pending.
Good(b, f) ==
  /\ f \in Fr
  /\ f.at \in IF Produces(f) THEN Exprs(b) ELSE Stmts(b)
  /\ f.op \notin {"walk", "walklist", "walkexpr"}
  /\ f.op = "visit"   => In(f.at) \in b.live
  /\ f.op = "after"   => End(f.at) \in b.live /\ ~IsStmtExpr(b, f.at)
  /\ f.op = "head"    => /\ b.stmt[f.at].kind \in Loops
                         /\ b.stmt[f.at].kind = "for" => StepOf(f.at) \in b.live
                         /\ b.stmt[f.at].kind # "for" => Test(f.at) \in b.live
  /\ f.op = "test"    => b.stmt[f.at].kind = "for" /\ Test(f.at) \in b.live
  /\ f.op = "decide"  => DecideOK(b, f)
  /\ f.op = "cases"   => /\ b.stmt[f.at].kind = "switch" /\ b.stmt[f.at].sel = Dynamic
                         /\ Took(f.at) \in b.live /\ f.i > 0
  /\ f.op \in {"break", "continue", "leave"} => Up(f.at, f.op) \in b.live
  /\ f.op = "eval"    => Begin(f.at) \in b.live
  /\ f.op = "operand" => OperandOK(b, f)
  /\ f.op = "close"   => /\ b.expr[f.at].kind = "stmt"
                         /\ f.flag => /\ b.owner.expr[f.at] # Null
                                      /\ Done(b.owner.expr[f.at]) \in b.live

\* The first call is that for the body of the function.
Outermost(b, f) == ~Produces(f) /\ Outer(b, f) = Null

StackOK(b, st) ==
  /\ st \in Seq(Fr)
  /\ \A k \in 1 .. Len(st) : Good(b, st[k])
  /\ \A k \in 1 .. Len(st) - 1 : Link(b, st[k], st[k + 1])
  /\ st # <<>> => Outermost(b, st[Len(st)])

\* A value returned to the frame on top is right, and so is reaches_end.
RetOK(b, st, r) ==
  st # <<>> /\ Waits(Head(st)) /\ r => Done(WaitsFor(b, Head(st))) \in b.live

EndOK(b, st, r) ==
  st # <<>> /\ r => Own(b, Head(st)) # Null /\ Done(Own(b, Head(st))) \in b.live

AllOK(b, st, q, r) == StackOK(b, st) /\ RetOK(b, st, q) /\ EndOK(b, st, r)

Marking ==
  ret \in BOOLEAN /\ reaches_end \in BOOLEAN /\ AllOK(body, stack, ret, reaches_end)

\* The frames of the walk over the marked body.
WalkFr(b) ==
       [op : {"walk", "walklist"}, at : Stmts(b), i : {0}, flag : {FALSE}]
  \cup [op : {"walkexpr"}, at : Exprs(b), i : {0}, flag : {FALSE}]

IInv ==
  /\ fn \in DOMAIN Bodies
  /\ MarkedIsExecutable
  /\ phase \in {"mark", "walk", "done"}
  /\ IF phase = "mark" THEN Marking ELSE stack \in Seq(WalkFr(body))

-----------------------------------------------------------------------------
(***************************************************************************)
(* The three ways in which a step changes the stack.                       *)
(***************************************************************************)
LEMMA PopOK ==
  ASSUME NEW b, NEW st, StackOK(b, st), st # <<>>
  PROVE  /\ StackOK(b, Tail(st))
         /\ Good(b, Head(st))
         /\ Tail(st) # <<>> => Link(b, Head(st), Head(Tail(st)))
<1>1. st \in Seq(Fr) /\ Len(st) > 0 /\ Head(st) = st[1]
  BY DEF StackOK
<1>2. /\ Tail(st) \in Seq(Fr) /\ Len(Tail(st)) = Len(st) - 1
      /\ \A k \in 1 .. Len(st) - 1 : Tail(st)[k] = st[k + 1]
  BY <1>1
<1>3. Good(b, Head(st))
  BY <1>1 DEF StackOK
<1>4. Tail(st) # <<>> => Head(Tail(st)) = st[2] /\ Len(st) >= 2
  BY <1>1, <1>2
<1>5. Tail(st) # <<>> => Link(b, Head(st), Head(Tail(st)))
  BY <1>1, <1>4 DEF StackOK
<1>6. Tail(st) # <<>> => Outermost(b, Tail(st)[Len(Tail(st))])
  BY <1>1, <1>2 DEF StackOK
<1>7. StackOK(b, Tail(st))
  BY <1>1, <1>2, <1>6 DEF StackOK
<1> QED
  BY <1>3, <1>5, <1>7

LEMMA SwapOK ==
  ASSUME NEW b, NEW st, StackOK(b, st), st # <<>>,
         NEW f, Good(b, f), SameExit(b, f, Head(st))
  PROVE  LET new == <<f>> \o Tail(st)
         IN StackOK(b, new) /\ new # <<>> /\ Head(new) = f
<1> DEFINE new == <<f>> \o Tail(st)
<1>1. st \in Seq(Fr) /\ Len(st) > 0 /\ Head(st) = st[1] /\ f \in Fr
  BY DEF StackOK, Good
<1>2. /\ Tail(st) \in Seq(Fr) /\ Len(Tail(st)) = Len(st) - 1
      /\ \A k \in 1 .. Len(st) - 1 : Tail(st)[k] = st[k + 1]
  BY <1>1
<1>3. /\ new \in Seq(Fr) /\ Len(new) = Len(st) /\ new[1] = f
      /\ \A k \in 2 .. Len(st) : new[k] = st[k]
  BY <1>1, <1>2
<1>4. \A k \in 1 .. Len(new) : Good(b, new[k])
  BY <1>1, <1>3 DEF StackOK
<1>5. \A k \in 1 .. Len(new) - 1 : Link(b, new[k], new[k + 1])
  <2> SUFFICES ASSUME NEW k \in 1 .. Len(new) - 1
               PROVE  Link(b, new[k], new[k + 1])
    OBVIOUS
  <2>1. Link(b, st[k], st[k + 1]) /\ new[k + 1] = st[k + 1]
    BY <1>1, <1>3 DEF StackOK
  <2>2. CASE k = 1
    BY <2>1, <2>2, <1>1, <1>3 DEF Link, SameExit
  <2>3. CASE k # 1
    BY <2>1, <2>3, <1>3
  <2> QED
    BY <2>2, <2>3
<1>6. Outermost(b, new[Len(new)])
  <2>1. Outermost(b, st[Len(st)])
    BY DEF StackOK
  <2>2. CASE Len(st) = 1
    BY <2>1, <2>2, <1>1, <1>3 DEF Outermost, SameExit
  <2>3. CASE Len(st) # 1
    BY <2>1, <2>3, <1>1, <1>3
  <2> QED
    BY <2>2, <2>3
<1>7. StackOK(b, new)
  BY <1>3, <1>4, <1>5, <1>6 DEF StackOK
<1> QED
  BY <1>1, <1>3, <1>7

LEMMA PushOK ==
  ASSUME NEW b, NEW st, StackOK(b, st), st # <<>>,
         NEW f, Good(b, f), NEW g, Good(b, g), Link(b, f, g),
         SameExit(b, g, Head(st))
  PROVE  LET new == <<f, g>> \o Tail(st)
         IN StackOK(b, new) /\ new # <<>> /\ Head(new) = f
<1> DEFINE new == <<f, g>> \o Tail(st)
           mid == <<g>> \o Tail(st)
<1>1. StackOK(b, mid) /\ mid # <<>> /\ Head(mid) = g
  BY SwapOK
<1>2. mid \in Seq(Fr) /\ Tail(st) \in Seq(Fr) /\ f \in Fr /\ g \in Fr
  BY <1>1 DEF StackOK, Good
<1>3. /\ new \in Seq(Fr) /\ Len(new) = Len(mid) + 1 /\ new[1] = f
      /\ \A k \in 1 .. Len(mid) : new[k + 1] = mid[k]
  BY <1>2
<1>4. \A k \in 1 .. Len(new) : Good(b, new[k])
  <2> SUFFICES ASSUME NEW k \in 1 .. Len(new), k # 1 PROVE Good(b, new[k])
    BY <1>3
  <2>1. k - 1 \in 1 .. Len(mid) /\ new[(k - 1) + 1] = mid[k - 1]
    BY <1>2, <1>3
  <2> QED
    BY <2>1, <1>1, <1>2 DEF StackOK
<1>5. \A k \in 1 .. Len(new) - 1 : Link(b, new[k], new[k + 1])
  <2> SUFFICES ASSUME NEW k \in 1 .. Len(new) - 1
               PROVE  Link(b, new[k], new[k + 1])
    OBVIOUS
  <2>1. k \in 1 .. Len(mid) /\ new[k + 1] = mid[k]
    BY <1>2, <1>3
  <2>2. CASE k = 1
    BY <2>1, <2>2, <1>1, <1>2, <1>3
  <2>3. CASE k # 1
    <3>1. k - 1 \in 1 .. Len(mid) - 1 /\ new[(k - 1) + 1] = mid[k - 1]
      BY <2>1, <2>3, <1>2, <1>3
    <3>2. Link(b, mid[k - 1], mid[(k - 1) + 1])
      BY <3>1, <1>1 DEF StackOK
    <3> QED
      BY <3>1, <3>2, <2>1, <1>2
  <2> QED
    BY <2>2, <2>3
<1>6. Outermost(b, new[Len(new)])
  <2>1. Outermost(b, mid[Len(mid)])
    BY <1>1 DEF StackOK
  <2>2. Len(mid) \in 1 .. Len(mid) /\ new[Len(mid) + 1] = mid[Len(mid)]
    BY <1>1, <1>2, <1>3
  <2> QED
    BY <2>1, <2>2, <1>3
<1>7. StackOK(b, new)
  BY <1>3, <1>4, <1>5, <1>6 DEF StackOK
<1> QED
  BY <1>3, <1>7

-----------------------------------------------------------------------------
(***************************************************************************)
(* What the closedness of b.live gives at each control point.              *)
(***************************************************************************)
FlowOK(b) ==
  /\ In(1) \in b.live
  /\ \A x : In(x) \in b.live => AfterIn(b, x) \subseteq b.live
  /\ \A x : Test(x) \in b.live => AfterTest(b, x) \subseteq b.live
  /\ \A x : Took(x) \in b.live => AfterTook(b, x) \subseteq b.live
  /\ \A x : StepOf(x) \in b.live => Test(x) \in b.live
  /\ \A x : End(x) \in b.live => AfterEnd(b, x) \subseteq b.live
  /\ \A x : Begin(x) \in b.live => AfterBegin(b, x) \subseteq b.live
  /\ \A x : Done(x) \in b.live => AfterDone(b, x) \subseteq b.live
  /\ \A x : \A k \in {"break", "continue", "leave"} :
       Up(x, k) \in b.live => AfterUp(b, x, k) \subseteq b.live
  /\ ListsDone(b, b.live) \subseteq b.live

LEMMA FlowLemma ==
  ASSUME NEW k \in DOMAIN Bodies
  PROVE  FlowOK(Bodies[k]) /\ BodyOK(Bodies[k])
<1> DEFINE b == Bodies[k]
<1>1. Closed(b, b.live) /\ BodyOK(b)
  BY LiveAssumption, BodiesAssumption
<1>2. \A n \in b.live : Succ(b, n) \subseteq b.live
  BY <1>1 DEF Closed
<1>3. In(1) \in b.live /\ ListsDone(b, b.live) \subseteq b.live
  BY <1>1 DEF Closed
<1>4. \A x : In(x) \in b.live => AfterIn(b, x) \subseteq b.live
  BY <1>2 DEF Succ, In
<1>5. \A x : Test(x) \in b.live => AfterTest(b, x) \subseteq b.live
  BY <1>2 DEF Succ, Test
<1>6. \A x : Took(x) \in b.live => AfterTook(b, x) \subseteq b.live
  BY <1>2 DEF Succ, Took
<1>7. \A x : StepOf(x) \in b.live => Test(x) \in b.live
  <2> SUFFICES ASSUME NEW x, StepOf(x) \in b.live PROVE Test(x) \in b.live
    OBVIOUS
  <2>1. Succ(b, StepOf(x)) \subseteq b.live
    BY <1>2
  <2>2. Test(x) \in Succ(b, StepOf(x))
    BY DEF Succ, StepOf
  <2> QED
    BY <2>1, <2>2
<1>8. \A x : End(x) \in b.live => AfterEnd(b, x) \subseteq b.live
  BY <1>2 DEF Succ, End
<1>9. \A x : Begin(x) \in b.live => AfterBegin(b, x) \subseteq b.live
  BY <1>2 DEF Succ, Begin
<1>10. \A x : Done(x) \in b.live => AfterDone(b, x) \subseteq b.live
  BY <1>2 DEF Succ, Done
<1>11. \A x : \A t \in {"break", "continue", "leave"} :
         Up(x, t) \in b.live => AfterUp(b, x, t) \subseteq b.live
  BY <1>2 DEF Succ, Up
<1> QED
  BY <1>1, <1>3, <1>4, <1>5, <1>6, <1>7, <1>8, <1>9, <1>10, <1>11 DEF FlowOK

\* The end of the last statement of a list.
LEMMA EndLemma ==
  ASSUME NEW b, FlowOK(b), BodyOK(b), Regular(b),
         NEW s \in Stmts(b), End(s) \in b.live, b.stmt[s].next = Null,
         NEW up, up = b.stmt[s].parent
  PROVE  /\ up = Null => FallOff \in b.live
         /\ up # Null =>
              /\ b.stmt[up].kind = "compound" => Completed(b, up) \subseteq b.live
              /\ b.stmt[up].kind = "for" => StepOf(up) \in b.live
              /\ b.stmt[up].kind \in {"while", "do"} => Test(up) \in b.live
              /\ b.stmt[up].kind = "try" => In(b.stmt[up].other) \in b.live
              /\ b.stmt[up].kind \in Transparent \ {"compound"} => End(up) \in b.live
<1>1. \E t \in Stmts(b) : /\ End(t) \in b.live /\ TriesOf(b, t) = {}
                          /\ b.stmt[t].next = Null /\ b.stmt[t].parent = up
  <2>1. CASE TriesOf(b, s) = {}
    BY <2>1
  <2>2. CASE TriesOf(b, s) # {}
    <3>1. PICK t \in Stmts(b) : b.stmt[t].kind = "try" /\ b.stmt[t].other = s
      BY <2>2 DEF TriesOf
    <3>2. End(t) \in AfterEnd(b, s)
      BY <2>2, <3>1 DEF AfterEnd, TriesOf
    <3>3. End(t) \in b.live
      BY <3>2 DEF FlowOK
    <3>4. b.stmt[t].next = Null
      BY <3>1 DEF Regular, OthersOK
    <3>5. \A x \in Stmts(b) : StatementOK(b, x)
      BY DEF BodyOK
    <3>6. b.stmt[t].parent = up
      BY <3>1, <3>5 DEF StatementOK
    <3>7. TriesOf(b, t) = {}
      BY <3>1, <3>5 DEF StatementOK, TriesOf
    <3> QED
      BY <3>3, <3>4, <3>6, <3>7
  <2> QED
    BY <2>1, <2>2
<1>2. PICK t \in Stmts(b) : /\ End(t) \in b.live /\ TriesOf(b, t) = {}
                           /\ b.stmt[t].next = Null /\ b.stmt[t].parent = up
  BY <1>1
<1>3. AfterEnd(b, t) \subseteq b.live
  BY <1>2 DEF FlowOK
<1>4. CASE up = Null
  BY <1>2, <1>3, <1>4 DEF AfterEnd
<1>5. CASE up # Null
  <2>1. AfterEnd(b, t) =
          LET kind == b.stmt[up].kind IN
          CASE kind = "compound"                -> Completed(b, up)
            [] kind = "for"                     -> { StepOf(up) }
            [] kind \in {"while", "do"}         -> { Test(up) }
            [] kind = "try"                     -> { In(b.stmt[up].other) }
            [] kind \in Transparent \ {"compound"} -> { End(up) }
    BY <1>2, <1>5 DEF AfterEnd
  <2>2. b.stmt[up].kind = "compound" => Completed(b, up) \subseteq b.live
    BY <1>3, <2>1 DEF Transparent
  <2>3. b.stmt[up].kind = "for" => StepOf(up) \in b.live
    BY <1>3, <2>1 DEF Transparent
  <2>4. b.stmt[up].kind \in {"while", "do"} => Test(up) \in b.live
    BY <1>3, <2>1 DEF Transparent
  <2>5. b.stmt[up].kind = "try" => In(b.stmt[up].other) \in b.live
    BY <1>3, <2>1 DEF Transparent
  <2>6. b.stmt[up].kind \in Transparent \ {"compound"} => End(up) \in b.live
    BY <1>3, <2>1 DEF Transparent
  <2> QED
    BY <1>5, <2>2, <2>3, <2>4, <2>5, <2>6
<1> QED
  BY <1>4, <1>5

-----------------------------------------------------------------------------
(***************************************************************************)
(* The same with the two globals: q is the new ret, r reaches_end.         *)
(***************************************************************************)
LEMMA ReturnPlain ==
  ASSUME NEW b, NEW st, NEW q0, NEW q, NEW r, AllOK(b, st, q0, r), st # <<>>,
         ~Produces(Head(st))
  PROVE  AllOK(b, Tail(st), q, r)
<1>1. /\ StackOK(b, Tail(st))
      /\ Tail(st) # <<>> => Link(b, Head(st), Head(Tail(st)))
  BY PopOK DEF AllOK
<1>2. RetOK(b, Tail(st), q)
  BY <1>1 DEF RetOK, Link
<1>3. Outer(b, Head(st)) = Own(b, Head(st))
  BY DEF Outer, Produces
<1>4. EndOK(b, Tail(st), r)
  BY <1>1, <1>3 DEF EndOK, Link, AllOK
<1> QED
  BY <1>1, <1>2, <1>4 DEF AllOK

LEMMA ReturnValue ==
  ASSUME NEW b, NEW st, NEW q0, NEW q, NEW r, AllOK(b, st, q0, r), st # <<>>,
         Head(st).op \in {"eval", "operand"},
         q => Done(Head(st).at) \in b.live
  PROVE  AllOK(b, Tail(st), q, r)
<1>1. /\ StackOK(b, Tail(st))
      /\ Tail(st) # <<>> => Link(b, Head(st), Head(Tail(st)))
  BY PopOK DEF AllOK
<1>2. RetOK(b, Tail(st), q)
  BY <1>1 DEF RetOK, Link, Produces
<1>3. Outer(b, Head(st)) = Own(b, Head(st))
  BY DEF Outer
<1>4. EndOK(b, Tail(st), r)
  BY <1>1, <1>3 DEF EndOK, Link, AllOK
<1> QED
  BY <1>1, <1>2, <1>4 DEF AllOK

LEMMA ContinuePlain ==
  ASSUME NEW b, NEW st, NEW q, NEW r, AllOK(b, st, q, r), st # <<>>,
         ~Produces(Head(st)),
         NEW f, Good(b, f), ~Produces(f), ~Waits(f), f.at \in Stmts(b),
         b.owner.stmt[f.at] = b.owner.stmt[Head(st).at]
  PROVE  AllOK(b, <<f>> \o Tail(st), q, r)
<1> DEFINE new == <<f>> \o Tail(st)
<1>1. Own(b, f) = Own(b, Head(st)) /\ SameExit(b, f, Head(st))
  BY DEF Own, Outer, SameExit, Produces
<1>2. StackOK(b, new) /\ new # <<>> /\ Head(new) = f
  BY <1>1, SwapOK DEF AllOK
<1> QED
  BY <1>1, <1>2 DEF AllOK, RetOK, EndOK

LEMMA CallPlain ==
  ASSUME NEW b, NEW st, NEW q, NEW r, AllOK(b, st, q, r), st # <<>>,
         ~Produces(Head(st)),
         NEW f, Good(b, f), ~Produces(f), ~Waits(f),
         b.owner.stmt[f.at] = b.owner.stmt[Head(st).at],
         NEW g, Good(b, g), ~Produces(g), ~Waits(g),
         b.owner.stmt[g.at] = b.owner.stmt[Head(st).at]
  PROVE  AllOK(b, <<f, g>> \o Tail(st), q, r)
<1> DEFINE new == <<f, g>> \o Tail(st)
<1>1. Own(b, f) = Own(b, Head(st)) /\ SameExit(b, g, Head(st)) /\ Link(b, f, g)
  BY DEF Own, Outer, SameExit, Produces, Link
<1>2. StackOK(b, new) /\ new # <<>> /\ Head(new) = f
  BY <1>1, PushOK DEF AllOK
<1> QED
  BY <1>1, <1>2 DEF AllOK, RetOK, EndOK

LEMMA CallEval ==
  ASSUME NEW b, NEW st, NEW q, NEW r, AllOK(b, st, q, r), st # <<>>,
         NEW f, Good(b, f), f.op = "eval",
         NEW g, Good(b, g), Link(b, f, g), SameExit(b, g, Head(st)),
         Own(b, f) = Own(b, Head(st))
  PROVE  AllOK(b, <<f, g>> \o Tail(st), q, r)
<1> DEFINE new == <<f, g>> \o Tail(st)
<1>1. StackOK(b, new) /\ new # <<>> /\ Head(new) = f
  BY PushOK DEF AllOK
<1>2. ~Waits(f)
  BY DEF Waits
<1> QED
  BY <1>1, <1>2 DEF AllOK, RetOK, EndOK

-----------------------------------------------------------------------------
(***************************************************************************)
(* What it takes to make a frame of each kind.                             *)
(***************************************************************************)
LEMMA FrameFields ==
  ASSUME NEW op, NEW x
  PROVE  /\ Frame(op, x) = [op |-> op, at |-> x, i |-> 0, flag |-> FALSE]
         /\ Frame(op, x).op = op /\ Frame(op, x).at = x
         /\ Frame(op, x).i = 0 /\ Frame(op, x).flag = FALSE
BY DEF Frame, Pending

Live(b, op, s) ==
  \/ op = "visit" /\ In(s) \in b.live
  \/ op = "after" /\ End(s) \in b.live /\ ~IsStmtExpr(b, s)
  \/ op = "head" /\ b.stmt[s].kind = "for" /\ StepOf(s) \in b.live
  \/ op = "head" /\ b.stmt[s].kind \in {"while", "do"} /\ Test(s) \in b.live
  \/ op = "test" /\ b.stmt[s].kind = "for" /\ Test(s) \in b.live
  \/ op \in {"break", "continue", "leave"} /\ Up(s, op) \in b.live

LEMMA GoodFrames ==
  ASSUME NEW b, BodyOK(b), NEW s \in Stmts(b), NEW op, Live(b, op, s)
  PROVE  /\ Good(b, Frame(op, s))
         /\ ~Produces(Frame(op, s)) /\ ~Waits(Frame(op, s))
         /\ Frame(op, s).at = s
<1> DEFINE f == [op |-> op, at |-> s, i |-> 0, flag |-> FALSE]
<1>1. Frame(op, s) = f /\ f.op = op /\ f.at = s /\ f.i = 0 /\ f.flag = FALSE
  BY DEF Frame, Pending
<1>2. s \in Nat
  BY DEF BodyOK
<1>3. op \in FrameOps /\ op \notin {"walk", "walklist", "walkexpr"}
  BY DEF FrameOps, Live
<1>4. f \in Fr
  BY <1>2, <1>3 DEF Fr
<1>5. ~Produces(f) /\ ~Waits(f)
  BY <1>1 DEF Produces, Waits, Live
<1> HIDE DEF f
<1>6. Good(b, f)
  BY <1>1, <1>3, <1>4, <1>5 DEF Good, Loops, Live
<1> QED
  BY <1>1, <1>5, <1>6

LEMMA GoodEval ==
  ASSUME NEW b, BodyOK(b), NEW e \in Exprs(b), Begin(e) \in b.live
  PROVE  Good(b, Frame("eval", e)) /\ Produces(Frame("eval", e))
<1> DEFINE f == [op |-> "eval", at |-> e, i |-> 0, flag |-> FALSE]
<1>1. Frame("eval", e) = f /\ f.op = "eval" /\ f.at = e
  BY DEF Frame, Pending
<1>2. e \in Nat
  BY DEF BodyOK
<1>3. f \in Fr
  BY <1>2 DEF Fr, FrameOps
<1>4. Produces(f)
  BY <1>1 DEF Produces
<1> HIDE DEF f
<1>5. Good(b, f)
  BY <1>1, <1>3, <1>4 DEF Good
<1> QED
  BY <1>1, <1>4, <1>5

LEMMA GoodDecide ==
  ASSUME NEW b, BodyOK(b), NEW s \in Stmts(b),
         NEW f, f \in Fr, f.op = "decide", f.at = s, DecideOK(b, f)
  PROVE  Good(b, f) /\ ~Produces(f) /\ (Waits(f) <=> b.stmt[s].expr # Null)
<1>1. ~Produces(f)
  BY DEF Produces
<1>2. Good(b, f)
  BY <1>1 DEF Good
<1>3. f.flag \in BOOLEAN
  BY DEF Fr
<1>4. Waits(f) <=> b.stmt[s].expr # Null
  BY <1>3 DEF Waits, DecideOK
<1> QED
  BY <1>1, <1>2, <1>4

\* Evaluate(s): the expression of s, if it has one, is evaluated.
LEMMA EvaluateOK ==
  ASSUME NEW b, FlowOK(b), BodyOK(b), Regular(b),
         NEW st, NEW q, NEW r, AllOK(b, st, q, r), st # <<>>,
         ~Produces(Head(st)), NEW s \in Stmts(b), s = Head(st).at, Test(s) \in b.live,
         b.stmt[s].kind \in Evaluating \cup Loops
  PROVE  /\ b.stmt[s].expr = Null =>
              AllOK(b, <<Pending("decide", s, 0, TRUE)>> \o Tail(st), q, r)
         /\ b.stmt[s].expr # Null =>
              AllOK(b, <<Frame("eval", b.stmt[s].expr), Frame("decide", s)>> \o Tail(st), q, r)
<1>1. s \in Nat
  BY DEF BodyOK
<1>4. ASSUME b.stmt[s].expr = Null
      PROVE  AllOK(b, <<Pending("decide", s, 0, TRUE)>> \o Tail(st), q, r)
  <2> DEFINE none == [op |-> "decide", at |-> s, i |-> 0, flag |-> TRUE]
  <2>1. none = Pending("decide", s, 0, TRUE)
    BY DEF Pending
  <2>2. none.op = "decide" /\ none.at = s /\ none.flag /\ none \in Fr
    BY <1>1 DEF Fr, FrameOps
  <2> HIDE DEF none
  <2>3. DecideOK(b, none)
    BY <2>2, <1>4 DEF DecideOK
  <2>4. Good(b, none) /\ ~Produces(none) /\ ~Waits(none)
    BY <2>2, <2>3, <1>4, GoodDecide
  <2>5. AllOK(b, <<none>> \o Tail(st), q, r)
    BY <2>2, <2>4, ContinuePlain
  <2> QED
    BY <2>1, <2>5
<1>5. ASSUME b.stmt[s].expr # Null
      PROVE  AllOK(b, <<Frame("eval", b.stmt[s].expr), Frame("decide", s)>> \o Tail(st), q, r)
  <2> DEFINE decide == Frame("decide", s)
             e      == b.stmt[s].expr
             eval   == Frame("eval", e)
  <2>1. /\ eval.op = "eval" /\ eval.at = e
        /\ decide.op = "decide" /\ decide.at = s /\ decide.flag = FALSE
    BY DEF Frame, Pending
  <2>2. decide \in Fr
    BY <1>1 DEF Frame, Pending, Fr, FrameOps
  <2>3. e \in Exprs(b)
    BY <1>5 DEF BodyOK, StatementOK
  <2>4. Begin(e) \in b.live
    <3>1. AfterTest(b, s) \subseteq b.live
      BY DEF FlowOK
    <3> QED
      BY <1>5, <3>1 DEF AfterTest
  <2>5. b.owner.expr[e] = b.owner.stmt[s]
    BY <1>5 DEF Regular, Confined
  <2> HIDE DEF decide, eval
  <2>6. Good(b, eval) /\ Produces(eval)
    BY <2>3, <2>4, GoodEval DEF eval
  <2>7. DecideOK(b, decide)
    BY <2>1, <1>5 DEF DecideOK
  <2>8. Good(b, decide) /\ Waits(decide) /\ ~Produces(decide)
    BY <2>1, <2>2, <2>7, <1>5, GoodDecide
  <2>9. Link(b, eval, decide)
    BY <2>1, <2>5, <2>6, <2>8 DEF Link, Outer, Own, WaitsFor
  <2>10. SameExit(b, decide, Head(st)) /\ Own(b, eval) = Own(b, Head(st))
    BY <2>1, <2>5, <2>6, <2>8 DEF SameExit, Outer, Own, Produces
  <2>11. AllOK(b, <<eval, decide>> \o Tail(st), q, r)
    BY <2>1, <2>6, <2>8, <2>9, <2>10, CallEval
  <2> QED
    BY <2>11 DEF eval, decide
<1> QED
  BY <1>4, <1>5

-----------------------------------------------------------------------------
(***************************************************************************)
(* One step of the marking at s.                                           *)
(***************************************************************************)
RegularBodies == \A k \in DOMAIN Bodies : Regular(Bodies[k])

WalkOps == {"walk", "walklist", "walkexpr"}

Here(s) ==
  /\ stack # <<>> /\ s = Top.at /\ phase = "mark"
  /\ fn \in DOMAIN Bodies /\ MarkedIsExecutable
  /\ FlowOK(body) /\ BodyOK(body) /\ Regular(body)
  /\ ret \in BOOLEAN /\ reaches_end \in BOOLEAN
  /\ AllOK(body, stack, ret, reaches_end)
  /\ Good(body, Top)

LEMMA HereLemma ==
  ASSUME RegularBodies, IInv, NEW ops, At(ops), ops \cap WalkOps = {}
  PROVE  Here(Top.at)
<1>1. stack # <<>> /\ Top.op \in ops
  BY DEF At
<1>2. phase = "mark"
  <2> SUFFICES ASSUME stack \in Seq(WalkFr(body)) PROVE FALSE
    BY DEF IInv
  <2>1. Top \in WalkFr(body)
    BY <1>1 DEF Top
  <2> QED
    BY <1>1, <2>1 DEF WalkFr, WalkOps
<1>3. /\ fn \in DOMAIN Bodies /\ MarkedIsExecutable /\ ret \in BOOLEAN
      /\ reaches_end \in BOOLEAN /\ AllOK(body, stack, ret, reaches_end)
  BY <1>2 DEF IInv, Marking
<1>4. FlowOK(body) /\ BodyOK(body) /\ Regular(body)
  BY <1>3, FlowLemma DEF body, RegularBodies
<1>5. Good(body, Top)
  BY <1>1, <1>3, PopOK DEF AllOK, Top
<1> QED
  BY <1>1, <1>2, <1>3, <1>4, <1>5 DEF Here

LEMMA StepLemma ==
  ASSUME NEW s, Here(s), fn' = fn, phase' = phase,
         ret' \in BOOLEAN, reaches_end' \in BOOLEAN,
         AllOK(body, stack', ret', reaches_end'), MarkedIsExecutable'
  PROVE  IInv'
<1>1. body' = body
  BY DEF body
<1>2. Marking'
  BY <1>1 DEF Marking
<1> QED
  BY <1>2 DEF IInv, Here

LEMMA KeepMarks ==
  ASSUME MarkedIsExecutable, fn' = fn, UNCHANGED << marks, facts >>
  PROVE  MarkedIsExecutable'
<1>1. body' = body
  BY DEF body
<1> QED
  BY <1>1 DEF MarkedIsExecutable, marks, facts, X, PointOf, stmt

LEMMA QuietStep ==
  ASSUME NEW s, Here(s), OnlyStack, AllOK(body, stack', ret, reaches_end)
  PROVE  IInv'
<1>1. fn' = fn /\ phase' = phase /\ ret' = ret /\ reaches_end' = reaches_end
  BY DEF OnlyStack
<1>2. MarkedIsExecutable'
  BY <1>1, KeepMarks DEF OnlyStack, Here
<1> QED
  BY <1>1, <1>2, StepLemma DEF Here

LEMMA MarkStep ==
  ASSUME NEW s, Here(s), MarkTop, PointOf(s) \in X,
         AllOK(body, stack', ret, reaches_end)
  PROVE  IInv'
<1>1. /\ fn' = fn /\ phase' = phase /\ ret' = ret /\ reaches_end' = reaches_end
      /\ body' = body /\ reachable' = reachable \cup {s}
  BY DEF MarkTop, body, Here
<1>2. MarkedIsExecutable'
  BY <1>1 DEF MarkTop, Here, MarkedIsExecutable, facts, X, PointOf, stmt
<1> QED
  BY <1>1, <1>2, StepLemma DEF Here

LEMMA ReturnTo ==
  ASSUME NEW s, Here(s), ~Produces(Top), Return
  PROVE  AllOK(body, stack', ret, reaches_end)
BY ReturnPlain DEF Here, Return, Top

LEMMA ContinueTo ==
  ASSUME NEW s, Here(s), ~Produces(Top), NEW op, NEW t \in Stmts(body),
         Live(body, op, t), body.owner.stmt[t] = body.owner.stmt[s],
         Continue(Frame(op, t))
  PROVE  AllOK(body, stack', ret, reaches_end)
<1> DEFINE f == Frame(op, t)
<1>1. BodyOK(body)
  BY DEF Here
<1>2. Good(body, f) /\ ~Produces(f) /\ ~Waits(f) /\ f.at = t
  BY <1>1, GoodFrames
<1>3. stack' = <<f>> \o Tail(stack)
  BY DEF Continue
<1> HIDE DEF f
<1> QED
  BY <1>2, <1>3, ContinuePlain DEF Here, Top

LEMMA CallTo ==
  ASSUME NEW s, Here(s), ~Produces(Top),
         NEW op1, NEW t1 \in Stmts(body), Live(body, op1, t1),
         body.owner.stmt[t1] = body.owner.stmt[s],
         NEW op2, NEW t2 \in Stmts(body), Live(body, op2, t2),
         body.owner.stmt[t2] = body.owner.stmt[s],
         Call(Frame(op1, t1), Frame(op2, t2))
  PROVE  AllOK(body, stack', ret, reaches_end)
<1> DEFINE f == Frame(op1, t1)
           g == Frame(op2, t2)
<1>1. BodyOK(body)
  BY DEF Here
<1>2. Good(body, f) /\ ~Produces(f) /\ ~Waits(f) /\ f.at = t1
  BY <1>1, GoodFrames
<1>3. Good(body, g) /\ ~Produces(g) /\ ~Waits(g) /\ g.at = t2
  BY <1>1, GoodFrames
<1>4. stack' = <<f, g>> \o Tail(stack)
  BY DEF Call
<1> HIDE DEF f, g
<1> QED
  BY <1>2, <1>3, <1>4, CallPlain DEF Here, Top

LEMMA EvaluateTo ==
  ASSUME NEW s, Here(s), ~Produces(Top), s \in Stmts(body), Test(s) \in body.live,
         stmt[s].kind \in Evaluating \cup Loops, Evaluate(s)
  PROVE  AllOK(body, stack', ret, reaches_end)
<1>1. /\ body.stmt[s].expr = Null =>
           AllOK(body, <<Pending("decide", s, 0, TRUE)>> \o Tail(stack), ret, reaches_end)
      /\ body.stmt[s].expr # Null =>
           AllOK(body, <<Frame("eval", body.stmt[s].expr), Frame("decide", s)>> \o Tail(stack),
                 ret, reaches_end)
  BY EvaluateOK DEF Here, Top, stmt
<1> QED
  BY <1>1 DEF Evaluate, Continue, Call, stmt

-----------------------------------------------------------------------------
\* Facts about the statement on top that several actions need.
LEMMA AtStatement ==
  ASSUME NEW s, Here(s), ~Produces(Top)
  PROVE  /\ s \in Stmts(body) /\ StatementOK(body, s)
         /\ s \in Nat /\ s # Null
         /\ IsStmtExpr(body, s) => /\ stmt[s].kind = "compound"
                                   /\ stmt[s].body # Null
         /\ \A t \in {stmt[s].next, stmt[s].body, stmt[s].other, stmt[s].target} \ {Null} :
              t \in Stmts(body) /\ body.owner.stmt[t] = body.owner.stmt[s]
         /\ \A t \in CaseLabels(body, s) :
              t \in Stmts(body) /\ body.owner.stmt[t] = body.owner.stmt[s]
<1>1. s \in Stmts(body) /\ BodyOK(body) /\ Regular(body)
  BY DEF Here, Good
<1>2. StatementOK(body, s) /\ s \in Nat /\ s # Null
  BY <1>1 DEF BodyOK, Null
<1>3. IsStmtExpr(body, s) => stmt[s].kind = "compound" /\ stmt[s].body # Null
  BY <1>1 DEF BodyOK, ExpressionOK, IsStmtExpr, StmtExprs, Regular, StmtExprsOK, stmt
<1>4. \A t \in {stmt[s].next, stmt[s].body, stmt[s].other, stmt[s].target} \ {Null} :
        t \in Stmts(body) /\ body.owner.stmt[t] = body.owner.stmt[s]
  BY <1>1, <1>2 DEF StatementOK, Regular, Confined, stmt
<1>5. \A t \in CaseLabels(body, s) : t \in Stmts(body)
  <2>1. stmt[s].cases \in Seq({ c \in Stmts(body) : body.stmt[c].kind = "case" })
    BY <1>2 DEF StatementOK, stmt
  <2> QED
    BY <2>1 DEF CaseLabels, stmt
<1>6. \A t \in CaseLabels(body, s) : body.owner.stmt[t] = body.owner.stmt[s]
  <2>1. \A t \in CaseLabels(body, s) : t # Null
    BY <1>1, <1>5 DEF BodyOK, Null
  <2> QED
    BY <1>1, <2>1 DEF Regular, Confined
<1> QED
  BY <1>1, <1>2, <1>3, <1>4, <1>5, <1>6

LEMMA AtVisit ==
  ASSUME RegularBodies, IInv, At({"visit"}), NEW s, s = Top.at
  PROVE  /\ Here(s) /\ ~Produces(Top) /\ In(s) \in body.live
         /\ AfterIn(body, s) \subseteq body.live
<1>1. Here(s)
  BY HereLemma DEF WalkOps
<1>2. Top.op = "visit"
  BY DEF At
<1>3. ~Produces(Top) /\ In(s) \in body.live
  BY <1>1, <1>2 DEF Produces, Here, Good
<1> QED
  BY <1>1, <1>3 DEF Here, FlowOK

LEMMA StepVisitEvaluating ==
  ASSUME RegularBodies, IInv, VisitEvaluating
  PROVE  IInv'
<1> DEFINE s == Top.at
<1>1. /\ Here(s) /\ ~Produces(Top) /\ In(s) \in body.live
      /\ AfterIn(body, s) \subseteq body.live
  BY AtVisit DEF VisitEvaluating
<1>2. stmt[s].kind \in Evaluating /\ MarkTop /\ Evaluate(s)
  BY DEF VisitEvaluating
<1>3. Test(s) \in body.live
  BY <1>1, <1>2 DEF AfterIn, Evaluating, stmt
<1>4. s \in Stmts(body)
  BY <1>1, AtStatement
<1> HIDE DEF s
<1>5. AllOK(body, stack', ret, reaches_end)
  BY <1>1, <1>2, <1>3, <1>4, EvaluateTo
<1>6. PointOf(s) \in X
  BY <1>1, <1>3 DEF PointOf, X
<1> QED
  BY <1>1, <1>2, <1>5, <1>6, MarkStep

LEMMA StepVisitPlain ==
  ASSUME RegularBodies, IInv, VisitPlain
  PROVE  IInv'
<1> DEFINE s == Top.at
<1>1. /\ Here(s) /\ ~Produces(Top) /\ In(s) \in body.live
      /\ AfterIn(body, s) \subseteq body.live
  BY AtVisit DEF VisitPlain
<1>2. /\ stmt[s].kind \notin Evaluating \cup {"do", "goto", "try"}
      /\ MarkTop /\ Continue(Onward(s))
  BY DEF VisitPlain
<1>3. /\ s \in Stmts(body) /\ StatementOK(body, s)
      /\ IsStmtExpr(body, s) => stmt[s].kind = "compound" /\ stmt[s].body # Null
      /\ stmt[s].body # Null =>
           stmt[s].body \in Stmts(body) /\ body.owner.stmt[stmt[s].body] = body.owner.stmt[s]
  BY <1>1, AtStatement
<1> HIDE DEF s
<1>4. \E op : \E t \in Stmts(body) :
        /\ Onward(s) = Frame(op, t) /\ Live(body, op, t)
        /\ body.owner.stmt[t] = body.owner.stmt[s]
  <2>1. stmt[s].kind \in {"simple", "compound", "label", "case", "for",
                          "break", "continue", "leave"}
    BY <1>2, <1>3 DEF StatementOK, StatementKinds, Evaluating, stmt
  <2>2. CASE stmt[s].kind = "simple"
    <3>1. Onward(s) = Frame("after", s)
      BY <2>2 DEF Onward
    <3>2. Live(body, "after", s)
      BY <1>1, <1>3, <2>2 DEF AfterIn, Live, Evaluating, stmt
    <3> QED
      BY <3>1, <3>2, <1>3
  <2>3. CASE stmt[s].kind = "compound" /\ stmt[s].body = Null
    <3>1. Onward(s) = Frame("after", s)
      BY <2>3 DEF Onward
    <3>2. ~IsStmtExpr(body, s)
      BY <2>3, <1>3
    <3>3. Live(body, "after", s)
      BY <1>1, <3>2, <2>3 DEF AfterIn, Completed, Live, Evaluating, stmt
    <3> QED
      BY <3>1, <3>3, <1>3
  <2>4. CASE stmt[s].kind = "compound" /\ stmt[s].body # Null
    <3>1. Onward(s) = Frame("visit", stmt[s].body)
      BY <2>4 DEF Onward
    <3>2. Live(body, "visit", stmt[s].body)
      BY <1>1, <2>4 DEF AfterIn, Live, Evaluating, stmt
    <3> QED
      BY <3>1, <3>2, <2>4, <1>3
  <2>5. CASE stmt[s].kind \in {"label", "case"}
    <3>1. Onward(s) = Frame("visit", stmt[s].body)
      BY <2>5 DEF Onward
    <3>2. Live(body, "visit", stmt[s].body)
      BY <1>1, <2>5 DEF AfterIn, Live, Evaluating, stmt
    <3>3. stmt[s].body # Null
      BY <1>3, <2>5 DEF StatementOK, stmt
    <3> QED
      BY <3>1, <3>2, <3>3, <1>3
  <2>6. CASE stmt[s].kind = "for"
    <3>1. Onward(s) = Frame("test", s)
      BY <2>6 DEF Onward
    <3>2. Live(body, "test", s)
      BY <1>1, <2>6 DEF AfterIn, Live, Evaluating, stmt
    <3> QED
      BY <3>1, <3>2, <1>3
  <2>7. CASE stmt[s].kind \in {"break", "continue", "leave"}
    <3>1. Onward(s) = Frame(stmt[s].kind, s)
      BY <2>7 DEF Onward
    <3>2. Live(body, stmt[s].kind, s)
      BY <1>1, <2>7 DEF AfterIn, Live, Evaluating, stmt
    <3> QED
      BY <3>1, <3>2, <1>3
  <2> QED
    BY <2>1, <2>2, <2>3, <2>4, <2>5, <2>6, <2>7
<1>5. AllOK(body, stack', ret, reaches_end)
  BY <1>1, <1>2, <1>4, ContinueTo
<1>6. PointOf(s) \in X
  BY <1>1, <1>2 DEF PointOf, X, Evaluating
<1> QED
  BY <1>1, <1>2, <1>5, <1>6, MarkStep

LEMMA StepVisitOther ==
  ASSUME RegularBodies, IInv, VisitAgain \/ VisitDo \/ VisitGoto \/ VisitTry
  PROVE  IInv'
<1> DEFINE s == Top.at
<1>1. /\ Here(s) /\ ~Produces(Top) /\ In(s) \in body.live
      /\ AfterIn(body, s) \subseteq body.live
  BY AtVisit DEF VisitAgain, VisitDo, VisitGoto, VisitTry
<1>2. /\ s \in Stmts(body) /\ StatementOK(body, s)
      /\ \A t \in {stmt[s].next, stmt[s].body, stmt[s].other, stmt[s].target} \ {Null} :
              t \in Stmts(body) /\ body.owner.stmt[t] = body.owner.stmt[s]
  BY <1>1, AtStatement
<1>3. CASE VisitAgain
  <2>1. Return /\ OnlyStack
    BY <1>3 DEF VisitAgain
  <2> QED
    BY <1>1, <2>1, ReturnTo, QuietStep
<1>4. CASE VisitDo
  <2>1. stmt[s].kind = "do" /\ OnlyStack /\ Continue(Frame("visit", stmt[s].body))
    BY <1>4 DEF VisitDo
  <2>2. stmt[s].body # Null
    BY <1>2, <2>1 DEF StatementOK, Loops, stmt
  <2>3. Live(body, "visit", stmt[s].body)
    BY <1>1, <2>1 DEF AfterIn, Live, Evaluating, stmt
  <2> HIDE DEF s
  <2> QED
    BY <1>1, <1>2, <2>1, <2>2, <2>3, ContinueTo, QuietStep
<1>5. CASE VisitGoto
  <2>1. stmt[s].kind = "goto" /\ MarkTop
    BY <1>5 DEF VisitGoto
  <2>2. PointOf(s) \in X
    BY <1>1, <2>1 DEF PointOf, X
  <2>3. CASE stmt[s].target = Null
    <3>1. Return
      BY <1>5, <2>3 DEF VisitGoto
    <3> QED
      BY <1>1, <2>1, <2>2, <3>1, ReturnTo, MarkStep
  <2>4. CASE stmt[s].target # Null
    <3>1. Continue(Frame("visit", stmt[s].target))
      BY <1>5, <2>4 DEF VisitGoto
    <3>2. Live(body, "visit", stmt[s].target)
      BY <1>1, <2>1, <2>4 DEF AfterIn, Live, Evaluating, stmt
    <3> HIDE DEF s
    <3> QED
      BY <1>1, <1>2, <2>1, <2>2, <2>4, <3>1, <3>2, ContinueTo, MarkStep
  <2> QED
    BY <2>3, <2>4
<1>6. CASE VisitTry
  <2>1. /\ stmt[s].kind = "try" /\ MarkTop
        /\ Call(Frame("visit", stmt[s].body), Frame("visit", stmt[s].other))
    BY <1>6 DEF VisitTry
  <2>2. PointOf(s) \in X
    BY <1>1, <2>1 DEF PointOf, X
  <2>3. stmt[s].body # Null /\ stmt[s].other # Null
    BY <1>2, <2>1, <1>1 DEF StatementOK, stmt, Here, BodyOK, Null
  <2>4. Live(body, "visit", stmt[s].body) /\ Live(body, "visit", stmt[s].other)
    BY <1>1, <2>1 DEF AfterIn, Live, Evaluating, stmt
  <2> HIDE DEF s
  <2>5. AllOK(body, stack', ret, reaches_end)
    BY <1>1, <1>2, <2>1, <2>3, <2>4, CallTo
  <2> QED
    BY <1>1, <2>1, <2>2, <2>5, MarkStep
<1> QED
  BY <1>3, <1>4, <1>5, <1>6

-----------------------------------------------------------------------------
LEMMA AtDecide ==
  ASSUME RegularBodies, IInv, At({"decide"}), NEW s, s = Top.at
  PROVE  /\ Here(s) /\ ~Produces(Top)
         /\ stmt[s].kind \in Evaluating \cup Loops
         /\ Returns => Took(s) \in body.live /\ AfterTook(body, s) \subseteq body.live
<1>1. Here(s)
  BY HereLemma DEF WalkOps
<1>2. Top.op = "decide"
  BY DEF At
<1>3. ~Produces(Top)
  BY <1>2 DEF Produces
<1>4. DecideOK(body, Top) /\ Top \in Fr /\ s \in Stmts(body)
  BY <1>1, <1>2, <1>3 DEF Here, Good
<1>5. stmt[s].kind \in Evaluating \cup Loops /\ Test(s) \in body.live
  BY <1>4 DEF DecideOK, stmt
<1>6. FlowOK(body)
  BY <1>1 DEF Here
<1>7. ASSUME Returns PROVE Took(s) \in body.live
  <2>1. CASE Top.flag
    <3>1. stmt[s].expr = Null
      BY <2>1, <1>4 DEF DecideOK, stmt
    <3>2. AfterTest(body, s) = {Took(s)}
      BY <3>1 DEF AfterTest, stmt
    <3> QED
      BY <3>2, <1>5, <1>6 DEF FlowOK
  <2>2. CASE ~Top.flag
    <3>1. Waits(Top) /\ WaitsFor(body, Top) = stmt[s].expr
      BY <2>2, <1>2 DEF Waits, WaitsFor, stmt
    <3>2. Done(stmt[s].expr) \in body.live
      BY <3>1, <2>2, <1>1, <1>7 DEF Here, AllOK, RetOK, Returns, Top
    <3>3. Took(s) \in AfterDone(body, stmt[s].expr)
      BY <1>4 DEF AfterDone, stmt
    <3> QED
      BY <3>2, <3>3, <1>6 DEF FlowOK
  <2> QED
    BY <2>1, <2>2
<1> QED
  BY <1>1, <1>3, <1>5, <1>6, <1>7 DEF FlowOK

LEMMA StepDecideSimple ==
  ASSUME RegularBodies, IInv,
         DecideNoReturn \/ DecideReturn \/ DecidePlain \/ DecideComputed
  PROVE  IInv'
<1> DEFINE s == Top.at
<1>1. /\ Here(s) /\ ~Produces(Top)
      /\ Returns => AfterTook(body, s) \subseteq body.live
  BY AtDecide DEF DecideNoReturn, DecideReturn, DecidePlain, DecideComputed
<1>2. /\ s \in Stmts(body) /\ StatementOK(body, s)
      /\ IsStmtExpr(body, s) => stmt[s].kind = "compound"
  BY <1>1, AtStatement
<1>3. CASE DecideNoReturn
  <2>1. Return /\ OnlyStack
    BY <1>3 DEF DecideNoReturn
  <2> QED
    BY <1>1, <2>1, ReturnTo, QuietStep
<1>4. CASE DecideReturn
  <2>1. /\ stmt[s].kind = "return" /\ Returns /\ Return /\ noreturn_candidate' = FALSE
        /\ UNCHANGED << fn, ret, reaches_end, marks, end_warned, warnings, phase >>
    BY <1>4 DEF DecideReturn
  <2>2. Exit \in X
    BY <1>1, <2>1 DEF AfterTook, X, stmt, Loops
  <2>3. body' = body
    BY <2>1 DEF body
  <2>4. MarkedIsExecutable'
    BY <1>1, <2>1, <2>2, <2>3 DEF Here, MarkedIsExecutable, marks, X, PointOf, stmt
  <2>5. AllOK(body, stack', ret, reaches_end)
    BY <1>1, <2>1, ReturnTo
  <2> QED
    BY <1>1, <2>1, <2>4, <2>5, StepLemma DEF Here
<1>5. CASE DecidePlain
  <2>1. /\ stmt[s].kind \in {"expr", "decl"} /\ Returns /\ OnlyStack
        /\ Continue(Frame("after", s))
    BY <1>5 DEF DecidePlain
  <2>2. Live(body, "after", s)
    BY <1>1, <1>2, <2>1 DEF AfterTook, Live, stmt, Loops
  <2> HIDE DEF s
  <2> QED
    BY <1>1, <1>2, <2>1, <2>2, ContinueTo, QuietStep
<1>6. CASE DecideComputed
  <2>1. stmt[s].kind = "computed" /\ OnlyStack
    BY <1>6 DEF DecideComputed
  <2>2. CASE stmt[s].parent = Null
    <3>1. Return
      BY <1>6, <2>2 DEF DecideComputed
    <3> QED
      BY <1>1, <2>1, <3>1, ReturnTo, QuietStep
  <2>3. CASE stmt[s].parent # Null
    <3> DEFINE up == stmt[s].parent
    <3>1. Continue(Frame("visit", up))
      BY <1>6, <2>3 DEF DecideComputed
    <3>2. Regular(body) /\ up \in Stmts(body)
      BY <1>1, <1>2, <2>3 DEF StatementOK, Here, stmt
    <3>3. Live(body, "visit", up)
      BY <1>2, <2>1, <2>3, <3>2 DEF Regular, OthersOK, Live, stmt
    <3>4. body.owner.stmt[up] = body.owner.stmt[s]
      BY <1>2, <2>1, <2>3, <3>2 DEF Regular, Confined, stmt
    <3> HIDE DEF s, up
    <3> QED
      BY <1>1, <2>1, <3>1, <3>2, <3>3, <3>4, ContinueTo, QuietStep
  <2> QED
    BY <2>2, <2>3
<1> QED
  BY <1>3, <1>4, <1>5, <1>6

LEMMA StepDecideBranch ==
  ASSUME RegularBodies, IInv, DecideBranch
  PROVE  IInv'
<1> DEFINE s  == Top.at
           st == stmt[s]
           op == IF st.kind = "if" /\ st.other # Null THEN "visit" ELSE "after"
           to == IF st.kind = "if" /\ st.other # Null THEN st.other ELSE s
<1>1. /\ Here(s) /\ ~Produces(Top) /\ AfterTook(body, s) \subseteq body.live
  BY AtDecide DEF DecideBranch
<1>2. /\ s \in Stmts(body) /\ StatementOK(body, s)
      /\ IsStmtExpr(body, s) => stmt[s].kind = "compound"
      /\ \A t \in {st.next, st.body, st.other, st.target} \ {Null} :
              t \in Stmts(body) /\ body.owner.stmt[t] = body.owner.stmt[s]
  BY <1>1, AtStatement
<1>3. /\ st.kind \in Loops \cup {"if"} /\ OnlyStack
      /\ \/ Truth(body, s) > 0 /\ Continue(Frame("visit", st.body))
         \/ Truth(body, s) = 0 /\ Call(Frame("visit", st.body), Frame(op, to))
         \/ Truth(body, s) < 0 /\ Continue(Frame(op, to))
  BY DEF DecideBranch
<1>4. st.body \in Stmts(body) /\ body.owner.stmt[st.body] = body.owner.stmt[s]
  BY <1>2, <1>3 DEF StatementOK, stmt
<1>5. to \in Stmts(body) /\ body.owner.stmt[to] = body.owner.stmt[s]
  BY <1>2
<1>6. Branch(body, s) \subseteq body.live
  BY <1>1, <1>3 DEF AfterTook, Loops, stmt
<1>7. Truth(body, s) \in {-1, 0, 1}
  BY <1>2 DEF Truth, StatementOK
<1>8. Truth(body, s) >= 0 => Live(body, "visit", st.body)
  BY <1>6 DEF Branch, Live, stmt
<1>9. Truth(body, s) <= 0 => Live(body, op, to)
  BY <1>2, <1>3, <1>6 DEF Branch, Live, Loops, stmt
<1> HIDE DEF s, st, op, to
<1>10. AllOK(body, stack', ret, reaches_end)
  <2>1. CASE Truth(body, s) > 0
    <3>1. Live(body, "visit", st.body) /\ Continue(Frame("visit", st.body))
      BY <2>1, <1>3, <1>7, <1>8
    <3> QED
      BY <3>1, <1>1, <1>4, ContinueTo
  <2>2. CASE Truth(body, s) = 0
    <3>1. Live(body, "visit", st.body) /\ Live(body, op, to)
      BY <2>2, <1>8, <1>9
    <3>2. Call(Frame("visit", st.body), Frame(op, to))
      BY <2>2, <1>3
    <3> QED
      BY <3>1, <3>2, <1>1, <1>4, <1>5, CallTo
  <2>3. CASE Truth(body, s) < 0
    <3>1. Live(body, op, to) /\ Continue(Frame(op, to))
      BY <2>3, <1>3, <1>7, <1>9
    <3> QED
      BY <3>1, <1>1, <1>5, ContinueTo
  <2> QED
    BY <1>3, <2>1, <2>2, <2>3
<1> QED
  BY <1>1, <1>3, <1>10, QuietStep

\* The frame of the loop over the case labels.
LEMMA GoodCases ==
  ASSUME NEW b, NEW s \in Stmts(b), b.stmt[s].kind = "switch",
         b.stmt[s].sel = Dynamic, Took(s) \in b.live,
         NEW f, f \in Fr, f.op = "cases", f.at = s, f.i > 0
  PROVE  Good(b, f) /\ ~Produces(f) /\ ~Waits(f)
<1>1. ~Produces(f) /\ ~Waits(f)
  BY DEF Produces, Waits
<1>2. Good(b, f)
  BY <1>1 DEF Good
<1> QED
  BY <1>1, <1>2

LEMMA StepDecideSwitch ==
  ASSUME RegularBodies, IInv, DecideSwitch
  PROVE  IInv'
<1> DEFINE s == Top.at
           f == Pending("cases", s, 1, FALSE)
<1>1. Here(s) /\ ~Produces(Top) /\ s \in Stmts(body) /\ BodyOK(body)
  BY AtDecide, AtStatement DEF DecideSwitch, Here
<1>2. /\ stmt[s].kind = "switch" /\ stmt[s].sel = Dynamic /\ OnlyStack
      /\ Returns /\ Continue(f)
  BY DEF DecideSwitch
<1>3. Took(s) \in body.live
  BY <1>2, AtDecide DEF DecideSwitch
<1> s \in Nat
  BY <1>1 DEF BodyOK
<1>6. f \in Fr /\ f.op = "cases" /\ f.at = s /\ f.i > 0
  BY DEF Pending, Fr, FrameOps
<1> HIDE DEF f
<1>4. Good(body, f) /\ ~Produces(f) /\ ~Waits(f)
  BY <1>1, <1>2, <1>3, <1>6, GoodCases DEF stmt
<1>5. AllOK(body, stack', ret, reaches_end)
  BY <1>1, <1>2, <1>4, <1>6, ContinuePlain DEF Here, Continue, Top
<1> QED
  BY <1>1, <1>2, <1>5, QuietStep

LEMMA StepDecideSwitchConstant ==
  ASSUME RegularBodies, IInv, DecideSwitchConstant
  PROVE  IInv'
<1> DEFINE s        == Top.at
           cases    == stmt[s].cases
           matching == { i \in DOMAIN cases : Matches(body, s, cases[i]) }
           defaults == { i \in DOMAIN cases : IsDefault(body, cases[i]) }
<1>1. /\ Here(s) /\ ~Produces(Top) /\ AfterTook(body, s) \subseteq body.live
  BY AtDecide DEF DecideSwitchConstant
<1>2. /\ s \in Stmts(body) /\ StatementOK(body, s)
      /\ IsStmtExpr(body, s) => stmt[s].kind = "compound"
      /\ \A t \in CaseLabels(body, s) :
              t \in Stmts(body) /\ body.owner.stmt[t] = body.owner.stmt[s]
  BY <1>1, AtStatement
<1>3. /\ stmt[s].kind = "switch" /\ stmt[s].sel # Dynamic /\ OnlyStack
      /\ \/ \E i \in matching : Continue(Frame("visit", cases[i]))
         \/ matching = {} /\ \E i \in defaults : Continue(Frame("visit", cases[i]))
         \/ matching = {} /\ defaults = {} /\ Continue(Frame("after", s))
  BY DEF DecideSwitchConstant
<1>4. Selected(body, s) \subseteq body.live
  BY <1>1, <1>3 DEF AfterTook, Loops, stmt
<1>5. /\ \A i \in DOMAIN cases : cases[i] \in CaseLabels(body, s)
      /\ \A c \in CaseLabels(body, s) : \E i \in DOMAIN cases : c = cases[i]
  <2>1. cases \in Seq({ c \in Stmts(body) : body.stmt[c].kind = "case" })
    BY <1>2 DEF StatementOK, stmt
  <2>2. DOMAIN cases = 1 .. Len(cases)
    BY <2>1
  <2> QED
    BY <2>2 DEF CaseLabels, stmt
<1>6. \E op : \E t \in Stmts(body) :
        /\ Continue(Frame(op, t)) /\ Live(body, op, t)
        /\ body.owner.stmt[t] = body.owner.stmt[s]
  <2> DEFINE labels == CaseLabels(body, s)
             M      == { c \in labels : Matches(body, s, c) }
             D      == { c \in labels : IsDefault(body, c) }
  <2>1. /\ M # {} => \A c \in M : In(c) \in body.live
        /\ M = {} /\ D # {} => \A c \in D : In(c) \in body.live
        /\ M = {} /\ D = {} => End(s) \in body.live
    BY <1>3, <1>4 DEF Selected, stmt
  <2>2. CASE \E i \in matching : Continue(Frame("visit", cases[i]))
    <3>1. PICK i \in matching : Continue(Frame("visit", cases[i]))
      BY <2>2
    <3>2. cases[i] \in M
      BY <1>5
    <3>3. Live(body, "visit", cases[i])
      BY <2>1, <3>2 DEF Live
    <3> QED
      BY <3>1, <3>2, <3>3, <1>2
  <2>3. CASE matching = {} /\ \E i \in defaults : Continue(Frame("visit", cases[i]))
    <3>1. PICK i \in defaults : Continue(Frame("visit", cases[i]))
      BY <2>3
    <3>2. M = {} /\ cases[i] \in D
      BY <1>5, <2>3
    <3>3. Live(body, "visit", cases[i])
      BY <2>1, <3>2 DEF Live
    <3> QED
      BY <3>1, <3>2, <3>3, <1>2
  <2>4. CASE matching = {} /\ defaults = {} /\ Continue(Frame("after", s))
    <3>1. M = {} /\ D = {}
      BY <1>5, <2>4
    <3>2. Live(body, "after", s)
      BY <1>2, <1>3, <2>1, <3>1 DEF Live
    <3> QED
      BY <3>2, <2>4, <1>2
  <2> QED
    BY <1>3, <2>2, <2>3, <2>4
<1> HIDE DEF s
<1> QED
  BY <1>1, <1>3, <1>6, ContinueTo, QuietStep

LEMMA StepCases ==
  ASSUME RegularBodies, IInv, NextCase \/ NoMoreCases
  PROVE  IInv'
<1> DEFINE s     == Top.at
           cases == stmt[s].cases
<1>1. Here(s) /\ Top.op = "cases" /\ OnlyStack
  BY HereLemma DEF NextCase, NoMoreCases, WalkOps, At
<1>2. ~Produces(Top)
  BY <1>1 DEF Produces
<1>3. /\ s \in Stmts(body) /\ StatementOK(body, s)
      /\ IsStmtExpr(body, s) => stmt[s].kind = "compound"
      /\ \A t \in CaseLabels(body, s) :
              t \in Stmts(body) /\ body.owner.stmt[t] = body.owner.stmt[s]
  BY <1>1, <1>2, AtStatement
<1>4. /\ stmt[s].kind = "switch" /\ stmt[s].sel = Dynamic
      /\ Took(s) \in body.live /\ Top.i \in Nat /\ Top.i > 0
      /\ FlowOK(body) /\ BodyOK(body)
  BY <1>1 DEF Here, Good, Fr, stmt
<1>5. /\ \A c \in CaseLabels(body, s) : In(c) \in body.live
      /\ { c \in CaseLabels(body, s) : IsDefault(body, c) } = {} => End(s) \in body.live
  <2>1. AfterTook(body, s) = Selected(body, s)
    BY <1>4 DEF AfterTook, Loops, stmt
  <2>2. Selected(body, s) \subseteq body.live
    BY <1>4, <2>1 DEF FlowOK
  <2> QED
    BY <1>4, <2>2 DEF Selected, stmt
<1>6. CASE NextCase
  <2> DEFINE c == cases[Top.i]
             f == Frame("visit", c)
             g == Pending("cases", s, Top.i + 1, FALSE)
  <2>1. Top.i <= Len(cases) /\ Call(f, g)
    BY <1>6 DEF NextCase
  <2>2. c \in CaseLabels(body, s)
    BY <2>1, <1>4 DEF CaseLabels, stmt
  <2>3. c \in Stmts(body) /\ Live(body, "visit", c) /\ body.owner.stmt[c] = body.owner.stmt[s]
    BY <2>2, <1>3, <1>5 DEF Live
  <2>4. Good(body, f) /\ ~Produces(f) /\ ~Waits(f) /\ f.at = c
    BY <2>3, <1>4, GoodFrames
  <2>5. g \in Fr /\ g.op = "cases" /\ g.at = s /\ g.i > 0
    <3>1. s \in Nat /\ Top.i + 1 \in Nat /\ Top.i + 1 > 0
      BY <1>3, <1>4 DEF BodyOK
    <3> QED
      BY <3>1 DEF Pending, Fr, FrameOps
  <2> HIDE DEF f, g
  <2>7. Good(body, g) /\ ~Produces(g) /\ ~Waits(g)
    BY <1>3, <1>4, <2>5, GoodCases DEF stmt
  <2>6. AllOK(body, stack', ret, reaches_end)
    BY <1>1, <1>2, <2>1, <2>3, <2>4, <2>5, <2>7, CallPlain DEF Here, Call, Top
  <2> QED
    BY <1>1, <2>6, QuietStep
<1>7. CASE NoMoreCases
  <2>1. CASE \E c \in CaseLabels(body, s) : IsDefault(body, c)
    <3>1. Return
      BY <1>7, <2>1 DEF NoMoreCases
    <3> QED
      BY <1>1, <1>2, <3>1, ReturnTo, QuietStep
  <2>2. CASE ~\E c \in CaseLabels(body, s) : IsDefault(body, c)
    <3>1. Continue(Frame("after", s))
      BY <1>7, <2>2 DEF NoMoreCases
    <3>2. Live(body, "after", s)
      BY <1>3, <1>4, <1>5, <2>2 DEF Live
    <3> HIDE DEF s
    <3> QED
      BY <1>1, <1>2, <1>3, <3>1, <3>2, ContinueTo, QuietStep
  <2> QED
    BY <2>1, <2>2
<1> QED
  BY <1>6, <1>7

-----------------------------------------------------------------------------
\* The statement around the one on top.
LEMMA AtParent ==
  ASSUME NEW s, Here(s), ~Produces(Top), ~IsStmtExpr(body, s),
         NEW up, up = stmt[s].parent, up # Null
  PROVE  /\ up \in Stmts(body) /\ StatementOK(body, up)
         /\ body.owner.stmt[up] = body.owner.stmt[s]
         /\ stmt[up].kind \in Transparent \cup Loops \cup {"try"}
         /\ IsStmtExpr(body, up) => stmt[up].kind = "compound"
         /\ stmt[up].other # Null =>
              /\ stmt[up].other \in Stmts(body)
              /\ body.owner.stmt[stmt[up].other] = body.owner.stmt[s]
<1>1. s \in Stmts(body) /\ StatementOK(body, s) /\ BodyOK(body) /\ Regular(body)
  BY AtStatement DEF Here
<1>2. up \in Stmts(body) /\ stmt[up].kind \in Transparent \cup Loops \cup {"try"}
  BY <1>1 DEF StatementOK, stmt
<1>3. StatementOK(body, up)
  BY <1>1, <1>2 DEF BodyOK
<1>4. IsStmtExpr(body, up) => stmt[up].kind = "compound"
  BY <1>1 DEF BodyOK, ExpressionOK, IsStmtExpr, StmtExprs, stmt
<1>5. body.owner.stmt[up] = body.owner.stmt[s]
  BY <1>1 DEF Regular, Confined, stmt
<1>6. stmt[up].other # Null =>
        /\ stmt[up].other \in Stmts(body)
        /\ body.owner.stmt[stmt[up].other] = body.owner.stmt[up]
  BY <1>1, <1>2, <1>3 DEF StatementOK, Regular, Confined, stmt
<1> QED
  BY <1>2, <1>3, <1>4, <1>5, <1>6

LEMMA AtAfter ==
  ASSUME RegularBodies, IInv, At({"after"}), NEW s, s = Top.at
  PROVE  /\ Here(s) /\ ~Produces(Top) /\ s \in Stmts(body)
         /\ End(s) \in body.live /\ ~IsStmtExpr(body, s)
<1>1. Here(s) /\ Top.op = "after"
  BY HereLemma DEF WalkOps, At
<1>2. ~Produces(Top)
  BY <1>1 DEF Produces
<1> QED
  BY <1>1, <1>2 DEF Here, Good

LEMMA StepAfterNext ==
  ASSUME RegularBodies, IInv, AfterNext
  PROVE  IInv'
<1> DEFINE s    == Top.at
           next == stmt[s].next
<1>1. /\ Here(s) /\ ~Produces(Top) /\ s \in Stmts(body)
      /\ End(s) \in body.live
  BY AtAfter DEF AfterNext
<1>2. next # Null /\ Continue(Frame("visit", next)) /\ OnlyStack
  BY DEF AfterNext
<1>3. next \in Stmts(body) /\ body.owner.stmt[next] = body.owner.stmt[s]
  BY <1>1, <1>2, AtStatement
<1>4. TriesOf(body, s) = {}
  <2> SUFFICES ASSUME NEW t \in Stmts(body), stmt[t].kind = "try", stmt[t].other = s
               PROVE  FALSE
    BY DEF TriesOf, stmt
  <2>1. StatementOK(body, t)
    BY <1>1 DEF Here, BodyOK
  <2>2. stmt[s].next = Null
    BY <2>1 DEF StatementOK, stmt
  <2> QED
    BY <2>2, <1>2
<1>5. AfterEnd(body, s) = {In(next)}
  BY <1>2, <1>4 DEF AfterEnd, stmt
<1>6. Live(body, "visit", next)
  BY <1>1, <1>5 DEF Live, Here, FlowOK
<1> HIDE DEF next
<1> QED
  BY <1>1, <1>2, <1>3, <1>6, ContinueTo, QuietStep

LEMMA StepAfterBody ==
  ASSUME RegularBodies, IInv, AfterBody
  PROVE  IInv'
<1> DEFINE s == Top.at
<1>1. /\ Here(s) /\ ~Produces(Top) /\ s \in Stmts(body)
      /\ End(s) \in body.live
  BY AtAfter DEF AfterBody
<1>2. /\ stmt[s].next = Null /\ stmt[s].parent = Null /\ Return
      /\ noreturn_candidate' = FALSE /\ end_warned' = TRUE
      /\ UNCHANGED << fn, ret, reaches_end, marks, warnings, phase >>
  BY DEF AfterBody
<1>3. FallOff \in X
  BY <1>1, <1>2, EndLemma DEF Here, stmt, X
<1>4. body' = body
  BY <1>2 DEF body
<1>5. MarkedIsExecutable'
  BY <1>1, <1>2, <1>3, <1>4 DEF Here, MarkedIsExecutable, marks, X, PointOf, stmt
<1>6. AllOK(body, stack', ret, reaches_end)
  BY <1>1, <1>2, ReturnTo
<1> QED
  BY <1>1, <1>2, <1>5, <1>6, StepLemma DEF Here

LEMMA StepAfterStmtExpr ==
  ASSUME RegularBodies, IInv, AfterStmtExpr
  PROVE  IInv'
<1> DEFINE s  == Top.at
           up == stmt[s].parent
<1>1. /\ Here(s) /\ ~Produces(Top) /\ s \in Stmts(body)
      /\ End(s) \in body.live /\ ~IsStmtExpr(body, s)
  BY AtAfter DEF AfterStmtExpr
<1>2. /\ stmt[s].next = Null /\ IsStmtExpr(body, up) /\ Return /\ reaches_end' = TRUE
      /\ UNCHANGED << fn, ret, marks, facts, warnings, phase >>
  BY DEF AfterStmtExpr
<1>3. PICK e \in StmtExprs(body) : body.expr[e].body = up
  BY <1>2 DEF IsStmtExpr
<1>4. /\ BodyOK(body) /\ Regular(body) /\ FlowOK(body)
      /\ e # Null /\ up # Null /\ stmt[up].kind = "compound"
  BY <1>1, <1>3 DEF Here, BodyOK, ExpressionOK, StmtExprs, Null, stmt
<1>5. body.owner.stmt[s] = e
  <2>1. body.owner.stmt[up] = body.owner.stmt[s]
    BY <1>1, <1>4, AtParent
  <2>2. body.owner.stmt[up] = e
    BY <1>3, <1>4 DEF Regular, StmtExprsOK
  <2> QED
    BY <2>1, <2>2
<1>6. Done(e) \in body.live
  <2>1. Completed(body, up) \subseteq body.live
    BY <1>1, <1>2, <1>4, EndLemma DEF stmt
  <2>2. Done(e) \in Completed(body, up)
    BY <1>2, <1>3 DEF Completed
  <2> QED
    BY <2>1, <2>2
<1>7. AllOK(body, stack, ret, TRUE)
  BY <1>1, <1>4, <1>5, <1>6 DEF Here, AllOK, EndOK, Own, Produces, Top
<1>8. AllOK(body, stack', ret, TRUE)
  BY <1>1, <1>2, <1>7, ReturnPlain DEF Here, Return, Top
<1>9. MarkedIsExecutable'
  BY <1>1, <1>2, KeepMarks DEF Here
<1> QED
  BY <1>1, <1>2, <1>8, <1>9, StepLemma DEF Here

LEMMA StepAfterLast ==
  ASSUME RegularBodies, IInv, AfterLast
  PROVE  IInv'
<1> DEFINE s  == Top.at
           up == stmt[s].parent
<1>1. /\ Here(s) /\ ~Produces(Top) /\ s \in Stmts(body)
      /\ End(s) \in body.live /\ ~IsStmtExpr(body, s)
  BY AtAfter DEF AfterLast
<1>2. /\ stmt[s].next = Null /\ up # Null /\ ~IsStmtExpr(body, up) /\ OnlyStack
      /\ \/ stmt[up].kind \in Transparent /\ Continue(Frame("after", up))
         \/ stmt[up].kind \in Loops /\ Continue(Frame("head", up))
         \/ stmt[up].kind = "try" /\ Continue(Frame("visit", stmt[up].other))
  BY DEF AfterLast
<1>3. /\ up \in Stmts(body) /\ StatementOK(body, up)
      /\ body.owner.stmt[up] = body.owner.stmt[s]
      /\ stmt[up].other # Null =>
              /\ stmt[up].other \in Stmts(body)
              /\ body.owner.stmt[stmt[up].other] = body.owner.stmt[s]
  BY <1>1, <1>2, AtParent
<1>4. /\ stmt[up].kind = "compound" => Completed(body, up) \subseteq body.live
      /\ stmt[up].kind = "for" => StepOf(up) \in body.live
      /\ stmt[up].kind \in {"while", "do"} => Test(up) \in body.live
      /\ stmt[up].kind = "try" => In(stmt[up].other) \in body.live
      /\ stmt[up].kind \in Transparent \ {"compound"} => End(up) \in body.live
  BY <1>1, <1>2, EndLemma DEF Here, stmt
<1>5. CASE stmt[up].kind \in Transparent /\ Continue(Frame("after", up))
  <2>1. End(up) \in body.live
    BY <1>2, <1>4, <1>5 DEF Completed
  <2>2. Live(body, "after", up)
    BY <1>2, <2>1 DEF Live
  <2> HIDE DEF up
  <2> QED
    BY <1>1, <1>2, <1>3, <1>5, <2>2, ContinueTo, QuietStep
<1>6. CASE stmt[up].kind \in Loops /\ Continue(Frame("head", up))
  <2>1. Live(body, "head", up)
    BY <1>4, <1>6 DEF Live, Loops, stmt
  <2> HIDE DEF up
  <2> QED
    BY <1>1, <1>2, <1>3, <1>6, <2>1, ContinueTo, QuietStep
<1>7. CASE stmt[up].kind = "try" /\ Continue(Frame("visit", stmt[up].other))
  <2>1. Live(body, "visit", stmt[up].other)
    BY <1>4, <1>7 DEF Live
  <2>2. stmt[up].other # Null
    BY <1>1, <1>3, <1>7 DEF StatementOK, Here, BodyOK, Null, stmt
  <2> DEFINE t == stmt[up].other
  <2>3. t \in Stmts(body) /\ body.owner.stmt[t] = body.owner.stmt[s]
    BY <1>3, <2>2
  <2> HIDE DEF t, up
  <2> QED
    BY <1>1, <1>2, <1>7, <2>1, <2>3, ContinueTo, QuietStep DEF t
<1> QED
  BY <1>2, <1>5, <1>6, <1>7

LEMMA StepSeek ==
  ASSUME RegularBodies, IInv, Seek
  PROVE  IInv'
<1> DEFINE s    == Top.at
           op   == Top.op
           up   == stmt[s].parent
           kind == IF up = Null THEN "none" ELSE stmt[up].kind
           fits == CASE op = "break"    -> kind \in Loops \cup {"switch"}
                     [] op = "continue" -> kind \in Loops
                     [] op = "leave"    -> kind = "try"
<1>1. Here(s) /\ op \in {"break", "continue", "leave"} /\ OnlyStack
  BY HereLemma DEF Seek, WalkOps, At
<1>2. ~Produces(Top)
  BY <1>1 DEF Produces
<1>3. /\ s \in Stmts(body) /\ Up(s, op) \in body.live /\ Regular(body) /\ FlowOK(body)
      /\ AfterUp(body, s, op) \subseteq body.live
  BY <1>1, <1>2 DEF Here, Good, FlowOK
<1>4. ~IsStmtExpr(body, s)
  BY <1>1, <1>3 DEF Regular, StmtExprsOK, IsStmtExpr
<1>5. \/ up = Null /\ Return
      \/ up # Null /\ ~fits /\ Continue(Frame(op, up))
      \/ fits /\ op = "break" /\ Continue(Frame("after", up))
      \/ fits /\ op = "continue" /\ Continue(Frame("head", up))
      \/ fits /\ op = "leave" /\ Continue(Frame("visit", stmt[up].other))
  BY DEF Seek
<1>6. CASE up = Null /\ Return
  BY <1>1, <1>2, <1>6, ReturnTo, QuietStep
<1>7. up # Null =>
        /\ up \in Stmts(body) /\ StatementOK(body, up)
        /\ body.owner.stmt[up] = body.owner.stmt[s]
        /\ IsStmtExpr(body, up) => stmt[up].kind = "compound"
        /\ stmt[up].other # Null =>
              /\ stmt[up].other \in Stmts(body)
              /\ body.owner.stmt[stmt[up].other] = body.owner.stmt[s]
  BY <1>1, <1>2, <1>4, AtParent
<1>8. CASE up # Null /\ ~fits /\ Continue(Frame(op, up))
  <2>1. AfterUp(body, s, op) = {Up(up, op)}
    BY <1>1, <1>8 DEF AfterUp, Loops, stmt
  <2>2. Live(body, op, up)
    BY <1>1, <1>3, <2>1 DEF Live
  <2> HIDE DEF up, op
  <2> QED
    BY <1>1, <1>2, <1>7, <1>8, <2>2, ContinueTo, QuietStep
<1>9. CASE fits /\ op = "break" /\ Continue(Frame("after", up))
  <2>1. up # Null /\ stmt[up].kind \in Loops \cup {"switch"}
    BY <1>9 DEF Loops
  <2>2. AfterUp(body, s, op) = {End(up)}
    BY <1>9, <2>1 DEF AfterUp, stmt
  <2>3. Live(body, "after", up)
    BY <1>3, <1>7, <2>1, <2>2 DEF Live, Loops
  <2> HIDE DEF up
  <2> QED
    BY <1>1, <1>2, <1>7, <1>9, <2>1, <2>3, ContinueTo, QuietStep
<1>10. CASE fits /\ op = "continue" /\ Continue(Frame("head", up))
  <2>1. up # Null /\ stmt[up].kind \in Loops
    BY <1>10 DEF Loops
  <2>2. AfterUp(body, s, op) = IF stmt[up].kind = "for" THEN {StepOf(up)} ELSE {Test(up)}
    BY <1>10, <2>1 DEF AfterUp, Loops, stmt
  <2>3. Live(body, "head", up)
    BY <1>3, <2>1, <2>2 DEF Live, Loops, stmt
  <2> HIDE DEF up
  <2> QED
    BY <1>1, <1>2, <1>7, <1>10, <2>1, <2>3, ContinueTo, QuietStep
<1>11. CASE fits /\ op = "leave" /\ Continue(Frame("visit", stmt[up].other))
  <2>1. up # Null /\ stmt[up].kind = "try"
    BY <1>11
  <2>2. AfterUp(body, s, op) = {In(stmt[up].other)}
    BY <1>11, <2>1 DEF AfterUp, stmt
  <2>3. Live(body, "visit", stmt[up].other)
    BY <1>3, <2>2 DEF Live
  <2>4. stmt[up].other # Null
    BY <1>1, <1>7, <2>1 DEF StatementOK, Here, BodyOK, Null, stmt
  <2> DEFINE t == stmt[up].other
  <2>5. t \in Stmts(body) /\ body.owner.stmt[t] = body.owner.stmt[s]
    BY <1>7, <2>1, <2>4
  <2> HIDE DEF t, up
  <2> QED
    BY <1>1, <1>2, <1>11, <2>3, <2>5, ContinueTo, QuietStep DEF t
<1> QED
  BY <1>5, <1>6, <1>8, <1>9, <1>10, <1>11

-----------------------------------------------------------------------------
LEMMA StepLoop ==
  ASSUME RegularBodies, IInv, LoopAgain \/ LoopCondition \/ LoopStep
  PROVE  IInv'
<1> DEFINE s == Top.at
<1>1. Here(s) /\ Top.op = "head"
  BY HereLemma DEF LoopAgain, LoopCondition, LoopStep, WalkOps, At
<1>2. ~Produces(Top)
  BY <1>1 DEF Produces
<1>3. /\ s \in Stmts(body) /\ FlowOK(body) /\ stmt[s].kind \in Loops
      /\ stmt[s].kind = "for" => StepOf(s) \in body.live
      /\ stmt[s].kind # "for" => Test(s) \in body.live
  BY <1>1, <1>2 DEF Here, Good, stmt
<1>4. CASE LoopAgain
  <2>1. Return /\ OnlyStack
    BY <1>4 DEF LoopAgain
  <2> QED
    BY <1>1, <1>2, <2>1, ReturnTo, QuietStep
<1>5. CASE LoopCondition
  <2>1. stmt[s].kind # "for" /\ MarkTop /\ Evaluate(s)
    BY <1>5 DEF LoopCondition
  <2>2. AllOK(body, stack', ret, reaches_end)
    BY <1>1, <1>2, <1>3, <2>1, EvaluateTo
  <2>3. PointOf(s) \in X
    BY <1>3, <2>1 DEF PointOf, Loops, X
  <2> QED
    BY <1>1, <2>1, <2>2, <2>3, MarkStep
<1>6. CASE LoopStep
  <2>1. /\ stmt[s].kind = "for" /\ step_reachable' = step_reachable \cup {s}
        /\ Continue(Frame("test", s))
        /\ UNCHANGED << fn, ret, reaches_end, reachable, condition_reachable,
                        facts, warnings, phase >>
    BY <1>6 DEF LoopStep
  <2>2. StepOf(s) \in body.live /\ Test(s) \in body.live
    BY <1>3, <2>1 DEF FlowOK
  <2>3. body' = body
    BY <2>1 DEF body
  <2>4. MarkedIsExecutable'
    BY <1>1, <2>1, <2>2, <2>3 DEF Here, MarkedIsExecutable, facts, X, PointOf, stmt
  <2>5. Live(body, "test", s)
    BY <2>1, <2>2 DEF Live, stmt
  <2> HIDE DEF s
  <2>6. AllOK(body, stack', ret, reaches_end)
    BY <1>1, <1>2, <1>3, <2>1, <2>5, ContinueTo
  <2> QED
    BY <1>1, <2>1, <2>4, <2>6, StepLemma DEF Here
<1> QED
  BY <1>4, <1>5, <1>6

LEMMA StepTest ==
  ASSUME RegularBodies, IInv, TestAgain \/ TestCondition
  PROVE  IInv'
<1> DEFINE s == Top.at
<1>1. Here(s) /\ Top.op = "test"
  BY HereLemma DEF TestAgain, TestCondition, WalkOps, At
<1>2. ~Produces(Top)
  BY <1>1 DEF Produces
<1>3. s \in Stmts(body) /\ stmt[s].kind = "for" /\ Test(s) \in body.live
  BY <1>1, <1>2 DEF Here, Good, stmt
<1>4. CASE TestAgain
  <2>1. Return /\ OnlyStack
    BY <1>4 DEF TestAgain
  <2> QED
    BY <1>1, <1>2, <2>1, ReturnTo, QuietStep
<1>5. CASE TestCondition
  <2>1. /\ condition_reachable' = condition_reachable \cup {s} /\ Evaluate(s)
        /\ UNCHANGED << fn, ret, reaches_end, reachable, step_reachable,
                        facts, warnings, phase >>
    BY <1>5 DEF TestCondition
  <2>2. body' = body
    BY <2>1 DEF body
  <2>3. MarkedIsExecutable'
    BY <1>1, <1>3, <2>1, <2>2 DEF Here, MarkedIsExecutable, facts, X, PointOf, stmt
  <2>4. AllOK(body, stack', ret, reaches_end)
    BY <1>1, <1>2, <1>3, <2>1, EvaluateTo DEF Loops
  <2> QED
    BY <1>1, <2>1, <2>3, <2>4, StepLemma DEF Here
<1> QED
  BY <1>4, <1>5

-----------------------------------------------------------------------------
LEMMA AtEval ==
  ASSUME RegularBodies, IInv, At({"eval"}), NEW e, e = Top.at
  PROVE  /\ Here(e) /\ Produces(Top) /\ Top.op = "eval"
         /\ e \in Exprs(body) /\ e \in Nat /\ ExpressionOK(body, e)
         /\ Begin(e) \in body.live /\ AfterBegin(body, e) \subseteq body.live
<1>1. Here(e) /\ Top.op = "eval"
  BY HereLemma DEF WalkOps, At
<1>2. Produces(Top)
  BY <1>1 DEF Produces
<1>3. e \in Exprs(body) /\ Begin(e) \in body.live
  BY <1>1, <1>2 DEF Here, Good
<1> QED
  BY <1>1, <1>2, <1>3 DEF Here, BodyOK, FlowOK

\* ret is the value of e.
LEMMA ValueTo ==
  ASSUME NEW e, Here(e), Top.op \in {"eval", "operand"}, Return,
         ret' \in BOOLEAN, ret' => Done(e) \in body.live,
         UNCHANGED << fn, reaches_end, marks, facts, warnings, phase >>
  PROVE  IInv'
<1>1. AllOK(body, stack', ret', reaches_end)
  BY ReturnValue DEF Here, Return, Top
<1>2. MarkedIsExecutable'
  BY KeepMarks DEF Here
<1> QED
  BY <1>1, <1>2, StepLemma DEF Here

LEMMA StepEvalLeaf ==
  ASSUME RegularBodies, IInv, EvalLeaf
  PROVE  IInv'
<1> DEFINE e == Top.at
<1>1. /\ Here(e) /\ Top.op = "eval" /\ e \in Exprs(body) /\ ExpressionOK(body, e)
      /\ Begin(e) \in body.live /\ AfterBegin(body, e) \subseteq body.live
  BY AtEval DEF EvalLeaf
<1>2. /\ \/ expr[e].kind = "value" /\ ret' = TRUE
         \/ expr[e].kind = "noreturn" /\ ret' = FALSE
         \/ expr[e].kind \in {"seq", "list"} /\ expr[e].sub = <<>> /\ ret' = TRUE
      /\ Return /\ UNCHANGED << fn, reaches_end, marks, facts, warnings, phase >>
  BY DEF EvalLeaf
<1>3. ret' => Done(e) \in body.live
  <2>1. CASE expr[e].kind = "value"
    BY <2>1, <1>1 DEF AfterBegin, expr
  <2>2. CASE expr[e].kind = "noreturn"
    BY <2>2, <1>2
  <2>3. CASE expr[e].kind = "seq" /\ expr[e].sub = <<>>
    BY <2>3, <1>1 DEF AfterBegin, expr
  <2>4. CASE expr[e].kind = "list" /\ expr[e].sub = <<>>
    <3>1. \A i \in DOMAIN body.expr[e].sub : FALSE
      BY <2>4 DEF expr
    <3>2. Done(e) \in ListsDone(body, body.live)
      BY <1>1, <2>4, <3>1 DEF ListsDone, expr
    <3> QED
      BY <3>2, <1>1 DEF Here, FlowOK
  <2> QED
    BY <1>2, <2>1, <2>2, <2>3, <2>4
<1>4. ret' \in BOOLEAN
  BY <1>2
<1> QED
  BY <1>1, <1>2, <1>3, <1>4, ValueTo

\* The operand i of e is about to be evaluated.
LEMMA OperandTo ==
  ASSUME NEW e, Here(e), Produces(Top), e \in Exprs(body),
         Top.op \in {"eval", "operand"},
         NEW f, f \in Fr, f.op = "operand", f.at = e, OperandOK(body, f),
         Begin(expr[e].sub[f.i]) \in body.live,
         Call(Frame("eval", expr[e].sub[f.i]), f), OnlyStack
  PROVE  IInv'
<1> DEFINE x    == expr[e].sub[f.i]
           eval == Frame("eval", x)
<1>1. BodyOK(body) /\ Regular(body)
  BY DEF Here
<1>2. body.expr[e].sub \in Seq(Exprs(body)) /\ f.i \in 1 .. Len(body.expr[e].sub)
  BY <1>1 DEF BodyOK, ExpressionOK, OperandOK
<1>3. x \in Exprs(body)
  BY <1>2 DEF expr
<1>4. body.owner.expr[x] = body.owner.expr[e]
  BY <1>1, <1>2 DEF Regular, Confined, expr
<1>5. eval.op = "eval" /\ eval.at = x
  BY DEF Frame, Pending
<1>6. Good(body, eval) /\ Produces(eval)
  BY <1>1, <1>3, GoodEval
<1>7. stack' = <<eval, f>> \o Tail(stack)
  BY DEF Call
<1>8. Produces(f) /\ Waits(f) /\ WaitsFor(body, f) = x
  BY DEF Produces, Waits, WaitsFor, expr
<1>9. Good(body, f)
  BY <1>8 DEF Good
<1> HIDE DEF eval, x
<1>10. Link(body, eval, f)
  BY <1>4, <1>5, <1>6, <1>8 DEF Link, Outer, Own
<1>11. SameExit(body, f, Top) /\ Own(body, eval) = Own(body, Top)
  BY <1>4, <1>5, <1>6, <1>8 DEF SameExit, Outer, Own, Here
<1>12. AllOK(body, stack', ret, reaches_end)
  BY <1>5, <1>6, <1>7, <1>9, <1>10, <1>11, CallEval DEF Here, Top
<1> QED
  BY <1>12, QuietStep

LEMMA StepEvalOperands ==
  ASSUME RegularBodies, IInv, EvalOperands
  PROVE  IInv'
<1> DEFINE e == Top.at
           f == Pending("operand", e, 1, TRUE)
<1>1. /\ Here(e) /\ Produces(Top) /\ Top.op = "eval"
      /\ e \in Exprs(body) /\ e \in Nat /\ ExpressionOK(body, e)
      /\ Begin(e) \in body.live /\ AfterBegin(body, e) \subseteq body.live
  BY AtEval DEF EvalOperands
<1>2. /\ expr[e].kind \in {"seq", "list", "cond"} /\ expr[e].sub # <<>>
      /\ Call(Frame("eval", expr[e].sub[1]), f) /\ OnlyStack
  BY DEF EvalOperands
<1>3. f \in Fr /\ f.op = "operand" /\ f.at = e /\ f.i = 1
  BY <1>1 DEF Pending, Fr, FrameOps
<1>4. expr[e].sub \in Seq(Exprs(body)) /\ 1 \in 1 .. Len(expr[e].sub)
  BY <1>1, <1>2 DEF ExpressionOK, expr
<1> HIDE DEF f, e
<1>5. OperandOK(body, f)
  BY <1>1, <1>2, <1>3, <1>4 DEF OperandOK, expr
<1>6. Begin(expr[e].sub[1]) \in body.live
  BY <1>1, <1>2, <1>4 DEF AfterBegin, expr
<1> QED
  BY <1>1, <1>2, <1>3, <1>5, <1>6, OperandTo

\* What is known when operand i of e has been evaluated.
LEMMA AtOperand ==
  ASSUME RegularBodies, IInv, At({"operand"}), NEW e, e = Top.at, NEW i, i = Top.i
  PROVE  /\ Here(e) /\ Produces(Top) /\ Top.op = "operand" /\ Top \in Fr
         /\ e \in Exprs(body) /\ e \in Nat
         /\ expr[e].sub \in Seq(Exprs(body))
         /\ expr[e].kind \in {"seq", "list", "cond"}
         /\ i \in 1 .. Len(expr[e].sub)
         /\ OperandOK(body, Top)
         /\ ret => /\ Done(expr[e].sub[i]) \in body.live
                   /\ AfterOperand(body, e, i) \subseteq body.live
<1>1. Here(e) /\ Top.op = "operand"
  BY HereLemma DEF WalkOps, At
<1>2. Produces(Top) /\ Waits(Top) /\ WaitsFor(body, Top) = expr[e].sub[i]
  BY <1>1 DEF Produces, Waits, WaitsFor, expr
<1>3. e \in Exprs(body) /\ OperandOK(body, Top) /\ Top \in Fr /\ BodyOK(body) /\ FlowOK(body)
  BY <1>1, <1>2 DEF Here, Good
<1>4. e \in Nat /\ expr[e].sub \in Seq(Exprs(body))
  BY <1>3 DEF BodyOK, ExpressionOK, expr
<1>5. expr[e].kind \in {"seq", "list", "cond"} /\ i \in 1 .. Len(expr[e].sub)
  BY <1>3 DEF OperandOK, expr
<1>6. ret => Done(expr[e].sub[i]) \in body.live
  BY <1>1, <1>2 DEF Here, AllOK, RetOK, Top
<1>7. AfterOperand(body, e, i) \subseteq AfterDone(body, expr[e].sub[i])
  BY <1>3, <1>5 DEF AfterDone, expr
<1>8. ret => AfterOperand(body, e, i) \subseteq body.live
  BY <1>3, <1>6, <1>7 DEF FlowOK
<1> QED
  BY <1>1, <1>2, <1>3, <1>4, <1>5, <1>6, <1>8

LEMMA StepNextOperand ==
  ASSUME RegularBodies, IInv, NextOperand
  PROVE  IInv'
<1> DEFINE e   == Top.at
           i   == Top.i
           sub == expr[e].sub
           n   == Len(sub)
           f   == Pending("operand", e, i + 1, Top.flag /\ ret)
<1>1. /\ Here(e) /\ Produces(Top) /\ Top.op = "operand" /\ Top \in Fr
      /\ e \in Exprs(body) /\ e \in Nat
      /\ sub \in Seq(Exprs(body))
      /\ expr[e].kind \in {"seq", "list", "cond"}
      /\ i \in 1 .. n
      /\ OperandOK(body, Top)
      /\ ret => /\ Done(sub[i]) \in body.live
                /\ AfterOperand(body, e, i) \subseteq body.live
  BY AtOperand DEF NextOperand
<1>2. /\ i < n
      /\ expr[e].kind = "seq" => ret
      /\ expr[e].kind = "cond" /\ i = 1 => ret
      /\ Call(Frame("eval", sub[i + 1]), f) /\ OnlyStack
  BY DEF NextOperand, MoreOperands
<1>3. i \in Nat /\ i + 1 \in 1 .. n /\ n \in Nat
  BY <1>1, <1>2
<1>4. Top.flag \in BOOLEAN /\ ret \in BOOLEAN
  BY <1>1 DEF Fr, Here
<1>5. f \in Fr /\ f.op = "operand" /\ f.at = e /\ f.i = i + 1 /\ (f.flag <=> Top.flag /\ ret)
  BY <1>1, <1>3, <1>4 DEF Pending, Fr, FrameOps
<1>6. expr[e].kind = "cond" => \A j \in 2 .. n : Begin(sub[j]) \in body.live
  <2> SUFFICES ASSUME expr[e].kind = "cond"
               PROVE  \A j \in 2 .. n : Begin(sub[j]) \in body.live
    OBVIOUS
  <2>1. CASE i = 1
    <3>1. \A j \in 2 .. n : Begin(sub[j]) \in AfterOperand(body, e, i)
      BY <2>1 DEF AfterOperand, expr
    <3> QED
      BY <3>1, <2>1, <1>1, <1>2
  <2>2. CASE i > 1
    BY <2>2, <1>1 DEF OperandOK, expr
  <2> QED
    BY <1>1, <2>1, <2>2
<1>7. expr[e].kind = "list" => \A j \in 1 .. n : Begin(sub[j]) \in body.live
  <2> SUFFICES ASSUME expr[e].kind = "list"
               PROVE  \A j \in 1 .. n : Begin(sub[j]) \in body.live
    OBVIOUS
  <2>1. AfterBegin(body, e) \subseteq body.live
    BY <1>1 DEF OperandOK, Here, FlowOK, expr
  <2>2. DOMAIN sub = 1 .. n
    BY <1>1
  <2>3. \A j \in 1 .. n : Begin(sub[j]) \in AfterBegin(body, e)
    BY <2>2 DEF AfterBegin, expr
  <2> QED
    BY <2>1, <2>3
<1>8. Begin(sub[i + 1]) \in body.live
  <2>1. CASE expr[e].kind = "seq"
    <3>1. i # Len(body.expr[e].sub)
      BY <1>2, <1>3 DEF expr
    <3>2. Begin(sub[i + 1]) \in AfterOperand(body, e, i)
      BY <2>1, <3>1 DEF AfterOperand, expr
    <3> QED
      BY <3>2, <2>1, <1>1, <1>2
  <2>2. CASE expr[e].kind = "list"
    BY <2>2, <1>3, <1>7
  <2>3. CASE expr[e].kind = "cond"
    <3>1. i + 1 \in 2 .. n
      BY <1>1, <1>3
    <3> QED
      BY <2>3, <3>1, <1>6
  <2> QED
    BY <1>1, <2>1, <2>2, <2>3
<1>9. Top.at = e /\ Top.i = i
  OBVIOUS
<1> HIDE DEF f, e, i
<1>10. OperandOK(body, f)
  <2>1. f.i \in 1 .. n /\ f.i - 1 = i
    BY <1>3, <1>5
  <2>2. expr[e].kind = "list" /\ f.flag => \A j \in 1 .. i : Done(sub[j]) \in body.live
    BY <1>1, <1>3, <1>5, <1>9 DEF OperandOK, expr
  <2>3. expr[e].kind = "list" => Begin(e) \in body.live
    BY <1>1, <1>9 DEF OperandOK, expr
  <2> QED
    BY <1>1, <1>5, <1>6, <2>1, <2>2, <2>3 DEF OperandOK, expr
<1> QED
  BY <1>1, <1>2, <1>5, <1>8, <1>10, OperandTo

LEMMA StepLastOperand ==
  ASSUME RegularBodies, IInv, LastOperand
  PROVE  IInv'
<1> DEFINE e   == Top.at
           i   == Top.i
           sub == expr[e].sub
           n   == Len(sub)
<1>1. /\ Here(e) /\ Produces(Top) /\ Top.op = "operand" /\ Top \in Fr
      /\ e \in Exprs(body) /\ e \in Nat
      /\ sub \in Seq(Exprs(body))
      /\ expr[e].kind \in {"seq", "list", "cond"}
      /\ i \in 1 .. n
      /\ OperandOK(body, Top)
      /\ ret => /\ Done(sub[i]) \in body.live
                /\ AfterOperand(body, e, i) \subseteq body.live
  BY AtOperand DEF LastOperand
<1>2. /\ i < n => /\ expr[e].kind = "seq" => ~ret
                  /\ expr[e].kind # "list"
                  /\ expr[e].kind = "cond" => IF i = 1 THEN ~ret ELSE ret
      /\ ret' = (ret /\ (expr[e].kind = "list" => Top.flag))
      /\ Return /\ UNCHANGED << fn, reaches_end, marks, facts, warnings, phase >>
  BY <1>1 DEF LastOperand, MoreOperands
<1>3. ret \in BOOLEAN /\ ret' \in BOOLEAN /\ n \in Nat /\ FlowOK(body)
  BY <1>1, <1>2 DEF Here
<1>4. ASSUME ret' PROVE Done(e) \in body.live
  <2>1. ret /\ (expr[e].kind = "list" => Top.flag)
    BY <1>2, <1>4
  <2>2. CASE expr[e].kind = "seq"
    <3>1. i = Len(body.expr[e].sub)
      BY <2>1, <2>2, <1>1, <1>2, <1>3 DEF expr
    <3>2. Done(e) \in AfterOperand(body, e, i)
      BY <2>2, <3>1 DEF AfterOperand, expr
    <3> QED
      BY <2>1, <3>2, <1>1
  <2>3. CASE expr[e].kind = "list"
    <3>1. i = n
      BY <2>3, <1>1, <1>2, <1>3
    <3>2. \A j \in 1 .. n : Done(sub[j]) \in body.live
      BY <2>1, <2>3, <3>1, <1>1, <1>3 DEF OperandOK, expr
    <3>3. Begin(e) \in body.live /\ DOMAIN sub = 1 .. n
      BY <2>3, <1>1 DEF OperandOK, expr
    <3>4. Done(e) \in ListsDone(body, body.live)
      BY <1>1, <2>3, <3>2, <3>3 DEF ListsDone, expr
    <3> QED
      BY <3>4, <1>3 DEF FlowOK
  <2>4. CASE expr[e].kind = "cond"
    <3>1. n >= 2
      <4>1. ExpressionOK(body, e)
        BY <1>1 DEF Here, BodyOK
      <4>2. n = 2 \/ n = 3
        BY <4>1, <2>4 DEF ExpressionOK, expr
      <4> HIDE DEF n
      <4> QED
        BY <4>2
    <3>2. i > 1
      BY <2>1, <2>4, <3>1, <1>1, <1>2, <1>3
    <3>3. Done(e) \in AfterOperand(body, e, i)
      BY <2>4, <3>2 DEF AfterOperand, expr
    <3> QED
      BY <2>1, <3>3, <1>1
  <2> QED
    BY <1>1, <2>2, <2>3, <2>4
<1> QED
  BY <1>1, <1>2, <1>3, <1>4, ValueTo

LEMMA StepOpenStmtExpr ==
  ASSUME RegularBodies, IInv, OpenStmtExpr
  PROVE  IInv'
<1> DEFINE e     == Top.at
           c     == expr[e].body
           visit == Frame("visit", c)
           close == Pending("close", e, 0, reaches_end)
<1>1. /\ Here(e) /\ Produces(Top) /\ Top.op = "eval"
      /\ e \in Exprs(body) /\ e \in Nat /\ ExpressionOK(body, e)
      /\ Begin(e) \in body.live /\ AfterBegin(body, e) \subseteq body.live
  BY AtEval DEF OpenStmtExpr
<1>2. /\ expr[e].kind = "stmt" /\ reaches_end' = FALSE /\ Call(visit, close)
      /\ UNCHANGED << fn, ret, marks, facts, warnings, phase >>
  BY DEF OpenStmtExpr
<1>3. BodyOK(body) /\ Regular(body) /\ reaches_end \in BOOLEAN /\ ret \in BOOLEAN
  BY <1>1 DEF Here
<1>4. c \in Stmts(body) /\ In(c) \in body.live
  BY <1>1, <1>2 DEF ExpressionOK, AfterBegin, expr
<1>5. body.owner.stmt[c] = e
  BY <1>1, <1>2, <1>3 DEF Regular, StmtExprsOK, StmtExprs, expr
<1>6. visit.op = "visit" /\ visit.at = c
  BY DEF Frame, Pending
<1>7. Good(body, visit) /\ ~Produces(visit) /\ ~Waits(visit)
  BY <1>3, <1>4, GoodFrames DEF Live
<1>8. close \in Fr /\ close.op = "close" /\ close.at = e /\ (close.flag <=> reaches_end)
  BY <1>1, <1>3 DEF Pending, Fr, FrameOps
<1> HIDE DEF visit, close
<1>9. Produces(close) /\ ~Waits(close)
  BY <1>8 DEF Produces, Waits
<1>10. reaches_end => /\ body.owner.expr[e] # Null
                      /\ Done(body.owner.expr[e]) \in body.live
  BY <1>1 DEF Here, AllOK, EndOK, Own, Top
<1>11. Good(body, close)
  BY <1>1, <1>2, <1>8, <1>9, <1>10 DEF Good, expr
<1>12. Link(body, visit, close)
  BY <1>5, <1>6, <1>7, <1>8, <1>9 DEF Link, Outer, Own
<1>13. SameExit(body, close, Top)
  BY <1>1, <1>8, <1>9 DEF SameExit, Outer, Own
<1>14. /\ StackOK(body, stack') /\ stack' # <<>> /\ Head(stack') = visit
  BY <1>1, <1>2, <1>7, <1>11, <1>12, <1>13, PushOK DEF Here, AllOK, Call, Top
<1>15. AllOK(body, stack', ret', reaches_end')
  BY <1>2, <1>7, <1>14 DEF AllOK, RetOK, EndOK
<1>16. MarkedIsExecutable'
  BY <1>1, <1>2, KeepMarks DEF Here
<1> QED
  BY <1>1, <1>2, <1>3, <1>15, <1>16, StepLemma

LEMMA StepCloseStmtExpr ==
  ASSUME RegularBodies, IInv, CloseStmtExpr
  PROVE  IInv'
<1> DEFINE e == Top.at
<1>1. Here(e) /\ Top.op = "close"
  BY HereLemma DEF CloseStmtExpr, WalkOps, At
<1>2. /\ ret' = reaches_end /\ reaches_end' = Top.flag /\ stack' = Tail(stack)
      /\ UNCHANGED << fn, marks, facts, warnings, phase >>
  BY DEF CloseStmtExpr, Return
<1>3. Produces(Top) /\ Own(body, Top) = e /\ Outer(body, Top) = body.owner.expr[e]
  BY <1>1 DEF Produces, Own, Outer
<1>4. /\ StackOK(body, stack')
      /\ stack' # <<>> => Link(body, Top, Head(stack'))
  BY <1>1, <1>2, PopOK DEF Here, AllOK, Top
<1>5. reaches_end => Done(e) \in body.live
  BY <1>1, <1>3 DEF Here, AllOK, EndOK, Top
<1>6. RetOK(body, stack', ret')
  BY <1>2, <1>3, <1>4, <1>5 DEF RetOK, Link
<1>7. Top.flag => /\ body.owner.expr[e] # Null
                  /\ Done(body.owner.expr[e]) \in body.live
  BY <1>1 DEF Here, Good
<1>8. EndOK(body, stack', reaches_end')
  BY <1>2, <1>3, <1>4, <1>7 DEF EndOK, Link
<1>9. ret' \in BOOLEAN /\ reaches_end' \in BOOLEAN
  BY <1>1, <1>2 DEF Here, Good, Fr
<1>10. MarkedIsExecutable'
  BY <1>1, <1>2, KeepMarks DEF Here
<1>11. AllOK(body, stack', ret', reaches_end')
  BY <1>4, <1>6, <1>8 DEF AllOK
<1> QED
  BY <1>1, <1>2, <1>9, <1>10, <1>11, StepLemma

-----------------------------------------------------------------------------
\* The walk touches no mark.
LEMMA WalkLemma ==
  ASSUME NEW b, BodyOK(b), NEW op \in WalkOps, NEW x,
         x # Null => x \in IF op = "walkexpr" THEN Exprs(b) ELSE Stmts(b)
  PROVE  Walk(op, x) \in Seq(WalkFr(b))
<1>1. CASE x = Null
  BY <1>1 DEF Walk
<1>2. CASE x # Null
  <2>1. Frame(op, x) \in WalkFr(b)
    BY <1>2 DEF Frame, Pending, WalkFr, WalkOps
  <2> QED
    BY <1>2, <2>1 DEF Walk
<1> QED
  BY <1>1, <1>2

LEMMA ChildrenLemma ==
  ASSUME BodyOK(body), NEW s \in Stmts(body)
  PROVE  Children(s) \in Seq(WalkFr(body))
<1> DEFINE st == stmt[s]
           W  == WalkFr(body)
<1>1. StatementOK(body, s)
  BY DEF BodyOK
<1>2. /\ \A x \in {st.body, st.other} : x # Null => x \in Stmts(body)
      /\ \A x \in {st.expr, st.init, st.step} : x # Null => x \in Exprs(body)
  BY <1>1 DEF StatementOK, stmt
<1>3. \A op \in {"walk", "walklist"} : \A x \in {st.body, st.other} : Walk(op, x) \in Seq(W)
  BY <1>2, WalkLemma DEF WalkOps
<1>4. \A x \in {st.expr, st.init, st.step} : Walk("walkexpr", x) \in Seq(W)
  BY <1>2, WalkLemma DEF WalkOps
<1> DEFINE wb == Walk("walk", st.body)
           wo == Walk("walk", st.other)
           wl == Walk("walklist", st.body)
           we == Walk("walkexpr", st.expr)
           wi == Walk("walkexpr", st.init)
           ws == Walk("walkexpr", st.step)
<1>5. /\ wb \in Seq(W) /\ wo \in Seq(W) /\ wl \in Seq(W)
      /\ we \in Seq(W) /\ wi \in Seq(W) /\ ws \in Seq(W)
  BY <1>3, <1>4
<1>6. Children(s) \in { wl, wb \o we, wi \o we \o ws \o wb, <<>>, we \o wb \o wo }
  BY DEF Children
<1> HIDE DEF wb, wo, wl, we, wi, ws, W
<1>7. /\ wb \o we \in Seq(W) /\ wi \o we \o ws \o wb \in Seq(W)
      /\ <<>> \in Seq(W) /\ we \o wb \o wo \in Seq(W)
  BY <1>5
<1> QED
  BY <1>5, <1>6, <1>7 DEF W

LEMMA WalkStep ==
  ASSUME IInv, fn' = fn, UNCHANGED << marks, facts >>,
         phase' \in {"walk", "done"}, stack' \in Seq(WalkFr(body))
  PROVE  IInv'
<1>1. body' = body
  BY DEF body
<1>2. MarkedIsExecutable'
  BY KeepMarks DEF IInv
<1> QED
  BY <1>1, <1>2 DEF IInv

LEMMA StepWalk ==
  ASSUME RegularBodies, IInv, WalkAll
  PROVE  IInv'
<1> DEFINE W == WalkFr(body)
<1>1. fn \in DOMAIN Bodies /\ BodyOK(body)
  BY FlowLemma DEF IInv, body
<1>2. ASSUME NEW ops, At(ops), ops \subseteq WalkOps
      PROVE  /\ phase \in {"walk", "done"} /\ Top \in W /\ Top.op \in ops
             /\ Tail(stack) \in Seq(W)
  <2>1. stack # <<>> /\ Top.op \in ops
    BY <1>2 DEF At
  <2>2. CASE phase = "mark"
    <3>1. Good(body, Top)
      BY <2>1, <2>2, PopOK DEF IInv, Marking, AllOK, Top
    <3> QED
      BY <3>1, <2>1, <1>2 DEF Good, WalkOps
  <2>3. CASE phase # "mark"
    <3>1. stack \in Seq(W) /\ phase \in {"walk", "done"}
      BY <2>3 DEF IInv
    <3> HIDE DEF W
    <3> QED
      BY <2>1, <3>1 DEF Top
  <2> QED
    BY <2>2, <2>3
<1>3. CASE StartWalk
  <2>1. /\ phase' = "walk" /\ stack' = << Frame("walk", 1) >>
        /\ UNCHANGED << fn, ret, reaches_end, marks, facts, warnings >>
    BY <1>3 DEF StartWalk
  <2>2. Frame("walk", 1) \in W
    BY <1>1 DEF Frame, Pending, WalkFr, BodyOK
  <2>3. stack' \in Seq(W)
    BY <2>1, <2>2
  <2> QED
    BY <2>1, <2>3, WalkStep
<1>4. CASE WalkStatement
  <2>1. /\ stack' = Children(Top.at) \o Tail(stack)
        /\ UNCHANGED << fn, ret, reaches_end, marks, facts, phase >>
    BY <1>4 DEF WalkStatement
  <2>2. phase \in {"walk", "done"} /\ Top \in W /\ Top.op = "walk" /\ Tail(stack) \in Seq(W)
    BY <1>2, <1>4 DEF WalkStatement, WalkOps
  <2>3. Top.at \in Stmts(body)
    BY <2>2 DEF WalkFr
  <2>4. Children(Top.at) \in Seq(W)
    BY <1>1, <2>3, ChildrenLemma
  <2> HIDE DEF W
  <2>5. stack' \in Seq(W)
    BY <2>1, <2>2, <2>4
  <2> QED
    BY <2>1, <2>2, <2>5, WalkStep DEF W
<1>5. CASE WalkList
  <2>1. /\ stack' = Walk("walk", Top.at) \o Walk("walklist", stmt[Top.at].next) \o Tail(stack)
        /\ OnlyStack
    BY <1>5 DEF WalkList
  <2>2. phase \in {"walk", "done"} /\ Top \in W /\ Top.op = "walklist" /\ Tail(stack) \in Seq(W)
    BY <1>2, <1>5 DEF WalkList, WalkOps
  <2>3. Top.at \in Stmts(body)
    BY <2>2 DEF WalkFr
  <2>4. stmt[Top.at].next # Null => stmt[Top.at].next \in Stmts(body)
    BY <1>1, <2>3 DEF BodyOK, StatementOK, stmt
  <2>5. Walk("walk", Top.at) \in Seq(W) /\ Walk("walklist", stmt[Top.at].next) \in Seq(W)
    BY <1>1, <2>3, <2>4, WalkLemma DEF WalkOps
  <2> HIDE DEF W
  <2>6. stack' \in Seq(W)
    BY <2>1, <2>2, <2>5
  <2> QED
    BY <2>1, <2>2, <2>6, WalkStep DEF W, OnlyStack
<1>6. CASE WalkExpression
  <2> DEFINE ex  == expr[Top.at]
             new == CASE ex.kind = "stmt" -> Walk("walk", ex.body)
                      [] ex.kind \in {"seq", "cond"} ->
                           [i \in DOMAIN ex.sub |-> Frame("walkexpr", ex.sub[i])]
                      [] OTHER -> <<>>
  <2>1. stack' = new \o Tail(stack) /\ OnlyStack
    BY <1>6 DEF WalkExpression
  <2>2. phase \in {"walk", "done"} /\ Top \in W /\ Top.op = "walkexpr" /\ Tail(stack) \in Seq(W)
    BY <1>2, <1>6 DEF WalkExpression, WalkOps
  <2>3. Top.at \in Exprs(body)
    BY <2>2 DEF WalkFr
  <2>4. ExpressionOK(body, Top.at)
    BY <1>1, <2>3 DEF BodyOK
  <2>5. ex.kind = "stmt" => new \in Seq(W)
    <3> SUFFICES ASSUME ex.kind = "stmt" PROVE new \in Seq(W)
      OBVIOUS
    <3>1. Walk("walk", ex.body) \in Seq(W)
      BY <1>1, <2>4, WalkLemma DEF ExpressionOK, WalkOps, expr
    <3> QED
      BY <3>1
  <2>6. ex.kind \in {"seq", "cond"} => new \in Seq(W)
    <3> SUFFICES ASSUME ex.kind \in {"seq", "cond"} PROVE new \in Seq(W)
      OBVIOUS
    <3>1. ex.sub \in Seq(Exprs(body))
      BY <2>4 DEF ExpressionOK, expr
    <3>2. \A x \in Exprs(body) : Frame("walkexpr", x) \in W
      BY DEF Frame, Pending, WalkFr
    <3> HIDE DEF W, ex
    <3>3. [i \in DOMAIN ex.sub |-> Frame("walkexpr", ex.sub[i])] \in Seq(W)
      BY <3>1, <3>2
    <3> QED
      BY <3>3
  <2>7. ex.kind \notin {"stmt", "seq", "cond"} => new \in Seq(W)
    OBVIOUS
  <2>8. new \in Seq(W)
    BY <2>5, <2>6, <2>7
  <2> HIDE DEF W, new
  <2>9. stack' \in Seq(W)
    BY <2>1, <2>2, <2>8
  <2> QED
    BY <2>1, <2>2, <2>9, WalkStep DEF W, OnlyStack
<1>7. CASE Finish
  <2>1. /\ phase = "walk" /\ phase' = "done" /\ stack' = stack
        /\ UNCHANGED << fn, ret, reaches_end, marks, facts, warnings >>
    BY <1>7 DEF Finish
  <2>2. stack \in Seq(W)
    BY <2>1 DEF IInv
  <2> QED
    BY <2>1, <2>2, WalkStep
<1> QED
  BY <1>3, <1>4, <1>5, <1>6, <1>7 DEF WalkAll

-----------------------------------------------------------------------------
LEMMA InitLemma ==
  ASSUME RegularBodies, Init
  PROVE  IInv
<1>1. fn \in DOMAIN Bodies /\ FlowOK(body) /\ BodyOK(body)
  BY FlowLemma DEF Init, body
<1> DEFINE f == Frame("visit", 1)
<1>2. Good(body, f) /\ ~Produces(f) /\ ~Waits(f)
  <2>1. 1 \in Stmts(body) /\ In(1) \in body.live
    BY <1>1 DEF BodyOK, FlowOK
  <2> QED
    BY <1>1, <2>1, GoodFrames DEF Live
<1>3. stack = <<f>> /\ ret = FALSE /\ reaches_end = FALSE /\ phase = "mark"
  BY DEF Init
<1>7. Outermost(body, f)
  <2>1. Outer(body, f) = body.owner.stmt[1]
    BY <1>2 DEF Outer, Own, Frame, Pending
  <2>2. Regular(body)
    BY <1>1 DEF RegularBodies, body
  <2> QED
    BY <1>2, <2>1, <2>2 DEF Outermost, Regular, OwnersOK
<1> HIDE DEF f
<1>4. StackOK(body, stack)
  BY <1>2, <1>3, <1>7 DEF StackOK, Good
<1>5. AllOK(body, stack, ret, reaches_end)
  BY <1>3, <1>4 DEF AllOK, RetOK, EndOK
<1>6. MarkedIsExecutable
  BY DEF Init, MarkedIsExecutable
<1> QED
  BY <1>1, <1>3, <1>5, <1>6 DEF IInv, Marking

LEMMA StutterLemma ==
  ASSUME IInv, UNCHANGED vars
  PROVE  IInv'
<1>1. body' = body
  BY DEF vars, body
<1>2. MarkedIsExecutable'
  BY KeepMarks DEF vars, IInv
<1> QED
  BY <1>1, <1>2 DEF vars, IInv, Marking

LEMMA NextLemma ==
  ASSUME RegularBodies, IInv, [Next]_vars
  PROVE  IInv'
<1>1. CASE Visit
  BY <1>1, StepVisitEvaluating, StepVisitPlain, StepVisitOther DEF Visit
<1>2. CASE Decide
  BY <1>2, StepDecideSimple, StepDecideBranch, StepDecideSwitchConstant,
     StepDecideSwitch, StepCases DEF Decide
<1>3. CASE Leave
  BY <1>3, StepAfterNext, StepAfterBody, StepAfterStmtExpr, StepAfterLast, StepSeek DEF Leave
<1>4. CASE Loop
  BY <1>4, StepLoop, StepTest DEF Loop
<1>5. CASE Eval
  BY <1>5, StepEvalLeaf, StepEvalOperands, StepNextOperand, StepLastOperand,
     StepOpenStmtExpr, StepCloseStmtExpr DEF Eval
<1>6. CASE WalkAll
  BY <1>6, StepWalk
<1>7. CASE UNCHANGED vars
  BY <1>7, StutterLemma
<1> QED
  BY <1>1, <1>2, <1>3, <1>4, <1>5, <1>6, <1>7 DEF Next

\* On every regular body the marking is sound: what check_reachable() marks
\* as reachable can be executed, so a function is told apart from a noreturn
\* function, and warned of for a missing return, only for an executable path.
THEOREM MarkingIsSound ==
  ASSUME RegularBodies
  PROVE  Spec => []MarkedIsExecutable
<1>1. Init => IInv
  BY InitLemma
<1>2. IInv /\ [Next]_vars => IInv'
  BY NextLemma
<1>3. IInv => MarkedIsExecutable
  BY DEF IInv
<1> QED
  BY <1>1, <1>2, <1>3, PTL DEF Spec
=============================================================================
