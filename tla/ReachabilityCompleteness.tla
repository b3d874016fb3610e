---------------------- MODULE ReachabilityCompleteness ----------------------
(***************************************************************************)
(* For every function body that is Regular and Exact the marking misses    *)
(* nothing: a statement that is reported as unreachable cannot be          *)
(* executed, and the function is not taken for noreturn when control can   *)
(* leave it.                                                               *)
(*                                                                         *)
(* The proof follows a set C of control points that grows with the marking *)
(* (Covers): what may follow a point of C is in C or is owed, that is, a   *)
(* pending call will look at it (Owed). A call that ends, or leads on to   *)
(* another, moves its control point from what is owed to C. When the stack *)
(* is empty nothing is owed any more, and C is closed.                     *)
(*                                                                         *)
(* No point is in C that cannot be executed (the last part of Covers):     *)
(* that is why control has been at the top of a do loop whose condition    *)
(* has been evaluated. That each expression is evaluated at most once      *)
(* (Settled) makes the flag of a braced initializer right.                 *)
(***************************************************************************)
EXTENDS ReachabilityProofs

Nice(b) == BodyOK(b) /\ Regular(b) /\ Exact(b)

-----------------------------------------------------------------------------
(***************************************************************************)
(* What the pending calls will look at.                                    *)
(***************************************************************************)
\* The control point that a call of op for the statement s looks at first.
Point(b, op, s) ==
  CASE op = "visit" -> In(s)
    [] op = "after" -> End(s)
    [] op = "head"  -> IF b.stmt[s].kind = "for" THEN StepOf(s) ELSE Test(s)
    [] op = "test"  -> Test(s)
    [] op \in {"break", "continue", "leave"} -> Up(s, op)

PlainOps == { "visit", "after", "head", "test", "break", "continue", "leave" }

OwedCases(b, f) ==
  LET cases == b.stmt[f.at].cases IN
  { In(cases[j]) : j \in { k \in 1 .. Len(cases) : f.i <= k } }
  \cup { n \in { End(f.at) } : \A c \in CaseLabels(b, f.at) : ~IsDefault(b, c) }

\* The operands after the one under evaluation that will be evaluated
\* whatever it returns, or might be by an exact analysis.
OwedOperands(b, f) ==
  LET ex == b.expr[f.at] IN
  { n \in { Begin(ex.sub[j]) : j \in { k \in 1 .. Len(ex.sub) : f.i < k } } :
      ex.kind = "list" \/ (ex.kind = "cond" /\ f.i > 1) }
  \cup { n \in { Done(f.at) } : ex.kind = "cond" /\ f.i > 1 /\ Len(ex.sub) = 2 }

Owe(b, f) ==
  CASE f.op \in PlainOps -> { Point(b, f.op, f.at) }
    [] f.op = "decide"   -> IF f.flag THEN { Took(f.at) } ELSE {}
    [] f.op = "cases"    -> OwedCases(b, f)
    [] f.op = "eval"     -> { Begin(f.at) }
    [] f.op = "operand"  -> OwedOperands(b, f)
    [] f.op = "close"    -> IF f.flag THEN { Done(b.owner.expr[f.at]) } ELSE {}

\* What the calls in t will look at; what reaches_end stands for in the
\* statement expression o; and what ret does for the frame f that reads it.
Rest(b, t)     == UNION { Owe(b, t[k]) : k \in 1 .. Len(t) }
AtEnd(o, r)    == IF r THEN { Done(o) } ELSE {}
Value(b, f, q) == IF Waits(f) /\ q THEN { Done(WaitsFor(b, f)) } ELSE {}

Owed(b, st, q, r) ==
  IF st = <<>> THEN {}
  ELSE Owe(b, Head(st)) \cup Value(b, Head(st), q)
       \cup Rest(b, Tail(st)) \cup AtEnd(Own(b, Head(st)), r)

-----------------------------------------------------------------------------
(***************************************************************************)
(* The set C of the points that have been looked at.                       *)
(***************************************************************************)
\* The first and third clauses of for are not looked at.
Skipped(b) == { Begin(q) : q \in Clauses(b) } \cup { Done(q) : q \in Clauses(b) }

\* Y holds what can be executed when nothing is known of the points outside
\* of C.
Leads(b, C, Y) ==
  /\ In(1) \in Y
  /\ \A n \in Y \cap C : Succ(b, n) \subseteq Y
  /\ ListsDone(b, Y) \subseteq Y

Covers(b, C, O) ==
  /\ In(1) \in C \cup O
  /\ \A n \in C : Succ(b, n) \subseteq C \cup O \cup Skipped(b)
  /\ \A Y : Leads(b, C, Y) => C \cup O \subseteq Y

\* A braced initializer is in the set as soon as all its elements are, and no
\* frame of t is about to see to it; but for x, which is being looked at.
Listed(b, C, O, t, x) ==
  \A e \in Exprs(b) :
    /\ b.expr[e].kind = "list" /\ e # x /\ Begin(e) \in C
    /\ \A i \in DOMAIN b.expr[e].sub : Done(b.expr[e].sub[i]) \in C
    => Done(e) \in C \cup O \/ \E k \in 1 .. Len(t) : t[k].op = "operand" /\ t[k].at = e

\* The use of x has begun.
Started(b, C, x) ==
  /\ \A s \in Stmts(b) : b.stmt[s].expr = x => Test(s) \in C
  /\ \A e \in Exprs(b) : \A i \in 1 .. Len(b.expr[e].sub) :
       b.expr[e].sub[i] = x => Begin(e) \in C

Begun(b, C) ==
  \A x \in Exprs(b) :
    /\ Done(x) \in C => Begin(x) \in C
    /\ Begin(x) \in C => Started(b, C, x)

\* What the frame f has to do has not been done before.
NotYet(b, C, f) ==
  /\ f.op = "eval" => Begin(f.at) \notin C
  /\ f.op = "operand" =>
       LET sub == b.expr[f.at].sub IN
       /\ Begin(f.at) \in C
       /\ \A j \in 1 .. Len(sub) : f.i < j => Begin(sub[j]) \notin C
       /\ b.expr[f.at].kind = "list" =>
            (f.flag <=> \A j \in 1 .. f.i - 1 : Done(sub[j]) \in C)
  /\ f.op = "decide" => Test(f.at) \in C
  /\ f.op = "close" => Begin(f.at) \in C
  /\ Waits(f) => Done(WaitsFor(b, f)) \notin C

Apart(f, g) == Waits(f) /\ Waits(g) /\ f.op = g.op => f.at # g.at

AllApart(f, t) == \A k \in 1 .. Len(t) : Apart(f, t[k])

Settled(b, C, t) ==
  \A k \in 1 .. Len(t) :
    /\ NotYet(b, C, t[k])
    /\ t[k].op # "eval"
    /\ \A l \in 1 .. Len(t) : l # k => Apart(t[k], t[l])

Fresh(b, C, st) ==
  st # <<>> => NotYet(b, C, Head(st)) /\ Settled(b, C, Tail(st)) /\ AllApart(Head(st), Tail(st))

\* The frame that reads ret: its expression has been evaluated, and a value
\* returns.
HeadOK(b, C, st, q) ==
  st # <<>> /\ Waits(Head(st)) =>
    /\ Begin(WaitsFor(b, Head(st))) \in C
    /\ b.expr[WaitsFor(b, Head(st))].kind = "value" => q

\* The marks m tell which points are in C.
Known(b, C, m) ==
  /\ \A s \in Stmts(b) :
       /\ s \in m.re /\ b.stmt[s].kind \in {"while", "do"} => Test(s) \in C
       /\ s \in m.re /\ b.stmt[s].kind \notin {"while", "do"} => In(s) \in C
       /\ In(s) \in C /\ b.stmt[s].kind # "do" => s \in m.re
       /\ Test(s) \in C /\ b.stmt[s].kind # "for" => s \in m.re
       /\ Test(s) \in C /\ b.stmt[s].kind = "for" => s \in m.cr
       /\ s \in m.cr => Test(s) \in C
       /\ StepOf(s) \in C => s \in m.sr
  /\ FallOff \in C => m.ew /\ ~m.nc
  /\ Exit \in C => ~m.nc

Cov(b, C, st, q, r, m) ==
  /\ Covers(b, C, Owed(b, st, q, r))
  /\ Listed(b, C, Owed(b, st, q, r), st, Null)
  /\ Begun(b, C)
  /\ Fresh(b, C, st)
  /\ HeadOK(b, C, st, q)
  /\ Known(b, C, m)

Marked == [ re |-> reachable, cr |-> condition_reachable, sr |-> step_reachable,
            ew |-> end_warned, nc |-> noreturn_candidate ]

\* When the marking is over.
Complete ==
  /\ \A s \in Stmts(body) :
       /\ In(s) \in X /\ stmt[s].kind # "do" => s \in reachable
       /\ Test(s) \in X /\ stmt[s].kind # "for" => s \in reachable
       /\ Test(s) \in X /\ stmt[s].kind = "for" => s \in condition_reachable
       /\ StepOf(s) \in X => s \in step_reachable
  /\ FallOff \in X => end_warned
  /\ {Exit, FallOff} \cap X # {} => ~noreturn_candidate

CInv ==
  /\ IInv
  /\ WarnedIsUnreachable
  /\ IF phase = "mark"
     THEN warnings = {} /\ \E C : Cov(body, C, stack, ret, reaches_end, Marked)
     ELSE Complete

-----------------------------------------------------------------------------
(***************************************************************************)
(* How C grows.                                                            *)
(***************************************************************************)
\* The point n, which is owed, is looked at; what follows it is owed from now
\* on, and so may be what lists it completes.
LEMMA Discharge ==
  ASSUME NEW b, NEW C, NEW O, Covers(b, C, O), NEW n \in C \cup O, NEW O2,
         O \subseteq C \cup {n} \cup O2 \cup Skipped(b),
         Succ(b, n) \subseteq C \cup {n} \cup O2 \cup Skipped(b),
         O2 \subseteq C \cup {n} \cup O \cup Succ(b, n) \cup ListsDone(b, C \cup {n}),
         In(1) \notin Skipped(b)
  PROVE  Covers(b, C \cup {n}, O2)
<1> DEFINE D == C \cup {n}
<1>1. In(1) \in D \cup O2
  BY DEF Covers
<1>2. \A p \in D : Succ(b, p) \subseteq D \cup O2 \cup Skipped(b)
  BY DEF Covers
<1>3. ASSUME NEW Y, Leads(b, D, Y) PROVE D \cup O2 \subseteq Y
  <2>1. Leads(b, C, Y)
    BY <1>3 DEF Leads
  <2>2. C \cup O \subseteq Y
    BY <2>1 DEF Covers
  <2>3. n \in Y /\ D \subseteq Y
    BY <2>2
  <2>4. Succ(b, n) \subseteq Y
    BY <1>3, <2>3 DEF Leads
  <2>5. ListsDone(b, D) \subseteq ListsDone(b, Y)
    BY <2>3 DEF ListsDone
  <2>6. ListsDone(b, D) \subseteq Y
    BY <1>3, <2>5 DEF Leads
  <2> QED
    BY <2>2, <2>3, <2>4, <2>6
<1> QED
  BY <1>1, <1>2, <1>3 DEF Covers

\* What is owed changes, and no point is looked at.
LEMMA Adjust ==
  ASSUME NEW b, NEW C, NEW O, Covers(b, C, O), NEW O2,
         O \subseteq C \cup O2 \cup Skipped(b), O2 \subseteq C \cup O,
         In(1) \notin Skipped(b)
  PROVE  Covers(b, C, O2)
<1>1. In(1) \in C \cup O2
  BY DEF Covers
<1>2. \A p \in C : Succ(b, p) \subseteq C \cup O2 \cup Skipped(b)
  BY DEF Covers
<1>3. ASSUME NEW Y, Leads(b, C, Y) PROVE C \cup O2 \subseteq Y
  BY <1>3 DEF Covers
<1> QED
  BY <1>1, <1>2, <1>3 DEF Covers

LEMMA InNotSkipped ==
  ASSUME NEW b
  PROVE  /\ \A x : In(x) \notin Skipped(b) /\ Took(x) \notin Skipped(b) /\ End(x) \notin Skipped(b)
         /\ \A x : Test(x) \notin Skipped(b) /\ StepOf(x) \notin Skipped(b)
         /\ \A x : \A k \in {"break", "continue", "leave"} : Up(x, k) \notin Skipped(b)
         /\ Exit \notin Skipped(b) /\ FallOff \notin Skipped(b)
BY DEF Skipped, In, Took, End, Test, StepOf, Up, Exit, FallOff, Begin, Done

\* Control has been at t before it was at m.
LEMMA Passed ==
  ASSUME NEW b, NEW C, NEW O, Covers(b, C, O), NEW t, NEW m \in C \cup O,
         NEW Y, Until(b, t, Y), m \notin Y
  PROVE  In(t) \in C
<1> SUFFICES ASSUME In(t) \notin C PROVE FALSE
  OBVIOUS
<1>1. Leads(b, C, Y)
  BY DEF Leads, Until
<1>2. C \cup O \subseteq Y
  BY <1>1 DEF Covers
<1> QED
  BY <1>2

-----------------------------------------------------------------------------
(***************************************************************************)
(* Sequences of frames.                                                    *)
(***************************************************************************)
LEMMA Consed ==
  ASSUME NEW f \in Fr, NEW t \in Seq(Fr)
  PROVE  LET s == <<f>> \o t IN
         /\ s \in Seq(Fr) /\ s # <<>> /\ Head(s) = f /\ Tail(s) = t
         /\ Len(s) = Len(t) + 1 /\ s[1] = f
         /\ \A k \in 1 .. Len(t) : s[k + 1] = t[k]
<1> DEFINE s == <<f>> \o t
<1>1. /\ s \in Seq(Fr) /\ Len(s) = Len(t) + 1 /\ s[1] = f
      /\ \A k \in 1 .. Len(t) : s[k + 1] = t[k]
  OBVIOUS
<1>2. s # <<>> /\ Head(s) = f
  BY <1>1
<1>3. Tail(s) \in Seq(Fr) /\ Len(Tail(s)) = Len(t)
      /\ \A k \in 1 .. Len(t) : Tail(s)[k] = t[k]
  BY <1>1
<1>4. Tail(s) = t
  BY <1>3
<1> QED
  BY <1>1, <1>2, <1>4

\* All elements of <<f>> \o t are f or elements of t.
LEMMA ConsIndex ==
  ASSUME NEW f \in Fr, NEW t \in Seq(Fr), NEW s, s = <<f>> \o t, NEW k \in 1 .. Len(s)
  PROVE  \/ k = 1 /\ s[k] = f
         \/ k - 1 \in 1 .. Len(t) /\ s[k] = t[k - 1]
BY Consed

LEMMA RestCons ==
  ASSUME NEW b, NEW f \in Fr, NEW t \in Seq(Fr)
  PROVE  Rest(b, <<f>> \o t) = Owe(b, f) \cup Rest(b, t)
<1> DEFINE s == <<f>> \o t
<1>1. s[1] = f /\ Len(s) = Len(t) + 1 /\ \A k \in 1 .. Len(t) : s[k + 1] = t[k]
  BY Consed
<1>2. \A k \in 1 .. Len(s) : s[k] = f \/ \E l \in 1 .. Len(t) : s[k] = t[l]
  BY ConsIndex
<1>3. \A l \in 1 .. Len(t) : \E k \in 1 .. Len(s) : s[k] = t[l]
  BY <1>1
<1>4. \E k \in 1 .. Len(s) : s[k] = f
  BY <1>1
<1> HIDE DEF s
<1>5. UNION { Owe(b, s[k]) : k \in 1 .. Len(s) }
        = Owe(b, f) \cup UNION { Owe(b, t[k]) : k \in 1 .. Len(t) }
  BY <1>2, <1>3, <1>4
<1> QED
  BY <1>5 DEF Rest, s

LEMMA RestHead ==
  ASSUME NEW b, NEW t \in Seq(Fr), t # <<>>
  PROVE  Rest(b, t) = Owe(b, Head(t)) \cup Rest(b, Tail(t))
<1>1. Head(t) \in Fr /\ Tail(t) \in Seq(Fr) /\ t = <<Head(t)>> \o Tail(t)
  OBVIOUS
<1> QED
  BY <1>1, RestCons

LEMMA ApartSym ==
  ASSUME NEW f, NEW g
  PROVE  Apart(f, g) <=> Apart(g, f)
BY DEF Apart

LEMMA SettledCons ==
  ASSUME NEW b, NEW C, NEW t \in Seq(Fr), Settled(b, C, t),
         NEW g \in Fr, NotYet(b, C, g), g.op # "eval", AllApart(g, t)
  PROVE  Settled(b, C, <<g>> \o t)
<1> DEFINE s == <<g>> \o t
<1>1. Len(t) \in Nat /\ Len(s) = Len(t) + 1
  BY Consed
<1>2. \A k \in 1 .. Len(s) : \/ k = 1 /\ s[k] = g
                             \/ k - 1 \in 1 .. Len(t) /\ s[k] = t[k - 1]
  BY ConsIndex
<1> HIDE DEF s
<1>3. ASSUME NEW k \in 1 .. Len(s)
      PROVE  NotYet(b, C, s[k]) /\ s[k].op # "eval"
  BY <1>2, <1>3 DEF Settled
<1>4. ASSUME NEW k \in 1 .. Len(s), NEW l \in 1 .. Len(s), l # k
      PROVE  Apart(s[k], s[l])
  <2>1. CASE k = 1
    <3>1. s[k] = g /\ l - 1 \in 1 .. Len(t) /\ s[l] = t[l - 1]
      BY <1>2, <1>4, <2>1
    <3> QED
      BY <3>1 DEF AllApart
  <2>2. CASE l = 1
    <3>1. s[l] = g /\ k - 1 \in 1 .. Len(t) /\ s[k] = t[k - 1]
      BY <1>2, <1>4, <2>2
    <3>2. Apart(s[l], s[k])
      BY <3>1 DEF AllApart
    <3> QED
      BY <3>2, ApartSym
  <2>3. CASE k # 1 /\ l # 1
    <3>1. /\ k - 1 \in 1 .. Len(t) /\ s[k] = t[k - 1]
          /\ l - 1 \in 1 .. Len(t) /\ s[l] = t[l - 1] /\ l - 1 # k - 1
      BY <1>2, <1>4, <2>3
    <3> QED
      BY <3>1 DEF Settled
  <2> QED
    BY <2>1, <2>2, <2>3
<1> QED
  BY <1>3, <1>4 DEF Settled, s

LEMMA SettledTail ==
  ASSUME NEW b, NEW C, NEW t \in Seq(Fr), Settled(b, C, t), t # <<>>
  PROVE  /\ NotYet(b, C, Head(t)) /\ Head(t).op # "eval"
         /\ Settled(b, C, Tail(t)) /\ AllApart(Head(t), Tail(t))
<1>1. /\ Len(t) > 0 /\ Head(t) = t[1]
      /\ Len(Tail(t)) = Len(t) - 1 /\ \A k \in 1 .. Len(t) - 1 : Tail(t)[k] = t[k + 1]
  OBVIOUS
<1> DEFINE s == Tail(t)
<1>2. \A k \in 1 .. Len(s) : k + 1 \in 1 .. Len(t) /\ s[k] = t[k + 1] /\ k + 1 # 1
  BY <1>1
<1> HIDE DEF s
<1>3. \A k \in 1 .. Len(s) : NotYet(b, C, s[k]) /\ s[k].op # "eval" /\ Apart(t[1], s[k])
  BY <1>1, <1>2 DEF Settled
<1>4. \A k \in 1 .. Len(s) : \A l \in 1 .. Len(s) : l # k => Apart(s[k], s[l])
  BY <1>2 DEF Settled
<1>5. NotYet(b, C, t[1]) /\ t[1].op # "eval"
  BY <1>1 DEF Settled
<1> QED
  BY <1>1, <1>3, <1>4, <1>5 DEF Settled, AllApart, s

-----------------------------------------------------------------------------
(***************************************************************************)
(* Between two states of the stack: the call on top, of the statement      *)
(* expression o, has been taken off, and the points P that it will look at *)
(* are in hand. The initializer x, if any, is being looked at.             *)
(***************************************************************************)
Later(b, t, o, r) == Rest(b, t) \cup AtEnd(o, r)

Hand(b, C, P, t, o, r, x) ==
  /\ Covers(b, C, P \cup Later(b, t, o, r))
  /\ Listed(b, C, P \cup Later(b, t, o, r), t, x)
  /\ Begun(b, C)
  /\ Settled(b, C, t)

LEMMA Take ==
  ASSUME NEW b, BodyOK(b), NEW C, NEW st \in Seq(Fr), st # <<>>, NEW q, NEW r, NEW m,
         Cov(b, C, st, q, r, m), NEW x, Head(st).op = "operand" => x = Head(st).at
  PROVE  Hand(b, C, Owe(b, Head(st)) \cup Value(b, Head(st), q), Tail(st),
              Own(b, Head(st)), r, x)
<1> DEFINE P == Owe(b, Head(st)) \cup Value(b, Head(st), q)
           O == P \cup Later(b, Tail(st), Own(b, Head(st)), r)
<1>1. O = Owed(b, st, q, r)
  BY DEF Owed, Later
<1>2. Covers(b, C, O) /\ Listed(b, C, O, st, Null) /\ Begun(b, C) /\ Settled(b, C, Tail(st))
  BY <1>1 DEF Cov, Fresh
<1>3. \A k \in 1 .. Len(st) : st[k] = Head(st) \/ \E l \in 1 .. Len(Tail(st)) : st[k] = Tail(st)[l]
  <2>1. Head(st) \in Fr /\ Tail(st) \in Seq(Fr) /\ st = <<Head(st)>> \o Tail(st)
    OBVIOUS
  <2> QED
    BY <2>1, ConsIndex
<1> HIDE DEF O
<1>4. Listed(b, C, O, Tail(st), x)
  <2> SUFFICES ASSUME NEW e \in Exprs(b), b.expr[e].kind = "list", e # x, Begin(e) \in C,
                      \A i \in DOMAIN b.expr[e].sub : Done(b.expr[e].sub[i]) \in C,
                      Done(e) \notin C \cup O
               PROVE  \E k \in 1 .. Len(Tail(st)) : Tail(st)[k].op = "operand" /\ Tail(st)[k].at = e
    BY DEF Listed
  <2>1. \E k \in 1 .. Len(st) : st[k].op = "operand" /\ st[k].at = e
    BY <1>2 DEF Listed, BodyOK, Null
  <2> QED
    BY <2>1, <1>3, <1>2
<1> QED
  BY <1>2, <1>4 DEF Hand, O

\* The same with f, g or nothing put on the stack instead.
LEMMA GiveListed ==
  ASSUME NEW b, NEW C, NEW O, NEW t \in Seq(Fr), NEW x, Listed(b, C, O, t, x),
         NEW s \in Seq(Fr), NEW O2, O \subseteq O2,
         \A l \in 1 .. Len(t) : \E k \in 1 .. Len(s) : s[k] = t[l],
         \/ x = Null
         \/ \E k \in 1 .. Len(s) : s[k].op = "operand" /\ s[k].at = x
  PROVE  Listed(b, C, O2, s, Null)
<1> SUFFICES ASSUME NEW e \in Exprs(b), b.expr[e].kind = "list", e # Null, Begin(e) \in C,
                    \A i \in DOMAIN b.expr[e].sub : Done(b.expr[e].sub[i]) \in C,
                    Done(e) \notin C \cup O2
             PROVE  \E k \in 1 .. Len(s) : s[k].op = "operand" /\ s[k].at = e
  BY DEF Listed
<1>1. CASE e = x
  BY <1>1
<1>2. CASE e # x
  <2>1. \E l \in 1 .. Len(t) : t[l].op = "operand" /\ t[l].at = e
    BY <1>2 DEF Listed
  <2> QED
    BY <2>1
<1> QED
  BY <1>1, <1>2

LEMMA GiveOne ==
  ASSUME NEW b, NEW C, NEW P, NEW t \in Seq(Fr), NEW o, NEW r, Hand(b, C, P, t, o, r, Null),
         NEW f \in Fr, ~Waits(f), NotYet(b, C, f), Own(b, f) = o, P = Owe(b, f),
         NEW q, NEW m, Known(b, C, m)
  PROVE  Cov(b, C, <<f>> \o t, q, r, m)
<1> DEFINE s == <<f>> \o t
           O == P \cup Later(b, t, o, r)
<1>1. /\ s \in Seq(Fr) /\ s # <<>> /\ Head(s) = f /\ Tail(s) = t
      /\ \A l \in 1 .. Len(t) : s[l + 1] = t[l] /\ l + 1 \in 1 .. Len(s)
  BY Consed
<1>2. \A l \in 1 .. Len(t) : \E k \in 1 .. Len(s) : s[k] = t[l]
  BY <1>1
<1> HIDE DEF s
<1>3. Owed(b, s, q, r) = O
  BY <1>1 DEF Owed, Later, Value
<1>4. Covers(b, C, O) /\ Listed(b, C, O, t, Null) /\ Begun(b, C) /\ Settled(b, C, t)
  BY DEF Hand
<1> HIDE DEF O
<1>5. Listed(b, C, O, s, Null)
  BY <1>1, <1>2, <1>4, GiveListed
<1>6. Fresh(b, C, s) /\ HeadOK(b, C, s, q)
  BY <1>1, <1>4 DEF Fresh, HeadOK, AllApart, Apart
<1>7. Cov(b, C, s, q, r, m)
  BY <1>3, <1>4, <1>5, <1>6 DEF Cov
<1> QED
  BY <1>7 DEF s

LEMMA GiveTwo ==
  ASSUME NEW b, NEW C, NEW P, NEW t \in Seq(Fr), NEW o, NEW r, NEW x, Hand(b, C, P, t, o, r, x),
         NEW f \in Fr, ~Waits(f), NotYet(b, C, f),
         NEW g \in Fr, g.op # "eval", NotYet(b, C, g), AllApart(g, t),
         NEW r2, P \cup AtEnd(o, r) = Owe(b, f) \cup Owe(b, g) \cup AtEnd(Own(b, f), r2),
         x = Null \/ (g.op = "operand" /\ g.at = x),
         NEW q, NEW m, Known(b, C, m)
  PROVE  Cov(b, C, <<f, g>> \o t, q, r2, m)
<1> DEFINE u == <<g>> \o t
           s == <<f>> \o u
           O == P \cup Later(b, t, o, r)
<1>1. /\ u \in Seq(Fr) /\ u[1] = g /\ 1 \in 1 .. Len(u)
      /\ \A l \in 1 .. Len(t) : u[l + 1] = t[l] /\ l + 1 \in 1 .. Len(u)
  BY Consed
<1>2. Rest(b, u) = Owe(b, g) \cup Rest(b, t)
  BY RestCons
<1>3. Covers(b, C, O) /\ Listed(b, C, O, t, x) /\ Begun(b, C) /\ Settled(b, C, t)
  BY DEF Hand
<1>4. Settled(b, C, u)
  BY <1>3, SettledCons
<1>5. <<f, g>> \o t = s
  OBVIOUS
<1> HIDE DEF u
<1>6. /\ s \in Seq(Fr) /\ s # <<>> /\ Head(s) = f /\ Tail(s) = u
      /\ \A l \in 1 .. Len(u) : s[l + 1] = u[l] /\ l + 1 \in 1 .. Len(s)
  BY <1>1, Consed
<1> HIDE DEF s
<1>7. \A l \in 1 .. Len(t) : \E k \in 1 .. Len(s) : s[k] = t[l]
  <2> SUFFICES ASSUME NEW l \in 1 .. Len(t) PROVE \E k \in 1 .. Len(s) : s[k] = t[l]
    OBVIOUS
  <2>1. l + 1 \in 1 .. Len(u) /\ u[l + 1] = t[l]
    BY <1>1
  <2>2. (l + 1) + 1 \in 1 .. Len(s) /\ s[(l + 1) + 1] = u[l + 1]
    BY <1>6, <2>1
  <2> QED
    BY <2>1, <2>2
<1>8. \E k \in 1 .. Len(s) : s[k] = g
  <2>1. 1 + 1 \in 1 .. Len(s) /\ s[1 + 1] = u[1]
    BY <1>1, <1>6
  <2> QED
    BY <1>1, <2>1
<1>9. Owed(b, s, q, r2) = O
  BY <1>2, <1>6 DEF Owed, Later, Value
<1> HIDE DEF O
<1>10. Listed(b, C, O, s, Null)
  BY <1>3, <1>6, <1>7, <1>8, GiveListed
<1>11. Fresh(b, C, s) /\ HeadOK(b, C, s, q)
  BY <1>4, <1>6 DEF Fresh, HeadOK, AllApart, Apart
<1>12. Cov(b, C, s, q, r2, m)
  BY <1>3, <1>9, <1>10, <1>11 DEF Cov
<1> QED
  BY <1>5, <1>12

LEMMA GiveNone ==
  ASSUME NEW b, NEW C, NEW P, NEW t \in Seq(Fr), NEW o, NEW r, Hand(b, C, P, t, o, r, Null),
         NEW r2, NEW q, NEW m, Known(b, C, m), HeadOK(b, C, t, q),
         t = <<>> => P \cup AtEnd(o, r) = {},
         t # <<>> => P \cup AtEnd(o, r) = Value(b, Head(t), q) \cup AtEnd(Own(b, Head(t)), r2)
  PROVE  Cov(b, C, t, q, r2, m)
<1> DEFINE O == P \cup Later(b, t, o, r)
<1>1. Covers(b, C, O) /\ Listed(b, C, O, t, Null) /\ Begun(b, C) /\ Settled(b, C, t)
  BY DEF Hand
<1>2. Owed(b, t, q, r2) = O
  <2>1. CASE t = <<>>
    <3>1. Rest(b, t) = {}
      BY <2>1 DEF Rest
    <3> QED
      BY <2>1, <3>1 DEF Owed, Later
  <2>2. CASE t # <<>>
    <3>1. Rest(b, t) = Owe(b, Head(t)) \cup Rest(b, Tail(t))
      BY <2>2, RestHead
    <3> QED
      BY <2>2, <3>1 DEF Owed, Later
  <2> QED
    BY <2>1, <2>2
<1> HIDE DEF O
<1>3. Fresh(b, C, t)
  BY <1>1, SettledTail DEF Fresh
<1> QED
  BY <1>1, <1>2, <1>3 DEF Cov

-----------------------------------------------------------------------------
(***************************************************************************)
(* How the points in hand are looked at.                                   *)
(***************************************************************************)
OfStatement(n) == \A x : n # Begin(x) /\ n # Done(x)

LEMMA ListNotSkipped ==
  ASSUME NEW b, Nice(b), NEW e \in Exprs(b), b.expr[e].kind = "list"
  PROVE  Done(e) \notin Skipped(b)
<1> SUFFICES ASSUME Done(e) \in Skipped(b) PROVE FALSE
  OBVIOUS
<1>1. PICK q \in Clauses(b) : Done(e) = Begin(q) \/ Done(e) = Done(q)
  BY DEF Skipped
<1>2. e = q
  BY <1>1 DEF Begin, Done
<1> QED
  BY <1>2 DEF Nice, Exact, ClausesOK, Plain

\* n, of a statement, is looked at.
LEMMA HandPoint ==
  ASSUME NEW b, Nice(b), NEW C, NEW P, NEW t, NEW o, NEW r, NEW x, Hand(b, C, P, t, o, r, x),
         NEW n \in C \cup P, OfStatement(n), NEW P2,
         P \subseteq C \cup {n} \cup P2,
         Succ(b, n) \subseteq C \cup {n} \cup P2 \cup Skipped(b),
         P2 \subseteq C \cup {n} \cup P \cup Succ(b, n)
  PROVE  Hand(b, C \cup {n}, P2, t, o, r, x)
<1> DEFINE L  == Later(b, t, o, r)
           C2 == C \cup {n}
<1>1. Covers(b, C, P \cup L) /\ Listed(b, C, P \cup L, t, x) /\ Begun(b, C) /\ Settled(b, C, t)
  BY DEF Hand
<1> HIDE DEF L
<1>2. Covers(b, C2, P2 \cup L)
  <2> DEFINE O == P \cup L
             O2 == P2 \cup L
  <2>1. /\ Covers(b, C, O) /\ n \in C \cup O
        /\ O \subseteq C \cup {n} \cup O2 \cup Skipped(b)
        /\ Succ(b, n) \subseteq C \cup {n} \cup O2 \cup Skipped(b)
        /\ O2 \subseteq C \cup {n} \cup O \cup Succ(b, n) \cup ListsDone(b, C \cup {n})
        /\ In(1) \notin Skipped(b)
    BY <1>1, InNotSkipped
  <2> HIDE DEF O, O2
  <2> QED
    BY <2>1, Discharge DEF O2
<1>3. \A y : (Begin(y) \in C2 <=> Begin(y) \in C) /\ (Done(y) \in C2 <=> Done(y) \in C)
  BY DEF OfStatement
<1>4. Listed(b, C2, P2 \cup L, t, x)
  BY <1>1, <1>3 DEF Listed, OfStatement
<1>5. Begun(b, C2)
  <2>1. \A y : Test(y) \in C => Test(y) \in C2
    OBVIOUS
  <2> HIDE DEF C2
  <2> QED
    BY <1>1, <1>3, <2>1 DEF Begun, Started
<1>6. Settled(b, C2, t)
  <2>1. \A y : Test(y) \in C => Test(y) \in C2
    OBVIOUS
  <2> HIDE DEF C2
  <2>2. ASSUME NEW k \in 1 .. Len(t) PROVE NotYet(b, C2, t[k])
    <3>1. NotYet(b, C, t[k])
      BY <1>1 DEF Settled
    <3> QED
      BY <3>1, <1>3, <2>1 DEF NotYet
  <2> QED
    BY <1>1, <2>2 DEF Settled
<1> QED
  BY <1>2, <1>4, <1>5, <1>6 DEF Hand, L

\* Points that have been looked at already are put down, or taken up.
LEMMA HandSwap ==
  ASSUME NEW b, Nice(b), NEW C, NEW P, NEW t, NEW o, NEW r, NEW x, Hand(b, C, P, t, o, r, x),
         NEW P2, P \subseteq C \cup P2, P2 \subseteq C \cup P
  PROVE  Hand(b, C, P2, t, o, r, x)
<1> DEFINE L  == Later(b, t, o, r)
<1>1. Covers(b, C, P \cup L) /\ Listed(b, C, P \cup L, t, x) /\ Begun(b, C) /\ Settled(b, C, t)
  BY DEF Hand
<1> HIDE DEF L
<1>2. Covers(b, C, P2 \cup L)
  BY <1>1, Adjust, InNotSkipped
<1>3. Listed(b, C, P2 \cup L, t, x)
  BY <1>1 DEF Listed
<1> QED
  BY <1>1, <1>2, <1>3 DEF Hand, L

\* The initializer x needs no exception.
LEMMA HandDrop ==
  ASSUME NEW b, NEW C, NEW P, NEW t, NEW o, NEW r, NEW x, Hand(b, C, P, t, o, r, x),
         \/ x \notin Exprs(b)
         \/ b.expr[x].kind # "list"
         \/ Done(x) \in C \cup P
         \/ \E i \in DOMAIN b.expr[x].sub : Done(b.expr[x].sub[i]) \notin C
  PROVE  Hand(b, C, P, t, o, r, Null)
<1> DEFINE O == P \cup Later(b, t, o, r)
<1>1. Listed(b, C, O, t, x) /\ P \subseteq O
  BY DEF Hand
<1> HIDE DEF O
<1>2. Listed(b, C, O, t, Null)
  <2> SUFFICES ASSUME NEW e \in Exprs(b), b.expr[e].kind = "list", Begin(e) \in C,
                      \A i \in DOMAIN b.expr[e].sub : Done(b.expr[e].sub[i]) \in C
               PROVE  Done(e) \in C \cup O \/ \E k \in 1 .. Len(t) : t[k].op = "operand" /\ t[k].at = e
    BY DEF Listed
  <2>1. CASE e = x
    BY <2>1, <1>1
  <2>2. CASE e # x
    BY <2>2, <1>1 DEF Listed
  <2> QED
    BY <2>1, <2>2
<1> QED
  BY <1>2 DEF Hand, O

\* The evaluation of e begins.
LEMMA HandBegin ==
  ASSUME NEW b, Nice(b), NEW C, NEW P, NEW t, NEW o, NEW r, Hand(b, C, P, t, o, r, Null),
         NEW e \in Exprs(b), Begin(e) \in C \cup P, Started(b, C, e),
         \A k \in 1 .. Len(t) : t[k].op = "operand" =>
           \A j \in 1 .. Len(b.expr[t[k].at].sub) : t[k].i < j => b.expr[t[k].at].sub[j] # e,
         NEW P2,
         P \subseteq C \cup {Begin(e)} \cup P2,
         Succ(b, Begin(e)) \subseteq C \cup {Begin(e)} \cup P2 \cup Skipped(b),
         P2 \subseteq C \cup {Begin(e)} \cup P \cup Succ(b, Begin(e))
                     \cup ListsDone(b, C \cup {Begin(e)})
  PROVE  Hand(b, C \cup {Begin(e)}, P2, t, o, r, e)
<1> DEFINE L  == Later(b, t, o, r)
           n  == Begin(e)
           C2 == C \cup {n}
<1>1. Covers(b, C, P \cup L) /\ Listed(b, C, P \cup L, t, Null) /\ Begun(b, C) /\ Settled(b, C, t)
  BY DEF Hand
<1> HIDE DEF L
<1>2. Covers(b, C2, P2 \cup L)
  <2> DEFINE O == P \cup L
             O2 == P2 \cup L
  <2>1. /\ Covers(b, C, O) /\ n \in C \cup O
        /\ O \subseteq C \cup {n} \cup O2 \cup Skipped(b)
        /\ Succ(b, n) \subseteq C \cup {n} \cup O2 \cup Skipped(b)
        /\ O2 \subseteq C \cup {n} \cup O \cup Succ(b, n) \cup ListsDone(b, C \cup {n})
        /\ In(1) \notin Skipped(b)
    BY <1>1, InNotSkipped
  <2> HIDE DEF O, O2, n
  <2> QED
    BY <2>1, Discharge DEF O2
<1>3. \A y : /\ Begin(y) \in C2 <=> Begin(y) \in C \/ y = e
             /\ Done(y) \in C2 <=> Done(y) \in C
             /\ Test(y) \in C2 <=> Test(y) \in C
  BY DEF Begin, Done, Test
<1>4. \A y : Done(y) \in P \cup L => Done(y) \in C2 \cup P2 \cup L
  BY DEF Begin, Done
<1> HIDE DEF C2
<1>5. Listed(b, C2, P2 \cup L, t, e)
  <2> SUFFICES ASSUME NEW y \in Exprs(b), b.expr[y].kind = "list", y # e, Begin(y) \in C2,
                      \A i \in DOMAIN b.expr[y].sub : Done(b.expr[y].sub[i]) \in C2
               PROVE  \/ Done(y) \in C2 \cup P2 \cup L
                      \/ \E k \in 1 .. Len(t) : t[k].op = "operand" /\ t[k].at = y
    BY DEF Listed
  <2>1. y # Null /\ Begin(y) \in C
    BY <1>3 DEF Nice, BodyOK, Null
  <2>2. \/ Done(y) \in C \cup P \cup L
        \/ \E k \in 1 .. Len(t) : t[k].op = "operand" /\ t[k].at = y
    BY <1>1, <1>3, <2>1 DEF Listed
  <2> QED
    BY <2>2, <1>3, <1>4
<1>6. Begun(b, C2)
  <2>1. Started(b, C2, e)
    BY <1>3 DEF Started
  <2> QED
    BY <1>1, <1>3, <2>1 DEF Begun, Started
<1>7. Settled(b, C2, t)
  <2>2. ASSUME NEW k \in 1 .. Len(t) PROVE NotYet(b, C2, t[k])
    <3>1. NotYet(b, C, t[k]) /\ t[k].op # "eval"
      BY <1>1 DEF Settled
    <3> QED
      BY <3>1, <1>3 DEF NotYet
  <2> QED
    BY <1>1, <2>2 DEF Settled
<1> QED
  BY <1>2, <1>5, <1>6, <1>7 DEF Hand, L, C2

\* No frame of t makes use of e.
Free(b, t, e) ==
  \A k \in 1 .. Len(t) :
    /\ t[k].op = "operand" =>
         \A j \in 1 .. Len(b.expr[t[k].at].sub) : b.expr[t[k].at].sub[j] # e
    /\ Waits(t[k]) => WaitsFor(b, t[k]) # e

\* e, a part of x if of anything, has been evaluated: Done(e) leads from the
\* points P to P2.
Finishes(b, C, P, P2, t, x, e) ==
  /\ e \in Exprs(b) /\ Done(e) \in C \cup P /\ Begin(e) \in C /\ Free(b, t, e)
  /\ \A y \in Exprs(b) : \A i \in 1 .. Len(b.expr[y].sub) : b.expr[y].sub[i] = e => y = x
  /\ \A k \in 1 .. Len(t) : t[k].i \in Nat /\ (t[k].op = "operand" => OperandOK(b, t[k]))
  /\ P \subseteq C \cup {Done(e)} \cup P2
  /\ Succ(b, Done(e)) \subseteq C \cup {Done(e)} \cup P2 \cup Skipped(b)
  /\ P2 \subseteq C \cup {Done(e)} \cup P \cup Succ(b, Done(e))
                \cup ListsDone(b, C \cup {Done(e)})

\* The evaluation of e has ended.
LEMMA HandDone ==
  ASSUME NEW b, Nice(b), NEW C, NEW P, NEW t, NEW o, NEW r, NEW x, Hand(b, C, P, t, o, r, x),
         NEW e, NEW P2, Finishes(b, C, P, P2, t, x, e)
  PROVE  Hand(b, C \cup {Done(e)}, P2, t, o, r, x)
<1> USE DEF Finishes
<1> DEFINE L  == Later(b, t, o, r)
           n  == Done(e)
           C2 == C \cup {n}
<1>1. Covers(b, C, P \cup L) /\ Listed(b, C, P \cup L, t, x) /\ Begun(b, C) /\ Settled(b, C, t)
  BY DEF Hand
<1> HIDE DEF L
<1>2. Covers(b, C2, P2 \cup L)
  <2> DEFINE O == P \cup L
             O2 == P2 \cup L
  <2>1. /\ Covers(b, C, O) /\ n \in C \cup O
        /\ O \subseteq C \cup {n} \cup O2 \cup Skipped(b)
        /\ Succ(b, n) \subseteq C \cup {n} \cup O2 \cup Skipped(b)
        /\ O2 \subseteq C \cup {n} \cup O \cup Succ(b, n) \cup ListsDone(b, C \cup {n})
        /\ In(1) \notin Skipped(b)
    BY <1>1, InNotSkipped
  <2> HIDE DEF O, O2, n
  <2> QED
    BY <2>1, Discharge DEF O2
<1>3. \A y : /\ Done(y) \in C2 <=> Done(y) \in C \/ y = e
             /\ Begin(y) \in C2 <=> Begin(y) \in C
             /\ Test(y) \in C2 <=> Test(y) \in C
  BY DEF Begin, Done, Test
<1>4. P \cup L \subseteq C2 \cup P2 \cup L /\ C \subseteq C2
  OBVIOUS
<1> HIDE DEF C2
<1>5. Listed(b, C2, P2 \cup L, t, x)
  <2> SUFFICES ASSUME NEW y \in Exprs(b), b.expr[y].kind = "list", y # x, Begin(y) \in C2,
                      \A i \in DOMAIN b.expr[y].sub : Done(b.expr[y].sub[i]) \in C2
               PROVE  \/ Done(y) \in C2 \cup P2 \cup L
                      \/ \E k \in 1 .. Len(t) : t[k].op = "operand" /\ t[k].at = y
    BY DEF Listed
  <2>1. b.expr[y].sub \in Seq(Exprs(b))
    BY DEF Nice, BodyOK, ExpressionOK
  <2>2. DOMAIN b.expr[y].sub = 1 .. Len(b.expr[y].sub)
    BY <2>1
  <2>3. Begin(y) \in C /\ \A i \in DOMAIN b.expr[y].sub : Done(b.expr[y].sub[i]) \in C
    BY <1>3, <2>2
  <2>4. \/ Done(y) \in C \cup P \cup L
        \/ \E k \in 1 .. Len(t) : t[k].op = "operand" /\ t[k].at = y
    BY <1>1, <2>3 DEF Listed
  <2> QED
    BY <2>4, <1>4
<1>6. Begun(b, C2)
  BY <1>1, <1>3 DEF Begun, Started
<1>7. Settled(b, C2, t)
  <2>2. ASSUME NEW k \in 1 .. Len(t) PROVE NotYet(b, C2, t[k])
    <3>1. NotYet(b, C, t[k]) /\ t[k].op # "eval"
      BY <1>1 DEF Settled
    <3>2. Waits(t[k]) => Done(WaitsFor(b, t[k])) \notin C2
      BY <3>1, <1>3 DEF NotYet, Free
    <3> DEFINE sub == b.expr[t[k].at].sub
    <3>3. t[k].op = "operand" => \A j \in 1 .. t[k].i - 1 : Done(sub[j]) \in C2 <=> Done(sub[j]) \in C
      BY <1>3 DEF Free, OperandOK
    <3> QED
      BY <3>1, <3>2, <3>3, <1>3 DEF NotYet
  <2> QED
    BY <1>1, <2>2 DEF Settled
<1> QED
  BY <1>2, <1>5, <1>6, <1>7 DEF Hand, L, C2

-----------------------------------------------------------------------------
(***************************************************************************)
(* What is put on the stack in the end.                                    *)
(***************************************************************************)
LEMMA Below ==
  ASSUME NEW b, NEW st, NEW q, NEW r, AllOK(b, st, q, r), st # <<>>,
         NEW h, h = Head(st), NEW t, t = Tail(st)
  PROVE  /\ h \in Fr /\ t \in Seq(Fr) /\ st \in Seq(Fr) /\ Good(b, h)
         /\ \A k \in 1 .. Len(t) : t[k] \in Fr /\ Good(b, t[k])
         /\ t = <<>> => Outermost(b, h)
         /\ ~Produces(h) =>
              /\ t # <<>> => ~Waits(Head(t)) /\ Own(b, Head(t)) = Own(b, h)
              /\ t = <<>> => ~r
         /\ Produces(h) =>
              /\ t # <<>> /\ Waits(Head(t)) /\ WaitsFor(b, Head(t)) = h.at
              /\ Own(b, Head(t)) = Outer(b, h)
<1>1. /\ StackOK(b, t) /\ Good(b, h) /\ StackOK(b, st)
      /\ t # <<>> => Link(b, h, Head(t))
  BY PopOK DEF AllOK
<1>2. h \in Fr /\ t \in Seq(Fr) /\ st \in Seq(Fr)
  BY <1>1 DEF StackOK
<1>3. t = <<>> => Outermost(b, h)
  <2> SUFFICES ASSUME t = <<>> PROVE Outermost(b, h)
    OBVIOUS
  <2>1. st \in Seq(Fr) /\ Len(st) \in Nat /\ Len(st) > 0 /\ Head(st) = st[1]
    BY <1>2
  <2>2. Len(Tail(st)) = Len(st) - 1
    BY <2>1
  <2>3. Tail(st) = <<>> /\ Len(<<>>) = 0
    OBVIOUS
  <2>4. Len(st) = 1
    BY <2>1, <2>2, <2>3
  <2> QED
    BY <1>1, <2>1, <2>4 DEF StackOK
<1>4. \A k \in 1 .. Len(t) : t[k] \in Fr /\ Good(b, t[k])
  BY <1>1, <1>2 DEF StackOK
<1>5. ~Produces(h) => Outer(b, h) = Own(b, h)
  BY DEF Produces, Outer
<1>6. r => Own(b, h) # Null
  BY DEF AllOK, EndOK
<1>7. ~Produces(h) /\ t = <<>> => ~r
  BY <1>3, <1>5, <1>6 DEF Outermost
<1>8. ~Produces(h) /\ t # <<>> => ~Waits(Head(t)) /\ Own(b, Head(t)) = Own(b, h)
  BY <1>1, <1>5 DEF Link
<1>9. Produces(h) => /\ t # <<>> /\ Waits(Head(t)) /\ WaitsFor(b, Head(t)) = h.at
                     /\ Own(b, Head(t)) = Outer(b, h)
  BY <1>1, <1>3 DEF Link, Outermost
<1> QED
  BY <1>1, <1>2, <1>3, <1>4, <1>7, <1>8, <1>9

\* A call that returns no value is over.
LEMMA GivePop ==
  ASSUME NEW b, NEW st, NEW q, NEW r, AllOK(b, st, q, r), st # <<>>, ~Produces(Head(st)),
         NEW C, Hand(b, C, {}, Tail(st), Own(b, Head(st)), r, Null), NEW m, Known(b, C, m)
  PROVE  Cov(b, C, Tail(st), q, r, m)
<1> DEFINE t == Tail(st)
           o == Own(b, Head(st))
<1>1. /\ t \in Seq(Fr)
      /\ t # <<>> => ~Waits(Head(t)) /\ Own(b, Head(t)) = o
      /\ t = <<>> => ~r
  BY Below
<1>2. HeadOK(b, C, t, q)
  BY <1>1 DEF HeadOK
<1>3. /\ t = <<>> => {} \cup AtEnd(o, r) = {}
      /\ t # <<>> => {} \cup AtEnd(o, r) = Value(b, Head(t), q) \cup AtEnd(Own(b, Head(t)), r)
  BY <1>1 DEF AtEnd, Value
<1> HIDE DEF t, o
<1> QED
  BY <1>1, <1>2, <1>3, GiveNone DEF t, o

\* An expression has been evaluated, and returns if q2.
LEMMA GiveValue ==
  ASSUME NEW b, NEW st, NEW q, NEW r, AllOK(b, st, q, r), st # <<>>,
         Head(st).op \in {"eval", "operand"}, NEW e, e = Head(st).at,
         NEW C, NEW q2, NEW P, P = (IF q2 THEN {Done(e)} ELSE {}),
         Hand(b, C, P, Tail(st), Own(b, Head(st)), r, Null), NEW m, Known(b, C, m),
         Begin(e) \in C, b.expr[e].kind = "value" => q2
  PROVE  Cov(b, C, Tail(st), q2, r, m)
<1> DEFINE t == Tail(st)
           o == Own(b, Head(st))
<1>1. Produces(Head(st)) /\ Outer(b, Head(st)) = o
  BY DEF Produces, Outer
<1>2. /\ t \in Seq(Fr) /\ t # <<>> /\ Waits(Head(t)) /\ WaitsFor(b, Head(t)) = e
      /\ Own(b, Head(t)) = o
  BY <1>1, Below
<1>3. HeadOK(b, C, t, q2)
  BY <1>2 DEF HeadOK
<1>4. P \cup AtEnd(o, r) = Value(b, Head(t), q2) \cup AtEnd(Own(b, Head(t)), r)
  BY <1>2 DEF AtEnd, Value
<1> HIDE DEF t, o
<1> QED
  BY <1>2, <1>3, <1>4, GiveNone DEF t, o

LEMMA PlainFrame ==
  ASSUME NEW b, BodyOK(b), NEW op \in PlainOps, NEW s \in Stmts(b)
  PROVE  LET f == Frame(op, s) IN
         /\ f \in Fr /\ f.op = op /\ f.at = s /\ ~Waits(f) /\ f.op # "eval"
         /\ Own(b, f) = b.owner.stmt[s]
         /\ Owe(b, f) = { Point(b, op, s) }
         /\ \A C : NotYet(b, C, f)
         /\ \A g : Apart(f, g)
<1>1. s \in Nat
  BY DEF BodyOK
<1> DEFINE f == [op |-> op, at |-> s, i |-> 0, flag |-> FALSE]
<1>2. Frame(op, s) = f /\ f.op = op /\ f.at = s /\ f.i = 0 /\ f.flag = FALSE
  BY DEF Frame, Pending
<1>3. f \in Fr
  BY <1>1 DEF Fr, FrameOps, PlainOps
<1> HIDE DEF f
<1>4. ~Waits(f) /\ f.op \notin {"eval", "operand", "decide", "close"}
  BY <1>2 DEF PlainOps, Waits
<1>5. Own(b, f) = b.owner.stmt[s]
  BY <1>2, <1>4 DEF Own, Produces
<1>6. Owe(b, f) = { Point(b, op, s) }
  <2>1. f.op \notin {"decide", "cases", "eval", "operand", "close"} /\ f.op \in PlainOps
    BY <1>2 DEF PlainOps
  <2> QED
    BY <1>2, <2>1 DEF Owe
<1>7. \A C : NotYet(b, C, f)
  BY <1>4 DEF NotYet
<1>8. \A g : Apart(f, g)
  BY <1>4 DEF Apart
<1> QED
  BY <1>2, <1>3, <1>4, <1>5, <1>6, <1>7, <1>8

\* The call goes on with another statement.
LEMMA GivePlain ==
  ASSUME NEW b, BodyOK(b), NEW t \in Seq(Fr), NEW s,
         NEW op \in PlainOps, NEW u \in Stmts(b), b.owner.stmt[u] = b.owner.stmt[s],
         NEW C, NEW P, NEW q, NEW r, P = { Point(b, op, u) },
         Hand(b, C, P, t, b.owner.stmt[s], r, Null), NEW m, Known(b, C, m)
  PROVE  Cov(b, C, <<Frame(op, u)>> \o t, q, r, m)
<1> DEFINE f == Frame(op, u)
<1>1. /\ f \in Fr /\ ~Waits(f) /\ Own(b, f) = b.owner.stmt[u]
      /\ Owe(b, f) = { Point(b, op, u) } /\ NotYet(b, C, f)
  BY PlainFrame
<1> HIDE DEF f
<1> QED
  BY <1>1, GiveOne DEF f

\* It calls itself for u before it goes on with v.
LEMMA GivePlainTwo ==
  ASSUME NEW b, BodyOK(b), NEW t \in Seq(Fr), NEW s,
         NEW op \in PlainOps, NEW u \in Stmts(b), b.owner.stmt[u] = b.owner.stmt[s],
         NEW op2 \in PlainOps, NEW v \in Stmts(b),
         NEW C, NEW P, NEW q, NEW r, P = { Point(b, op, u), Point(b, op2, v) },
         Hand(b, C, P, t, b.owner.stmt[s], r, Null), NEW m, Known(b, C, m)
  PROVE  Cov(b, C, <<Frame(op, u), Frame(op2, v)>> \o t, q, r, m)
<1> DEFINE f == Frame(op, u)
           g == Frame(op2, v)
<1>1. /\ f \in Fr /\ ~Waits(f) /\ Own(b, f) = b.owner.stmt[u]
      /\ Owe(b, f) = { Point(b, op, u) } /\ NotYet(b, C, f)
  BY PlainFrame
<1>2. /\ g \in Fr /\ g.op # "eval" /\ NotYet(b, C, g)
      /\ Owe(b, g) = { Point(b, op2, v) } /\ \A h : Apart(g, h)
  BY PlainFrame
<1> HIDE DEF f, g
<1>3. AllApart(g, t)
  BY <1>2 DEF AllApart
<1>4. P \cup AtEnd(b.owner.stmt[s], r) = Owe(b, f) \cup Owe(b, g) \cup AtEnd(Own(b, f), r)
  BY <1>1, <1>2
<1>5. Cov(b, C, <<f, g>> \o t, q, r, m)
  BY <1>1, <1>2, <1>3, <1>4, GiveTwo
<1> QED
  BY <1>5 DEF f, g

\* Evaluate(s): the expression of s, if it has one, is about to be evaluated.
LEMMA GiveEvaluate ==
  ASSUME NEW b, Nice(b), NEW t \in Seq(Fr), NEW s \in Stmts(b), NEW o, o = b.owner.stmt[s],
         NEW C, NEW r, Hand(b, C, {Test(s)}, t, o, r, Null),
         \A k \in 1 .. Len(t) : Good(b, t[k]),
         Test(s) \notin C, NEW q, NEW m, Known(b, C \cup {Test(s)}, m)
  PROVE  /\ b.stmt[s].expr = Null =>
              Cov(b, C \cup {Test(s)}, <<Pending("decide", s, 0, TRUE)>> \o t, q, r, m)
         /\ b.stmt[s].expr # Null =>
              Cov(b, C \cup {Test(s)},
                  <<Frame("eval", b.stmt[s].expr), Frame("decide", s)>> \o t, q, r, m)
<1> DEFINE n  == Test(s)
           C2 == C \cup {n}
           e  == b.stmt[s].expr
           P2 == { IF e = Null THEN Took(s) ELSE Begin(e) }
<1>1. Succ(b, n) = P2 /\ OfStatement(n)
  BY DEF Succ, Test, AfterTest, OfStatement, Begin, Done
<1> HIDE DEF n, P2
<1>2. Hand(b, C2, P2, t, o, r, Null)
  BY <1>1, HandPoint DEF n
<1>3. n \in C2 /\ n \notin C /\ s \in Nat
  BY DEF n, Nice, BodyOK
<1>4. CASE e = Null
  <2> DEFINE f == [op |-> "decide", at |-> s, i |-> 0, flag |-> TRUE]
  <2>1. Pending("decide", s, 0, TRUE) = f /\ f.op = "decide" /\ f.at = s /\ f.flag = TRUE
    BY DEF Pending
  <2>2. f \in Fr
    BY <1>3 DEF Fr, FrameOps
  <2> HIDE DEF f
  <2>3. ~Waits(f) /\ ~Produces(f)
    BY <2>1 DEF Waits, Produces
  <2>4. NotYet(b, C2, f)
    BY <1>3, <2>1, <2>3 DEF NotYet, n
  <2>5. Own(b, f) = o
    BY <2>1, <2>3 DEF Own
  <2>6. P2 = Owe(b, f)
    BY <1>4, <2>1 DEF P2, Owe, PlainOps
  <2> HIDE DEF C2
  <2>7. Cov(b, C2, <<f>> \o t, q, r, m)
    BY <1>2, <2>2, <2>3, <2>4, <2>5, <2>6, GiveOne DEF C2, n
  <2> QED
    BY <1>4, <2>1, <2>7 DEF C2, n
<1>5. CASE e # Null
  <2> DEFINE f == [op |-> "eval", at |-> e, i |-> 0, flag |-> FALSE]
             g == [op |-> "decide", at |-> s, i |-> 0, flag |-> FALSE]
  <2>1. /\ Frame("eval", e) = f /\ f.op = "eval" /\ f.at = e
        /\ Frame("decide", s) = g /\ g.op = "decide" /\ g.at = s /\ g.flag = FALSE
    BY DEF Frame, Pending
  <2>2. e \in Exprs(b) /\ e \in Nat
    BY <1>5 DEF Nice, BodyOK, StatementOK
  <2>3. f \in Fr /\ g \in Fr
    BY <1>3, <2>2 DEF Fr, FrameOps
  <2>4. o = b.owner.expr[e]
    BY <1>5 DEF Nice, Regular, Confined
  <2> HIDE DEF f, g
  <2>5. ~Waits(f) /\ Produces(f) /\ Waits(g) /\ WaitsFor(b, g) = e
    BY <2>1 DEF Waits, Produces, WaitsFor
  <2>6. Begin(e) \notin C2 /\ Done(e) \notin C2
    <3>1. Begun(b, C)
      BY DEF Hand
    <3>2. Begin(e) \notin C /\ Done(e) \notin C
      BY <1>3, <2>2, <3>1 DEF Begun, Started, n
    <3> QED
      BY <1>1, <3>2 DEF OfStatement
  <2>7. NotYet(b, C2, f) /\ NotYet(b, C2, g)
    BY <1>3, <2>1, <2>5, <2>6 DEF NotYet, n
  <2>8. AllApart(g, t)
    <3> SUFFICES ASSUME NEW k \in 1 .. Len(t), t[k].op = "decide", t[k].at = s PROVE FALSE
      BY <2>1 DEF AllApart, Apart
    <3>1. NotYet(b, C, t[k])
      BY DEF Hand, Settled
    <3> QED
      BY <1>3, <3>1 DEF NotYet, n
  <2>9. Own(b, f) = o
    BY <2>1, <2>4, <2>5 DEF Own
  <2>10. Owe(b, f) = P2 /\ Owe(b, g) = {}
    BY <1>5, <2>1 DEF P2, Owe, PlainOps
  <2>11. P2 \cup AtEnd(o, r) = Owe(b, f) \cup Owe(b, g) \cup AtEnd(Own(b, f), r)
    BY <2>9, <2>10
  <2> HIDE DEF C2
  <2>12. Cov(b, C2, <<f, g>> \o t, q, r, m)
    BY <1>2, <2>1, <2>3, <2>5, <2>7, <2>8, <2>11, GiveTwo DEF C2, n
  <2> QED
    BY <1>5, <2>1, <2>12 DEF C2, n
<1> QED
  BY <1>4, <1>5

-----------------------------------------------------------------------------
(***************************************************************************)
(* How the marks keep up with C.                                           *)
(***************************************************************************)
LEMMA KnownQuiet ==
  ASSUME NEW b, NEW C, NEW m, Known(b, C, m), NEW n,
         \A s : n # In(s) /\ n # Test(s) /\ n # StepOf(s),
         n # FallOff, n # Exit
  PROVE  Known(b, C \cup {n}, m)
BY DEF Known

LEMMA KnownIn ==
  ASSUME NEW b, NEW C, NEW m, Known(b, C, m), NEW s \in Stmts(b), NEW m2,
         m2.cr = m.cr, m2.sr = m.sr, m2.ew = m.ew, m2.nc = m.nc,
         \/ m2.re = m.re \cup {s} /\ b.stmt[s].kind \notin {"while", "do"}
         \/ m2.re = m.re /\ (b.stmt[s].kind = "do" \/ s \in m.re)
  PROVE  Known(b, C \cup {In(s)}, m2)
<1> DEFINE C2 == C \cup {In(s)}
<1>1. /\ \A u : In(u) \in C2 <=> In(u) \in C \/ u = s
      /\ \A u : Test(u) \in C2 <=> Test(u) \in C
      /\ \A u : StepOf(u) \in C2 <=> StepOf(u) \in C
      /\ FallOff \in C2 <=> FallOff \in C
      /\ Exit \in C2 <=> Exit \in C
  BY DEF In, Test, StepOf, FallOff, Exit
<1> HIDE DEF C2
<1> QED
  BY <1>1 DEF Known, C2

LEMMA KnownInTest ==
  ASSUME NEW b, NEW C, NEW m, Known(b, C, m), NEW s \in Stmts(b), NEW m2,
         m2.cr = m.cr, m2.sr = m.sr, m2.ew = m.ew, m2.nc = m.nc,
         m2.re = m.re \cup {s}, b.stmt[s].kind # "for"
  PROVE  Known(b, (C \cup {In(s)}) \cup {Test(s)}, m2)
<1> DEFINE C2 == (C \cup {In(s)}) \cup {Test(s)}
<1>1. /\ \A u : In(u) \in C2 <=> In(u) \in C \/ u = s
      /\ \A u : Test(u) \in C2 <=> Test(u) \in C \/ u = s
      /\ \A u : StepOf(u) \in C2 <=> StepOf(u) \in C
      /\ FallOff \in C2 <=> FallOff \in C
      /\ Exit \in C2 <=> Exit \in C
  BY DEF In, Test, StepOf, FallOff, Exit
<1> HIDE DEF C2
<1> QED
  BY <1>1 DEF Known, C2

LEMMA KnownTest ==
  ASSUME NEW b, NEW C, NEW m, Known(b, C, m), NEW s \in Stmts(b), NEW m2,
         m2.sr = m.sr, m2.ew = m.ew, m2.nc = m.nc,
         \/ m2.re = m.re \cup {s} /\ b.stmt[s].kind \in {"while", "do"} /\ m2.cr = m.cr
         \/ m2.cr = m.cr \cup {s} /\ b.stmt[s].kind = "for" /\ m2.re = m.re
  PROVE  Known(b, C \cup {Test(s)}, m2)
<1> DEFINE C2 == C \cup {Test(s)}
<1>1. /\ \A u : In(u) \in C2 <=> In(u) \in C
      /\ \A u : Test(u) \in C2 <=> Test(u) \in C \/ u = s
      /\ \A u : StepOf(u) \in C2 <=> StepOf(u) \in C
      /\ FallOff \in C2 <=> FallOff \in C
      /\ Exit \in C2 <=> Exit \in C
  BY DEF In, Test, StepOf, FallOff, Exit
<1> HIDE DEF C2
<1> QED
  BY <1>1 DEF Known, C2

LEMMA KnownStep ==
  ASSUME NEW b, NEW C, NEW m, Known(b, C, m), NEW s \in Stmts(b), NEW m2,
         m2.re = m.re, m2.cr = m.cr, m2.ew = m.ew, m2.nc = m.nc,
         m2.sr = m.sr \cup {s}
  PROVE  Known(b, C \cup {StepOf(s)}, m2)
<1> DEFINE C2 == C \cup {StepOf(s)}
<1>1. /\ \A u : In(u) \in C2 <=> In(u) \in C
      /\ \A u : Test(u) \in C2 <=> Test(u) \in C
      /\ \A u : StepOf(u) \in C2 <=> StepOf(u) \in C \/ u = s
      /\ FallOff \in C2 <=> FallOff \in C
      /\ Exit \in C2 <=> Exit \in C
  BY DEF In, Test, StepOf, FallOff, Exit
<1> HIDE DEF C2
<1> QED
  BY <1>1 DEF Known, C2

LEMMA KnownLeft ==
  ASSUME NEW b, NEW C, NEW m, Known(b, C, m), NEW m2, NEW n,
         m2.re = m.re, m2.cr = m.cr, m2.sr = m.sr,
         m2.nc = FALSE,
         \/ n = Exit /\ m2.ew = m.ew
         \/ n = FallOff /\ m2.ew = TRUE
  PROVE  Known(b, C \cup {n}, m2)
<1> DEFINE C2 == C \cup {n}
<1>1. /\ \A u : In(u) \in C2 <=> In(u) \in C
      /\ \A u : Test(u) \in C2 <=> Test(u) \in C
      /\ \A u : StepOf(u) \in C2 <=> StepOf(u) \in C
      /\ n = Exit => (FallOff \in C2 <=> FallOff \in C)
  BY DEF In, Test, StepOf, FallOff, Exit
<1> HIDE DEF C2
<1> QED
  BY <1>1 DEF Known, C2

-----------------------------------------------------------------------------
(***************************************************************************)
(* One step of the marking.                                                *)
(***************************************************************************)
\* b.live holds nothing that cannot be executed: b.live is the least closed
\* set, and can be had for every body.
Least(b) == \A Y : Closed(b, Y) => b.live \subseteq Y

ExactBodies == \A k \in DOMAIN Bodies : Exact(Bodies[k]) /\ Least(Bodies[k])

LEMMA AtTop ==
  ASSUME RegularBodies, ExactBodies, CInv, NEW ops, At(ops), ops \cap WalkOps = {},
         NEW s, s = Top.at
  PROVE  /\ Here(s) /\ Nice(body) /\ warnings = {} /\ phase = "mark"
         /\ stack \in Seq(Fr) /\ Tail(stack) \in Seq(Fr)
         /\ \A k \in 1 .. Len(Tail(stack)) : Tail(stack)[k] \in Fr /\ Good(body, Tail(stack)[k])
         /\ \E C : Cov(body, C, stack, ret, reaches_end, Marked)
<1>1. Here(s)
  BY HereLemma DEF CInv
<1>2. Nice(body) /\ phase = "mark"
  BY <1>1 DEF Here, Nice, ExactBodies, body
<1>3. warnings = {} /\ \E C : Cov(body, C, stack, ret, reaches_end, Marked)
  BY <1>2 DEF CInv
<1>4. /\ stack \in Seq(Fr) /\ Tail(stack) \in Seq(Fr)
      /\ \A k \in 1 .. Len(Tail(stack)) : Tail(stack)[k] \in Fr /\ Good(body, Tail(stack)[k])
  BY <1>1, Below DEF Here
<1> QED
  BY <1>1, <1>2, <1>3, <1>4

LEMMA AtPlain ==
  ASSUME RegularBodies, ExactBodies, CInv, NEW ops, At(ops), ops \subseteq PlainOps,
         NEW s, s = Top.at
  PROVE  /\ Here(s) /\ Nice(body) /\ warnings = {} /\ phase = "mark"
         /\ ~Produces(Top) /\ s \in Stmts(body) /\ StatementOK(body, s) /\ BodyOK(body)
         /\ Own(body, Top) = body.owner.stmt[s]
         /\ Tail(stack) \in Seq(Fr)
         /\ \A k \in 1 .. Len(Tail(stack)) : Good(body, Tail(stack)[k])
         /\ \E C : /\ Hand(body, C, {Point(body, Top.op, s)}, Tail(stack), body.owner.stmt[s],
                           reaches_end, Null)
                   /\ Known(body, C, Marked)
<1>1. ops \cap WalkOps = {}
  BY DEF PlainOps, WalkOps
<1>2. /\ Here(s) /\ Nice(body) /\ warnings = {} /\ phase = "mark"
      /\ stack \in Seq(Fr) /\ Tail(stack) \in Seq(Fr)
      /\ \A k \in 1 .. Len(Tail(stack)) : Tail(stack)[k] \in Fr /\ Good(body, Tail(stack)[k])
      /\ \E C : Cov(body, C, stack, ret, reaches_end, Marked)
  BY <1>1, AtTop
<1>3. stack # <<>> /\ Top.op \in PlainOps
  BY DEF At
<1>4. ~Produces(Top) /\ ~Waits(Top) /\ Top.op \notin {"decide", "cases", "eval", "operand", "close"}
  BY <1>3 DEF PlainOps, Produces, Waits
<1>5. s \in Stmts(body) /\ StatementOK(body, s)
  BY <1>2, <1>4, AtStatement
<1>6. Own(body, Top) = body.owner.stmt[s]
  BY <1>4 DEF Own
<1>7. Owe(body, Top) = {Point(body, Top.op, s)} /\ Value(body, Top, ret) = {}
  BY <1>3, <1>4 DEF Owe, Value
<1>8. PICK C : Cov(body, C, stack, ret, reaches_end, Marked)
  BY <1>2
<1>9. BodyOK(body)
  BY <1>2 DEF Nice
<1>10. Hand(body, C, Owe(body, Top) \cup Value(body, Top, ret), Tail(stack), Own(body, Top),
           reaches_end, Null)
  BY <1>2, <1>3, <1>4, <1>8, <1>9, Take DEF Top
<1>11. Owe(body, Top) \cup Value(body, Top, ret) = {Point(body, Top.op, s)}
  BY <1>7
<1>12. Known(body, C, Marked)
  BY <1>8 DEF Cov
<1> QED
  BY <1>2, <1>4, <1>5, <1>6, <1>9, <1>10, <1>11, <1>12

LEMMA CStep ==
  ASSUME IInv', phase' = "mark", fn' = fn, warnings' = {},
         NEW C, Cov(body, C, stack', ret', reaches_end', Marked')
  PROVE  CInv'
<1>1. body' = body
  BY DEF body
<1>2. WarnedIsUnreachable'
  BY DEF WarnedIsUnreachable
<1> QED
  BY <1>1, <1>2 DEF CInv

\* OnlyStack and the three ways to go on.
LEMMA CQuiet ==
  ASSUME IInv', phase = "mark", warnings = {}, OnlyStack,
         NEW C, Cov(body, C, stack', ret, reaches_end, Marked)
  PROVE  CInv'
<1>1. /\ phase' = "mark" /\ fn' = fn /\ warnings' = {} /\ ret' = ret
      /\ reaches_end' = reaches_end /\ Marked' = Marked
  BY DEF OnlyStack, Marked, marks, facts
<1> QED
  BY <1>1, CStep

LEMMA CPop ==
  ASSUME NEW s, Here(s), ~Produces(Top), Own(body, Top) = body.owner.stmt[s], Return,
         NEW C, Hand(body, C, {}, Tail(stack), body.owner.stmt[s], reaches_end, Null),
         NEW m, Known(body, C, m)
  PROVE  Cov(body, C, stack', ret, reaches_end, m)
BY GivePop DEF Here, Return, Top

LEMMA CGo ==
  ASSUME BodyOK(body), Tail(stack) \in Seq(Fr), NEW s,
         NEW op \in PlainOps, NEW u \in Stmts(body), Continue(Frame(op, u)),
         body.owner.stmt[u] = body.owner.stmt[s],
         NEW C, Hand(body, C, {Point(body, op, u)}, Tail(stack), body.owner.stmt[s],
                     reaches_end, Null),
         NEW m, Known(body, C, m)
  PROVE  Cov(body, C, stack', ret, reaches_end, m)
BY GivePlain DEF Continue

\* Facts about where control goes from s.
LEMMA SuccIn ==
  ASSUME NEW b, NEW s
  PROVE  /\ Succ(b, In(s)) = AfterIn(b, s) /\ OfStatement(In(s))
         /\ Succ(b, Test(s)) = AfterTest(b, s) /\ OfStatement(Test(s))
         /\ Succ(b, Took(s)) = AfterTook(b, s) /\ OfStatement(Took(s))
         /\ Succ(b, End(s)) = AfterEnd(b, s) /\ OfStatement(End(s))
         /\ Succ(b, StepOf(s)) = {Test(s)} \cup Begins({b.stmt[s].step}) /\ OfStatement(StepOf(s))
         /\ \A k \in {"break", "continue", "leave"} :
              Succ(b, Up(s, k)) = AfterUp(b, s, k) /\ OfStatement(Up(s, k))
         /\ Succ(b, Exit) = {} /\ OfStatement(Exit)
         /\ Succ(b, FallOff) = {} /\ OfStatement(FallOff)
<1>1. Succ(b, In(s)) = AfterIn(b, s) /\ OfStatement(In(s))
  BY DEF Succ, In, OfStatement, Begin, Done
<1>2. Succ(b, Test(s)) = AfterTest(b, s) /\ OfStatement(Test(s))
  BY DEF Succ, Test, OfStatement, Begin, Done
<1>3. Succ(b, Took(s)) = AfterTook(b, s) /\ OfStatement(Took(s))
  BY DEF Succ, Took, OfStatement, Begin, Done
<1>4. Succ(b, End(s)) = AfterEnd(b, s) /\ OfStatement(End(s))
  BY DEF Succ, End, OfStatement, Begin, Done
<1>5. Succ(b, StepOf(s)) = {Test(s)} \cup Begins({b.stmt[s].step}) /\ OfStatement(StepOf(s))
  BY DEF Succ, StepOf, OfStatement, Begin, Done
<1>6. \A k \in {"break", "continue", "leave"} :
        Succ(b, Up(s, k)) = AfterUp(b, s, k) /\ OfStatement(Up(s, k))
  BY DEF Succ, Up, OfStatement, Begin, Done
<1>7. Succ(b, Exit) = {} /\ OfStatement(Exit)
  BY DEF Succ, Exit, OfStatement, Begin, Done
<1>8. Succ(b, FallOff) = {} /\ OfStatement(FallOff)
  BY DEF Succ, FallOff, OfStatement, Begin, Done
<1> QED
  BY <1>1, <1>2, <1>3, <1>4, <1>5, <1>6, <1>7, <1>8

LEMMA ClausesSkipped ==
  ASSUME NEW b, NEW s \in Stmts(b)
  PROVE  Begins({b.stmt[s].init}) \cup Begins({b.stmt[s].step}) \subseteq Skipped(b)
<1> DEFINE i == b.stmt[s].init
           e == b.stmt[s].step
<1>1. \A q \in {i, e} \ {Null} : q \in Clauses(b)
  BY DEF Clauses
<1>2. \A q \in Clauses(b) : Begin(q) \in Skipped(b)
  BY DEF Skipped
<1> HIDE DEF i, e
<1>3. Begins({i}) \cup Begins({e}) \subseteq Skipped(b)
  BY <1>1, <1>2 DEF Begins
<1> QED
  BY <1>3 DEF i, e

LEMMA OneWay ==
  ASSUME NEW b, BodyOK(b), NEW s \in Stmts(b)
  PROVE  LET kind == b.stmt[s].kind IN
         /\ kind = "simple" => AfterIn(b, s) = { End(s) }
         /\ kind \in Evaluating => AfterIn(b, s) = { Test(s) }
         /\ kind = "for" => AfterIn(b, s) = { Test(s) } \cup Begins({b.stmt[s].init})
         /\ kind \in {"label", "case", "do"} => AfterIn(b, s) = { In(b.stmt[s].body) }
         /\ kind = "compound" => AfterIn(b, s) =
              IF b.stmt[s].body = Null THEN Completed(b, s) ELSE { In(b.stmt[s].body) }
         /\ kind = "goto" => AfterIn(b, s) = { In(t) : t \in {b.stmt[s].target} \ {Null} }
         /\ kind = "try" => AfterIn(b, s) = { In(b.stmt[s].body), In(b.stmt[s].other) }
         /\ kind \in {"break", "continue", "leave"} => AfterIn(b, s) = { Up(s, kind) }
<1> DEFINE kind == b.stmt[s].kind
<1>1. kind = "simple" => AfterIn(b, s) = { End(s) }
  BY DEF AfterIn, Evaluating
<1>2. kind \in Evaluating => AfterIn(b, s) = { Test(s) }
  BY DEF AfterIn, Evaluating
<1>3. kind = "for" => AfterIn(b, s) = { Test(s) } \cup Begins({b.stmt[s].init})
  BY DEF AfterIn, Evaluating
<1>4. kind \in {"label", "case", "do"} => AfterIn(b, s) = { In(b.stmt[s].body) }
  BY DEF AfterIn, Evaluating
<1>5. kind = "compound" => AfterIn(b, s) =
              IF b.stmt[s].body = Null THEN Completed(b, s) ELSE { In(b.stmt[s].body) }
  BY DEF AfterIn, Evaluating
<1>6. kind = "goto" => AfterIn(b, s) = { In(t) : t \in {b.stmt[s].target} \ {Null} }
  BY DEF AfterIn, Evaluating
<1>7. kind = "try" => AfterIn(b, s) = { In(b.stmt[s].body), In(b.stmt[s].other) }
  BY DEF AfterIn, Evaluating
<1>8. kind \in {"break", "continue", "leave"} => AfterIn(b, s) = { Up(s, kind) }
  BY DEF AfterIn, Evaluating
<1> QED
  BY <1>1, <1>2, <1>3, <1>4, <1>5, <1>6, <1>7, <1>8

LEMMA CVisitAgain ==
  ASSUME RegularBodies, ExactBodies, CInv, IInv', VisitAgain
  PROVE  CInv'
<1> DEFINE s == Top.at
           t == Tail(stack)
           o == body.owner.stmt[s]
<1>1. /\ Here(s) /\ Nice(body) /\ warnings = {} /\ phase = "mark"
      /\ ~Produces(Top) /\ s \in Stmts(body) /\ StatementOK(body, s) /\ BodyOK(body)
      /\ Own(body, Top) = o
      /\ \E C : Hand(body, C, {Point(body, Top.op, s)}, t, o, reaches_end, Null)
                /\ Known(body, C, Marked)
  BY AtPlain DEF VisitAgain, PlainOps
<1>2. s \in reachable /\ Return /\ OnlyStack /\ Top.op = "visit"
  BY DEF VisitAgain, At
<1>3. PICK C : /\ Hand(body, C, {Point(body, Top.op, s)}, t, o, reaches_end, Null)
               /\ Known(body, C, Marked)
  BY <1>1
<1>4. Hand(body, C, {In(s)}, t, o, reaches_end, Null)
  BY <1>2, <1>3 DEF Point
<1> HIDE DEF s, t, o
<1>5. CASE stmt[s].kind = "while"
  <2>1. Test(s) \in C
    BY <1>1, <1>2, <1>3, <1>5 DEF Known, Marked, stmt
  <2>2. Succ(body, In(s)) = {Test(s)} /\ OfStatement(In(s))
    <3>1. AfterIn(body, s) = {Test(s)}
      BY <1>1, <1>5, OneWay DEF Evaluating, stmt
    <3> QED
      BY <3>1, SuccIn
  <2>3. Hand(body, C \cup {In(s)}, {}, t, o, reaches_end, Null)
    BY <1>1, <1>4, <2>1, <2>2, HandPoint
  <2>4. Known(body, C \cup {In(s)}, Marked)
    BY <1>1, <1>2, <1>3, KnownIn DEF Marked
  <2>5. Cov(body, C \cup {In(s)}, stack', ret, reaches_end, Marked)
    BY <1>1, <1>2, <2>3, <2>4, CPop DEF t, o
  <2> QED
    BY <1>1, <1>2, <2>5, CQuiet
<1>6. CASE stmt[s].kind # "while"
  <2>1. In(s) \in C
    <3>1. CASE stmt[s].kind = "do"
      <4>1. Test(s) \in C
        BY <1>1, <1>2, <1>3, <3>1 DEF Known, Marked, stmt
      <4>2. s \in Tops(body)
        BY <1>1, <3>1 DEF Tops, stmt
      <4>3. Until(body, s, body.before[s]) /\ Test(s) \notin body.before[s]
        BY <1>1, <3>1, <4>2 DEF Nice, Exact, TopFirst, stmt
      <4>4. Covers(body, C, {In(s)} \cup Later(body, t, o, reaches_end))
        BY <1>4 DEF Hand
      <4> QED
        BY <4>1, <4>3, <4>4, Passed
    <3>2. CASE stmt[s].kind # "do"
      BY <1>1, <1>2, <1>3, <1>6, <3>2 DEF Known, Marked, stmt
    <3> QED
      BY <3>1, <3>2
  <2>2. Hand(body, C, {}, t, o, reaches_end, Null)
    BY <1>1, <1>4, <2>1, HandSwap
  <2>3. Cov(body, C, stack', ret, reaches_end, Marked)
    BY <1>1, <1>2, <1>3, <2>2, CPop DEF t, o
  <2> QED
    BY <1>1, <1>2, <2>3, CQuiet
<1> QED
  BY <1>5, <1>6

LEMMA CVisitEvaluating ==
  ASSUME RegularBodies, ExactBodies, CInv, IInv', VisitEvaluating
  PROVE  CInv'
<1> DEFINE s == Top.at
           t == Tail(stack)
           o == body.owner.stmt[s]
<1>1. /\ Here(s) /\ Nice(body) /\ warnings = {} /\ phase = "mark"
      /\ s \in Stmts(body) /\ StatementOK(body, s) /\ BodyOK(body)
      /\ t \in Seq(Fr) /\ \A k \in 1 .. Len(t) : Good(body, t[k])
      /\ \E C : Hand(body, C, {Point(body, Top.op, s)}, t, o, reaches_end, Null)
                /\ Known(body, C, Marked)
  BY AtPlain DEF VisitEvaluating, PlainOps
<1>2. /\ s \notin reachable /\ Top.op = "visit" /\ stmt[s].kind \in Evaluating
      /\ MarkTop /\ Evaluate(s)
  BY DEF VisitEvaluating, At
<1>3. PICK C : /\ Hand(body, C, {Point(body, Top.op, s)}, t, o, reaches_end, Null)
               /\ Known(body, C, Marked)
  BY <1>1
<1>4. Hand(body, C, {In(s)}, t, o, reaches_end, Null)
  BY <1>2, <1>3 DEF Point
<1>5. /\ phase' = "mark" /\ fn' = fn /\ warnings' = {} /\ ret' = ret
      /\ reaches_end' = reaches_end
      /\ Marked'.re = Marked.re \cup {s} /\ Marked'.cr = Marked.cr /\ Marked'.sr = Marked.sr
      /\ Marked'.ew = Marked.ew /\ Marked'.nc = Marked.nc
  BY <1>1, <1>2 DEF MarkTop, Marked, facts
<1> HIDE DEF s, t, o
<1> DEFINE C1 == C \cup {In(s)}
           C2 == C1 \cup {Test(s)}
<1>6. Succ(body, In(s)) = {Test(s)} /\ OfStatement(In(s))
  <2>1. AfterIn(body, s) = {Test(s)}
    BY <1>1, <1>2, OneWay DEF stmt
  <2> QED
    BY <2>1, SuccIn
<1>7. Hand(body, C1, {Test(s)}, t, o, reaches_end, Null)
  BY <1>1, <1>4, <1>6, HandPoint
<1>8. Test(s) \notin C1
  BY <1>1, <1>2, <1>3 DEF Known, Marked, stmt, Evaluating, Test, In
<1>9. Known(body, C2, Marked')
  BY <1>1, <1>2, <1>3, <1>5, KnownInTest DEF stmt, Evaluating
<1> HIDE DEF C1
<1>10. /\ body.stmt[s].expr = Null =>
              Cov(body, C2, <<Pending("decide", s, 0, TRUE)>> \o t, ret', reaches_end, Marked')
       /\ body.stmt[s].expr # Null =>
              Cov(body, C2,
                  <<Frame("eval", body.stmt[s].expr), Frame("decide", s)>> \o t,
                  ret', reaches_end, Marked')
  BY <1>1, <1>7, <1>8, <1>9, GiveEvaluate DEF o
<1>11. Cov(body, C2, stack', ret', reaches_end', Marked')
  BY <1>2, <1>5, <1>10 DEF Evaluate, Continue, Call, stmt, t
<1> QED
  BY <1>5, <1>11, CStep

LEMMA OnwardPoint ==
  ASSUME BodyOK(body), NEW s \in Stmts(body),
         stmt[s].kind \notin Evaluating \cup {"do", "goto", "try"},
         IsStmtExpr(body, s) => stmt[s].body # Null
  PROVE  \E op \in PlainOps, u \in Stmts(body) :
           /\ Onward(s) = Frame(op, u) /\ u \in {s, stmt[s].body}
           /\ Point(body, op, u) \in AfterIn(body, s)
           /\ AfterIn(body, s) \subseteq {Point(body, op, u)} \cup Skipped(body)
<1> DEFINE kind == stmt[s].kind
           Way(op, u) == /\ op \in PlainOps /\ u \in Stmts(body)
                         /\ Onward(s) = Frame(op, u) /\ u \in {s, stmt[s].body}
                         /\ Point(body, op, u) \in AfterIn(body, s)
                         /\ AfterIn(body, s) \subseteq {Point(body, op, u)} \cup Skipped(body)
<1>1. StatementOK(body, s)
  BY DEF BodyOK
<1>2. kind \in {"simple", "compound", "label", "case", "for", "break", "continue", "leave"}
  BY <1>1 DEF StatementOK, StatementKinds, Evaluating, stmt
<1>3. stmt[s].body # Null => stmt[s].body \in Stmts(body)
  BY <1>1 DEF StatementOK, stmt
<1>4. CASE kind = "simple"
  <2>1. AfterIn(body, s) = { End(s) }
    BY <1>4, OneWay DEF stmt
  <2>2. Onward(s) = Frame("after", s) /\ Point(body, "after", s) = End(s) /\ "after" \in PlainOps
    BY <1>4 DEF Onward, Point, PlainOps
  <2>3. Way("after", s)
    BY <2>1, <2>2
  <2> QED
    BY <2>3
<1>5. CASE kind = "compound" /\ stmt[s].body = Null
  <2>1. AfterIn(body, s) = { End(s) }
    BY <1>5, OneWay DEF stmt, Completed
  <2>2. Onward(s) = Frame("after", s) /\ Point(body, "after", s) = End(s) /\ "after" \in PlainOps
    BY <1>5 DEF Onward, Point, PlainOps
  <2>3. Way("after", s)
    BY <2>1, <2>2
  <2> QED
    BY <2>3
<1>6. CASE (kind = "compound" /\ stmt[s].body # Null) \/ kind \in {"label", "case"}
  <2> DEFINE u == stmt[s].body
  <2>1. AfterIn(body, s) = { In(u) }
    BY <1>6, OneWay DEF stmt
  <2>2. u \in Stmts(body)
    BY <1>1, <1>3, <1>6 DEF StatementOK, stmt
  <2>3. Onward(s) = Frame("visit", u) /\ Point(body, "visit", u) = In(u) /\ "visit" \in PlainOps
    BY <1>6 DEF Onward, Point, PlainOps
  <2>4. Way("visit", u)
    BY <2>1, <2>2, <2>3
  <2> QED
    BY <2>4
<1>7. CASE kind = "for"
  <2>1. AfterIn(body, s) = { Test(s) } \cup Begins({body.stmt[s].init})
    BY <1>7, OneWay DEF stmt
  <2>2. Begins({body.stmt[s].init}) \subseteq Skipped(body)
    BY ClausesSkipped
  <2>3. Onward(s) = Frame("test", s) /\ Point(body, "test", s) = Test(s) /\ "test" \in PlainOps
    BY <1>7 DEF Onward, Point, PlainOps
  <2>4. Way("test", s)
    BY <2>1, <2>2, <2>3
  <2> QED
    BY <2>4
<1>8. CASE kind \in {"break", "continue", "leave"}
  <2>1. AfterIn(body, s) = { Up(s, kind) }
    BY <1>8, OneWay DEF stmt
  <2>2. Onward(s) = Frame(kind, s) /\ Point(body, kind, s) = Up(s, kind) /\ kind \in PlainOps
    BY <1>8 DEF Onward, Point, PlainOps
  <2>3. Way(kind, s)
    BY <2>1, <2>2
  <2> QED
    BY <2>3
<1> QED
  BY <1>2, <1>4, <1>5, <1>6, <1>7, <1>8

\* In(s) has been looked at, and the statement marked.
LEMMA CVisitMark ==
  ASSUME RegularBodies, ExactBodies, CInv, At({"visit"}), MarkTop, NEW s, s = Top.at,
         stmt[s].kind \notin {"while", "do"}, NEW P,
         AfterIn(body, s) \subseteq P \cup Skipped(body), P \subseteq AfterIn(body, s)
  PROVE  /\ phase' = "mark" /\ fn' = fn /\ warnings' = {} /\ ret' = ret
         /\ reaches_end' = reaches_end
         /\ \E C : Hand(body, C, P, Tail(stack), body.owner.stmt[s], reaches_end, Null)
                   /\ Known(body, C, Marked')
<1> DEFINE t == Tail(stack)
           o == body.owner.stmt[s]
<1>1. /\ Here(s) /\ Nice(body) /\ warnings = {} /\ phase = "mark"
      /\ s \in Stmts(body)
      /\ \E C : Hand(body, C, {Point(body, Top.op, s)}, t, o, reaches_end, Null)
                /\ Known(body, C, Marked)
  BY AtPlain DEF PlainOps
<1>2. Top.op = "visit"
  BY DEF At
<1>3. PICK C : /\ Hand(body, C, {Point(body, Top.op, s)}, t, o, reaches_end, Null)
               /\ Known(body, C, Marked)
  BY <1>1
<1>4. Hand(body, C, {In(s)}, t, o, reaches_end, Null)
  BY <1>2, <1>3 DEF Point
<1>5. /\ phase' = "mark" /\ fn' = fn /\ warnings' = {} /\ ret' = ret
      /\ reaches_end' = reaches_end
      /\ Marked'.re = Marked.re \cup {s} /\ Marked'.cr = Marked.cr /\ Marked'.sr = Marked.sr
      /\ Marked'.ew = Marked.ew /\ Marked'.nc = Marked.nc
  BY <1>1, <1>2 DEF MarkTop, Marked, facts
<1> HIDE DEF t, o
<1>6. Hand(body, C \cup {In(s)}, P, t, o, reaches_end, Null)
  <2>1. OfStatement(In(s)) /\ Succ(body, In(s)) = AfterIn(body, s)
    BY SuccIn
  <2> QED
    BY <1>1, <1>4, <2>1, HandPoint
<1>7. Known(body, C \cup {In(s)}, Marked')
  BY <1>1, <1>3, <1>5, KnownIn DEF stmt
<1> QED
  BY <1>5, <1>6, <1>7 DEF t, o

LEMMA CVisitPlain ==
  ASSUME RegularBodies, ExactBodies, CInv, IInv', VisitPlain
  PROVE  CInv'
<1> DEFINE s == Top.at
<1>1. /\ Here(s) /\ s \in Stmts(body) /\ StatementOK(body, s) /\ BodyOK(body)
      /\ ~Produces(Top) /\ Tail(stack) \in Seq(Fr)
  BY AtPlain DEF VisitPlain, PlainOps
<1>2. /\ stmt[s].kind \notin Evaluating \cup {"do", "goto", "try"}
      /\ MarkTop /\ Continue(Onward(s)) /\ At({"visit"})
  BY DEF VisitPlain
<1> HIDE DEF s
<1>3. /\ IsStmtExpr(body, s) => stmt[s].body # Null
      /\ \A u \in {stmt[s].body} \ {Null} : body.owner.stmt[u] = body.owner.stmt[s]
  BY <1>1, AtStatement
<1>4. PICK op \in PlainOps, u \in Stmts(body) :
           /\ Onward(s) = Frame(op, u) /\ u \in {s, stmt[s].body}
           /\ Point(body, op, u) \in AfterIn(body, s)
           /\ AfterIn(body, s) \subseteq {Point(body, op, u)} \cup Skipped(body)
  BY <1>1, <1>2, <1>3, OnwardPoint
<1>5. u # Null /\ body.owner.stmt[u] = body.owner.stmt[s]
  BY <1>1, <1>3, <1>4 DEF BodyOK, Null
<1>6. /\ phase' = "mark" /\ fn' = fn /\ warnings' = {} /\ ret' = ret
      /\ reaches_end' = reaches_end
      /\ \E C : Hand(body, C, {Point(body, op, u)}, Tail(stack), body.owner.stmt[s],
                     reaches_end, Null)
                /\ Known(body, C, Marked')
  BY <1>2, <1>4, CVisitMark DEF s, Evaluating
<1>7. PICK C : Hand(body, C, {Point(body, op, u)}, Tail(stack), body.owner.stmt[s],
                    reaches_end, Null)
               /\ Known(body, C, Marked')
  BY <1>6
<1>8. Cov(body, C, stack', ret, reaches_end, Marked')
  BY <1>1, <1>2, <1>4, <1>5, <1>7, CGo
<1> QED
  BY <1>6, <1>8, CStep

LEMMA CVisitGoto ==
  ASSUME RegularBodies, ExactBodies, CInv, IInv', VisitGoto
  PROVE  CInv'
<1> DEFINE s == Top.at
           u == stmt[s].target
           P == { In(x) : x \in {u} \ {Null} }
<1>1. /\ Here(s) /\ s \in Stmts(body) /\ BodyOK(body)
      /\ ~Produces(Top) /\ Tail(stack) \in Seq(Fr) /\ Own(body, Top) = body.owner.stmt[s]
  BY AtPlain DEF VisitGoto, PlainOps
<1>2. /\ stmt[s].kind = "goto" /\ MarkTop /\ At({"visit"})
      /\ u = Null => Return
      /\ u # Null => Continue(Frame("visit", u))
  BY DEF VisitGoto
<1>3. u # Null => u \in Stmts(body) /\ body.owner.stmt[u] = body.owner.stmt[s]
  BY <1>1, AtStatement
<1>4. AfterIn(body, s) = P
  BY <1>1, <1>2, OneWay DEF stmt
<1> HIDE DEF s, P
<1>5. /\ phase' = "mark" /\ fn' = fn /\ warnings' = {} /\ ret' = ret
      /\ reaches_end' = reaches_end
      /\ \E C : Hand(body, C, P, Tail(stack), body.owner.stmt[s], reaches_end, Null)
                /\ Known(body, C, Marked')
  BY <1>2, <1>4, CVisitMark DEF s
<1>6. PICK C : /\ Hand(body, C, P, Tail(stack), body.owner.stmt[s], reaches_end, Null)
               /\ Known(body, C, Marked')
  BY <1>5
<1>7. CASE u = Null
  <2>1. P = {}
    BY <1>7 DEF P
  <2>2. Cov(body, C, stack', ret, reaches_end, Marked')
    BY <1>1, <1>2, <1>6, <1>7, <2>1, CPop
  <2> QED
    BY <1>5, <2>2, CStep
<1>8. CASE u # Null
  <2>1. P = {Point(body, "visit", u)} /\ "visit" \in PlainOps
    BY <1>8 DEF P, Point, PlainOps
  <2> HIDE DEF u
  <2>2. Cov(body, C, stack', ret, reaches_end, Marked')
    BY <1>1, <1>2, <1>3, <1>6, <1>8, <2>1, CGo
  <2> QED
    BY <1>5, <2>2, CStep
<1> QED
  BY <1>7, <1>8

LEMMA CVisitTry ==
  ASSUME RegularBodies, ExactBodies, CInv, IInv', VisitTry
  PROVE  CInv'
<1> DEFINE s == Top.at
           u == stmt[s].body
           v == stmt[s].other
           P == {Point(body, "visit", u), Point(body, "visit", v)}
<1>1. /\ Here(s) /\ s \in Stmts(body) /\ BodyOK(body) /\ StatementOK(body, s)
      /\ ~Produces(Top) /\ Tail(stack) \in Seq(Fr)
  BY AtPlain DEF VisitTry, PlainOps
<1>2. /\ stmt[s].kind = "try" /\ MarkTop /\ At({"visit"})
      /\ Call(Frame("visit", u), Frame("visit", v))
  BY DEF VisitTry
<1>3. u # Null /\ v # Null
  BY <1>1, <1>2 DEF StatementOK, BodyOK, stmt, Null
<1>4. u \in Stmts(body) /\ body.owner.stmt[u] = body.owner.stmt[s] /\ v \in Stmts(body)
  BY <1>1, <1>3, AtStatement
<1>5. AfterIn(body, s) = P /\ "visit" \in PlainOps
  BY <1>1, <1>2, OneWay DEF stmt, Point, PlainOps
<1> HIDE DEF s, u, v
<1>6. /\ phase' = "mark" /\ fn' = fn /\ warnings' = {} /\ ret' = ret
      /\ reaches_end' = reaches_end
      /\ \E C : Hand(body, C, P, Tail(stack), body.owner.stmt[s], reaches_end, Null)
                /\ Known(body, C, Marked')
  BY <1>2, <1>5, CVisitMark DEF s
<1>7. PICK C : /\ Hand(body, C, P, Tail(stack), body.owner.stmt[s], reaches_end, Null)
               /\ Known(body, C, Marked')
  BY <1>6
<1>8. Cov(body, C, <<Frame("visit", u), Frame("visit", v)>> \o Tail(stack), ret, reaches_end, Marked')
  BY <1>1, <1>4, <1>5, <1>7, GivePlainTwo
<1>9. Cov(body, C, stack', ret, reaches_end, Marked')
  BY <1>2, <1>8 DEF Call
<1> QED
  BY <1>6, <1>9, CStep

LEMMA CVisitDo ==
  ASSUME RegularBodies, ExactBodies, CInv, IInv', VisitDo
  PROVE  CInv'
<1> DEFINE s == Top.at
           t == Tail(stack)
           o == body.owner.stmt[s]
           u == stmt[s].body
<1>1. /\ Here(s) /\ Nice(body) /\ warnings = {} /\ phase = "mark"
      /\ ~Produces(Top) /\ s \in Stmts(body) /\ StatementOK(body, s) /\ BodyOK(body)
      /\ t \in Seq(Fr)
      /\ \E C : Hand(body, C, {Point(body, Top.op, s)}, t, o, reaches_end, Null)
                /\ Known(body, C, Marked)
  BY AtPlain DEF VisitDo, PlainOps
<1>2. stmt[s].kind = "do" /\ Continue(Frame("visit", u)) /\ OnlyStack /\ Top.op = "visit"
  BY DEF VisitDo, At
<1>3. PICK C : /\ Hand(body, C, {Point(body, Top.op, s)}, t, o, reaches_end, Null)
               /\ Known(body, C, Marked)
  BY <1>1
<1>4. Hand(body, C, {In(s)}, t, o, reaches_end, Null)
  BY <1>2, <1>3 DEF Point
<1>5. u # Null
  BY <1>1, <1>2 DEF StatementOK, stmt, Loops
<1>6. u \in Stmts(body) /\ body.owner.stmt[u] = o
  BY <1>1, <1>5, AtStatement
<1>7. AfterIn(body, s) = {Point(body, "visit", u)} /\ "visit" \in PlainOps
  BY <1>1, <1>2, OneWay DEF stmt, Point, PlainOps
<1> HIDE DEF s, t, o, u
<1>8. Hand(body, C \cup {In(s)}, {Point(body, "visit", u)}, t, o, reaches_end, Null)
  <2>1. OfStatement(In(s)) /\ Succ(body, In(s)) = AfterIn(body, s)
    BY SuccIn
  <2> QED
    BY <1>1, <1>4, <1>7, <2>1, HandPoint
<1>9. Known(body, C \cup {In(s)}, Marked)
  BY <1>1, <1>2, <1>3, KnownIn DEF stmt
<1>10. Cov(body, C \cup {In(s)}, stack', ret, reaches_end, Marked)
  BY <1>1, <1>2, <1>6, <1>7, <1>8, <1>9, CGo DEF t, o
<1> QED
  BY <1>1, <1>2, <1>10, CQuiet

-----------------------------------------------------------------------------
(***************************************************************************)
(* The loops.                                                              *)
(***************************************************************************)
\* The condition of s has been looked at already.
LEMMA CAgain ==
  ASSUME RegularBodies, ExactBodies, CInv, IInv', NEW ops, At(ops), ops \subseteq PlainOps,
         NEW s, s = Top.at, Point(body, Top.op, s) = Test(s),
         \/ stmt[s].kind \in {"while", "do"} /\ s \in reachable
         \/ s \in condition_reachable,
         Return, OnlyStack
  PROVE  CInv'
<1> DEFINE t == Tail(stack)
           o == body.owner.stmt[s]
<1>1. /\ Here(s) /\ Nice(body) /\ warnings = {} /\ phase = "mark"
      /\ ~Produces(Top) /\ s \in Stmts(body) /\ Own(body, Top) = o
      /\ \E C : Hand(body, C, {Point(body, Top.op, s)}, t, o, reaches_end, Null)
                /\ Known(body, C, Marked)
  BY AtPlain
<1>2. PICK C : /\ Hand(body, C, {Test(s)}, t, o, reaches_end, Null)
               /\ Known(body, C, Marked)
  BY <1>1
<1>3. Test(s) \in C
  BY <1>1, <1>2 DEF Known, Marked, stmt
<1> HIDE DEF t, o
<1>4. Hand(body, C, {}, t, o, reaches_end, Null)
  BY <1>1, <1>2, <1>3, HandSwap
<1>5. Cov(body, C, stack', ret, reaches_end, Marked)
  BY <1>1, <1>2, <1>4, CPop DEF t, o
<1> QED
  BY <1>1, <1>5, CQuiet

\* It is about to be evaluated.
LEMMA CCondition ==
  ASSUME RegularBodies, ExactBodies, CInv, IInv', NEW ops, At(ops), ops \subseteq PlainOps,
         NEW s, s = Top.at, Point(body, Top.op, s) = Test(s), Evaluate(s),
         fn' = fn, ret' = ret, reaches_end' = reaches_end, UNCHANGED facts,
         warnings' = warnings, phase' = phase, step_reachable' = step_reachable,
         \/ /\ stmt[s].kind \in {"while", "do"} /\ s \notin reachable
            /\ reachable' = reachable \cup {s} /\ condition_reachable' = condition_reachable
         \/ /\ stmt[s].kind = "for" /\ s \notin condition_reachable
            /\ condition_reachable' = condition_reachable \cup {s} /\ reachable' = reachable
  PROVE  CInv'
<1> DEFINE t == Tail(stack)
           o == body.owner.stmt[s]
<1>1. /\ Here(s) /\ Nice(body) /\ warnings = {} /\ phase = "mark"
      /\ s \in Stmts(body) /\ t \in Seq(Fr) /\ \A k \in 1 .. Len(t) : Good(body, t[k])
      /\ \E C : Hand(body, C, {Point(body, Top.op, s)}, t, o, reaches_end, Null)
                /\ Known(body, C, Marked)
  BY AtPlain
<1>2. PICK C : /\ Hand(body, C, {Test(s)}, t, o, reaches_end, Null)
               /\ Known(body, C, Marked)
  BY <1>1
<1>3. Test(s) \notin C
  BY <1>1, <1>2 DEF Known, Marked, stmt
<1>4. /\ Marked'.sr = Marked.sr /\ Marked'.ew = Marked.ew /\ Marked'.nc = Marked.nc
      /\ \/ Marked'.re = Marked.re \cup {s} /\ stmt[s].kind \in {"while", "do"}
            /\ Marked'.cr = Marked.cr
         \/ Marked'.cr = Marked.cr \cup {s} /\ stmt[s].kind = "for" /\ Marked'.re = Marked.re
  BY DEF Marked, facts
<1>5. Known(body, C \cup {Test(s)}, Marked')
  BY <1>1, <1>2, <1>4, KnownTest DEF stmt
<1> HIDE DEF t, o
<1>6. /\ body.stmt[s].expr = Null =>
              Cov(body, C \cup {Test(s)}, <<Pending("decide", s, 0, TRUE)>> \o t, ret,
                  reaches_end, Marked')
      /\ body.stmt[s].expr # Null =>
              Cov(body, C \cup {Test(s)},
                  <<Frame("eval", body.stmt[s].expr), Frame("decide", s)>> \o t, ret,
                  reaches_end, Marked')
  BY <1>1, <1>2, <1>3, <1>5, GiveEvaluate DEF o
<1>7. Cov(body, C \cup {Test(s)}, stack', ret', reaches_end', Marked')
  BY <1>6 DEF Evaluate, Continue, Call, stmt, t
<1> QED
  BY <1>1, <1>7, CStep

LEMMA CLoop ==
  ASSUME RegularBodies, ExactBodies, CInv, IInv',
         LoopAgain \/ LoopCondition \/ TestAgain \/ TestCondition
  PROVE  CInv'
<1> DEFINE s == Top.at
<1>1. ASSUME At({"head"}) PROVE stmt[s].kind \in Loops
  <2>1. Here(s) /\ Top.op = "head"
    BY <1>1, AtTop DEF WalkOps, At
  <2> QED
    BY <2>1 DEF Here, Good, stmt
<1>2. ASSUME At({"test"}) PROVE stmt[s].kind = "for"
  <2>1. Here(s) /\ Top.op = "test"
    BY <1>2, AtTop DEF WalkOps, At
  <2> QED
    BY <2>1 DEF Here, Good, stmt
<1>3. {"head"} \subseteq PlainOps /\ {"test"} \subseteq PlainOps
  BY DEF PlainOps
<1>4. CASE LoopAgain
  <2>1. /\ At({"head"}) /\ stmt[s].kind # "for" /\ s \in reachable /\ Return /\ OnlyStack
        /\ Top.op = "head"
    BY <1>4 DEF LoopAgain, At
  <2>2. stmt[s].kind \in {"while", "do"} /\ Point(body, Top.op, s) = Test(s)
    BY <1>1, <2>1 DEF Loops, Point, stmt
  <2> QED
    BY <1>3, <2>1, <2>2, CAgain
<1>5. CASE LoopCondition
  <2>1. /\ At({"head"}) /\ stmt[s].kind # "for" /\ s \notin reachable /\ MarkTop /\ Evaluate(s)
        /\ Top.op = "head"
    BY <1>5 DEF LoopCondition, At
  <2>2. stmt[s].kind \in {"while", "do"} /\ Point(body, Top.op, s) = Test(s)
    BY <1>1, <2>1 DEF Loops, Point, stmt
  <2>3. /\ fn' = fn /\ ret' = ret /\ reaches_end' = reaches_end /\ UNCHANGED facts
        /\ warnings' = warnings /\ phase' = phase /\ step_reachable' = step_reachable
        /\ reachable' = reachable \cup {s} /\ condition_reachable' = condition_reachable
    BY <2>1 DEF MarkTop
  <2> HIDE DEF s
  <2> QED
    BY <1>3, <2>1, <2>2, <2>3, CCondition DEF s
<1>6. CASE TestAgain
  <2>1. At({"test"}) /\ s \in condition_reachable /\ Return /\ OnlyStack /\ Top.op = "test"
    BY <1>6 DEF TestAgain, At
  <2>2. Point(body, Top.op, s) = Test(s)
    BY <2>1 DEF Point
  <2> QED
    BY <1>3, <2>1, <2>2, CAgain
<1>7. CASE TestCondition
  <2>1. /\ At({"test"}) /\ s \notin condition_reachable /\ Evaluate(s) /\ Top.op = "test"
        /\ condition_reachable' = condition_reachable \cup {s}
        /\ UNCHANGED << fn, ret, reaches_end, reachable, step_reachable, facts, warnings, phase >>
    BY <1>7 DEF TestCondition, At
  <2>2. stmt[s].kind = "for" /\ Point(body, Top.op, s) = Test(s)
    BY <1>2, <2>1 DEF Point
  <2> HIDE DEF s
  <2> QED
    BY <1>3, <2>1, <2>2, CCondition DEF s
<1> QED
  BY <1>4, <1>5, <1>6, <1>7

LEMMA CLoopStep ==
  ASSUME RegularBodies, ExactBodies, CInv, IInv', LoopStep
  PROVE  CInv'
<1> DEFINE s == Top.at
           t == Tail(stack)
           o == body.owner.stmt[s]
<1>1. /\ Here(s) /\ Nice(body) /\ warnings = {} /\ phase = "mark"
      /\ s \in Stmts(body) /\ BodyOK(body) /\ t \in Seq(Fr)
      /\ \E C : Hand(body, C, {Point(body, Top.op, s)}, t, o, reaches_end, Null)
                /\ Known(body, C, Marked)
  BY AtPlain DEF LoopStep, PlainOps
<1>2. /\ Top.op = "head" /\ stmt[s].kind = "for" /\ Continue(Frame("test", s))
      /\ step_reachable' = step_reachable \cup {s}
      /\ UNCHANGED << fn, ret, reaches_end, reachable, condition_reachable, facts, warnings, phase >>
  BY DEF LoopStep, At
<1>3. PICK C : /\ Hand(body, C, {Point(body, Top.op, s)}, t, o, reaches_end, Null)
               /\ Known(body, C, Marked)
  BY <1>1
<1>4. Point(body, Top.op, s) = StepOf(s) /\ Point(body, "test", s) = Test(s) /\ "test" \in PlainOps
  BY <1>2 DEF Point, PlainOps, stmt
<1>5. /\ Marked'.re = Marked.re /\ Marked'.cr = Marked.cr /\ Marked'.sr = Marked.sr \cup {s}
      /\ Marked'.ew = Marked.ew /\ Marked'.nc = Marked.nc
  BY <1>2 DEF Marked, facts
<1> HIDE DEF s, t, o
<1>6. Hand(body, C \cup {StepOf(s)}, {Test(s)}, t, o, reaches_end, Null)
  <2>1. OfStatement(StepOf(s)) /\ Succ(body, StepOf(s)) = {Test(s)} \cup Begins({body.stmt[s].step})
    BY SuccIn
  <2>2. Begins({body.stmt[s].step}) \subseteq Skipped(body)
    BY <1>1, ClausesSkipped
  <2>3. Hand(body, C, {StepOf(s)}, t, o, reaches_end, Null)
    BY <1>3, <1>4
  <2> QED
    BY <1>1, <2>1, <2>2, <2>3, HandPoint
<1>7. Known(body, C \cup {StepOf(s)}, Marked')
  BY <1>1, <1>3, <1>5, KnownStep
<1>8. Cov(body, C \cup {StepOf(s)}, stack', ret, reaches_end, Marked')
  BY <1>1, <1>2, <1>4, <1>6, <1>7, CGo DEF t, o
<1> QED
  BY <1>1, <1>2, <1>8, CStep

-----------------------------------------------------------------------------
(***************************************************************************)
(* The end of a statement, and jumps out of it.                            *)
(***************************************************************************)
LEMMA QuietPoints ==
  ASSUME NEW b, NEW C, NEW m, Known(b, C, m), NEW s
  PROVE  /\ Known(b, C \cup {End(s)}, m) /\ Known(b, C \cup {Took(s)}, m)
         /\ \A k \in {"break", "continue", "leave"} : Known(b, C \cup {Up(s, k)}, m)
         /\ Known(b, C \cup {Begin(s)}, m) /\ Known(b, C \cup {Done(s)}, m)
<1> DEFINE Quiet(n) == /\ \A u : n # In(u) /\ n # Test(u) /\ n # StepOf(u)
                       /\ n # FallOff /\ n # Exit
<1>1. /\ Quiet(End(s)) /\ Quiet(Took(s)) /\ Quiet(Begin(s)) /\ Quiet(Done(s))
      /\ \A k \in {"break", "continue", "leave"} : Quiet(Up(s, k))
  BY DEF In, Test, StepOf, FallOff, Exit, End, Took, Begin, Done, Up
<1>2. \A n : Quiet(n) => Known(b, C \cup {n}, m)
  BY KnownQuiet
<1> HIDE DEF Quiet
<1> QED
  BY <1>1, <1>2

\* Where control goes from the last statement of a list in up.
WayUp(b, up) ==
  IF up = Null THEN { FallOff }
  ELSE LET kind == b.stmt[up].kind IN
       CASE kind = "compound"                -> Completed(b, up)
         [] kind = "for"                     -> { StepOf(up) }
         [] kind \in {"while", "do"}         -> { Test(up) }
         [] kind = "try"                     -> { In(b.stmt[up].other) }
         [] kind \in Transparent \ {"compound"} -> { End(up) }

LEMMA HandEnd ==
  ASSUME NEW b, Nice(b), NEW C, NEW t, NEW o, NEW r, NEW s \in Stmts(b),
         Hand(b, C, {End(s)}, t, o, r, Null), NEW m, Known(b, C, m), b.stmt[s].next = Null
  PROVE  \E C2 : Hand(b, C2, WayUp(b, b.stmt[s].parent), t, o, r, Null) /\ Known(b, C2, m)
<1>1. ASSUME NEW D, NEW x \in Stmts(b), Hand(b, D, {End(x)}, t, o, r, Null), Known(b, D, m),
             TriesOf(b, x) = {}, b.stmt[x].next = Null
      PROVE  \E C2 : Hand(b, C2, WayUp(b, b.stmt[x].parent), t, o, r, Null) /\ Known(b, C2, m)
  <2>1. AfterEnd(b, x) = WayUp(b, b.stmt[x].parent)
    BY <1>1 DEF AfterEnd, WayUp
  <2>2. OfStatement(End(x)) /\ Succ(b, End(x)) = WayUp(b, b.stmt[x].parent)
    BY <2>1, SuccIn
  <2>3. Hand(b, D \cup {End(x)}, WayUp(b, b.stmt[x].parent), t, o, r, Null)
    BY <1>1, <2>2, HandPoint
  <2>4. Known(b, D \cup {End(x)}, m)
    BY <1>1, QuietPoints
  <2> QED
    BY <2>3, <2>4
<1>2. CASE TriesOf(b, s) = {}
  BY <1>1, <1>2
<1>3. CASE TriesOf(b, s) # {}
  <2>1. PICK x \in Stmts(b) : b.stmt[x].kind = "try" /\ b.stmt[x].other = s
    BY <1>3 DEF TriesOf
  <2>2. TriesOf(b, s) = {x}
    BY <2>1 DEF TriesOf, Nice, Exact, Tree
  <2>3. AfterEnd(b, s) = {End(x)}
    BY <2>2 DEF AfterEnd
  <2>4. OfStatement(End(s)) /\ Succ(b, End(s)) = {End(x)}
    BY <2>3, SuccIn
  <2>5. Hand(b, C \cup {End(s)}, {End(x)}, t, o, r, Null)
    BY <2>4, HandPoint
  <2>6. Known(b, C \cup {End(s)}, m)
    BY QuietPoints
  <2>7. \A y \in Stmts(b) : StatementOK(b, y)
    BY DEF Nice, BodyOK
  <2>8. b.stmt[x].next = Null
    BY <2>1 DEF Nice, Regular, OthersOK
  <2>9. b.stmt[x].parent = b.stmt[s].parent
    BY <2>1, <2>7 DEF StatementOK
  <2>10. TriesOf(b, x) = {}
    BY <2>1, <2>7 DEF StatementOK, TriesOf
  <2> QED
    BY <1>1, <2>1, <2>5, <2>6, <2>8, <2>9, <2>10
<1> QED
  BY <1>2, <1>3

LEMMA AfterHand ==
  ASSUME RegularBodies, ExactBodies, CInv, At({"after"}), NEW s, s = Top.at
  PROVE  /\ Here(s) /\ Nice(body) /\ warnings = {} /\ phase = "mark"
         /\ ~Produces(Top) /\ s \in Stmts(body) /\ StatementOK(body, s) /\ BodyOK(body)
         /\ Own(body, Top) = body.owner.stmt[s] /\ Tail(stack) \in Seq(Fr)
         /\ stmt[s].parent # Null => /\ stmt[s].parent \in Stmts(body)
                                     /\ body.owner.stmt[stmt[s].parent] = body.owner.stmt[s]
         /\ \E C : Hand(body, C, {End(s)}, Tail(stack), body.owner.stmt[s], reaches_end, Null)
                   /\ Known(body, C, Marked)
<1>1. /\ Here(s) /\ Nice(body) /\ warnings = {} /\ phase = "mark"
      /\ ~Produces(Top) /\ s \in Stmts(body) /\ StatementOK(body, s) /\ BodyOK(body)
      /\ Own(body, Top) = body.owner.stmt[s] /\ Tail(stack) \in Seq(Fr)
      /\ \E C : Hand(body, C, {Point(body, Top.op, s)}, Tail(stack), body.owner.stmt[s],
                     reaches_end, Null)
                /\ Known(body, C, Marked)
  BY AtPlain DEF PlainOps
<1>2. Top.op = "after"
  BY DEF At
<1>3. Point(body, Top.op, s) = End(s)
  BY <1>2 DEF Point
<1>4. ~IsStmtExpr(body, s)
  BY <1>1, <1>2 DEF Here, Good
<1>5. stmt[s].parent # Null => /\ stmt[s].parent \in Stmts(body)
                               /\ body.owner.stmt[stmt[s].parent] = body.owner.stmt[s]
  BY <1>1, <1>4 DEF StatementOK, Nice, Regular, Confined, stmt
<1> QED
  BY <1>1, <1>3, <1>5

LEMMA CAfterNext ==
  ASSUME RegularBodies, ExactBodies, CInv, IInv', AfterNext
  PROVE  CInv'
<1> DEFINE s == Top.at
           t == Tail(stack)
           o == body.owner.stmt[s]
           u == stmt[s].next
<1>1. /\ Here(s) /\ Nice(body) /\ warnings = {} /\ phase = "mark"
      /\ ~Produces(Top) /\ s \in Stmts(body) /\ StatementOK(body, s) /\ BodyOK(body)
      /\ t \in Seq(Fr)
      /\ \E C : Hand(body, C, {End(s)}, t, o, reaches_end, Null)
                /\ Known(body, C, Marked)
  BY AfterHand DEF AfterNext
<1>2. u # Null /\ Continue(Frame("visit", u)) /\ OnlyStack
  BY DEF AfterNext
<1>3. PICK C : /\ Hand(body, C, {End(s)}, t, o, reaches_end, Null)
               /\ Known(body, C, Marked)
  BY <1>1
<1>4. u \in Stmts(body) /\ body.owner.stmt[u] = o
  BY <1>1, <1>2, AtStatement
<1>5. AfterEnd(body, s) = {In(u)}
  <2>1. TriesOf(body, s) = {}
    <3> SUFFICES ASSUME NEW x \in TriesOf(body, s) PROVE FALSE
      OBVIOUS
    <3>1. x \in Stmts(body) /\ body.stmt[x].kind = "try" /\ body.stmt[x].other = s
      BY DEF TriesOf
    <3>2. StatementOK(body, x)
      BY <1>1, <3>1 DEF BodyOK
    <3> QED
      BY <1>2, <3>1, <3>2 DEF StatementOK, stmt
  <2> QED
    BY <1>2, <2>1 DEF AfterEnd, stmt
<1>6. Point(body, "visit", u) = In(u) /\ "visit" \in PlainOps
  BY DEF Point, PlainOps
<1> HIDE DEF s, t, o, u
<1>7. Hand(body, C \cup {End(s)}, {In(u)}, t, o, reaches_end, Null)
  <2>1. OfStatement(End(s)) /\ Succ(body, End(s)) = {In(u)}
    BY <1>5, SuccIn
  <2> QED
    BY <1>1, <1>3, <2>1, HandPoint
<1>8. Known(body, C \cup {End(s)}, Marked)
  BY <1>3, QuietPoints
<1>9. Cov(body, C \cup {End(s)}, stack', ret, reaches_end, Marked)
  BY <1>1, <1>2, <1>4, <1>6, <1>7, <1>8, CGo DEF t, o
<1> QED
  BY <1>1, <1>2, <1>9, CQuiet

LEMMA CAfterBody ==
  ASSUME RegularBodies, ExactBodies, CInv, IInv', AfterBody
  PROVE  CInv'
<1> DEFINE s == Top.at
           t == Tail(stack)
           o == body.owner.stmt[s]
<1>1. /\ Here(s) /\ Nice(body) /\ warnings = {} /\ phase = "mark"
      /\ ~Produces(Top) /\ s \in Stmts(body) /\ BodyOK(body) /\ Own(body, Top) = o
      /\ \E C : Hand(body, C, {End(s)}, t, o, reaches_end, Null)
                /\ Known(body, C, Marked)
  BY AfterHand DEF AfterBody
<1>2. /\ stmt[s].next = Null /\ stmt[s].parent = Null /\ Return
      /\ noreturn_candidate' = FALSE /\ end_warned' = TRUE
      /\ UNCHANGED << fn, ret, reaches_end, marks, warnings, phase >>
  BY DEF AfterBody
<1>3. PICK C : /\ Hand(body, C, {End(s)}, t, o, reaches_end, Null)
               /\ Known(body, C, Marked)
  BY <1>1
<1> HIDE DEF s, t, o
<1>4. PICK D : /\ Hand(body, D, WayUp(body, body.stmt[s].parent), t, o, reaches_end, Null)
               /\ Known(body, D, Marked)
  BY <1>1, <1>2, <1>3, HandEnd DEF stmt
<1>5. WayUp(body, body.stmt[s].parent) = {FallOff}
  BY <1>2 DEF WayUp, stmt
<1>6. Hand(body, D \cup {FallOff}, {}, t, o, reaches_end, Null)
  <2>1. OfStatement(FallOff) /\ Succ(body, FallOff) = {}
    BY SuccIn
  <2> QED
    BY <1>1, <1>4, <1>5, <2>1, HandPoint
<1>7. /\ Marked'.re = Marked.re /\ Marked'.cr = Marked.cr /\ Marked'.sr = Marked.sr
      /\ Marked'.ew = TRUE /\ Marked'.nc = FALSE
  BY <1>2 DEF Marked, marks
<1>8. Known(body, D \cup {FallOff}, Marked')
  BY <1>4, <1>7, KnownLeft
<1>9. Cov(body, D \cup {FallOff}, stack', ret, reaches_end, Marked')
  BY <1>1, <1>2, <1>6, <1>8, CPop DEF t, o
<1> QED
  BY <1>1, <1>2, <1>9, CStep

LEMMA CAfterStmtExpr ==
  ASSUME RegularBodies, ExactBodies, CInv, IInv', AfterStmtExpr
  PROVE  CInv'
<1> DEFINE s  == Top.at
           t  == Tail(stack)
           o  == body.owner.stmt[s]
           up == stmt[s].parent
<1>1. /\ Here(s) /\ Nice(body) /\ warnings = {} /\ phase = "mark"
      /\ ~Produces(Top) /\ s \in Stmts(body) /\ BodyOK(body) /\ Own(body, Top) = o
      /\ up # Null => up \in Stmts(body) /\ body.owner.stmt[up] = o
      /\ \E C : Hand(body, C, {End(s)}, t, o, reaches_end, Null)
                /\ Known(body, C, Marked)
  BY AfterHand DEF AfterStmtExpr
<1>2. /\ stmt[s].next = Null /\ IsStmtExpr(body, up) /\ Return
      /\ reaches_end' = TRUE
      /\ UNCHANGED << fn, ret, marks, facts, warnings, phase >>
  BY DEF AfterStmtExpr
<1>3. PICK C : /\ Hand(body, C, {End(s)}, t, o, reaches_end, Null)
               /\ Known(body, C, Marked)
  BY <1>1
<1>4. /\ up # Null /\ up \in Stmts(body) /\ body.stmt[up].kind = "compound"
      /\ o \in StmtExprs(body) /\ body.expr[o].body = up
      /\ \A x \in StmtExprs(body) : body.expr[x].body = up => x = o
  <2>1. PICK e \in StmtExprs(body) : body.expr[e].body = up
    BY <1>2 DEF IsStmtExpr
  <2>2. ExpressionOK(body, e) /\ body.expr[e].kind = "stmt"
    BY <1>1, <2>1 DEF BodyOK, StmtExprs
  <2>3. up \in Stmts(body) /\ body.stmt[up].kind = "compound" /\ up # Null
    BY <1>1, <2>1, <2>2 DEF ExpressionOK, BodyOK, Null
  <2>4. \A x \in StmtExprs(body) : body.expr[x].body = up => x = body.owner.stmt[up]
    BY <1>1 DEF Nice, Regular, StmtExprsOK
  <2> QED
    BY <1>1, <2>1, <2>3, <2>4
<1>5. t # <<>> /\ ~Waits(Head(t)) /\ Own(body, Head(t)) = o /\ t \in Seq(Fr)
  <2>1. AllOK(body, stack, ret, reaches_end) /\ stack # <<>> /\ ~Produces(Head(stack))
    BY <1>1 DEF Here, Top
  <2>2. /\ t \in Seq(Fr)
        /\ t = <<>> => Outermost(body, Top)
        /\ t # <<>> => ~Waits(Head(t)) /\ Own(body, Head(t)) = Own(body, Top)
    BY <2>1, Below DEF Top
  <2>3. o # Null
    BY <1>1, <1>4 DEF BodyOK, StmtExprs, Null
  <2>4. Outer(body, Top) = o
    BY <1>1 DEF Outer, Produces
  <2>5. t # <<>>
    BY <2>2, <2>3, <2>4 DEF Outermost
  <2> QED
    BY <1>1, <2>2, <2>5
<1> HIDE DEF s, t, o, up
<1>6. PICK D : /\ Hand(body, D, WayUp(body, body.stmt[s].parent), t, o, reaches_end, Null)
               /\ Known(body, D, Marked)
  BY <1>1, <1>2, <1>3, HandEnd DEF stmt
<1>7. WayUp(body, body.stmt[s].parent) = {Done(o)}
  <2>1. WayUp(body, up) = Completed(body, up)
    BY <1>4 DEF WayUp
  <2>2. { Done(e) : e \in { x \in StmtExprs(body) : body.expr[x].body = up } } = {Done(o)}
    BY <1>4
  <2>3. Completed(body, up) = {Done(o)}
    BY <1>2, <2>2 DEF Completed
  <2> QED
    BY <2>1, <2>3 DEF up, stmt
<1>8. /\ Marked' = Marked /\ phase' = "mark" /\ fn' = fn /\ warnings' = {} /\ ret' = ret
      /\ reaches_end' = TRUE /\ stack' = t
  BY <1>1, <1>2 DEF Marked, marks, facts, Return, t
<1>9. Hand(body, D, {Done(o)}, t, o, reaches_end, Null)
  BY <1>6, <1>7
<1>10. HeadOK(body, D, t, ret)
  BY <1>5 DEF HeadOK
<1>11. {Done(o)} \cup AtEnd(o, reaches_end)
         = Value(body, Head(t), ret) \cup AtEnd(Own(body, Head(t)), TRUE)
  BY <1>5 DEF AtEnd, Value
<1>12. Cov(body, D, t, ret, TRUE, Marked)
  BY <1>5, <1>6, <1>9, <1>10, <1>11, GiveNone
<1>13. Cov(body, D, stack', ret', reaches_end', Marked')
  BY <1>8, <1>12
<1> QED
  BY <1>8, <1>13, CStep

LEMMA CAfterLast ==
  ASSUME RegularBodies, ExactBodies, CInv, IInv', AfterLast
  PROVE  CInv'
<1> DEFINE s  == Top.at
           t  == Tail(stack)
           o  == body.owner.stmt[s]
           up == stmt[s].parent
<1>1. /\ Here(s) /\ Nice(body) /\ warnings = {} /\ phase = "mark"
      /\ s \in Stmts(body) /\ BodyOK(body) /\ t \in Seq(Fr)
      /\ up # Null => up \in Stmts(body) /\ body.owner.stmt[up] = o
      /\ \E C : Hand(body, C, {End(s)}, t, o, reaches_end, Null)
                /\ Known(body, C, Marked)
  BY AfterHand DEF AfterLast
<1>2. /\ stmt[s].next = Null /\ up # Null /\ ~IsStmtExpr(body, up) /\ OnlyStack
      /\ \/ stmt[up].kind \in Transparent /\ Continue(Frame("after", up))
         \/ stmt[up].kind \in Loops /\ Continue(Frame("head", up))
         \/ stmt[up].kind = "try" /\ Continue(Frame("visit", stmt[up].other))
  BY DEF AfterLast
<1>3. PICK C : /\ Hand(body, C, {End(s)}, t, o, reaches_end, Null)
               /\ Known(body, C, Marked)
  BY <1>1
<1> HIDE DEF s, t, o
<1>4. PICK D : /\ Hand(body, D, WayUp(body, body.stmt[s].parent), t, o, reaches_end, Null)
               /\ Known(body, D, Marked)
  BY <1>1, <1>2, <1>3, HandEnd DEF stmt
<1>5. up = body.stmt[s].parent
  BY DEF stmt
<1> HIDE DEF up
<1>6. \E op \in PlainOps, u \in Stmts(body) :
         /\ Continue(Frame(op, u)) /\ body.owner.stmt[u] = o
         /\ WayUp(body, up) = {Point(body, op, u)}
  <2>1. CASE stmt[up].kind \in Transparent /\ Continue(Frame("after", up))
    <3>1. WayUp(body, up) = {End(up)}
      BY <1>2, <2>1 DEF WayUp, Completed, Transparent, stmt
    <3>2. Point(body, "after", up) = End(up) /\ "after" \in PlainOps
      BY DEF Point, PlainOps
    <3> QED
      BY <1>1, <1>2, <2>1, <3>1, <3>2
  <2>2. CASE stmt[up].kind \in Loops /\ Continue(Frame("head", up))
    <3>1. WayUp(body, up) = {IF stmt[up].kind = "for" THEN StepOf(up) ELSE Test(up)}
      BY <1>2, <2>2 DEF WayUp, Loops, Transparent, stmt
    <3>2. /\ Point(body, "head", up) = IF stmt[up].kind = "for" THEN StepOf(up) ELSE Test(up)
          /\ "head" \in PlainOps
      BY DEF Point, PlainOps, stmt
    <3> QED
      BY <1>1, <1>2, <2>2, <3>1, <3>2
  <2>3. CASE stmt[up].kind = "try" /\ Continue(Frame("visit", stmt[up].other))
    <3> DEFINE u == stmt[up].other
    <3>1. WayUp(body, up) = {In(u)}
      BY <1>2, <2>3 DEF WayUp, Loops, Transparent, stmt
    <3>2. Point(body, "visit", u) = In(u) /\ "visit" \in PlainOps
      BY DEF Point, PlainOps
    <3>3. u \in Stmts(body) /\ u # Null
      BY <1>1, <1>2, <2>3 DEF BodyOK, StatementOK, stmt, Null
    <3>4. body.owner.stmt[u] = body.owner.stmt[up]
      BY <1>1, <1>2, <3>3 DEF Nice, Regular, Confined, stmt
    <3> QED
      BY <1>1, <1>2, <2>3, <3>1, <3>2, <3>3, <3>4
  <2> QED
    BY <1>2, <2>1, <2>2, <2>3
<1>7. PICK op \in PlainOps, u \in Stmts(body) :
         /\ Continue(Frame(op, u)) /\ body.owner.stmt[u] = o
         /\ WayUp(body, up) = {Point(body, op, u)}
  BY <1>6
<1>8. Hand(body, D, {Point(body, op, u)}, t, o, reaches_end, Null)
  BY <1>4, <1>5, <1>7
<1>9. Cov(body, D, stack', ret, reaches_end, Marked)
  BY <1>1, <1>4, <1>7, <1>8, CGo DEF t, o
<1> QED
  BY <1>1, <1>2, <1>9, CQuiet

LEMMA CSeek ==
  ASSUME RegularBodies, ExactBodies, CInv, IInv', Seek
  PROVE  CInv'
<1> DEFINE s    == Top.at
           t    == Tail(stack)
           o    == body.owner.stmt[s]
           up   == stmt[s].parent
           k    == Top.op
           kind == IF up = Null THEN "none" ELSE stmt[up].kind
           fits == CASE k = "break"    -> kind \in Loops \cup {"switch"}
                     [] k = "continue" -> kind \in Loops
                     [] k = "leave"    -> kind = "try"
<1>1. /\ k \in {"break", "continue", "leave"} /\ OnlyStack
      /\ \/ up = Null /\ Return
         \/ up # Null /\ ~fits /\ Continue(Frame(k, up))
         \/ fits /\ k = "break" /\ Continue(Frame("after", up))
         \/ fits /\ k = "continue" /\ Continue(Frame("head", up))
         \/ fits /\ k = "leave" /\ Continue(Frame("visit", stmt[up].other))
  BY DEF Seek, At
<1>2. /\ Here(s) /\ Nice(body) /\ warnings = {} /\ phase = "mark" /\ ~Produces(Top)
      /\ s \in Stmts(body) /\ BodyOK(body) /\ t \in Seq(Fr) /\ StatementOK(body, s)
      /\ Own(body, Top) = o
      /\ \E C : Hand(body, C, {Point(body, k, s)}, t, o, reaches_end, Null)
                /\ Known(body, C, Marked)
  BY AtPlain DEF Seek, PlainOps
<1>3. PICK C : /\ Hand(body, C, {Point(body, k, s)}, t, o, reaches_end, Null)
               /\ Known(body, C, Marked)
  BY <1>2
<1>4. Hand(body, C, {Up(s, k)}, t, o, reaches_end, Null)
  BY <1>1, <1>3 DEF Point
<1>5. Up(s, k) \in body.live
  BY <1>1, <1>2 DEF Here, Good
<1>6. ~IsStmtExpr(body, s)
  <2> SUFFICES ASSUME IsStmtExpr(body, s) PROVE FALSE
    OBVIOUS
  <2>1. PICK e \in StmtExprs(body) : body.expr[e].body = s
    BY DEF IsStmtExpr
  <2>2. Up(s, k) \notin body.live
    BY <1>1, <1>2, <2>1 DEF Nice, Regular, StmtExprsOK
  <2> QED
    BY <1>5, <2>2
<1>7. up # Null => up \in Stmts(body) /\ body.owner.stmt[up] = o
  BY <1>2, <1>6 DEF StatementOK, Nice, Regular, Confined, stmt
<1> HIDE DEF s, t, o
<1>8. Known(body, C \cup {Up(s, k)}, Marked)
  BY <1>1, <1>3, QuietPoints
<1>9. OfStatement(Up(s, k)) /\ Succ(body, Up(s, k)) = AfterUp(body, s, k)
  BY <1>1, SuccIn
<1>10. CASE up = Null
  <2>1. AfterUp(body, s, k) = {}
    BY <1>10 DEF AfterUp, stmt
  <2>2. Hand(body, C \cup {Up(s, k)}, {}, t, o, reaches_end, Null)
    BY <1>2, <1>4, <1>9, <2>1, HandPoint
  <2>3. ~fits
    <3>1. kind = "none"
      BY <1>10
    <3> HIDE DEF kind
    <3> QED
      BY <1>1, <3>1 DEF Loops
  <2>4. Return
    BY <1>1, <1>10, <2>3
  <2>5. Cov(body, C \cup {Up(s, k)}, stack', ret, reaches_end, Marked)
    BY <1>2, <1>8, <2>2, <2>4, CPop DEF t, o
  <2> QED
    BY <1>1, <1>2, <2>5, CQuiet
<1>11. CASE up # Null
  <2>1. kind = body.stmt[up].kind
    BY <1>11 DEF stmt
  <2>2. up = body.stmt[s].parent
    BY DEF stmt
  <2> HIDE DEF up, k
  <2>3. \E op \in PlainOps, u \in Stmts(body) :
          /\ Continue(Frame(op, u)) /\ body.owner.stmt[u] = o
          /\ AfterUp(body, s, k) = {Point(body, op, u)}
    <3>1. CASE ~fits /\ Continue(Frame(k, up))
      <4>1. AfterUp(body, s, k) = {Up(up, k)}
        BY <1>1, <1>11, <2>1, <2>2, <3>1 DEF AfterUp, Loops
      <4>2. Point(body, k, up) = Up(up, k) /\ k \in PlainOps
        BY <1>1 DEF Point, PlainOps
      <4> QED
        BY <1>7, <1>11, <3>1, <4>1, <4>2
    <3>2. CASE fits /\ k = "break" /\ Continue(Frame("after", up))
      <4>1. AfterUp(body, s, k) = {End(up)}
        BY <1>11, <2>1, <2>2, <3>2 DEF AfterUp, Loops
      <4>2. Point(body, "after", up) = End(up) /\ "after" \in PlainOps
        BY DEF Point, PlainOps
      <4> QED
        BY <1>7, <1>11, <3>2, <4>1, <4>2
    <3>3. CASE fits /\ k = "continue" /\ Continue(Frame("head", up))
      <4>1. AfterUp(body, s, k) = {IF kind = "for" THEN StepOf(up) ELSE Test(up)}
        BY <1>11, <2>1, <2>2, <3>3 DEF AfterUp, Loops
      <4>2. /\ Point(body, "head", up) = IF kind = "for" THEN StepOf(up) ELSE Test(up)
            /\ "head" \in PlainOps
        BY <2>1 DEF Point, PlainOps
      <4> QED
        BY <1>7, <1>11, <3>3, <4>1, <4>2
    <3>4. CASE fits /\ k = "leave" /\ Continue(Frame("visit", stmt[up].other))
      <4> DEFINE u == stmt[up].other
      <4>1. AfterUp(body, s, k) = {In(u)} /\ kind = "try"
        BY <1>11, <2>1, <2>2, <3>4 DEF AfterUp, Loops, stmt
      <4>2. Point(body, "visit", u) = In(u) /\ "visit" \in PlainOps
        BY DEF Point, PlainOps
      <4>3. u \in Stmts(body) /\ u # Null
        BY <1>2, <1>7, <1>11, <2>1, <4>1 DEF BodyOK, StatementOK, stmt, Null
      <4>4. body.owner.stmt[u] = body.owner.stmt[up]
        BY <1>2, <1>7, <1>11, <4>3 DEF Nice, Regular, Confined, stmt
      <4> QED
        BY <1>7, <1>11, <3>4, <4>1, <4>2, <4>3, <4>4
    <3> QED
      BY <1>1, <1>11, <3>1, <3>2, <3>3, <3>4
  <2>4. PICK op \in PlainOps, u \in Stmts(body) :
          /\ Continue(Frame(op, u)) /\ body.owner.stmt[u] = o
          /\ AfterUp(body, s, k) = {Point(body, op, u)}
    BY <2>3
  <2>5. Hand(body, C \cup {Up(s, k)}, {Point(body, op, u)}, t, o, reaches_end, Null)
    BY <1>2, <1>4, <1>9, <2>4, HandPoint
  <2>6. Cov(body, C \cup {Up(s, k)}, stack', ret, reaches_end, Marked)
    BY <1>2, <1>8, <2>4, <2>5, CGo DEF t, o
  <2> QED
    BY <1>1, <1>2, <2>6, CQuiet
<1> QED
  BY <1>10, <1>11

-----------------------------------------------------------------------------
(***************************************************************************)
(* After the evaluation of the controlling expression.                     *)
(***************************************************************************)
LEMMA AtDecided ==
  ASSUME RegularBodies, ExactBodies, CInv, At({"decide"}), NEW s, s = Top.at
  PROVE  /\ Here(s) /\ Nice(body) /\ warnings = {} /\ phase = "mark"
         /\ ~Produces(Top) /\ s \in Stmts(body) /\ StatementOK(body, s) /\ BodyOK(body)
         /\ stmt[s].kind \in Evaluating \cup Loops
         /\ Own(body, Top) = body.owner.stmt[s] /\ Tail(stack) \in Seq(Fr)
         /\ \A k \in 1 .. Len(Tail(stack)) : Tail(stack)[k] \in Fr /\ Good(body, Tail(stack)[k])
         /\ Top.flag \in BOOLEAN /\ (Top.flag <=> body.stmt[s].expr = Null)
         /\ (Waits(Top) <=> ~Top.flag) /\ WaitsFor(body, Top) = body.stmt[s].expr
         /\ \E C : /\ Hand(body, C, Owe(body, Top) \cup Value(body, Top, ret), Tail(stack),
                           body.owner.stmt[s], reaches_end, Null)
                   /\ Test(s) \in C /\ Known(body, C, Marked)
                   /\ AllApart(Top, Tail(stack))
                   /\ HeadOK(body, C, stack, ret)
<1>1. /\ Here(s) /\ Nice(body) /\ warnings = {} /\ phase = "mark"
      /\ stack \in Seq(Fr) /\ Tail(stack) \in Seq(Fr)
      /\ \A k \in 1 .. Len(Tail(stack)) : Tail(stack)[k] \in Fr /\ Good(body, Tail(stack)[k])
      /\ \E C : Cov(body, C, stack, ret, reaches_end, Marked)
  BY AtTop DEF WalkOps
<1>2. /\ ~Produces(Top) /\ stmt[s].kind \in Evaluating \cup Loops
  BY AtDecide DEF CInv
<1>3. stack # <<>> /\ Top.op = "decide"
  BY DEF At
<1>4. s \in Stmts(body) /\ StatementOK(body, s) /\ BodyOK(body)
  BY <1>1, <1>2, AtStatement DEF Nice
<1>5. Own(body, Top) = body.owner.stmt[s]
  BY <1>2, <1>3 DEF Own
<1>6. Top \in Fr /\ DecideOK(body, Top)
  BY <1>1, <1>3 DEF Here, Good
<1>7. /\ Top.flag \in BOOLEAN /\ (Top.flag <=> body.stmt[s].expr = Null)
      /\ (Waits(Top) <=> ~Top.flag) /\ WaitsFor(body, Top) = body.stmt[s].expr
  BY <1>3, <1>6 DEF DecideOK, Fr, Waits, WaitsFor
<1>8. PICK C : Cov(body, C, stack, ret, reaches_end, Marked)
  BY <1>1
<1>9. Hand(body, C, Owe(body, Top) \cup Value(body, Top, ret), Tail(stack), Own(body, Top),
           reaches_end, Null)
  BY <1>1, <1>3, <1>4, <1>8, Take DEF Top
<1>10. NotYet(body, C, Top) /\ AllApart(Top, Tail(stack)) /\ Known(body, C, Marked)
       /\ HeadOK(body, C, stack, ret)
  BY <1>3, <1>8 DEF Cov, Fresh, Top
<1>11. Test(s) \in C
  BY <1>3, <1>10 DEF NotYet
<1> QED
  BY <1>1, <1>2, <1>4, <1>5, <1>7, <1>9, <1>10, <1>11

\* An operand has one parent, and is no statement's own expression.
OnlyIn(b, e, i, x) ==
  /\ \A s \in Stmts(b) : b.stmt[s].expr # x
  /\ \A y \in Exprs(b) : \A j \in 1 .. Len(b.expr[y].sub) :
       b.expr[y].sub[j] = x => y = e /\ j = i

LEMMA OneParent ==
  ASSUME NEW b, Nice(b), NEW e \in Exprs(b), NEW i \in 1 .. Len(b.expr[e].sub),
         NEW x, x = b.expr[e].sub[i]
  PROVE  OnlyIn(b, e, i, x)
<1>1. Tree(b)
  BY DEF Nice, Exact
<1>2. \A s \in Stmts(b), y \in Exprs(b) : \A j \in 1 .. Len(b.expr[y].sub) :
        b.expr[y].sub[j] # b.stmt[s].expr
  BY ONLY <1>1 DEF Tree
<1>3. \A y, z \in Exprs(b) :
        \A j \in 1 .. Len(b.expr[y].sub), l \in 1 .. Len(b.expr[z].sub) :
          b.expr[y].sub[j] = b.expr[z].sub[l] => y = z /\ j = l
  BY ONLY <1>1 DEF Tree
<1> QED
  BY <1>2, <1>3 DEF OnlyIn

\* The expression of the statement s belongs to s alone.
LEMMA OwnExpression ==
  ASSUME NEW b, Nice(b), NEW s \in Stmts(b), NEW e, e = b.stmt[s].expr, e # Null,
         NEW t \in Seq(Fr), \A k \in 1 .. Len(t) : Good(b, t[k]),
         NEW f, f.op = "decide", f.at = s, Waits(f), AllApart(f, t)
  PROVE  /\ e \in Exprs(b) /\ Free(b, t, e)
         /\ \A y \in Exprs(b) : \A i \in 1 .. Len(b.expr[y].sub) : b.expr[y].sub[i] # e
         /\ Succ(b, Done(e)) = {Took(s)}
<1>1. e \in Exprs(b)
  BY DEF Nice, BodyOK, StatementOK
<1>2. \A y \in Exprs(b) : \A i \in 1 .. Len(b.expr[y].sub) : b.expr[y].sub[i] # e
  BY DEF Nice, Exact, Tree
<1>3. \A x \in Stmts(b) : b.stmt[x].expr = e => x = s
  BY DEF Nice, Exact, Tree
<1>4. Free(b, t, e)
  <2> SUFFICES ASSUME NEW k \in 1 .. Len(t)
               PROVE  /\ t[k].op = "operand" =>
                           \A j \in 1 .. Len(b.expr[t[k].at].sub) : b.expr[t[k].at].sub[j] # e
                      /\ Waits(t[k]) => WaitsFor(b, t[k]) # e
    BY DEF Free
  <2>1. Good(b, t[k]) /\ Apart(f, t[k])
    BY DEF AllApart
  <2>2. CASE t[k].op = "operand"
    <3>1. t[k].at \in Exprs(b) /\ t[k].i \in 1 .. Len(b.expr[t[k].at].sub)
      BY <2>1, <2>2 DEF Good, Produces, OperandOK
    <3> QED
      BY <2>2, <3>1, <1>2 DEF WaitsFor
  <2>3. CASE t[k].op # "operand"
    <3> SUFFICES ASSUME Waits(t[k]), WaitsFor(b, t[k]) = e PROVE FALSE
      BY <2>3
    <3>1. t[k].op = "decide" /\ b.stmt[t[k].at].expr = e
      BY <2>3 DEF Waits, WaitsFor
    <3>2. t[k].at \in Stmts(b)
      BY <2>1, <3>1 DEF Good, Produces
    <3>3. t[k].at = s
      BY <3>1, <3>2, <1>3
    <3> QED
      BY <2>1, <3>1, <3>3 DEF Apart
  <2> QED
    BY <2>2, <2>3
<1>5. Succ(b, Done(e)) = AfterDone(b, e)
  BY DEF Succ, Done
<1>6. { Took(x) : x \in { y \in Stmts(b) : b.stmt[y].expr = e } } = {Took(s)}
  BY <1>3
<1>7. UNION { UNION { AfterOperand(b, y, i) :
                        i \in { j \in 1 .. Len(b.expr[y].sub) : b.expr[y].sub[j] = e } } :
              y \in Exprs(b) } = {}
  BY <1>2
<1>8. AfterDone(b, e) = {Took(s)}
  BY <1>6, <1>7 DEF AfterDone
<1> QED
  BY <1>1, <1>2, <1>4, <1>5, <1>8

LEMMA TookHand ==
  ASSUME RegularBodies, ExactBodies, CInv, At({"decide"}), NEW s, s = Top.at, Returns
  PROVE  \E C : /\ Hand(body, C, {Took(s)}, Tail(stack), body.owner.stmt[s], reaches_end, Null)
                /\ Test(s) \in C /\ Known(body, C, Marked)
<1> DEFINE t == Tail(stack)
           o == body.owner.stmt[s]
           e == body.stmt[s].expr
<1>1. /\ Here(s) /\ Nice(body) /\ s \in Stmts(body) /\ t \in Seq(Fr)
      /\ \A k \in 1 .. Len(t) : t[k] \in Fr /\ Good(body, t[k])
      /\ Top.flag \in BOOLEAN /\ (Top.flag <=> e = Null)
      /\ (Waits(Top) <=> ~Top.flag) /\ WaitsFor(body, Top) = e
      /\ \E C : /\ Hand(body, C, Owe(body, Top) \cup Value(body, Top, ret), t, o, reaches_end, Null)
                /\ Test(s) \in C /\ Known(body, C, Marked)
                /\ AllApart(Top, t) /\ HeadOK(body, C, stack, ret)
  BY AtDecided
<1>2. stack # <<>> /\ Top.op = "decide"
  BY DEF At
<1>3. PICK C : /\ Hand(body, C, Owe(body, Top) \cup Value(body, Top, ret), t, o, reaches_end, Null)
               /\ Test(s) \in C /\ Known(body, C, Marked)
               /\ AllApart(Top, t) /\ HeadOK(body, C, stack, ret)
  BY <1>1
<1>4. Owe(body, Top) = (IF Top.flag THEN { Took(s) } ELSE {})
  BY <1>2 DEF Owe, PlainOps
<1>5. CASE Top.flag
  <2>1. Owe(body, Top) \cup Value(body, Top, ret) = {Took(s)}
    BY <1>1, <1>4, <1>5 DEF Value
  <2> QED
    BY <1>3, <2>1
<1>6. CASE ~Top.flag
  <2>1. ret /\ e # Null
    BY <1>1, <1>6 DEF Returns
  <2>2. Owe(body, Top) \cup Value(body, Top, ret) = {Done(e)}
    BY <1>1, <1>4, <1>6, <2>1 DEF Value
  <2>3. Begin(e) \in C
    BY <1>1, <1>2, <1>3, <1>6 DEF HeadOK, Top
  <2> HIDE DEF e, t, o
  <2>4. /\ e \in Exprs(body) /\ Free(body, t, e)
        /\ \A y \in Exprs(body) : \A i \in 1 .. Len(body.expr[y].sub) : body.expr[y].sub[i] # e
        /\ Succ(body, Done(e)) = {Took(s)}
    BY <1>1, <1>2, <1>3, <1>6, <2>1, OwnExpression DEF e
  <2>5. \A k \in 1 .. Len(t) : t[k].i \in Nat /\ (t[k].op = "operand" => OperandOK(body, t[k]))
    BY <1>1 DEF Fr, Good
  <2>6. Hand(body, C, {Done(e)}, t, o, reaches_end, Null)
    BY <1>3, <2>2
  <2> DEFINE P2 == {Took(s)}
  <2>7. Finishes(body, C, {Done(e)}, P2, t, Null, e)
    BY <2>3, <2>4, <2>5 DEF Finishes
  <2>8. Hand(body, C \cup {Done(e)}, P2, t, o, reaches_end, Null)
    <3> HIDE DEF P2
    <3> QED
      BY <1>1, <2>6, <2>7, HandDone
  <2>9. Known(body, C \cup {Done(e)}, Marked)
    BY <1>3, QuietPoints
  <2> QED
    BY <1>3, <2>8, <2>9 DEF t, o
<1> QED
  BY <1>1, <1>5, <1>6

\* Took(s) has been looked at.
LEMMA TookTo ==
  ASSUME RegularBodies, ExactBodies, CInv, At({"decide"}), NEW s, s = Top.at, Returns,
         NEW P, AfterTook(body, s) = P
  PROVE  \E C : /\ Hand(body, C, P, Tail(stack), body.owner.stmt[s], reaches_end, Null)
                /\ Known(body, C, Marked)
<1>1. PICK C : /\ Hand(body, C, {Took(s)}, Tail(stack), body.owner.stmt[s], reaches_end, Null)
               /\ Known(body, C, Marked)
  BY TookHand
<1>2. Nice(body)
  BY AtDecided
<1>3. OfStatement(Took(s)) /\ Succ(body, Took(s)) = P
  BY SuccIn
<1>4. Hand(body, C \cup {Took(s)}, P, Tail(stack), body.owner.stmt[s], reaches_end, Null)
  BY <1>1, <1>2, <1>3, HandPoint
<1>5. Known(body, C \cup {Took(s)}, Marked)
  BY <1>1, QuietPoints
<1> QED
  BY <1>4, <1>5

LEMMA CDecideSimple ==
  ASSUME RegularBodies, ExactBodies, CInv, IInv', DecideNoReturn \/ DecideReturn \/ DecidePlain
  PROVE  CInv'
<1> DEFINE s == Top.at
           t == Tail(stack)
           o == body.owner.stmt[s]
<1>1. At({"decide"})
  BY DEF DecideNoReturn, DecideReturn, DecidePlain
<1>2. /\ Here(s) /\ Nice(body) /\ warnings = {} /\ phase = "mark"
      /\ ~Produces(Top) /\ s \in Stmts(body) /\ BodyOK(body) /\ Own(body, Top) = o
      /\ t \in Seq(Fr) /\ Top.flag \in BOOLEAN
      /\ \E C : /\ Hand(body, C, Owe(body, Top) \cup Value(body, Top, ret), t, o, reaches_end, Null)
                /\ Known(body, C, Marked)
  BY <1>1, AtDecided
<1>3. CASE DecideNoReturn
  <2>1. ~Top.flag /\ ~ret /\ Return /\ OnlyStack /\ Top.op = "decide"
    BY <1>2, <1>3 DEF DecideNoReturn, Returns, At
  <2>2. PICK C : /\ Hand(body, C, Owe(body, Top) \cup Value(body, Top, ret), t, o, reaches_end, Null)
                 /\ Known(body, C, Marked)
    BY <1>2
  <2>3. Owe(body, Top) \cup Value(body, Top, ret) = {}
    BY <2>1 DEF Owe, Value, PlainOps
  <2>4. Hand(body, C, {}, t, o, reaches_end, Null)
    BY <2>2, <2>3
  <2>5. Cov(body, C, stack', ret, reaches_end, Marked)
    BY <1>2, <2>1, <2>2, <2>4, CPop
  <2> QED
    BY <1>2, <2>1, <2>5, CQuiet
<1>4. CASE DecideReturn
  <2>1. /\ stmt[s].kind = "return" /\ Returns /\ Return /\ noreturn_candidate' = FALSE
        /\ UNCHANGED << fn, ret, reaches_end, marks, end_warned, warnings, phase >>
    BY <1>4 DEF DecideReturn
  <2>2. AfterTook(body, s) = {Exit}
    BY <2>1 DEF AfterTook, stmt, Loops
  <2>3. PICK C : /\ Hand(body, C, {Exit}, t, o, reaches_end, Null)
                 /\ Known(body, C, Marked)
    BY <1>1, <2>1, <2>2, TookTo
  <2>4. OfStatement(Exit) /\ Succ(body, Exit) = {}
    BY SuccIn
  <2>5. Hand(body, C \cup {Exit}, {}, t, o, reaches_end, Null)
    BY <1>2, <2>3, <2>4, HandPoint
  <2>6. /\ Marked'.re = Marked.re /\ Marked'.cr = Marked.cr /\ Marked'.sr = Marked.sr
        /\ Marked'.ew = Marked.ew /\ Marked'.nc = FALSE
    BY <2>1 DEF Marked, marks
  <2>7. Known(body, C \cup {Exit}, Marked')
    BY <2>3, <2>6, KnownLeft
  <2>8. Cov(body, C \cup {Exit}, stack', ret, reaches_end, Marked')
    BY <1>2, <2>1, <2>5, <2>7, CPop
  <2> QED
    BY <1>2, <2>1, <2>8, CStep
<1>5. CASE DecidePlain
  <2>1. /\ stmt[s].kind \in {"expr", "decl"} /\ Returns /\ Continue(Frame("after", s)) /\ OnlyStack
    BY <1>5 DEF DecidePlain
  <2>2. AfterTook(body, s) = {End(s)}
    BY <2>1 DEF AfterTook, stmt, Loops
  <2>3. PICK C : /\ Hand(body, C, {End(s)}, t, o, reaches_end, Null)
                 /\ Known(body, C, Marked)
    BY <1>1, <2>1, <2>2, TookTo
  <2>4. Point(body, "after", s) = End(s) /\ "after" \in PlainOps
    BY DEF Point, PlainOps
  <2>5. Cov(body, C, stack', ret, reaches_end, Marked)
    BY <1>2, <2>1, <2>3, <2>4, CGo
  <2> QED
    BY <1>2, <2>1, <2>5, CQuiet
<1> QED
  BY <1>3, <1>4, <1>5

LEMMA CDecideComputed ==
  ASSUME RegularBodies, ExactBodies, CInv, IInv', DecideComputed
  PROVE  CInv'
<1> DEFINE s  == Top.at
           t  == Tail(stack)
           o  == body.owner.stmt[s]
           up == stmt[s].parent
           P  == { In(l) : l \in body.addressed }
<1>1. /\ At({"decide"}) /\ Returns /\ stmt[s].kind = "computed" /\ OnlyStack
      /\ up = Null => Return
      /\ up # Null => Continue(Frame("visit", up))
  BY DEF DecideComputed
<1>2. /\ Here(s) /\ Nice(body) /\ warnings = {} /\ phase = "mark"
      /\ ~Produces(Top) /\ s \in Stmts(body) /\ BodyOK(body) /\ Own(body, Top) = o
      /\ t \in Seq(Fr) /\ StatementOK(body, s)
  BY <1>1, AtDecided
<1> HIDE DEF s
<1>3. PICK C : /\ Hand(body, C, {Took(s)}, t, o, reaches_end, Null)
               /\ Test(s) \in C /\ Known(body, C, Marked)
  BY <1>1, TookHand DEF s
<1>4. \A l \in Computed(body, s) : In(l) \in C
  <2> SUFFICES ASSUME NEW l \in Computed(body, s) PROVE In(l) \in C
    OBVIOUS
  <2>1. l \in Tops(body)
    BY <1>1, <1>2 DEF Tops, stmt
  <2>2. Until(body, l, body.before[l]) /\ Test(s) \notin body.before[l]
    BY <1>1, <1>2, <2>1 DEF Nice, Exact, TopFirst, stmt
  <2>3. Covers(body, C, {Took(s)} \cup Later(body, t, o, reaches_end))
    BY <1>3 DEF Hand
  <2> QED
    BY <1>3, <2>2, <2>3, Passed
<1>5. P \subseteq C
  <2>1. Null \notin body.addressed
    BY <1>2 DEF BodyOK, Null
  <2> QED
    BY <1>4, <2>1 DEF Computed
<1>6. up # Null => In(up) \in C
  BY <1>4 DEF Computed, stmt
<1>7. AfterTook(body, s) = P
  BY <1>1 DEF AfterTook, stmt, Loops
<1>8. Succ(body, Took(s)) = P /\ OfStatement(Took(s))
  BY <1>7, SuccIn
<1>9. Known(body, C \cup {Took(s)}, Marked)
  BY <1>3, QuietPoints
<1> HIDE DEF P, up, t, o
<1>10. CASE up = Null
  <2>1. Hand(body, C \cup {Took(s)}, {}, t, o, reaches_end, Null)
    BY <1>2, <1>3, <1>5, <1>8, HandPoint
  <2>2. Cov(body, C \cup {Took(s)}, stack', ret, reaches_end, Marked)
    BY <1>1, <1>2, <1>9, <1>10, <2>1, CPop DEF t, o
  <2> QED
    BY <1>1, <1>2, <2>2, CQuiet
<1>11. CASE up # Null
  <2>1. Hand(body, C \cup {Took(s)}, {In(up)}, t, o, reaches_end, Null)
    BY <1>2, <1>3, <1>5, <1>6, <1>8, <1>11, HandPoint
  <2>2. up \in Stmts(body) /\ body.owner.stmt[up] = o
    <3>1. up \in Stmts(body)
      BY <1>2, <1>11 DEF StatementOK, stmt, up
    <3>2. ~IsStmtExpr(body, s)
      BY <1>1, <1>2, AtStatement DEF up
    <3> QED
      BY <1>2, <1>11, <3>1, <3>2 DEF Nice, Regular, Confined, stmt, up, o
  <2>3. Point(body, "visit", up) = In(up) /\ "visit" \in PlainOps
    BY DEF Point, PlainOps
  <2>4. Cov(body, C \cup {Took(s)}, stack', ret, reaches_end, Marked)
    BY <1>1, <1>2, <1>9, <1>11, <2>1, <2>2, <2>3, CGo DEF t, o
  <2> QED
    BY <1>1, <1>2, <2>4, CQuiet
<1> QED
  BY <1>10, <1>11

LEMMA CDecideBranch ==
  ASSUME RegularBodies, ExactBodies, CInv, IInv', DecideBranch
  PROVE  CInv'
<1> DEFINE s  == Top.at
           t  == Tail(stack)
           o  == body.owner.stmt[s]
           st == stmt[s]
           op == IF st.kind = "if" /\ st.other # Null THEN "visit" ELSE "after"
           to == IF st.kind = "if" /\ st.other # Null THEN st.other ELSE s
           P  == Branch(body, s)
<1>1. /\ At({"decide"}) /\ Returns /\ st.kind \in Loops \cup {"if"} /\ OnlyStack
      /\ \/ Truth(body, s) > 0 /\ Continue(Frame("visit", st.body))
         \/ Truth(body, s) = 0 /\ Call(Frame("visit", st.body), Frame(op, to))
         \/ Truth(body, s) < 0 /\ Continue(Frame(op, to))
  BY DEF DecideBranch
<1>2. /\ Here(s) /\ Nice(body) /\ warnings = {} /\ phase = "mark"
      /\ ~Produces(Top) /\ s \in Stmts(body) /\ BodyOK(body) /\ Own(body, Top) = o
      /\ t \in Seq(Fr) /\ StatementOK(body, s)
  BY <1>1, AtDecided
<1>3. \A u \in {st.next, st.body, st.other, st.target} \ {Null} :
         u \in Stmts(body) /\ body.owner.stmt[u] = o
  BY <1>2, AtStatement
<1>4. st.body \in Stmts(body) /\ body.owner.stmt[st.body] = o
  BY <1>1, <1>2, <1>3 DEF StatementOK, stmt
<1>5. to \in Stmts(body) /\ body.owner.stmt[to] = o
  BY <1>2, <1>3
<1>6. AfterTook(body, s) = P
  BY <1>1 DEF AfterTook, stmt, Loops
<1>7. PICK C : /\ Hand(body, C, P, t, o, reaches_end, Null) /\ Known(body, C, Marked)
  BY <1>1, <1>6, TookTo
<1>8. Truth(body, s) \in {-1, 0, 1}
  BY <1>2 DEF Truth, StatementOK
<1>9. /\ "visit" \in PlainOps /\ op \in PlainOps
      /\ Point(body, "visit", st.body) = In(st.body)
      /\ Point(body, op, to) = IF st.kind = "if" /\ st.other # Null THEN In(st.other) ELSE End(s)
  BY DEF Point, PlainOps
<1>10. /\ Truth(body, s) > 0 => P = {Point(body, "visit", st.body)}
       /\ Truth(body, s) = 0 => P = {Point(body, "visit", st.body), Point(body, op, to)}
       /\ Truth(body, s) < 0 => P = {Point(body, op, to)}
  <2> DEFINE otherwise == IF body.stmt[s].kind = "if" /\ body.stmt[s].other # Null
                          THEN In(body.stmt[s].other) ELSE End(s)
  <2>1. otherwise = Point(body, op, to)
    BY <1>9 DEF stmt
  <2>2. P = { n \in { In(body.stmt[s].body) } : Truth(body, s) >= 0 }
            \cup { n \in { otherwise } : Truth(body, s) <= 0 }
    BY DEF Branch
  <2>3. body.stmt[s].body = st.body
    BY DEF stmt
  <2> HIDE DEF otherwise, P, st, op, to
  <2> QED
    BY <1>8, <1>9, <2>1, <2>2, <2>3
<1> HIDE DEF s, t, o, st, op, to, P
<1>11. Cov(body, C, stack', ret, reaches_end, Marked)
  <2>1. CASE Truth(body, s) > 0
    <3>1. P = {Point(body, "visit", st.body)} /\ Continue(Frame("visit", st.body))
      BY <2>1, <1>1, <1>8, <1>10
    <3> QED
      BY <3>1, <1>2, <1>4, <1>7, <1>9, CGo DEF t, o
  <2>2. CASE Truth(body, s) = 0
    <3>1. /\ P = {Point(body, "visit", st.body), Point(body, op, to)}
          /\ Call(Frame("visit", st.body), Frame(op, to))
      BY <2>2, <1>1, <1>10
    <3>2. Cov(body, C, <<Frame("visit", st.body), Frame(op, to)>> \o t, ret, reaches_end, Marked)
      BY <3>1, <1>2, <1>4, <1>5, <1>7, <1>9, GivePlainTwo DEF o
    <3> QED
      BY <3>1, <3>2 DEF Call, t
  <2>3. CASE Truth(body, s) < 0
    <3>1. P = {Point(body, op, to)} /\ Continue(Frame(op, to))
      BY <2>3, <1>1, <1>8, <1>10
    <3> QED
      BY <3>1, <1>2, <1>5, <1>7, <1>9, CGo DEF t, o
  <2> QED
    BY <1>1, <2>1, <2>2, <2>3
<1> QED
  BY <1>1, <1>2, <1>11, CQuiet

\* switch on a constant. There is at most one label to go to.
LEMMA OneLabel ==
  ASSUME NEW b, Nice(b), NEW s \in Stmts(b), b.stmt[s].kind = "switch",
         b.stmt[s].sel # Dynamic,
         NEW matching, matching = { i \in DOMAIN b.stmt[s].cases : Matches(b, s, b.stmt[s].cases[i]) },
         NEW defaults, defaults = { i \in DOMAIN b.stmt[s].cases : IsDefault(b, b.stmt[s].cases[i]) }
  PROVE  /\ \A i \in matching : Selected(b, s) = {In(b.stmt[s].cases[i])}
         /\ matching = {} => \A i \in defaults : Selected(b, s) = {In(b.stmt[s].cases[i])}
         /\ matching = {} /\ defaults = {} => Selected(b, s) = {End(s)}
<1> DEFINE cases  == b.stmt[s].cases
           labels == CaseLabels(b, s)
           M      == { c \in labels : Matches(b, s, c) }
           D      == { c \in labels : IsDefault(b, c) }
           orEnd(C) == IF C = {} THEN { End(s) } ELSE { In(c) : c \in C }
<1>1. StatementOK(b, s)
  BY DEF Nice, BodyOK
<1>2. cases \in Seq(Stmts(b)) /\ DOMAIN cases = 1 .. Len(cases)
  BY <1>1 DEF StatementOK
<1>3. Selected(b, s) = IF M # {} THEN orEnd(M) ELSE orEnd(D)
  BY DEF Selected
<1>4. /\ \A i \in matching : cases[i] \in M
      /\ \A i \in defaults : cases[i] \in D
      /\ \A c \in M : \E i \in matching : cases[i] = c
      /\ \A c \in D : \E i \in defaults : cases[i] = c
  BY <1>2 DEF CaseLabels
<1>5. /\ \A c, d \in M : c = d
      /\ \A c, d \in D : c = d
  BY DEF Nice, Exact, LabelsOK
<1> HIDE DEF M, D, cases
<1>6. ASSUME NEW i \in matching PROVE Selected(b, s) = {In(cases[i])}
  <2>1. M = {cases[i]}
    BY <1>4, <1>5, <1>6
  <2> QED
    BY <2>1, <1>3
<1>7. ASSUME matching = {}, NEW i \in defaults PROVE Selected(b, s) = {In(cases[i])}
  <2>1. M = {} /\ D = {cases[i]}
    BY <1>4, <1>5, <1>7
  <2> QED
    BY <2>1, <1>3
<1>8. ASSUME matching = {}, defaults = {} PROVE Selected(b, s) = {End(s)}
  <2>1. M = {} /\ D = {}
    BY <1>4, <1>8
  <2> QED
    BY <2>1, <1>3
<1> QED
  BY <1>6, <1>7, <1>8 DEF cases

LEMMA CDecideSwitchConstant ==
  ASSUME RegularBodies, ExactBodies, CInv, IInv', DecideSwitchConstant
  PROVE  CInv'
<1> DEFINE s        == Top.at
           t        == Tail(stack)
           o        == body.owner.stmt[s]
           cases    == body.stmt[s].cases
           matching == { i \in DOMAIN cases : Matches(body, s, cases[i]) }
           defaults == { i \in DOMAIN cases : IsDefault(body, cases[i]) }
<1>1. /\ At({"decide"}) /\ Returns /\ OnlyStack
      /\ stmt[s].kind = "switch" /\ stmt[s].sel # Dynamic
      /\ \/ \E i \in matching : Continue(Frame("visit", cases[i]))
         \/ matching = {} /\ \E i \in defaults : Continue(Frame("visit", cases[i]))
         \/ matching = {} /\ defaults = {} /\ Continue(Frame("after", s))
  BY DEF DecideSwitchConstant, stmt
<1>2. /\ Here(s) /\ Nice(body) /\ warnings = {} /\ phase = "mark"
      /\ s \in Stmts(body) /\ BodyOK(body) /\ StatementOK(body, s) /\ t \in Seq(Fr)
  BY <1>1, AtDecided
<1>3. /\ \A i \in matching : Selected(body, s) = {In(cases[i])}
      /\ matching = {} => \A i \in defaults : Selected(body, s) = {In(cases[i])}
      /\ matching = {} /\ defaults = {} => Selected(body, s) = {End(s)}
  <2> HIDE DEF s
  <2>1. /\ Nice(body) /\ s \in Stmts(body) /\ body.stmt[s].kind = "switch"
        /\ body.stmt[s].sel # Dynamic
    BY <1>1, <1>2 DEF stmt
  <2>2. /\ matching = { i \in DOMAIN body.stmt[s].cases : Matches(body, s, body.stmt[s].cases[i]) }
        /\ defaults = { i \in DOMAIN body.stmt[s].cases : IsDefault(body, body.stmt[s].cases[i]) }
    OBVIOUS
  <2> HIDE DEF matching, defaults
  <2> QED
    BY <2>1, <2>2, OneLabel
<1>4. AfterTook(body, s) = Selected(body, s)
  BY <1>1 DEF AfterTook, stmt, Loops
<1>5. PICK C : /\ Hand(body, C, Selected(body, s), t, o, reaches_end, Null)
               /\ Known(body, C, Marked)
  BY <1>1, <1>4, TookTo
<1>6. \A i \in DOMAIN cases : cases[i] \in Stmts(body) /\ body.owner.stmt[cases[i]] = o
  <2>1. cases \in Seq(Stmts(body)) /\ DOMAIN cases = 1 .. Len(cases)
    BY <1>2 DEF StatementOK
  <2>2. \A i \in DOMAIN cases : cases[i] \in Stmts(body) /\ cases[i] \in CaseLabels(body, s)
    BY <2>1 DEF CaseLabels
  <2>3. Null \notin Stmts(body)
    BY <1>2 DEF BodyOK, Null
  <2>4. \A u \in CaseLabels(body, s) \ {Null} : body.owner.stmt[u] = body.owner.stmt[s]
    BY <1>2 DEF Nice, Regular, Confined
  <2> HIDE DEF cases
  <2> QED
    BY <2>2, <2>3, <2>4
<1>7. /\ "visit" \in PlainOps /\ "after" \in PlainOps
      /\ \A u : Point(body, "visit", u) = In(u) /\ Point(body, "after", u) = End(u)
  BY DEF Point, PlainOps
<1>8. matching \subseteq DOMAIN cases /\ defaults \subseteq DOMAIN cases
  OBVIOUS
<1> HIDE DEF s, t, o, cases, matching, defaults
<1>9. Cov(body, C, stack', ret, reaches_end, Marked)
  <2>1. ASSUME NEW u \in Stmts(body), body.owner.stmt[u] = o, NEW op \in PlainOps,
               Selected(body, s) = {Point(body, op, u)}, Continue(Frame(op, u))
        PROVE  Cov(body, C, stack', ret, reaches_end, Marked)
    BY <2>1, <1>2, <1>5, CGo DEF t, o
  <2>2. CASE \E i \in matching : Continue(Frame("visit", cases[i]))
    BY <2>1, <2>2, <1>3, <1>6, <1>7, <1>8
  <2>3. CASE matching = {} /\ \E i \in defaults : Continue(Frame("visit", cases[i]))
    BY <2>1, <2>3, <1>3, <1>6, <1>7, <1>8
  <2>4. CASE matching = {} /\ defaults = {} /\ Continue(Frame("after", s))
    BY <2>1, <2>4, <1>2, <1>3, <1>7 DEF o
  <2> QED
    BY <1>1, <2>2, <2>3, <2>4
<1> QED
  BY <1>1, <1>2, <1>9, CQuiet

\* The frame that goes through the labels of a switch.
LEMMA CasesFrame ==
  ASSUME NEW b, NEW f \in Fr, f.op = "cases"
  PROVE  /\ ~Waits(f) /\ f.op # "eval" /\ Own(b, f) = b.owner.stmt[f.at]
         /\ Owe(b, f) = OwedCases(b, f)
         /\ \A C : NotYet(b, C, f)
         /\ \A g : Apart(f, g)
<1>1. ~Waits(f)
  BY DEF Waits
<1>2. Own(b, f) = b.owner.stmt[f.at]
  BY DEF Own, Produces
<1>3. Owe(b, f) = OwedCases(b, f)
  BY DEF Owe, PlainOps
<1>4. \A C : NotYet(b, C, f)
  BY <1>1 DEF NotYet
<1>5. \A g : Apart(f, g)
  BY <1>1 DEF Apart
<1> QED
  BY <1>1, <1>2, <1>3, <1>4, <1>5

LEMMA CDecideSwitch ==
  ASSUME RegularBodies, ExactBodies, CInv, IInv', DecideSwitch
  PROVE  CInv'
<1> DEFINE s == Top.at
           t == Tail(stack)
           o == body.owner.stmt[s]
           f == Pending("cases", s, 1, FALSE)
<1>1. /\ At({"decide"}) /\ Returns /\ OnlyStack /\ Continue(f)
      /\ stmt[s].kind = "switch" /\ stmt[s].sel = Dynamic
  BY DEF DecideSwitch
<1>2. /\ Here(s) /\ Nice(body) /\ warnings = {} /\ phase = "mark"
      /\ s \in Stmts(body) /\ BodyOK(body) /\ StatementOK(body, s) /\ t \in Seq(Fr)
  BY <1>1, AtDecided
<1>3. /\ f \in Fr /\ ~Waits(f) /\ f.at = s /\ f.i = 1 /\ Own(body, f) = o
      /\ Owe(body, f) = OwedCases(body, f) /\ \A C : NotYet(body, C, f)
  <2>1. s \in Nat
    BY <1>2 DEF BodyOK
  <2>2. f \in Fr /\ f.op = "cases" /\ f.at = s /\ f.i = 1
    BY <2>1 DEF Pending, Fr, FrameOps
  <2> HIDE DEF f, s
  <2> QED
    BY <2>2, CasesFrame DEF o
<1> HIDE DEF f
<1>4. Selected(body, s) = OwedCases(body, f)
  <2> DEFINE cases == body.stmt[s].cases
             D     == { c \in CaseLabels(body, s) : IsDefault(body, c) }
  <2>1. cases \in Seq(Stmts(body))
    BY <1>2 DEF StatementOK
  <2>2. Selected(body, s) = { In(c) : c \in CaseLabels(body, s) }
                            \cup (IF D = {} THEN { End(s) } ELSE { In(c) : c \in D })
    BY <1>1 DEF Selected, stmt
  <2>3. { In(c) : c \in D } \subseteq { In(c) : c \in CaseLabels(body, s) }
    OBVIOUS
  <2>4. { In(c) : c \in CaseLabels(body, s) } = { In(cases[j]) : j \in 1 .. Len(cases) }
    BY DEF CaseLabels
  <2>5. { k \in 1 .. Len(cases) : f.i <= k } = 1 .. Len(cases)
    <3>1. Len(cases) \in Nat /\ f.i = 1
      BY <1>3, <2>1
    <3> HIDE DEF cases
    <3> QED
      BY <3>1
  <2>6. OwedCases(body, f) = { In(cases[j]) : j \in 1 .. Len(cases) }
          \cup { n \in { End(s) } : \A c \in CaseLabels(body, s) : ~IsDefault(body, c) }
    BY <1>3, <2>5 DEF OwedCases
  <2>7. D = {} <=> \A c \in CaseLabels(body, s) : ~IsDefault(body, c)
    OBVIOUS
  <2> HIDE DEF D, cases
  <2> QED
    BY <2>2, <2>3, <2>4, <2>6, <2>7
<1>5. AfterTook(body, s) = OwedCases(body, f)
  BY <1>1, <1>4 DEF AfterTook, stmt, Loops
<1>6. PICK C : /\ Hand(body, C, OwedCases(body, f), t, o, reaches_end, Null)
               /\ Known(body, C, Marked)
  BY <1>1, <1>5, TookTo
<1>7. Cov(body, C, <<f>> \o t, ret, reaches_end, Marked)
  BY <1>2, <1>3, <1>6, GiveOne
<1>8. stack' = <<f>> \o t
  BY <1>1 DEF Continue, f
<1> QED
  BY <1>1, <1>2, <1>7, <1>8, CQuiet

LEMMA CCases ==
  ASSUME RegularBodies, ExactBodies, CInv, IInv', NextCase \/ NoMoreCases
  PROVE  CInv'
<1> DEFINE s     == Top.at
           t     == Tail(stack)
           o     == body.owner.stmt[s]
           cases == body.stmt[s].cases
           k     == Top.i
           out   == { n \in { End(s) } : \A c \in CaseLabels(body, s) : ~IsDefault(body, c) }
<1>1. /\ At({"cases"}) /\ OnlyStack
      /\ \/ /\ k <= Len(cases)
            /\ Call(Frame("visit", cases[k]), Pending("cases", s, k + 1, FALSE))
         \/ /\ k > Len(cases)
            /\ IF \E c \in CaseLabels(body, s) : IsDefault(body, c)
               THEN Return ELSE Continue(Frame("after", s))
  BY DEF NextCase, NoMoreCases, stmt
<1>2. /\ Here(s) /\ Nice(body) /\ warnings = {} /\ phase = "mark"
      /\ stack \in Seq(Fr) /\ t \in Seq(Fr)
      /\ \E C : Cov(body, C, stack, ret, reaches_end, Marked)
  BY <1>1, AtTop DEF WalkOps
<1>3. stack # <<>> /\ Top.op = "cases"
  BY <1>1 DEF At
<1>4. ~Produces(Top) /\ ~Waits(Top)
  BY <1>3 DEF Produces, Waits
<1>5. s \in Stmts(body) /\ StatementOK(body, s) /\ BodyOK(body)
  BY <1>2, <1>4, AtStatement DEF Nice
<1>6. Own(body, Top) = o
  BY <1>3, <1>4 DEF Own
<1>7. k \in Nat /\ k > 0
  BY <1>2, <1>3 DEF Here, Good, Fr
<1>8. cases \in Seq(Stmts(body))
  BY <1>5 DEF StatementOK
<1>9. Owe(body, Top) \cup Value(body, Top, ret) = OwedCases(body, Top)
  BY <1>3, <1>4 DEF Owe, Value, PlainOps
<1>10. PICK C : Cov(body, C, stack, ret, reaches_end, Marked)
  BY <1>2
<1>11. Hand(body, C, Owe(body, Top) \cup Value(body, Top, ret), t, Own(body, Top),
            reaches_end, Null)
  BY <1>2, <1>3, <1>5, <1>10, Take DEF Top
<1>12. Hand(body, C, OwedCases(body, Top), t, o, reaches_end, Null) /\ Known(body, C, Marked)
  BY <1>6, <1>9, <1>10, <1>11 DEF Cov
<1>13. OwedCases(body, Top) = { In(cases[j]) : j \in { l \in 1 .. Len(cases) : k <= l } } \cup out
  BY DEF OwedCases
<1>14. /\ "visit" \in PlainOps /\ "after" \in PlainOps
       /\ \A u : Point(body, "visit", u) = In(u) /\ Point(body, "after", u) = End(u)
  BY DEF Point, PlainOps
<1>15. CASE /\ k <= Len(cases)
            /\ Call(Frame("visit", cases[k]), Pending("cases", s, k + 1, FALSE))
  <2> DEFINE f == Frame("visit", cases[k])
             g == Pending("cases", s, k + 1, FALSE)
  <2>1. cases[k] \in Stmts(body)
    BY <1>7, <1>8, <1>15
  <2>2. /\ f \in Fr /\ ~Waits(f) /\ Own(body, f) = body.owner.stmt[cases[k]]
        /\ Owe(body, f) = { In(cases[k]) } /\ NotYet(body, C, f)
    BY <2>1, <1>5, <1>14, PlainFrame
  <2>3. /\ g \in Fr /\ g.op # "eval" /\ NotYet(body, C, g) /\ g.at = s /\ g.i = k + 1
        /\ Owe(body, g) = OwedCases(body, g) /\ \A h : Apart(g, h)
    <3>1. s \in Nat /\ k + 1 \in Nat
      BY <1>5, <1>7 DEF BodyOK
    <3>2. g \in Fr /\ g.op = "cases" /\ g.at = s /\ g.i = k + 1
      BY <3>1 DEF Pending, Fr, FrameOps
    <3> HIDE DEF g, s, k
    <3> QED
      BY <3>2, CasesFrame
  <2>4. body.owner.stmt[cases[k]] = o
    <3>1. cases[k] \in CaseLabels(body, s)
      BY <1>7, <1>8, <1>15 DEF CaseLabels
    <3>2. cases[k] # Null
      BY <2>1, <1>5 DEF BodyOK, Null
    <3> QED
      BY <3>1, <3>2, <1>2, <1>5 DEF Nice, Regular, Confined
  <2> HIDE DEF f, g
  <2>5. OwedCases(body, g) = { In(cases[j]) : j \in { l \in 1 .. Len(cases) : k + 1 <= l } } \cup out
    BY <2>3 DEF OwedCases
  <2>6. { l \in 1 .. Len(cases) : k <= l } = {k} \cup { l \in 1 .. Len(cases) : k + 1 <= l }
    BY <1>7, <1>8, <1>15
  <2>7. OwedCases(body, Top) = Owe(body, f) \cup Owe(body, g)
    BY <1>13, <2>2, <2>3, <2>5, <2>6
  <2>8. OwedCases(body, Top) \cup AtEnd(o, reaches_end)
          = Owe(body, f) \cup Owe(body, g) \cup AtEnd(Own(body, f), reaches_end)
    BY <2>2, <2>4, <2>7
  <2>9. AllApart(g, t)
    BY <2>3 DEF AllApart
  <2>10. Cov(body, C, <<f, g>> \o t, ret, reaches_end, Marked)
    BY <1>2, <1>12, <2>2, <2>3, <2>8, <2>9, GiveTwo
  <2>11. stack' = <<f, g>> \o t
    BY <1>15 DEF Call, f, g
  <2> QED
    BY <1>1, <1>2, <2>10, <2>11, CQuiet
<1>16. CASE /\ k > Len(cases)
            /\ IF \E c \in CaseLabels(body, s) : IsDefault(body, c)
               THEN Return ELSE Continue(Frame("after", s))
  <2>1. { l \in 1 .. Len(cases) : k <= l } = {}
    BY <1>7, <1>8, <1>16
  <2>2. OwedCases(body, Top) = out
    BY <1>13, <2>1
  <2>3. Cov(body, C, stack', ret, reaches_end, Marked)
    <3>1. CASE \E c \in CaseLabels(body, s) : IsDefault(body, c)
      <4>1. Return /\ Hand(body, C, {}, t, o, reaches_end, Null)
        BY <3>1, <2>2, <1>12, <1>16
      <4> QED
        BY <4>1, <1>2, <1>4, <1>6, <1>12, CPop
    <3>2. CASE ~\E c \in CaseLabels(body, s) : IsDefault(body, c)
      <4>1. Continue(Frame("after", s)) /\ Hand(body, C, {End(s)}, t, o, reaches_end, Null)
        BY <3>2, <2>2, <1>12, <1>16
      <4> QED
        BY <4>1, <1>2, <1>5, <1>12, <1>14, CGo
    <3> QED
      BY <3>1, <3>2
  <2> QED
    BY <1>1, <1>2, <2>3, CQuiet
<1> QED
  BY <1>1, <1>15, <1>16

-----------------------------------------------------------------------------
(***************************************************************************)
(* The evaluation of an expression.                                        *)
(***************************************************************************)
LEMMA AtExpression ==
  ASSUME RegularBodies, ExactBodies, CInv, NEW ops, At(ops),
         ops \subseteq {"eval", "operand", "close"}, NEW e, e = Top.at
  PROVE  /\ Here(e) /\ Nice(body) /\ BodyOK(body) /\ warnings = {} /\ phase = "mark"
         /\ stack # <<>> /\ Top.op \in ops /\ Produces(Top) /\ Top \in Fr
         /\ e \in Exprs(body) /\ e \in Nat /\ e # Null /\ ExpressionOK(body, e)
         /\ body.expr[e].sub \in Seq(Exprs(body))
         /\ Top.op # "close" => Own(body, Top) = body.owner.expr[e]
         /\ Top.op = "close" => Own(body, Top) = e
         /\ Tail(stack) \in Seq(Fr)
         /\ \A k \in 1 .. Len(Tail(stack)) : Tail(stack)[k] \in Fr /\ Good(body, Tail(stack)[k])
         /\ Tail(stack) # <<>> /\ Waits(Head(Tail(stack)))
         /\ WaitsFor(body, Head(Tail(stack))) = e
         /\ Own(body, Head(Tail(stack))) = body.owner.expr[e]
         /\ \A x : (Top.op = "operand" => x = e) =>
              \E C : /\ Hand(body, C, Owe(body, Top) \cup Value(body, Top, ret), Tail(stack),
                             Own(body, Top), reaches_end, x)
                     /\ NotYet(body, C, Top) /\ AllApart(Top, Tail(stack))
                     /\ HeadOK(body, C, stack, ret) /\ Known(body, C, Marked)
<1>1. ops \cap WalkOps = {}
  BY DEF WalkOps
<1>2. /\ Here(e) /\ Nice(body) /\ warnings = {} /\ phase = "mark"
      /\ stack \in Seq(Fr) /\ Tail(stack) \in Seq(Fr)
      /\ \A k \in 1 .. Len(Tail(stack)) : Tail(stack)[k] \in Fr /\ Good(body, Tail(stack)[k])
      /\ \E C : Cov(body, C, stack, ret, reaches_end, Marked)
  BY <1>1, AtTop
<1>3. stack # <<>> /\ Top.op \in ops
  BY DEF At
<1>4. Produces(Top)
  BY <1>3 DEF Produces
<1>5. BodyOK(body)
  BY <1>2 DEF Nice
<1>6. e \in Exprs(body) /\ Top \in Fr
  BY <1>2, <1>4 DEF Here, Good
<1>7. e \in Nat /\ e # Null /\ ExpressionOK(body, e)
  BY <1>5, <1>6 DEF BodyOK, Null
<1>8. body.expr[e].sub \in Seq(Exprs(body))
  BY <1>7 DEF ExpressionOK
<1>9. /\ Top.op # "close" => Own(body, Top) = body.owner.expr[e]
      /\ Top.op = "close" => Own(body, Top) = e
      /\ Outer(body, Top) = body.owner.expr[e]
  BY <1>4 DEF Own, Outer
<1>10. /\ Tail(stack) # <<>> /\ Waits(Head(Tail(stack)))
       /\ WaitsFor(body, Head(Tail(stack))) = e
       /\ Own(body, Head(Tail(stack))) = body.owner.expr[e]
  <2>1. AllOK(body, stack, ret, reaches_end) /\ stack # <<>>
    BY <1>2 DEF Here
  <2>2. /\ Tail(stack) # <<>> /\ Waits(Head(Tail(stack)))
        /\ WaitsFor(body, Head(Tail(stack))) = Top.at
        /\ Own(body, Head(Tail(stack))) = Outer(body, Top)
    BY <2>1, <1>4, Below DEF Top
  <2>. QED
    BY <2>2, <1>9
<1>11. ASSUME NEW x, Top.op = "operand" => x = e
       PROVE  \E C : /\ Hand(body, C, Owe(body, Top) \cup Value(body, Top, ret), Tail(stack),
                             Own(body, Top), reaches_end, x)
                     /\ NotYet(body, C, Top) /\ AllApart(Top, Tail(stack))
                     /\ HeadOK(body, C, stack, ret) /\ Known(body, C, Marked)
  <2>1. PICK C : Cov(body, C, stack, ret, reaches_end, Marked)
    BY <1>2
  <2>2. Head(stack).op = "operand" => x = Head(stack).at
    BY <1>11 DEF Top
  <2>3. Hand(body, C, Owe(body, Top) \cup Value(body, Top, ret), Tail(stack), Own(body, Top),
             reaches_end, x)
    BY <1>2, <1>3, <1>5, <2>1, <2>2, Take DEF Top
  <2>4. NotYet(body, C, Top) /\ AllApart(Top, Tail(stack)) /\ Known(body, C, Marked)
        /\ HeadOK(body, C, stack, ret)
    BY <1>3, <2>1 DEF Cov, Fresh, Top
  <2> QED
    BY <2>3, <2>4
<1> QED
  BY <1>2, <1>3, <1>4, <1>5, <1>6, <1>7, <1>8, <1>9, <1>10, <1>11

\* The frame at the head of t waits for e: its use has begun, and no other
\* frame makes use of it.
LEMMA Holder ==
  ASSUME NEW b, Nice(b), NEW C, NEW t \in Seq(Fr), Settled(b, C, t), t # <<>>,
         \A k \in 1 .. Len(t) : Good(b, t[k]),
         NEW e \in Exprs(b), Waits(Head(t)), WaitsFor(b, Head(t)) = e
  PROVE  /\ Started(b, C, e)
         /\ \A k \in 1 .. Len(t) : t[k].op = "operand" =>
              \A j \in 1 .. Len(b.expr[t[k].at].sub) : t[k].i < j => b.expr[t[k].at].sub[j] # e
<1> DEFINE g == Head(t)
<1>1. Len(t) \in Nat /\ Len(t) > 0 /\ g = t[1] /\ 1 \in 1 .. Len(t)
  OBVIOUS
<1>2. g \in Fr /\ Good(b, g) /\ NotYet(b, C, g) /\ Waits(g) /\ WaitsFor(b, g) = e
  BY <1>1 DEF Settled
<1>3. \A k \in 1 .. Len(t) : k # 1 => Apart(t[k], g)
  BY <1>1 DEF Settled
<1>4. \A k \in 1 .. Len(t) : t[k].op = "operand" => Waits(t[k]) /\ t[k].at \in Exprs(b)
  BY DEF Waits, Good, Produces
<1> HIDE DEF g
<1>5. CASE g.op = "operand"
  <2>1. /\ g.at \in Exprs(b) /\ g.i \in 1 .. Len(b.expr[g.at].sub)
        /\ b.expr[g.at].sub[g.i] = e
    BY <1>2, <1>5 DEF Good, Produces, OperandOK, WaitsFor
  <2>2. Begin(g.at) \in C
    BY <1>2, <1>5 DEF NotYet
  <2>o. OnlyIn(b, g.at, g.i, e)
    BY <2>1, OneParent
  <2>3. \A s \in Stmts(b) : b.stmt[s].expr # e
    BY <2>o DEF OnlyIn
  <2>4. \A y \in Exprs(b) : \A j \in 1 .. Len(b.expr[y].sub) :
          b.expr[y].sub[j] = e => y = g.at /\ j = g.i
    BY <2>o DEF OnlyIn
  <2>5. Started(b, C, e)
    BY <2>2, <2>3, <2>4 DEF Started
  <2>6. ASSUME NEW k \in 1 .. Len(t), t[k].op = "operand",
               NEW j \in 1 .. Len(b.expr[t[k].at].sub), t[k].i < j, b.expr[t[k].at].sub[j] = e
        PROVE  FALSE
    <3>1. t[k].at = g.at /\ j = g.i
      BY <2>4, <2>6, <1>4
    <3>2. k = 1
      BY <3>1, <2>6, <1>2, <1>3, <1>4, <1>5 DEF Apart
    <3>3. t[k].i = g.i /\ g.i \in Nat
      BY <3>2, <1>1, <1>2 DEF Fr
    <3> QED
      BY <3>1, <3>3, <2>6
  <2> QED
    BY <2>5, <2>6
<1>6. CASE g.op # "operand"
  <2>1. g.op = "decide" /\ b.stmt[g.at].expr = e
    BY <1>2, <1>6 DEF Waits, WaitsFor
  <2>2. g.at \in Stmts(b) /\ Test(g.at) \in C
    BY <1>2, <2>1 DEF Good, Produces, NotYet
  <2>3. e # Null
    BY DEF Nice, BodyOK, Null
  <2>4. \A s \in Stmts(b) : b.stmt[s].expr = e => s = g.at
    BY <2>1, <2>2, <2>3 DEF Nice, Exact, Tree
  <2>5. \A y \in Exprs(b) : \A j \in 1 .. Len(b.expr[y].sub) : b.expr[y].sub[j] # e
    BY <2>1, <2>2 DEF Nice, Exact, Tree
  <2>6. Started(b, C, e)
    BY <2>2, <2>4, <2>5 DEF Started
  <2> QED
    BY <2>5, <2>6, <1>4
<1> QED
  BY <1>5, <1>6

\* Begin(e) is looked at.
LEMMA EvalHand ==
  ASSUME RegularBodies, ExactBodies, CInv, At({"eval"}), NEW e, e = Top.at
  PROVE  \E C : /\ Begin(e) \in C /\ Known(body, C, Marked)
                /\ \A P : \/ P = AfterBegin(body, e)
                          \/ /\ body.expr[e].kind = "list" /\ body.expr[e].sub = <<>>
                             /\ P = {Done(e)}
                          => Hand(body, C, P, Tail(stack), body.owner.expr[e], reaches_end, e)
                /\ \A j \in 1 .. Len(body.expr[e].sub) :
                     Begin(body.expr[e].sub[j]) \notin C /\ Done(body.expr[e].sub[j]) \notin C
                /\ \A k \in 1 .. Len(Tail(stack)) :
                     Tail(stack)[k].op = "operand" => Tail(stack)[k].at # e
<1> DEFINE t == Tail(stack)
           o == body.owner.expr[e]
           n == Begin(e)
<1>1. /\ Nice(body) /\ e \in Exprs(body) /\ Top.op = "eval" /\ Own(body, Top) = o
      /\ t \in Seq(Fr) /\ \A k \in 1 .. Len(t) : t[k] \in Fr /\ Good(body, t[k])
      /\ t # <<>> /\ Waits(Head(t)) /\ WaitsFor(body, Head(t)) = e
      /\ body.expr[e].sub \in Seq(Exprs(body))
      /\ \E C : /\ Hand(body, C, Owe(body, Top) \cup Value(body, Top, ret), t, Own(body, Top),
                        reaches_end, Null)
                /\ NotYet(body, C, Top) /\ Known(body, C, Marked)
  BY AtExpression DEF At
<1>2. PICK C : /\ Hand(body, C, Owe(body, Top) \cup Value(body, Top, ret), t, Own(body, Top),
                       reaches_end, Null)
               /\ NotYet(body, C, Top) /\ Known(body, C, Marked)
  BY <1>1
<1>3. Owe(body, Top) \cup Value(body, Top, ret) = {n}
  BY <1>1 DEF Owe, Value, Waits, PlainOps
<1>4. Hand(body, C, {n}, t, o, reaches_end, Null)
  BY <1>1, <1>2, <1>3
<1>5. n \notin C
  BY <1>1, <1>2 DEF NotYet
<1> HIDE DEF t, o
<1>6. Settled(body, C, t) /\ Begun(body, C)
  BY <1>4 DEF Hand
<1>7. /\ Started(body, C, e)
      /\ \A k \in 1 .. Len(t) : t[k].op = "operand" =>
           \A j \in 1 .. Len(body.expr[t[k].at].sub) :
             t[k].i < j => body.expr[t[k].at].sub[j] # e
  BY <1>1, <1>6, Holder
<1>8. Succ(body, n) = AfterBegin(body, e)
  BY DEF Succ, Begin
<1> HIDE DEF n
<1>9. Begin(e) = n
  BY DEF n
<1>10. ASSUME NEW P,
              \/ P = AfterBegin(body, e)
              \/ body.expr[e].kind = "list" /\ body.expr[e].sub = <<>> /\ P = {Done(e)}
       PROVE  Hand(body, C \cup {n}, P, t, o, reaches_end, e)
  <2>1. /\ AfterBegin(body, e) \subseteq C \cup {n} \cup P \cup Skipped(body)
        /\ P \subseteq C \cup {n} \cup {n} \cup AfterBegin(body, e) \cup ListsDone(body, C \cup {n})
    <3>1. CASE P = AfterBegin(body, e)
      BY <3>1
    <3>2. CASE body.expr[e].kind = "list" /\ body.expr[e].sub = <<>> /\ P = {Done(e)}
      <4>1. DOMAIN body.expr[e].sub = {}
        BY <3>2
      <4>2. AfterBegin(body, e) = {}
        BY <3>2, <4>1 DEF AfterBegin
      <4>3. Done(e) \in ListsDone(body, C \cup {n})
        BY <1>1, <1>9, <3>2, <4>1 DEF ListsDone
      <4> QED
        BY <3>2, <4>2, <4>3
    <3> QED
      BY <1>10, <3>1, <3>2
  <2>2. /\ {n} \subseteq C \cup {n} \cup P
        /\ Succ(body, n) \subseteq C \cup {n} \cup P \cup Skipped(body)
        /\ P \subseteq C \cup {n} \cup {n} \cup Succ(body, n) \cup ListsDone(body, C \cup {n})
        /\ n \in C \cup {n}
    BY <1>8, <2>1
  <2> QED
    BY <1>1, <1>4, <1>7, <1>9, <2>2, HandBegin
<1>11. Known(body, C \cup {n}, Marked)
  BY <1>2, <1>9, QuietPoints
<1>12. ASSUME NEW j \in 1 .. Len(body.expr[e].sub)
       PROVE  /\ Begin(body.expr[e].sub[j]) \notin C \cup {n}
              /\ Done(body.expr[e].sub[j]) \notin C \cup {n}
  <2> DEFINE x == body.expr[e].sub[j]
  <2>1. x \in Exprs(body)
    BY <1>1
  <2>2. x # e
    BY <1>1, <1>5, <1>7, <1>9 DEF Started
  <2>3. Begin(x) \notin C
    BY <1>1, <1>5, <1>6, <1>9, <2>1 DEF Begun, Started
  <2>4. Done(x) \notin C
    BY <1>6, <2>1, <2>3 DEF Begun
  <2>5. Begin(x) # n /\ Done(x) # n
    BY <2>2 DEF n, Begin, Done
  <2> QED
    BY <2>3, <2>4, <2>5
<1>13. ASSUME NEW k \in 1 .. Len(t), t[k].op = "operand", t[k].at = e PROVE FALSE
  <2>1. NotYet(body, C, t[k])
    BY <1>6 DEF Settled
  <2> QED
    BY <2>1, <1>5, <1>9, <1>13 DEF NotYet
<1> QED
  BY <1>9, <1>10, <1>11, <1>12, <1>13 DEF t, o

\* The evaluation of e is over.
LEMMA ValueOver ==
  ASSUME NEW e, Here(e), IInv', phase = "mark", warnings = {},
         Top.op \in {"eval", "operand"}, e = Top.at, Return,
         Own(body, Top) = body.owner.expr[e],
         UNCHANGED << fn, reaches_end, marks, facts, warnings, phase >>,
         NEW C, NEW P, P = (IF ret' THEN {Done(e)} ELSE {}),
         Hand(body, C, P, Tail(stack), body.owner.expr[e], reaches_end, Null),
         Known(body, C, Marked), Begin(e) \in C, body.expr[e].kind = "value" => ret'
  PROVE  CInv'
<1>1. /\ phase' = "mark" /\ fn' = fn /\ warnings' = {}
      /\ reaches_end' = reaches_end /\ Marked' = Marked
  BY DEF Marked, marks, facts
<1>2. Cov(body, C, Tail(stack), ret', reaches_end, Marked)
  BY GiveValue DEF Here, Top
<1> QED
  BY <1>1, <1>2, CStep DEF Return

\* Nothing follows the beginning of a call that does not return.
LEMMA NoArguments ==
  ASSUME NEW b, Nice(b), NEW e \in Exprs(b), b.expr[e].kind = "noreturn"
  PROVE  AfterBegin(b, e) = {}
<1>1. b.expr[e].sub = <<>>
  BY DEF Nice, Exact, ArgumentsOK
<1> QED
  BY <1>1 DEF AfterBegin

LEMMA CEvalLeaf ==
  ASSUME RegularBodies, ExactBodies, CInv, IInv', EvalLeaf
  PROVE  CInv'
<1> DEFINE e == Top.at
           t == Tail(stack)
           o == body.owner.expr[e]
           P == IF ret' THEN {Done(e)} ELSE {}
<1>1. /\ At({"eval"}) /\ Return
      /\ \/ body.expr[e].kind = "value" /\ ret' = TRUE
         \/ body.expr[e].kind = "noreturn" /\ ret' = FALSE
         \/ body.expr[e].kind \in {"seq", "list"} /\ body.expr[e].sub = <<>> /\ ret' = TRUE
      /\ UNCHANGED << fn, reaches_end, marks, facts, warnings, phase >>
  BY DEF EvalLeaf, expr
<1>2. /\ Here(e) /\ Nice(body) /\ warnings = {} /\ phase = "mark" /\ e \in Exprs(body)
      /\ Top.op = "eval" /\ Own(body, Top) = o
  BY <1>1, AtExpression
<1>3. PICK C : /\ Begin(e) \in C /\ Known(body, C, Marked)
               /\ \A Q : \/ Q = AfterBegin(body, e)
                         \/ /\ body.expr[e].kind = "list" /\ body.expr[e].sub = <<>>
                            /\ Q = {Done(e)}
                         => Hand(body, C, Q, t, o, reaches_end, e)
  BY <1>1, EvalHand
<1>4. \/ P = AfterBegin(body, e)
      \/ body.expr[e].kind = "list" /\ body.expr[e].sub = <<>> /\ P = {Done(e)}
  <2>1. CASE body.expr[e].kind = "value" /\ ret' = TRUE
    BY <2>1 DEF AfterBegin
  <2>2. CASE body.expr[e].kind = "noreturn" /\ ret' = FALSE
    <3>1. AfterBegin(body, e) = {}
      BY <1>2, <2>2, NoArguments
    <3> QED
      BY <2>2, <3>1
  <2>3. CASE body.expr[e].kind \in {"seq", "list"} /\ body.expr[e].sub = <<>> /\ ret' = TRUE
    BY <2>3 DEF AfterBegin
  <2> QED
    BY <1>1, <2>1, <2>2, <2>3
<1>5. Hand(body, C, P, t, o, reaches_end, e)
  BY <1>3, <1>4
<1>6. body.expr[e].kind # "list" \/ Done(e) \in C \cup P
  BY <1>1
<1>7. body.expr[e].kind = "value" => ret'
  BY <1>1
<1> HIDE DEF P, e, t, o
<1>8. Hand(body, C, P, t, o, reaches_end, Null)
  BY <1>5, <1>6, HandDrop
<1> QED
  BY <1>1, <1>2, <1>3, <1>7, <1>8, ValueOver DEF P, e, t, o

\* The frame of an operand.
LEMMA OperandFrame ==
  ASSUME NEW b, NEW f \in Fr, f.op = "operand"
  PROVE  /\ Waits(f) /\ f.op # "eval" /\ Owe(b, f) = OwedOperands(b, f)
         /\ WaitsFor(b, f) = b.expr[f.at].sub[f.i]
         /\ \A t : (\A k \in 1 .. Len(t) : t[k].op = "operand" => t[k].at # f.at)
                   => AllApart(f, t)
<1>1. Waits(f)
  BY DEF Waits
<1>2. Owe(b, f) = OwedOperands(b, f)
  BY DEF Owe, PlainOps
<1>3. WaitsFor(b, f) = b.expr[f.at].sub[f.i]
  BY DEF WaitsFor
<1>4. \A t : (\A k \in 1 .. Len(t) : t[k].op = "operand" => t[k].at # f.at) => AllApart(f, t)
  BY DEF AllApart, Apart
<1> QED
  BY <1>1, <1>2, <1>3, <1>4

\* What the frame f owes, by the kind of its expression.
LEMMA OwedByKind ==
  ASSUME NEW b, NEW f \in Fr, NEW sub, sub = b.expr[f.at].sub, Len(sub) \in Nat,
         NEW k, k = b.expr[f.at].kind
  PROVE  /\ k = "seq" => OwedOperands(b, f) = {}
         /\ k = "list" => OwedOperands(b, f) =
              { Begin(sub[j]) : j \in { l \in 1 .. Len(sub) : f.i < l } }
         /\ k = "cond" /\ f.i <= 1 => OwedOperands(b, f) = {}
         /\ k = "cond" /\ f.i > 1 => OwedOperands(b, f) =
              { Begin(sub[j]) : j \in { l \in 1 .. Len(sub) : f.i < l } }
              \cup { n \in {Done(f.at)} : Len(sub) = 2 }
<1> DEFINE S == { Begin(sub[j]) : j \in { l \in 1 .. Len(sub) : f.i < l } }
<1>1. OwedOperands(b, f) =
        { n \in S : k = "list" \/ (k = "cond" /\ f.i > 1) }
        \cup { n \in {Done(f.at)} : k = "cond" /\ f.i > 1 /\ Len(sub) = 2 }
  BY DEF OwedOperands
<1> HIDE DEF S
<1>2. k = "seq" => OwedOperands(b, f) = {}
  BY <1>1
<1>3. k = "list" => OwedOperands(b, f) = S
  BY <1>1
<1>4. k = "cond" /\ f.i <= 1 => OwedOperands(b, f) = {}
  <2>1. f.i <= 1 => ~(f.i > 1)
    BY DEF Fr
  <2> QED
    BY <1>1, <2>1
<1>5. k = "cond" /\ f.i > 1 => OwedOperands(b, f) = S \cup { n \in {Done(f.at)} : Len(sub) = 2 }
  BY <1>1
<1> QED
  BY <1>2, <1>3, <1>4, <1>5 DEF S

OwedAs(Q, k, sub, i, e) ==
  /\ k = "seq" => Q = {}
  /\ k = "list" => Q = { Begin(sub[j]) : j \in { l \in 1 .. Len(sub) : i < l } }
  /\ k = "cond" /\ i <= 1 => Q = {}
  /\ k = "cond" /\ i > 1 =>
       Q = { Begin(sub[j]) : j \in { l \in 1 .. Len(sub) : i < l } }
           \cup { n \in {Done(e)} : Len(sub) = 2 }

LEMMA OwedShape ==
  ASSUME NEW b, NEW f \in Fr, Len(b.expr[f.at].sub) \in Nat
  PROVE  OwedAs(OwedOperands(b, f), b.expr[f.at].kind, b.expr[f.at].sub, f.i, f.at)
<1> DEFINE sub == b.expr[f.at].sub
           k   == b.expr[f.at].kind
<1> HIDE DEF sub, k
<1>1. sub = b.expr[f.at].sub /\ k = b.expr[f.at].kind /\ Len(sub) \in Nat
  BY DEF sub, k
<1>2. OwedAs(OwedOperands(b, f), k, sub, f.i, f.at)
  BY <1>1, OwedByKind DEF OwedAs
<1> QED
  BY <1>1, <1>2

LEMMA CEvalOperands ==
  ASSUME RegularBodies, ExactBodies, CInv, IInv', EvalOperands
  PROVE  CInv'
<1> DEFINE e   == Top.at
           t   == Tail(stack)
           o   == body.owner.expr[e]
           sub == body.expr[e].sub
           f   == Frame("eval", sub[1])
           g   == Pending("operand", e, 1, TRUE)
<1>1. /\ At({"eval"}) /\ OnlyStack /\ Call(f, g)
      /\ body.expr[e].kind \in {"seq", "list", "cond"} /\ sub # <<>>
  BY DEF EvalOperands, expr
<1>2. /\ Here(e) /\ Nice(body) /\ warnings = {} /\ phase = "mark" /\ e \in Exprs(body)
      /\ e \in Nat /\ Top.op = "eval" /\ Own(body, Top) = o /\ t \in Seq(Fr)
      /\ sub \in Seq(Exprs(body))
  BY <1>1, AtExpression
<1>3. PICK C : /\ Begin(e) \in C /\ Known(body, C, Marked)
               /\ \A Q : \/ Q = AfterBegin(body, e)
                         \/ /\ body.expr[e].kind = "list" /\ body.expr[e].sub = <<>>
                            /\ Q = {Done(e)}
                         => Hand(body, C, Q, t, o, reaches_end, e)
               /\ \A j \in 1 .. Len(sub) : Begin(sub[j]) \notin C /\ Done(sub[j]) \notin C
               /\ \A k \in 1 .. Len(t) : t[k].op = "operand" => t[k].at # e
  BY <1>1, EvalHand
<1>4. Hand(body, C, AfterBegin(body, e), t, o, reaches_end, e)
  BY <1>3
<1>5. Len(sub) \in Nat /\ 1 \in 1 .. Len(sub) /\ sub[1] \in Exprs(body) /\ DOMAIN sub = 1 .. Len(sub)
  BY <1>1, <1>2
<1>6. sub[1] \in Nat
  BY <1>2, <1>5 DEF Nice, BodyOK
<1>7. f \in Fr /\ f.op = "eval" /\ f.at = sub[1]
  BY <1>6 DEF Frame, Pending, Fr, FrameOps
<1>8. g \in Fr /\ g.op = "operand" /\ g.at = e /\ g.i = 1 /\ g.flag = TRUE
  BY <1>2 DEF Pending, Fr, FrameOps
<1> HIDE DEF f, g, e, t, o
<1>9. ~Waits(f) /\ Own(body, f) = o /\ Owe(body, f) = {Begin(sub[1])} /\ NotYet(body, C, f)
  <2>1. ~Waits(f) /\ NotYet(body, C, f)
    BY <1>3, <1>5, <1>7 DEF Waits, NotYet
  <2>2. body.owner.expr[sub[1]] = body.owner.expr[e]
    BY <1>2, <1>5 DEF Nice, Regular, Confined
  <2>3. Own(body, f) = o
    BY <2>2, <1>7 DEF Own, Produces, o
  <2>4. Owe(body, f) = {Begin(sub[1])}
    BY <1>7 DEF Owe, PlainOps
  <2> QED
    BY <2>1, <2>3, <2>4
<1>10. /\ Waits(g) /\ g.op # "eval" /\ Owe(body, g) = OwedOperands(body, g)
       /\ WaitsFor(body, g) = sub[1] /\ AllApart(g, t)
  BY <1>3, <1>8, OperandFrame
<1>11. NotYet(body, C, g)
  <2>1. \A j \in 1 .. g.i - 1 : FALSE
    BY <1>8
  <2> QED
    BY <2>1, <1>3, <1>5, <1>8, <1>10 DEF NotYet
<1>12. AfterBegin(body, e) = Owe(body, f) \cup Owe(body, g)
  <2>1. CASE body.expr[e].kind = "seq"
    <3>1. OwedOperands(body, g) = {}
      BY <2>1, <1>5, <1>8, OwedByKind
    <3>2. AfterBegin(body, e) = {Begin(sub[1])}
      BY <2>1, <1>1 DEF AfterBegin
    <3> QED
      BY <3>1, <3>2, <1>9, <1>10
  <2>2. CASE body.expr[e].kind = "cond"
    <3>1. OwedOperands(body, g) = {}
      BY <2>2, <1>5, <1>8, OwedByKind
    <3>2. AfterBegin(body, e) = {Begin(sub[1])}
      BY <2>2, <1>1 DEF AfterBegin
    <3> QED
      BY <3>1, <3>2, <1>9, <1>10
  <2>3. CASE body.expr[e].kind = "list"
    <3>1. OwedOperands(body, g) = { Begin(sub[j]) : j \in { l \in 1 .. Len(sub) : g.i < l } }
      BY <2>3, <1>5, <1>8, OwedByKind
    <3>2. AfterBegin(body, e) = { Begin(sub[j]) : j \in 1 .. Len(sub) }
      BY <2>3, <1>5 DEF AfterBegin
    <3>3. 1 .. Len(sub) = {1} \cup { l \in 1 .. Len(sub) : g.i < l }
      BY <1>5, <1>8
    <3> HIDE DEF sub
    <3> QED
      BY <3>1, <3>2, <3>3, <1>9, <1>10
  <2> QED
    BY <1>1, <2>1, <2>2, <2>3
<1>13. AfterBegin(body, e) \cup AtEnd(o, reaches_end)
         = Owe(body, f) \cup Owe(body, g) \cup AtEnd(Own(body, f), reaches_end)
  BY <1>9, <1>12
<1>14. Cov(body, C, <<f, g>> \o t, ret, reaches_end, Marked)
  BY <1>2, <1>3, <1>4, <1>7, <1>8, <1>9, <1>10, <1>11, <1>13, GiveTwo
<1>15. stack' = <<f, g>> \o t
  BY <1>1 DEF Call, t
<1> QED
  BY <1>1, <1>2, <1>14, <1>15, CQuiet

\* x is operand i of e, and nothing in t is busy with the operands of e.
OperandOf(b, e, i, x, t) ==
  /\ e \in Exprs(b) /\ i \in DOMAIN b.expr[e].sub /\ x = b.expr[e].sub[i]
  /\ t \in Seq(Fr) /\ \A k \in 1 .. Len(t) : Good(b, t[k])
  /\ \A k \in 1 .. Len(t) : t[k].op = "operand" => t[k].at # e

\* It belongs to e alone.
OwnedBy(b, e, i, x, t) ==
  /\ x \in Exprs(b) /\ Free(b, t, x)
  /\ \A y \in Exprs(b) : \A j \in 1 .. Len(b.expr[y].sub) :
       b.expr[y].sub[j] = x => y = e /\ j = i
  /\ \A s \in Stmts(b) : b.stmt[s].expr # x
  /\ Succ(b, Done(x)) = AfterOperand(b, e, i)

LEMMA OwnOperand ==
  ASSUME NEW b, Nice(b), NEW e, NEW i, NEW x, NEW t, OperandOf(b, e, i, x, t)
  PROVE  OwnedBy(b, e, i, x, t)
<1> USE DEF OperandOf
<1>1. b.expr[e].sub \in Seq(Exprs(b))
  BY DEF Nice, BodyOK, ExpressionOK
<1>2. x \in Exprs(b) /\ i \in 1 .. Len(b.expr[e].sub)
  BY <1>1
<1>3. \A y \in Exprs(b) : \A j \in 1 .. Len(b.expr[y].sub) :
        b.expr[y].sub[j] = x => y = e /\ j = i
  <2>1. OnlyIn(b, e, i, x)
    BY <1>2, OneParent
  <2> QED
    BY <2>1 DEF OnlyIn
<1>4. \A s \in Stmts(b) : b.stmt[s].expr # x
  <2>1. OnlyIn(b, e, i, x)
    BY <1>2, OneParent
  <2> QED
    BY <2>1 DEF OnlyIn
<1>5. Free(b, t, x)
  <2> SUFFICES ASSUME NEW k \in 1 .. Len(t)
               PROVE  /\ t[k].op = "operand" =>
                           \A j \in 1 .. Len(b.expr[t[k].at].sub) : b.expr[t[k].at].sub[j] # x
                      /\ Waits(t[k]) => WaitsFor(b, t[k]) # x
    BY DEF Free
  <2>1. Good(b, t[k])
    OBVIOUS
  <2>2. CASE t[k].op = "operand"
    <3>1. t[k].at \in Exprs(b) /\ t[k].i \in 1 .. Len(b.expr[t[k].at].sub) /\ t[k].at # e
      BY <2>1, <2>2 DEF Good, Produces, OperandOK
    <3> QED
      BY <2>2, <3>1, <1>3 DEF WaitsFor
  <2>3. CASE t[k].op # "operand"
    <3> SUFFICES ASSUME Waits(t[k]), WaitsFor(b, t[k]) = x PROVE FALSE
      BY <2>3
    <3>1. t[k].op = "decide" /\ b.stmt[t[k].at].expr = x
      BY <2>3 DEF Waits, WaitsFor
    <3>2. t[k].at \in Stmts(b)
      BY <2>1, <3>1 DEF Good, Produces
    <3> QED
      BY <3>1, <3>2, <1>4
  <2> QED
    BY <2>2, <2>3
<1>6. Succ(b, Done(x)) = AfterDone(b, x)
  BY DEF Succ, Done
<1>7. { Took(s) : s \in { y \in Stmts(b) : b.stmt[y].expr = x } } = {}
  BY <1>4
<1>8. UNION { UNION { AfterOperand(b, y, j) :
                        j \in { l \in 1 .. Len(b.expr[y].sub) : b.expr[y].sub[l] = x } } :
              y \in Exprs(b) } = AfterOperand(b, e, i)
  <2>1. \A y \in Exprs(b) : y # e =>
          { l \in 1 .. Len(b.expr[y].sub) : b.expr[y].sub[l] = x } = {}
    BY <1>3
  <2>2. { l \in 1 .. Len(b.expr[e].sub) : b.expr[e].sub[l] = x } = {i}
    BY <1>2, <1>3
  <2>3. \A y \in Exprs(b) :
          UNION { AfterOperand(b, y, j) :
                    j \in { l \in 1 .. Len(b.expr[y].sub) : b.expr[y].sub[l] = x } }
            = IF y = e THEN AfterOperand(b, e, i) ELSE {}
    <3> SUFFICES ASSUME NEW y \in Exprs(b)
                 PROVE  UNION { AfterOperand(b, y, j) :
                            j \in { l \in 1 .. Len(b.expr[y].sub) : b.expr[y].sub[l] = x } }
                          = IF y = e THEN AfterOperand(b, e, i) ELSE {}
      OBVIOUS
    <3>1. CASE y = e
      <4>1. { l \in 1 .. Len(b.expr[y].sub) : b.expr[y].sub[l] = x } = {i}
        BY <3>1, <2>2
      <4> QED
        BY <3>1, <4>1
    <3>2. CASE y # e
      <4>1. { l \in 1 .. Len(b.expr[y].sub) : b.expr[y].sub[l] = x } = {}
        BY <3>2, <2>1
      <4> QED
        BY <3>2, <4>1
    <3> QED
      BY <3>1, <3>2
  <2> QED
    BY <2>3
<1>9. AfterDone(b, x) = AfterOperand(b, e, i)
  BY <1>7, <1>8 DEF AfterDone
<1> QED
  BY <1>2, <1>3, <1>4, <1>5, <1>6, <1>9 DEF OwnedBy

\* Operand i of e has been evaluated; Done of it is looked at if it returns.
LEMMA OperandHand ==
  ASSUME RegularBodies, ExactBodies, CInv, At({"operand"}), NEW e, e = Top.at,
         NEW i, i = Top.i, NEW x, x = body.expr[e].sub[i]
  PROVE  /\ i \in 1 .. Len(body.expr[e].sub) /\ OperandOK(body, Top) /\ x \in Exprs(body)
         /\ \A k \in 1 .. Len(Tail(stack)) :
              Tail(stack)[k].op = "operand" => Tail(stack)[k].at # e
         /\ \E C : /\ Begin(e) \in C /\ Known(body, C, Marked) /\ NotYet(body, C, Top)
                   /\ Done(x) \notin C /\ Begin(x) \in C
                   /\ body.expr[x].kind = "value" => ret
                   /\ Hand(body, C,
                           OwedOperands(body, Top) \cup { n \in {Done(x)} : ret },
                           Tail(stack), body.owner.expr[e], reaches_end, e)
                   /\ ret => \A P :
                        /\ OwedOperands(body, Top) \subseteq P
                        /\ AfterOperand(body, e, i) \subseteq P
                        /\ P \subseteq OwedOperands(body, Top) \cup AfterOperand(body, e, i)
                                       \cup ListsDone(body, C \cup {Done(x)})
                        => Hand(body, C \cup {Done(x)}, P, Tail(stack), body.owner.expr[e],
                                reaches_end, e)
<1> DEFINE t == Tail(stack)
           o == body.owner.expr[e]
           n == Done(x)
           Q == OwedOperands(body, Top)
<1>1. /\ Here(e) /\ Nice(body) /\ e \in Exprs(body) /\ Top.op = "operand" /\ Top \in Fr
      /\ Own(body, Top) = o /\ stack # <<>>
      /\ t \in Seq(Fr) /\ \A k \in 1 .. Len(t) : t[k] \in Fr /\ Good(body, t[k])
      /\ body.expr[e].sub \in Seq(Exprs(body))
      /\ \E C : /\ Hand(body, C, Owe(body, Top) \cup Value(body, Top, ret), t, Own(body, Top),
                        reaches_end, e)
                /\ NotYet(body, C, Top) /\ AllApart(Top, t)
                /\ HeadOK(body, C, stack, ret) /\ Known(body, C, Marked)
  BY AtExpression DEF At
<1>2. OperandOK(body, Top)
  BY <1>1 DEF Here, Good
<1>3. i \in 1 .. Len(body.expr[e].sub) /\ x \in Exprs(body)
  BY <1>1, <1>2 DEF OperandOK
<1>4. PICK C : /\ Hand(body, C, Owe(body, Top) \cup Value(body, Top, ret), t, Own(body, Top),
                       reaches_end, e)
               /\ NotYet(body, C, Top) /\ AllApart(Top, t)
               /\ HeadOK(body, C, stack, ret) /\ Known(body, C, Marked)
  BY <1>1
<1>5. Waits(Top) /\ Owe(body, Top) = Q /\ WaitsFor(body, Top) = x
  BY <1>1, OperandFrame
<1>6. \A k \in 1 .. Len(t) : t[k].op = "operand" => t[k].at # e
  BY <1>1, <1>4 DEF AllApart, Apart, Waits
<1>7. Begin(e) \in C /\ n \notin C
  BY <1>1, <1>4, <1>5 DEF NotYet
<1>8. Begin(x) \in C /\ (body.expr[x].kind = "value" => ret)
  BY <1>1, <1>4, <1>5 DEF HeadOK, Top
<1>9. Value(body, Top, ret) = { p \in {n} : ret }
  BY <1>5 DEF Value
<1> HIDE DEF t, o, n, Q
<1>10. Hand(body, C, Q \cup { p \in {n} : ret }, t, o, reaches_end, e)
  BY <1>1, <1>4, <1>5, <1>9
<1>11. /\ Free(body, t, x)
       /\ \A y \in Exprs(body) : \A j \in 1 .. Len(body.expr[y].sub) :
            body.expr[y].sub[j] = x => y = e /\ j = i
       /\ Succ(body, Done(x)) = AfterOperand(body, e, i)
  <2>1. OperandOf(body, e, i, x, t)
    BY <1>1, <1>3, <1>6 DEF OperandOf
  <2>2. OwnedBy(body, e, i, x, t)
    BY <1>1, <2>1, OwnOperand
  <2> QED
    BY <2>2 DEF OwnedBy
<1>12. \A k \in 1 .. Len(t) : t[k].i \in Nat /\ (t[k].op = "operand" => OperandOK(body, t[k]))
  BY <1>1 DEF Fr, Good
<1>13. ASSUME ret, NEW P, Q \subseteq P, AfterOperand(body, e, i) \subseteq P,
              P \subseteq Q \cup AfterOperand(body, e, i) \cup ListsDone(body, C \cup {n})
       PROVE  Hand(body, C \cup {n}, P, t, o, reaches_end, e)
  <2> DEFINE R == Q \cup {n}
  <2>1. { p \in {n} : ret } = {n}
    BY <1>13
  <2>2. Hand(body, C, R, t, o, reaches_end, e)
    BY <2>1, <1>10
  <2>3. /\ n \in C \cup R
        /\ R \subseteq C \cup {n} \cup P
        /\ Succ(body, n) \subseteq C \cup {n} \cup P \cup Skipped(body)
        /\ P \subseteq C \cup {n} \cup R \cup Succ(body, n) \cup ListsDone(body, C \cup {n})
    <3>1. Succ(body, n) = AfterOperand(body, e, i)
      BY <1>11 DEF n
    <3>2. n \in C \cup R /\ R \subseteq C \cup {n} \cup P
      BY <1>13
    <3>3. P \subseteq C \cup {n} \cup R \cup AfterOperand(body, e, i)
                     \cup ListsDone(body, C \cup {n})
      BY <1>13
    <3> QED
      BY <3>1, <3>2, <3>3, <1>13
  <2>4. \A y \in Exprs(body) : \A j \in 1 .. Len(body.expr[y].sub) :
            body.expr[y].sub[j] = x => y = e
    BY <1>11
  <2> HIDE DEF R
  <2> QED
    <3>1. /\ Nice(body) /\ x \in Exprs(body) /\ Begin(x) \in C /\ Free(body, t, x)
          /\ Done(x) \in C \cup R
          /\ R \subseteq C \cup {Done(x)} \cup P
          /\ Succ(body, Done(x)) \subseteq C \cup {Done(x)} \cup P \cup Skipped(body)
          /\ P \subseteq C \cup {Done(x)} \cup R \cup Succ(body, Done(x))
                          \cup ListsDone(body, C \cup {Done(x)})
      BY <1>1, <1>3, <1>8, <1>11, <2>3 DEF n
    <3>2. Finishes(body, C, R, P, t, e, x)
      BY <1>12, <2>4, <3>1 DEF Finishes
    <3> QED
      BY <2>2, <3>1, <3>2, HandDone DEF n
<1>14. ret => \A P :
          /\ Q \subseteq P
          /\ AfterOperand(body, e, i) \subseteq P
          /\ P \subseteq Q \cup AfterOperand(body, e, i) \cup ListsDone(body, C \cup {n})
          => Hand(body, C \cup {n}, P, t, o, reaches_end, e)
  BY <1>13
<1> QED
  BY <1>2, <1>3, <1>4, <1>6, <1>7, <1>8, <1>10, <1>14 DEF t, o, n, Q

\* What is owed after operand i, when there is another to evaluate.
LEMMA OwedNext ==
  ASSUME NEW b, NEW f \in Fr, NEW g \in Fr, f.at = g.at, g.i = f.i + 1,
         NEW e, e = f.at, NEW sub, sub = b.expr[e].sub, Len(sub) \in Nat,
         f.i \in 1 .. Len(sub), f.i < Len(sub),
         NEW k, k = b.expr[e].kind, k \in {"seq", "list", "cond"},
         NEW r, k = "seq" => r, k = "cond" => (IF f.i = 1 THEN r ELSE ~r)
  PROVE  LET P == {Begin(sub[f.i + 1])} \cup OwedOperands(b, g)
             Q == OwedOperands(b, f)
         IN /\ ~r => P = Q
            /\ r => /\ Q \subseteq P /\ AfterOperand(b, e, f.i) \subseteq P
                    /\ P \subseteq Q \cup AfterOperand(b, e, f.i)
<1> DEFINE i == f.i
           n == Len(sub)
           P == {Begin(sub[i + 1])} \cup OwedOperands(b, g)
           Q == OwedOperands(b, f)
           After(j) == { l \in 1 .. n : j < l }
<1>1. i \in Nat /\ n \in Nat /\ i + 1 \in 1 .. n /\ i >= 1
  BY DEF Fr
<1>2. After(i) = {i + 1} \cup After(i + 1)
  BY <1>1
<1>6. ASSUME NEW h \in Fr, h.at = e
      PROVE  /\ k = "seq" => OwedOperands(b, h) = {}
             /\ k = "list" => OwedOperands(b, h) = { Begin(sub[j]) : j \in After(h.i) }
             /\ k = "cond" /\ h.i <= 1 => OwedOperands(b, h) = {}
             /\ k = "cond" /\ h.i > 1 => OwedOperands(b, h) =
                  { Begin(sub[j]) : j \in After(h.i) } \cup { m \in {Done(e)} : n = 2 }
  <2>1. sub = b.expr[h.at].sub /\ k = b.expr[h.at].kind
    BY <1>6
  <2>2. OwedAs(OwedOperands(b, h), k, sub, h.i, e)
    BY <2>1, <1>1, <1>6, OwedShape
  <2> QED
    BY <2>2 DEF OwedAs
<1>0. g.at = e /\ f.at = e
  OBVIOUS
<1>3. CASE k = "seq"
  <2>1. Q = {} /\ OwedOperands(b, g) = {}
    BY <1>0, <1>3, <1>6
  <2>2. AfterOperand(b, e, i) = {Begin(sub[i + 1])}
    BY <1>1, <1>3 DEF AfterOperand
  <2> QED
    BY <1>3, <2>1, <2>2
<1>4. CASE k = "list"
  <2>1. Q = { Begin(sub[j]) : j \in After(i) }
        /\ OwedOperands(b, g) = { Begin(sub[j]) : j \in After(i + 1) }
    <3> HIDE DEF After
    <3>1. OwedOperands(b, f) = { Begin(sub[j]) : j \in After(f.i) }
      BY <1>0, <1>4, <1>6
    <3>2. OwedOperands(b, g) = { Begin(sub[j]) : j \in After(g.i) }
      BY <1>0, <1>4, <1>6
    <3> QED
      BY <3>1, <3>2
  <2>2. AfterOperand(b, e, i) = {}
    BY <1>4 DEF AfterOperand
  <2> HIDE DEF After, i, Q
  <2>3. P = Q
    BY <1>2, <2>1
  <2> QED
    BY <2>2, <2>3 DEF i, Q
<1>5. CASE k = "cond"
  <2>1. g.i > 1 /\ g.i = i + 1
    BY <1>1
  <2>2. OwedOperands(b, g) = { Begin(sub[j]) : j \in After(i + 1) } \cup { m \in {Done(e)} : n = 2 }
    <3> HIDE DEF After, n
    <3>1. OwedOperands(b, g) = { Begin(sub[j]) : j \in After(g.i) } \cup { m \in {Done(e)} : n = 2 }
      BY <1>0, <1>5, <1>6, <2>1
    <3> QED
      BY <3>1, <2>1
  <2>3. CASE i = 1
    <3>1. r /\ Q = {}
      <4>1. f.i <= 1
        BY <1>1, <2>3
      <4> HIDE DEF After, n
      <4> QED
        BY <4>1, <1>0, <1>5, <1>6, <2>3
    <3>2. AfterOperand(b, e, i) = { Begin(sub[j]) : j \in 2 .. n }
                                  \cup (IF n = 2 THEN { Done(e) } ELSE {})
      BY <1>5, <2>3 DEF AfterOperand
    <3>3. 2 .. n = {i + 1} \cup After(i + 1)
      BY <1>1, <2>3
    <3> HIDE DEF After, n, i
    <3>4. P = AfterOperand(b, e, i)
      BY <2>2, <3>2, <3>3
    <3> QED
      BY <3>1, <3>4 DEF i
  <2>4. CASE i # 1
    <3>1. ~r /\ i > 1 /\ n # 2
      <4>1. ~r
        BY <1>5, <2>4
      <4>2. i < n
        OBVIOUS
      <4> HIDE DEF i, n
      <4> QED
        BY <4>1, <4>2, <1>1, <2>4
    <3>2. Q = { Begin(sub[j]) : j \in After(i) } \cup { m \in {Done(e)} : n = 2 }
      <4> HIDE DEF After, n
      <4> QED
        BY <1>0, <1>5, <1>6, <3>1
    <3> HIDE DEF After, n, i, Q
    <3>3. P = Q
      BY <1>2, <2>2, <3>1, <3>2
    <3> QED
      BY <3>1, <3>3 DEF Q, i
  <2> QED
    BY <2>3, <2>4
<1> QED
  BY <1>3, <1>4, <1>5

LEMMA CNextOperand ==
  ASSUME RegularBodies, ExactBodies, CInv, IInv', NextOperand
  PROVE  CInv'
<1> DEFINE e   == Top.at
           i   == Top.i
           t   == Tail(stack)
           o   == body.owner.expr[e]
           sub == body.expr[e].sub
           x   == sub[i]
           f   == Frame("eval", sub[i + 1])
           g   == Pending("operand", e, i + 1, Top.flag /\ ret)
           Q   == OwedOperands(body, Top)
           P   == {Begin(sub[i + 1])} \cup OwedOperands(body, g)
<1>1. /\ At({"operand"}) /\ OnlyStack /\ Call(f, g) /\ i < Len(sub)
      /\ body.expr[e].kind = "seq" => ret
      /\ body.expr[e].kind = "cond" => IF i = 1 THEN ret ELSE ~ret
  BY DEF NextOperand, MoreOperands, expr
<1>2. /\ Here(e) /\ Nice(body) /\ warnings = {} /\ phase = "mark" /\ e \in Exprs(body)
      /\ e \in Nat /\ Top.op = "operand" /\ Top \in Fr /\ t \in Seq(Fr)
      /\ sub \in Seq(Exprs(body))
  BY <1>1, AtExpression DEF At
<1>3. /\ i \in 1 .. Len(sub) /\ OperandOK(body, Top) /\ x \in Exprs(body)
      /\ \A k \in 1 .. Len(t) : t[k].op = "operand" => t[k].at # e
  BY <1>1, OperandHand
<1>4. PICK C : /\ Begin(e) \in C /\ Known(body, C, Marked) /\ NotYet(body, C, Top)
               /\ Done(x) \notin C
               /\ Hand(body, C, Q \cup { n \in {Done(x)} : ret }, t, o, reaches_end, e)
               /\ ret => \A R :
                    /\ Q \subseteq R
                    /\ AfterOperand(body, e, i) \subseteq R
                    /\ R \subseteq Q \cup AfterOperand(body, e, i)
                                   \cup ListsDone(body, C \cup {Done(x)})
                    => Hand(body, C \cup {Done(x)}, R, t, o, reaches_end, e)
  BY <1>1, OperandHand
<1>5. /\ Len(sub) \in Nat /\ i \in Nat /\ i + 1 \in 1 .. Len(sub) /\ i + 1 \in Nat
      /\ sub[i + 1] \in Exprs(body)
  <2>1. sub \in Seq(Exprs(body)) /\ i \in 1 .. Len(sub) /\ i < Len(sub)
    BY <1>1, <1>2, <1>3
  <2> HIDE DEF sub, i
  <2> QED
    BY <2>1
<1>6. sub[i + 1] \in Nat /\ ret \in BOOLEAN /\ Top.flag \in BOOLEAN
  BY <1>2, <1>5 DEF Nice, BodyOK, Here, Fr
<1>7. f \in Fr /\ f.op = "eval" /\ f.at = sub[i + 1]
  BY <1>6 DEF Frame, Pending, Fr, FrameOps
<1>8. g \in Fr /\ g.op = "operand" /\ g.at = e /\ g.i = i + 1 /\ (g.flag <=> Top.flag /\ ret)
  BY <1>2, <1>5, <1>6 DEF Pending, Fr, FrameOps
<1>9. body.expr[e].kind \in {"seq", "list", "cond"} /\ Top.at = e /\ Top.i = i
  BY <1>3 DEF OperandOK
<1> DEFINE D == IF ret THEN C \cup {Done(x)} ELSE C
<1> HIDE DEF f, g, e, i, t, o
<1>10. /\ ~ret => P = Q
       /\ ret => /\ Q \subseteq P /\ AfterOperand(body, e, i) \subseteq P
                 /\ P \subseteq Q \cup AfterOperand(body, e, i)
  <2>1. /\ Top \in Fr /\ g \in Fr /\ Top.at = g.at /\ g.i = Top.i + 1 /\ e = Top.at
        /\ Len(sub) \in Nat /\ Top.i \in 1 .. Len(sub) /\ Top.i < Len(sub)
        /\ body.expr[e].kind \in {"seq", "list", "cond"}
        /\ body.expr[e].kind = "seq" => ret
        /\ body.expr[e].kind = "cond" => (IF Top.i = 1 THEN ret ELSE ~ret)
    BY <1>1, <1>2, <1>3, <1>5, <1>8, <1>9
  <2> QED
    BY <2>1, <1>9, OwedNext
<1>11. Hand(body, D, P, t, o, reaches_end, e)
  <2>1. CASE ret
    <3>1. P \subseteq Q \cup AfterOperand(body, e, i) \cup ListsDone(body, C \cup {Done(x)})
      BY <1>10, <2>1
    <3> HIDE DEF P, Q
    <3>2. Hand(body, C \cup {Done(x)}, P, t, o, reaches_end, e)
      BY <1>4, <1>10, <2>1, <3>1
    <3> QED
      BY <2>1, <3>2
  <2>2. CASE ~ret
    <3>1. Q \cup { n \in {Done(x)} : ret } = P /\ D = C
      BY <1>10, <2>2
    <3> QED
      BY <3>1, <1>4
  <2> QED
    BY <2>1, <2>2
<1>12. Known(body, D, Marked)
  BY <1>4, QuietPoints
<1>13. /\ \A y : Begin(y) \in D <=> Begin(y) \in C
       /\ \A y : Done(y) \in D <=> Done(y) \in C \/ (ret /\ y = x)
  BY DEF Begin, Done
<1>14. /\ \A j \in 1 .. Len(sub) : i < j => Begin(sub[j]) \notin D
       /\ body.expr[e].kind = "list" =>
            (Top.flag <=> \A j \in 1 .. i - 1 : Done(sub[j]) \in C)
  BY <1>2, <1>4, <1>9, <1>13 DEF NotYet
<1> HIDE DEF D
<1>15. Begin(sub[i + 1]) \notin D /\ Done(sub[i + 1]) \notin D
  <2>1. Begin(sub[i + 1]) \notin D
    BY <1>5, <1>14
  <2>2. Begun(body, D)
    BY <1>11 DEF Hand
  <2> QED
    BY <1>5, <2>1, <2>2 DEF Begun
<1>16. ~Waits(f) /\ Own(body, f) = o /\ Owe(body, f) = {Begin(sub[i + 1])} /\ NotYet(body, D, f)
  <2>1. ~Waits(f) /\ NotYet(body, D, f)
    BY <1>15, <1>7 DEF Waits, NotYet
  <2>2. body.owner.expr[sub[i + 1]] = body.owner.expr[e]
    BY <1>2, <1>5 DEF Nice, Regular, Confined
  <2>3. Own(body, f) = o
    BY <2>2, <1>7 DEF Own, Produces, o
  <2>4. Owe(body, f) = {Begin(sub[i + 1])}
    BY <1>7 DEF Owe, PlainOps
  <2> QED
    BY <2>1, <2>3, <2>4
<1>17. /\ Waits(g) /\ g.op # "eval" /\ Owe(body, g) = OwedOperands(body, g)
       /\ WaitsFor(body, g) = sub[i + 1] /\ AllApart(g, t)
  BY <1>3, <1>8, OperandFrame
<1>18. NotYet(body, D, g)
  <2>1. Begin(e) \in D
    BY <1>4, <1>13
  <2>2. \A j \in 1 .. Len(sub) : i + 1 < j => Begin(sub[j]) \notin D
    BY <1>5, <1>14
  <2>3. ASSUME body.expr[e].kind = "list"
        PROVE  Top.flag /\ ret <=> \A j \in 1 .. i : Done(sub[j]) \in D
    <3>1. CASE ~ret
      <4>1. Done(sub[i]) \notin D /\ i \in 1 .. i
        BY <1>3, <1>4, <1>5, <1>13, <3>1
      <4> QED
        BY <3>1, <4>1
    <3>2. CASE ret
      <4>1. \A j \in 1 .. i - 1 : sub[j] # x
        <5>1. \A j \in 1 .. i - 1 : j \in 1 .. Len(sub) /\ j # i
          BY <1>3, <1>5
        <5> QED
          BY <5>1, <1>2, <1>3 DEF Nice, Exact, Tree
      <4>2. \A j \in 1 .. i : j = i \/ j \in 1 .. i - 1
        BY <1>5
      <4>3. \A j \in 1 .. i - 1 : j \in 1 .. i
        BY <1>5
      <4>4. \A j \in 1 .. i - 1 : Done(sub[j]) \in D <=> Done(sub[j]) \in C
        BY <1>13, <4>1
      <4>5. Done(sub[i]) \in D
        BY <1>13, <3>2
      <4> HIDE DEF sub
      <4> QED
        BY <1>14, <2>3, <3>2, <4>2, <4>3, <4>4, <4>5
    <3> QED
      BY <3>1, <3>2
  <2>4. g.i - 1 = i
    BY <1>5, <1>8
  <2>5. body.expr[g.at].kind = "list" =>
          (g.flag <=> \A j \in 1 .. g.i - 1 : Done(sub[j]) \in D)
    BY <1>8, <2>3, <2>4
  <2> QED
    BY <1>8, <1>15, <1>17, <2>1, <2>2, <2>5 DEF NotYet
<1>19. P \cup AtEnd(o, reaches_end)
         = Owe(body, f) \cup Owe(body, g) \cup AtEnd(Own(body, f), reaches_end)
  BY <1>16, <1>17
<1> HIDE DEF P
<1>20. Cov(body, D, <<f, g>> \o t, ret, reaches_end, Marked)
  BY <1>2, <1>7, <1>8, <1>11, <1>12, <1>16, <1>17, <1>18, <1>19, GiveTwo
<1>21. stack' = <<f, g>> \o t
  BY <1>1 DEF Call, t
<1> QED
  BY <1>1, <1>2, <1>20, <1>21, CQuiet

LEMMA HandExempt ==
  ASSUME NEW b, Nice(b), NEW C, NEW P, NEW t, NEW o, NEW r, Hand(b, C, P, t, o, r, Null), NEW x
  PROVE  Hand(b, C, P, t, o, r, x)
<1> DEFINE O == P \cup Later(b, t, o, r)
<1>1. Listed(b, C, O, t, Null)
  BY DEF Hand
<1>2. \A e \in Exprs(b) : e # Null
  BY DEF Nice, BodyOK, Null
<1> HIDE DEF O
<1>3. Listed(b, C, O, t, x)
  BY <1>1, <1>2 DEF Listed
<1> QED
  BY <1>3 DEF Hand, O

\* The third operand of ?:, which is not looked at when the second returns.
LEMMA ThirdOperand ==
  ASSUME NEW b, Nice(b), NEW e \in Exprs(b), b.expr[e].kind = "cond", Len(b.expr[e].sub) = 3,
         NEW C, NEW t \in Seq(Fr), \A k \in 1 .. Len(t) : Good(b, t[k]) /\ t[k] \in Fr,
         \A k \in 1 .. Len(t) : t[k].op = "operand" => t[k].at # e,
         NEW y, y = b.expr[e].sub[3], NEW P, P = {Done(e)}, NEW o, NEW r,
         Hand(b, C, {Begin(y)} \cup P, t, o, r, e), Begin(e) \in C, NEW m, Known(b, C, m)
  PROVE  \E C2 : Hand(b, C2, P, t, o, r, Null) /\ Begin(e) \in C2 /\ Known(b, C2, m)
<1>1. b.expr[e].sub \in Seq(Exprs(b)) /\ 3 \in DOMAIN b.expr[e].sub
  BY DEF Nice, BodyOK, ExpressionOK
<1>2. /\ y \in Exprs(b) /\ Free(b, t, y)
      /\ \A z \in Exprs(b) : \A j \in 1 .. Len(b.expr[z].sub) :
           b.expr[z].sub[j] = y => z = e /\ j = 3
      /\ \A s \in Stmts(b) : b.stmt[s].expr # y
      /\ Succ(b, Done(y)) = AfterOperand(b, e, 3)
  <2>1. OperandOf(b, e, 3, y, t)
    BY <1>1 DEF OperandOf
  <2>2. OwnedBy(b, e, 3, y, t)
    BY <2>1, OwnOperand
  <2> QED
    BY <2>2 DEF OwnedBy
<1>3. b.expr[y].kind \in Plain
  BY DEF Nice, Exact, ArmsOK
<1>4. b.expr[y].kind = "value" \/ b.expr[y].kind = "noreturn"
  BY <1>3 DEF Plain
<1>5. AfterOperand(b, e, 3) = P
  BY DEF AfterOperand
<1>6. Started(b, C, y)
  BY <1>2 DEF Started
<1>7. \A k \in 1 .. Len(t) : t[k].op = "operand" =>
        \A j \in 1 .. Len(b.expr[t[k].at].sub) : t[k].i < j => b.expr[t[k].at].sub[j] # y
  BY <1>2 DEF Free
<1>8. Hand(b, C, {Begin(y)} \cup P, t, o, r, Null)
  BY HandDrop
<1>9. Succ(b, Begin(y)) = AfterBegin(b, y)
  BY DEF Succ, Begin
<1> DEFINE Q  == AfterBegin(b, y) \cup P
           R  == {Begin(y)} \cup P
           C1 == C \cup {Begin(y)}
<1>10. Hand(b, C1, Q, t, o, r, y)
  <2>1. /\ Begin(y) \in C \cup R
        /\ R \subseteq C \cup {Begin(y)} \cup Q
        /\ Succ(b, Begin(y)) \subseteq C \cup {Begin(y)} \cup Q \cup Skipped(b)
        /\ Q \subseteq C \cup {Begin(y)} \cup R \cup Succ(b, Begin(y))
                  \cup ListsDone(b, C \cup {Begin(y)})
        /\ Hand(b, C, R, t, o, r, Null)
    BY <1>8, <1>9
  <2> HIDE DEF Q, R
  <2> QED
    BY <1>2, <1>6, <1>7, <2>1, HandBegin
<1>11. Known(b, C1, m)
  BY QuietPoints
<1>12. CASE b.expr[y].kind = "noreturn"
  <2>1. Q = P
    BY <1>2, <1>12, NoArguments
  <2>2. Hand(b, C1, P, t, o, r, Null)
    BY <1>10, <1>12, <2>1, HandDrop
  <2> QED
    BY <1>11, <2>2
<1>13. CASE b.expr[y].kind = "value"
  <2>1. Q = {Done(y)} \cup P
    BY <1>13 DEF AfterBegin
  <2> HIDE DEF Q
  <2>2. Hand(b, C1, Q, t, o, r, Null)
    BY <1>10, <1>13, HandDrop
  <2>3. Hand(b, C1, Q, t, o, r, e)
    BY <2>2, HandExempt
  <2>4. Begin(y) \in C1 /\ Begin(e) \in C1
    OBVIOUS
  <2> HIDE DEF C1
  <2>5. /\ Done(y) \in C1 \cup Q
        /\ Q \subseteq C1 \cup {Done(y)} \cup P
        /\ Succ(b, Done(y)) \subseteq C1 \cup {Done(y)} \cup P \cup Skipped(b)
        /\ P \subseteq C1 \cup {Done(y)} \cup Q \cup Succ(b, Done(y))
                  \cup ListsDone(b, C1 \cup {Done(y)})
    BY <1>2, <1>5, <2>1
  <2>6. \A k \in 1 .. Len(t) : t[k].i \in Nat /\ (t[k].op = "operand" => OperandOK(b, t[k]))
    BY DEF Fr, Good
  <2>7. \A z \in Exprs(b) : \A j \in 1 .. Len(b.expr[z].sub) : b.expr[z].sub[j] = y => z = e
    BY <1>2
  <2>8. Hand(b, C1 \cup {Done(y)}, P, t, o, r, e)
    <3>1. Finishes(b, C1, Q, P, t, e, y)
      BY <1>2, <2>4, <2>5, <2>6, <2>7 DEF Finishes
    <3> QED
      BY <2>3, <3>1, HandDone
  <2>9. Hand(b, C1 \cup {Done(y)}, P, t, o, r, Null)
    BY <2>8, HandDrop
  <2>10. Known(b, C1 \cup {Done(y)}, m)
    BY <1>11, QuietPoints
  <2> QED
    BY <2>4, <2>9, <2>10
<1> QED
  BY <1>4, <1>12, <1>13

\* The last operand of e that is looked at.
LEMMA LastHand ==
  ASSUME RegularBodies, ExactBodies, CInv, At({"operand"}), ~MoreOperands,
         NEW e, e = Top.at,
         NEW P,
         P = (IF ret /\ (body.expr[e].kind = "list" => Top.flag) THEN {Done(e)} ELSE {})
  PROVE  \E C : /\ Hand(body, C, P, Tail(stack), body.owner.expr[e], reaches_end, Null)
                /\ Begin(e) \in C /\ Known(body, C, Marked)
<1> DEFINE i   == Top.i
           t   == Tail(stack)
           o   == body.owner.expr[e]
           sub == body.expr[e].sub
           n   == Len(sub)
           k   == body.expr[e].kind
           x   == sub[i]
           Q   == OwedOperands(body, Top)
<1>1. /\ Nice(body) /\ e \in Exprs(body) /\ Top.op = "operand" /\ Top \in Fr /\ t \in Seq(Fr)
      /\ sub \in Seq(Exprs(body)) /\ ExpressionOK(body, e) /\ ret \in BOOLEAN
      /\ \A l \in 1 .. Len(t) : Good(body, t[l]) /\ t[l] \in Fr
  BY AtExpression DEF At, Here
<1>2. /\ i \in 1 .. n /\ OperandOK(body, Top) /\ x \in Exprs(body)
      /\ \A l \in 1 .. Len(t) : t[l].op = "operand" => t[l].at # e
  BY OperandHand
<1>3. PICK C : /\ Begin(e) \in C /\ Known(body, C, Marked) /\ NotYet(body, C, Top)
               /\ Done(x) \notin C
               /\ body.expr[x].kind = "value" => ret
               /\ Hand(body, C, Q \cup { m \in {Done(x)} : ret }, t, o, reaches_end, e)
               /\ ret => \A R :
                    /\ Q \subseteq R
                    /\ AfterOperand(body, e, i) \subseteq R
                    /\ R \subseteq Q \cup AfterOperand(body, e, i)
                                   \cup ListsDone(body, C \cup {Done(x)})
                    => Hand(body, C \cup {Done(x)}, R, t, o, reaches_end, e)
  BY OperandHand
<1>4. /\ k \in {"seq", "list", "cond"}
      /\ i < n => /\ k = "seq" => ~ret
                  /\ k # "list"
                  /\ k = "cond" => IF i = 1 THEN ~ret ELSE ret
  BY <1>2 DEF MoreOperands, OperandOK, expr
<1>5. n \in Nat /\ i \in Nat /\ DOMAIN sub = 1 .. n
  BY <1>1 DEF Fr
<1>6. /\ k = "seq" => Q = {}
      /\ k = "list" => Q = { Begin(sub[j]) : j \in { l \in 1 .. n : i < l } }
      /\ k = "cond" /\ i <= 1 => Q = {}
      /\ k = "cond" /\ i > 1 => Q = { Begin(sub[j]) : j \in { l \in 1 .. n : i < l } }
                                    \cup { m \in {Done(e)} : n = 2 }
  <2>1. sub = body.expr[Top.at].sub /\ k = body.expr[Top.at].kind /\ Top.at = e
    OBVIOUS
  <2>2. OwedAs(Q, k, sub, i, e)
    BY <2>1, <1>1, <1>5, OwedShape
  <2> QED
    BY <2>2 DEF OwedAs
<1>7. Known(body, C \cup {Done(x)}, Marked) /\ Begin(e) \in C \cup {Done(x)}
  BY <1>3, QuietPoints
<1> HIDE DEF i, n, t, o, Q
<1>8. ASSUME k # "list", Q \subseteq {Done(e)}, ~ret => Q = {},
             ret => AfterOperand(body, e, i) = {Done(e)}
      PROVE  \E D : /\ Hand(body, D, P, t, o, reaches_end, Null)
                    /\ Begin(e) \in D /\ Known(body, D, Marked)
  <2>1. CASE ret
    <3>1. P = {Done(e)}
      BY <1>8, <2>1
    <3>2. Hand(body, C \cup {Done(x)}, P, t, o, reaches_end, e)
      BY <3>1, <2>1, <1>3, <1>8
    <3>3. Hand(body, C \cup {Done(x)}, P, t, o, reaches_end, Null)
      BY <3>2, <1>8, HandDrop
    <3> QED
      BY <3>3, <1>7
  <2>2. CASE ~ret
    <3>1. P = {} /\ Q \cup { m \in {Done(x)} : ret } = {}
      BY <1>8, <2>2
    <3>2. Hand(body, C, P, t, o, reaches_end, e)
      BY <3>1, <1>3
    <3>3. Hand(body, C, P, t, o, reaches_end, Null)
      BY <3>2, <1>8, HandDrop
    <3> QED
      BY <3>3, <1>3
  <2> QED
    BY <2>1, <2>2
<1>9. CASE k = "seq"
  <2>1. ret => i = n
    BY <1>2, <1>4, <1>5, <1>9
  <2>2. i = n => AfterOperand(body, e, i) = {Done(e)}
    BY <1>9 DEF AfterOperand, n
  <2> QED
    BY <2>1, <2>2, <1>6, <1>8, <1>9 DEF t, o
<1>10. CASE k = "cond"
  <2>1. n = 2 \/ n = 3
    BY <1>1, <1>10 DEF ExpressionOK, n
  <2>2. CASE i = 1
    <3>1. ~ret /\ Q = {}
      BY <1>4, <1>6, <1>10, <2>1, <2>2
    <3> QED
      BY <3>1, <1>8, <1>10 DEF t, o
  <2>3. CASE i > 1
    <3>1. AfterOperand(body, e, i) = {Done(e)}
      BY <1>10, <2>3 DEF AfterOperand
    <3>2. CASE n = 2
      <4>1. i = 2 /\ { l \in 1 .. n : i < l } = {}
        BY <1>2, <1>5, <2>3, <3>2
      <4>2. Q = {Done(e)}
        BY <1>6, <1>10, <2>3, <3>2, <4>1
      <4>3. body.expr[sub[2]].kind = "value"
        BY <1>1, <1>10, <3>2 DEF Nice, Exact, ArmsOK, n
      <4>4. ret
        BY <1>3, <4>1, <4>3
      <4> QED
        BY <3>1, <4>2, <4>4, <1>8, <1>10 DEF t, o
    <3>3. CASE n = 3 /\ i = 3
      <4>1. { l \in 1 .. n : i < l } = {}
        BY <3>3
      <4>2. Q = {}
        BY <1>6, <1>10, <2>3, <3>3, <4>1
      <4> QED
        BY <3>1, <4>2, <1>8, <1>10 DEF t, o
    <3>4. CASE n = 3 /\ i # 3
      <4>1. i = 2 /\ i < n /\ ret
        BY <1>2, <1>4, <1>5, <1>10, <2>3, <3>4
      <4>2. { l \in 1 .. n : i < l } = {3}
        BY <3>4, <4>1
      <4>3. Q = {Begin(sub[3])}
        BY <1>6, <1>10, <2>3, <3>4, <4>2
      <4>4. P = {Done(e)}
        BY <1>10, <4>1
      <4> DEFINE R == {Begin(sub[3])} \cup P
                 D == C \cup {Done(x)}
      <4>5. Hand(body, D, R, t, o, reaches_end, e)
        BY <1>3, <3>1, <4>1, <4>3, <4>4
      <4>6. Begin(e) \in D /\ Known(body, D, Marked)
        BY <1>7
      <4> HIDE DEF D
      <4>7. /\ Nice(body) /\ e \in Exprs(body) /\ k = "cond" /\ Len(body.expr[e].sub) = 3
            /\ Hand(body, D, {Begin(sub[3])} \cup P, t, o, reaches_end, e)
        BY <1>1, <1>10, <3>4, <4>5 DEF n
      <4>8. /\ \A l \in 1 .. Len(t) : Good(body, t[l]) /\ t[l] \in Fr
            /\ \A l \in 1 .. Len(t) : t[l].op = "operand" => t[l].at # e
            /\ t \in Seq(Fr)
        BY <1>1, <1>2 DEF t
      <4> QED
        BY <4>4, <4>6, <4>7, <4>8, ThirdOperand DEF t, o
    <3> QED
      BY <2>1, <3>2, <3>3, <3>4
  <2>4. i = 1 \/ i > 1
    BY <1>2, <1>5
  <2> QED
    BY <2>2, <2>3, <2>4
<1>11. CASE k = "list"
  <2>1. i = n
    BY <1>2, <1>4, <1>5, <1>11
  <2>2. { l \in 1 .. n : i < l } = {}
    BY <1>5, <2>1
  <2>3. Q = {}
    BY <1>6, <1>11, <2>2
  <2>4. AfterOperand(body, e, i) = {}
    BY <1>11 DEF AfterOperand
  <2>5. Top.flag <=> \A j \in 1 .. i - 1 : Done(sub[j]) \in C
    BY <1>1, <1>3, <1>11 DEF NotYet, i
  <2>6. CASE ret /\ Top.flag
    <3> DEFINE D == C \cup {Done(x)}
    <3>1. P = {Done(e)}
      BY <2>6
    <3>2. \A j \in 1 .. n : Done(sub[j]) \in D
      <4>1. \A j \in 1 .. n : j = i \/ j \in 1 .. i - 1
        BY <1>5, <2>1
      <4> QED
        BY <4>1, <2>5, <2>6
    <3>3. Done(e) \in ListsDone(body, D)
      BY <1>1, <1>5, <1>7, <1>11, <3>2 DEF ListsDone
    <3>4. Hand(body, D, P, t, o, reaches_end, e)
      BY <1>3, <2>3, <2>4, <2>6, <3>1, <3>3
    <3>5. Hand(body, D, P, t, o, reaches_end, Null)
      BY <3>1, <3>4, HandDrop
    <3> QED
      BY <3>5, <1>7 DEF t, o
  <2>7. CASE ret /\ ~Top.flag
    <3> DEFINE D == C \cup {Done(x)}
    <3>1. P = {}
      BY <2>7, <1>11
    <3>2. PICK j \in 1 .. i - 1 : Done(sub[j]) \notin C
      BY <2>5, <2>7
    <3>3. j \in 1 .. n /\ j # i
      BY <1>2, <1>5
    <3>4. sub[j] # x
      BY <1>1, <1>2, <3>3 DEF Nice, Exact, Tree, n
    <3>5. Done(sub[j]) \notin D /\ j \in DOMAIN sub
      BY <1>5, <3>2, <3>3, <3>4 DEF Done
    <3>6. Hand(body, D, P, t, o, reaches_end, e)
      BY <1>3, <2>3, <2>4, <2>7, <3>1
    <3> HIDE DEF D
    <3>7. Hand(body, D, P, t, o, reaches_end, Null)
      BY <3>5, <3>6, HandDrop
    <3> QED
      BY <3>7, <1>7 DEF t, o, D
  <2>8. CASE ~ret
    <3>1. P = {} /\ Q \cup { m \in {Done(x)} : ret } = {}
      BY <2>3, <2>8
    <3>2. Hand(body, C, P, t, o, reaches_end, e)
      BY <3>1, <1>3
    <3>3. Done(sub[i]) \notin C /\ i \in DOMAIN sub
      BY <1>2, <1>3, <1>5
    <3>4. Hand(body, C, P, t, o, reaches_end, Null)
      BY <3>2, <3>3, HandDrop
    <3> QED
      BY <3>4, <1>3 DEF t, o
  <2> QED
    BY <2>6, <2>7, <2>8
<1> QED
  BY <1>4, <1>9, <1>10, <1>11

LEMMA CLastOperand ==
  ASSUME RegularBodies, ExactBodies, CInv, IInv', LastOperand
  PROVE  CInv'
<1>1. PICK e : e = Top.at
  OBVIOUS
<1>2. /\ At({"operand"}) /\ ~MoreOperands /\ Return
      /\ ret' = (ret /\ (body.expr[e].kind = "list" => Top.flag))
      /\ UNCHANGED << fn, reaches_end, marks, facts, warnings, phase >>
  BY <1>1 DEF LastOperand, expr
<1>3. /\ Here(e) /\ Nice(body) /\ warnings = {} /\ phase = "mark" /\ Top.op = "operand"
      /\ Own(body, Top) = body.owner.expr[e]
  BY <1>1, <1>2, AtExpression DEF At
<1>4. body.expr[e].kind # "value"
  BY <1>1, <1>2, OperandHand DEF OperandOK
<1>5. PICK P : P = (IF ret' THEN {Done(e)} ELSE {})
  OBVIOUS
<1>6. P = (IF ret /\ (body.expr[e].kind = "list" => Top.flag) THEN {Done(e)} ELSE {})
  BY <1>2, <1>5
<1>7. \E C : /\ Hand(body, C, P, Tail(stack), body.owner.expr[e], reaches_end, Null)
            /\ Begin(e) \in C /\ Known(body, C, Marked)
  <2>1. At({"operand"}) /\ ~MoreOperands
    BY <1>2
  <2> QED
    BY <1>1, <1>6, <2>1, LastHand
<1>8. PICK C : /\ Hand(body, C, P, Tail(stack), body.owner.expr[e], reaches_end, Null)
               /\ Begin(e) \in C /\ Known(body, C, Marked)
  BY <1>7
<1> QED
  BY <1>1, <1>2, <1>3, <1>4, <1>5, <1>8, ValueOver

LEMMA COpenStmtExpr ==
  ASSUME RegularBodies, ExactBodies, CInv, IInv', OpenStmtExpr
  PROVE  CInv'
<1> DEFINE e == Top.at
           c == body.expr[e].body
           t == Tail(stack)
           o == body.owner.expr[e]
           f == Frame("visit", c)
           g == Pending("close", e, 0, reaches_end)
<1>1. /\ At({"eval"}) /\ body.expr[e].kind = "stmt" /\ reaches_end' = FALSE /\ Call(f, g)
      /\ UNCHANGED << fn, ret, marks, facts, warnings, phase >>
  BY DEF OpenStmtExpr, expr
<1>2. /\ Here(e) /\ Nice(body) /\ BodyOK(body) /\ warnings = {} /\ phase = "mark"
      /\ e \in Exprs(body) /\ e \in Nat /\ ExpressionOK(body, e) /\ t \in Seq(Fr)
  BY <1>1, AtExpression
<1>3. PICK C : /\ Begin(e) \in C /\ Known(body, C, Marked)
               /\ \A Q : \/ Q = AfterBegin(body, e)
                         \/ /\ body.expr[e].kind = "list" /\ body.expr[e].sub = <<>>
                            /\ Q = {Done(e)}
                         => Hand(body, C, Q, t, o, reaches_end, e)
  BY <1>1, EvalHand
<1>4. c \in Stmts(body) /\ body.owner.stmt[c] = e
  BY <1>1, <1>2 DEF ExpressionOK, Nice, Regular, StmtExprsOK, StmtExprs
<1>5. AfterBegin(body, e) = {In(c)}
  BY <1>1 DEF AfterBegin
<1>6. Hand(body, C, {In(c)}, t, o, reaches_end, e)
  BY <1>3, <1>5
<1>7. reaches_end \in BOOLEAN
  BY <1>2 DEF Here
<1>8. g \in Fr /\ g.op = "close" /\ g.at = e /\ (g.flag <=> reaches_end)
  BY <1>2, <1>7 DEF Pending, Fr, FrameOps
<1>9. /\ f \in Fr /\ ~Waits(f) /\ Own(body, f) = e /\ Owe(body, f) = {In(c)} /\ NotYet(body, C, f)
  <2>1. "visit" \in PlainOps /\ Point(body, "visit", c) = In(c)
    BY DEF PlainOps, Point
  <2> QED
    BY <2>1, <1>2, <1>4, PlainFrame
<1> HIDE DEF f, g, t, o, e
<1>10. Hand(body, C, {In(c)}, t, o, reaches_end, Null)
  BY <1>1, <1>6, HandDrop
<1>11. g.op # "eval" /\ NotYet(body, C, g) /\ AllApart(g, t)
  BY <1>3, <1>8 DEF NotYet, Waits, AllApart, Apart
<1>12. Owe(body, g) = AtEnd(o, reaches_end)
  BY <1>7, <1>8 DEF Owe, PlainOps, AtEnd, o
<1>13. {In(c)} \cup AtEnd(o, reaches_end)
         = Owe(body, f) \cup Owe(body, g) \cup AtEnd(Own(body, f), FALSE)
  BY <1>9, <1>12 DEF AtEnd
<1>14. Cov(body, C, <<f, g>> \o t, ret, FALSE, Marked)
  BY <1>2, <1>3, <1>8, <1>9, <1>10, <1>11, <1>13, GiveTwo
<1>15. stack' = <<f, g>> \o t
  BY <1>1 DEF Call, t
<1>16. /\ phase' = "mark" /\ fn' = fn /\ warnings' = {} /\ ret' = ret
       /\ reaches_end' = FALSE /\ Marked' = Marked
  BY <1>1, <1>2 DEF Marked, marks, facts
<1> QED
  BY <1>14, <1>15, <1>16, CStep

LEMMA CCloseStmtExpr ==
  ASSUME RegularBodies, ExactBodies, CInv, IInv', CloseStmtExpr
  PROVE  CInv'
<1> DEFINE e == Top.at
           t == Tail(stack)
           P == IF Top.flag THEN { Done(body.owner.expr[e]) } ELSE {}
<1>1. /\ At({"close"}) /\ ret' = reaches_end /\ reaches_end' = Top.flag /\ stack' = t
      /\ UNCHANGED << fn, marks, facts, warnings, phase >>
  BY DEF CloseStmtExpr, Return
<1>2. /\ Here(e) /\ Nice(body) /\ warnings = {} /\ phase = "mark" /\ Top.op = "close"
      /\ Top \in Fr /\ t \in Seq(Fr) /\ t # <<>> /\ Waits(Head(t))
      /\ WaitsFor(body, Head(t)) = e /\ Own(body, Head(t)) = body.owner.expr[e]
      /\ Own(body, Top) = e
      /\ \E C : /\ Hand(body, C, Owe(body, Top) \cup Value(body, Top, ret), t,
                        Own(body, Top), reaches_end, Null)
                /\ NotYet(body, C, Top) /\ Known(body, C, Marked)
  BY <1>1, AtExpression DEF At
<1>3. PICK C : /\ Hand(body, C, Owe(body, Top) \cup Value(body, Top, ret), t,
                       Own(body, Top), reaches_end, Null)
               /\ NotYet(body, C, Top) /\ Known(body, C, Marked)
  BY <1>2
<1>4. Owe(body, Top) \cup Value(body, Top, ret) = P
  BY <1>2 DEF Owe, PlainOps, Value, Waits
<1>5. Begin(e) \in C /\ body.expr[e].kind = "stmt"
  BY <1>2, <1>3 DEF NotYet, Here, Good
<1>6. P = AtEnd(body.owner.expr[e], Top.flag)
  BY DEF AtEnd
<1> HIDE DEF P, e, t
<1>7. Hand(body, C, P, t, e, reaches_end, Null)
  BY <1>2, <1>3, <1>4
<1>8. HeadOK(body, C, t, reaches_end)
  BY <1>2, <1>5 DEF HeadOK
<1>9. P \cup AtEnd(e, reaches_end)
        = Value(body, Head(t), reaches_end) \cup AtEnd(Own(body, Head(t)), Top.flag)
  BY <1>2, <1>6 DEF Value, AtEnd
<1>10. Cov(body, C, t, reaches_end, Top.flag, Marked)
  BY <1>2, <1>3, <1>7, <1>8, <1>9, GiveNone
<1>11. /\ phase' = "mark" /\ fn' = fn /\ warnings' = {} /\ Marked' = Marked
  BY <1>1, <1>2 DEF Marked, marks, facts
<1> QED
  BY <1>1, <1>10, <1>11, CStep


-----------------------------------------------------------------------------
(***************************************************************************)
(* The marking is over: C and the clauses that are skipped are closed.     *)
(***************************************************************************)
LEMMA SkippedLeads ==
  ASSUME NEW b, Nice(b), NEW n \in Skipped(b)
  PROVE  Succ(b, n) \subseteq Skipped(b)
<1>1. PICK q \in Clauses(b) : n = Begin(q) \/ n = Done(q)
  BY DEF Skipped
<1>2. /\ b.expr[q].kind \in Plain
      /\ \A s \in Stmts(b) : b.stmt[s].expr # q
      /\ \A e \in Exprs(b) : \A i \in 1 .. Len(b.expr[e].sub) : b.expr[e].sub[i] # q
  BY DEF Nice, Exact, ClausesOK
<1>3. CASE n = Begin(q)
  <2>1. Succ(b, n) = AfterBegin(b, q)
    BY <1>3 DEF Succ, Begin
  <2>2. AfterBegin(b, q) \subseteq {Done(q)}
    <3>1. q \in Exprs(b)
      <4>1. PICK s \in Stmts(b) : q \in {b.stmt[s].init, b.stmt[s].step} /\ q # Null
        BY DEF Clauses
      <4>2. StatementOK(b, s)
        BY DEF Nice, BodyOK
      <4> QED
        BY <4>1, <4>2 DEF StatementOK
    <3>2. CASE b.expr[q].kind = "noreturn"
      BY <3>1, <3>2, NoArguments
    <3>3. CASE b.expr[q].kind = "value"
      BY <3>3 DEF AfterBegin
    <3> QED
      BY <1>2, <3>2, <3>3 DEF Plain
  <2>3. Done(q) \in Skipped(b)
    BY DEF Skipped
  <2> QED
    BY <2>1, <2>2, <2>3
<1>4. CASE n = Done(q)
  <2>1. Succ(b, n) = AfterDone(b, q)
    BY <1>4 DEF Succ, Done
  <2>2. AfterDone(b, q) = {}
    BY <1>2 DEF AfterDone
  <2> QED
    BY <2>1, <2>2
<1> QED
  BY <1>1, <1>3, <1>4

LEMMA Over ==
  ASSUME NEW b, Nice(b), Least(b), NEW C, Covers(b, C, {}), Listed(b, C, {}, <<>>, Null)
  PROVE  b.live \subseteq C \cup Skipped(b)
<1> DEFINE Y == C \cup Skipped(b)
<1>1. In(1) \in Y
  BY DEF Covers
<1>2. \A n \in Y : Succ(b, n) \subseteq Y
  BY SkippedLeads DEF Covers
<1>3. ASSUME NEW e \in Exprs(b), b.expr[e].kind = "list", Begin(e) \in Y,
             \A i \in DOMAIN b.expr[e].sub : Done(b.expr[e].sub[i]) \in Y
      PROVE  Done(e) \in Y
  <2>1. \A q \in Clauses(b) :
          /\ b.expr[q].kind \in Plain
          /\ \A i \in 1 .. Len(b.expr[e].sub) : b.expr[e].sub[i] # q
    BY DEF Nice, Exact, ClausesOK
  <2>2. Begin(e) \in C
    <3>1. e \notin Clauses(b)
      BY <1>3, <2>1 DEF Plain
    <3> QED
      BY <1>3, <3>1 DEF Skipped, Begin, Done
  <2>3. DOMAIN b.expr[e].sub = 1 .. Len(b.expr[e].sub)
    BY DEF Nice, BodyOK, ExpressionOK
  <2>4. \A i \in DOMAIN b.expr[e].sub : Done(b.expr[e].sub[i]) \in C
    BY <1>3, <2>1, <2>3 DEF Skipped, Begin, Done
  <2>5. e # Null
    BY DEF Nice, BodyOK, Null
  <2>6. \A k \in 1 .. Len(<<>>) : FALSE
    OBVIOUS
  <2> QED
    BY <1>3, <2>2, <2>4, <2>5, <2>6 DEF Listed
<1> HIDE DEF Y
<1>4. ListsDone(b, Y) \subseteq Y
  BY <1>3 DEF ListsDone
<1>5. Closed(b, Y)
  BY <1>1, <1>2, <1>4 DEF Closed
<1> QED
  BY <1>5 DEF Least, Y

LEMMA CStartWalk ==
  ASSUME RegularBodies, ExactBodies, CInv, IInv', StartWalk
  PROVE  CInv'
<1>1. /\ phase = "mark" /\ stack = <<>> /\ phase' = "walk"
      /\ UNCHANGED << fn, ret, reaches_end, marks, facts, warnings >>
  BY DEF StartWalk
<1>2. Nice(body) /\ Least(body)
  BY FlowLemma DEF CInv, IInv, Nice, ExactBodies, RegularBodies, body
<1>3. PICK C : Cov(body, C, stack, ret, reaches_end, Marked)
  BY <1>1 DEF CInv
<1>4. Owed(body, stack, ret, reaches_end) = {}
  BY <1>1 DEF Owed
<1>5. Covers(body, C, {}) /\ Listed(body, C, {}, <<>>, Null) /\ Known(body, C, Marked)
  BY <1>1, <1>3, <1>4 DEF Cov
<1>6. X \subseteq C \cup Skipped(body)
  BY <1>2, <1>5, Over DEF X
<1>7. /\ \A s : /\ In(s) \in X => In(s) \in C
                /\ Test(s) \in X => Test(s) \in C
                /\ StepOf(s) \in X => StepOf(s) \in C
      /\ Exit \in X => Exit \in C
      /\ FallOff \in X => FallOff \in C
  BY <1>6, InNotSkipped
<1>8. Complete
  BY <1>5, <1>7 DEF Complete, Known, Marked, stmt
<1>9. body' = body /\ warnings' = {} /\ Complete'
  <2>1. body' = body /\ warnings' = {}
    BY <1>1 DEF CInv, body
  <2> QED
    BY <1>1, <1>8, <2>1 DEF Complete, X, stmt, marks, facts
<1> QED
  BY <1>1, <1>9 DEF CInv, WarnedIsUnreachable

-----------------------------------------------------------------------------
(***************************************************************************)
(* The walk.                                                               *)
(***************************************************************************)
LEMMA Reported ==
  ASSUME Complete, NEW s \in Stmts(body), NEW w \in Unreachable(s)
  PROVE  PointOfWarning(w) \notin X
<1> DEFINE k == stmt[s].kind
           dead == s \notin reachable
<1>1. /\ In(s) \in X /\ k # "do" => ~dead
      /\ Test(s) \in X /\ k # "for" => ~dead
      /\ Test(s) \in X /\ k = "for" => s \in condition_reachable
      /\ StepOf(s) \in X => s \in step_reachable
  BY DEF Complete
<1>2. CASE k = "do"
  <2>1. w = <<"condition", s>> /\ dead
    BY <1>2 DEF Unreachable
  <2> QED
    BY <1>1, <1>2, <2>1 DEF PointOfWarning
<1>3. CASE k = "for"
  <2>1. \/ w = <<"statement", s>> /\ dead
        \/ w = <<"init", s>> /\ dead
        \/ w = <<"condition", s>> /\ s \notin condition_reachable
        \/ w = <<"step", s>> /\ s \notin step_reachable
    BY <1>3 DEF Unreachable
  <2>2. PointOf(s) = In(s)
    BY <1>3 DEF PointOf
  <2> QED
    BY <1>1, <1>3, <2>1, <2>2 DEF PointOfWarning
<1>4. CASE k \notin {"do", "for"}
  <2>1. w = <<"statement", s>> /\ dead
    BY <1>4 DEF Unreachable
  <2>2. PointOf(s) \in {In(s), Test(s)}
    BY DEF PointOf
  <2> QED
    BY <1>1, <1>4, <2>1, <2>2 DEF PointOfWarning
<1> QED
  BY <1>2, <1>3, <1>4

LEMMA CWalk ==
  ASSUME CInv, IInv', phase' \in {"walk", "done"}, phase # "mark",
         UNCHANGED << fn, marks, facts >>,
         NEW W, \A w \in W : PointOfWarning(w) \notin X, warnings' = warnings \cup W
  PROVE  CInv'
<1>1. body' = body
  BY DEF body
<1>2. Complete /\ WarnedIsUnreachable
  BY DEF CInv
<1>3. Complete'
  BY <1>1, <1>2 DEF Complete, X, stmt, marks, facts
<1>4. WarnedIsUnreachable'
  BY <1>1, <1>2 DEF WarnedIsUnreachable, PointOfWarning, PointOf, X, stmt
<1> QED
  BY <1>3, <1>4 DEF CInv

LEMMA CWalkOn ==
  ASSUME CInv, IInv', phase' \in {"walk", "done"}, phase # "mark",
         UNCHANGED << fn, marks, facts, warnings >>
  PROVE  CInv'
<1>1. PICK W : W = {}
  OBVIOUS
<1>2. warnings' = warnings \cup W /\ \A w \in W : PointOfWarning(w) \notin X
  BY <1>1
<1> QED
  BY <1>2, CWalk

LEMMA Walking ==
  ASSUME IInv, NEW ops, At(ops), ops \subseteq WalkOps
  PROVE  phase \in {"walk", "done"} /\ stack # <<>> /\ Top.op \in ops /\ Top \in WalkFr(body)
<1>1. stack # <<>> /\ Top.op \in ops
  BY DEF At
<1>2. phase # "mark"
  <2> SUFFICES ASSUME phase = "mark" PROVE FALSE
    OBVIOUS
  <2>1. Good(body, Top)
    BY <1>1, PopOK DEF IInv, Marking, AllOK, Top
  <2> QED
    BY <1>1, <2>1 DEF Good, WalkOps
<1>3. stack \in Seq(WalkFr(body)) /\ phase \in {"walk", "done"}
  BY <1>2 DEF IInv
<1> DEFINE W == WalkFr(body)
<1>4. stack \in Seq(W) /\ stack # <<>>
  BY <1>1, <1>3
<1> HIDE DEF W
<1>5. Top \in W
  BY <1>4 DEF Top
<1> QED
  BY <1>1, <1>3, <1>5 DEF W

LEMMA CWalkAll ==
  ASSUME RegularBodies, ExactBodies, CInv, IInv', WalkAll
  PROVE  CInv'
<1>1. IInv
  BY DEF CInv
<1>2. CASE StartWalk
  BY <1>2, CStartWalk
<1>3. CASE WalkStatement
  <2>1. /\ At({"walk"}) /\ warnings' = warnings \cup Unreachable(Top.at)
        /\ UNCHANGED << fn, marks, facts, phase >>
    BY <1>3 DEF WalkStatement
  <2>2. phase \in {"walk", "done"} /\ Top.op = "walk" /\ Top \in WalkFr(body)
    BY <1>1, <2>1, Walking DEF WalkOps
  <2>3. Top.at \in Stmts(body)
    BY <2>2 DEF WalkFr
  <2>4. Complete
    BY <2>2 DEF CInv
  <2>5. \A w \in Unreachable(Top.at) : PointOfWarning(w) \notin X
    BY <2>3, <2>4, Reported
  <2> QED
    BY <2>1, <2>2, <2>5, CWalk
<1>4. CASE WalkList
  <2>1. At({"walklist"}) /\ UNCHANGED << fn, marks, facts, phase, warnings >>
    BY <1>4 DEF WalkList, OnlyStack
  <2>2. phase \in {"walk", "done"}
    BY <1>1, <2>1, Walking DEF WalkOps
  <2> QED
    BY <2>1, <2>2, CWalkOn
<1>5. CASE WalkExpression
  <2>1. At({"walkexpr"}) /\ UNCHANGED << fn, marks, facts, phase, warnings >>
    BY <1>5 DEF WalkExpression, OnlyStack
  <2>2. phase \in {"walk", "done"}
    BY <1>1, <2>1, Walking DEF WalkOps
  <2> QED
    BY <2>1, <2>2, CWalkOn
<1>6. CASE Finish
  <2>1. phase = "walk" /\ phase' = "done" /\ UNCHANGED << fn, marks, facts, warnings >>
    BY <1>6 DEF Finish
  <2> QED
    BY <2>1, CWalkOn
<1> QED
  BY <1>2, <1>3, <1>4, <1>5, <1>6 DEF WalkAll

-----------------------------------------------------------------------------
LEMMA CInit ==
  ASSUME RegularBodies, ExactBodies, Init
  PROVE  CInv
<1>1. IInv
  BY InitLemma
<1>2. fn \in DOMAIN Bodies /\ FlowOK(body) /\ BodyOK(body)
  BY FlowLemma DEF Init, body
<1> DEFINE f == Frame("visit", 1)
<1>3. 1 \in Stmts(body)
  BY <1>2 DEF BodyOK
<1>4. /\ f \in Fr /\ ~Waits(f) /\ f.op # "eval" /\ Owe(body, f) = {In(1)}
      /\ NotYet(body, {}, f)
  <2>1. "visit" \in PlainOps /\ Point(body, "visit", 1) = In(1)
    BY DEF PlainOps, Point
  <2> QED
    BY <1>2, <1>3, <2>1, PlainFrame
<1> HIDE DEF f
<1>5. stack = <<f>> /\ ret = FALSE /\ reaches_end = FALSE /\ phase = "mark" /\ warnings = {}
  BY DEF Init, f
<1>6. Head(stack) = f /\ Tail(stack) = <<>> /\ stack # <<>> /\ Len(stack) = 1 /\ Len(<<>>) = 0
  BY <1>5
<1>7. Rest(body, <<>>) = {}
  BY DEF Rest
<1>8. Owed(body, stack, ret, reaches_end) = {In(1)}
  BY <1>4, <1>5, <1>6, <1>7 DEF Owed, Value, AtEnd
<1>9. Covers(body, {}, {In(1)})
  BY DEF Covers, Leads
<1>10. Listed(body, {}, {In(1)}, stack, Null) /\ Begun(body, {})
  BY DEF Listed, Begun
<1>11. Fresh(body, {}, stack)
  <2>1. Settled(body, {}, <<>>) /\ AllApart(f, <<>>)
    BY <1>6 DEF Settled, AllApart
  <2> QED
    BY <1>4, <1>6, <2>1 DEF Fresh
<1>12. HeadOK(body, {}, stack, ret)
  BY <1>4, <1>6 DEF HeadOK
<1>13. Known(body, {}, Marked)
  BY DEF Init, Known, Marked
<1>14. Cov(body, {}, stack, ret, reaches_end, Marked)
  BY <1>8, <1>9, <1>10, <1>11, <1>12, <1>13 DEF Cov
<1> QED
  BY <1>1, <1>5, <1>14 DEF CInv, WarnedIsUnreachable

LEMMA CStutter ==
  ASSUME CInv, IInv', UNCHANGED vars
  PROVE  CInv'
<1>1. /\ body' = body /\ warnings' = warnings /\ phase' = phase /\ stack' = stack
      /\ ret' = ret /\ reaches_end' = reaches_end /\ Marked' = Marked
  BY DEF vars, marks, facts, body, Marked
<1>2. Complete => Complete'
  BY <1>1 DEF vars, marks, facts, Complete, X, stmt
<1>3. WarnedIsUnreachable => WarnedIsUnreachable'
  BY <1>1 DEF WarnedIsUnreachable, PointOfWarning, PointOf, X, stmt
<1> QED
  BY <1>1, <1>2, <1>3 DEF CInv

LEMMA CNext ==
  ASSUME RegularBodies, ExactBodies, CInv, [Next]_vars
  PROVE  CInv'
<1>1. IInv'
  BY NextLemma DEF CInv
<1>2. CASE Visit
  BY <1>1, <1>2, CVisitAgain, CVisitEvaluating, CVisitPlain, CVisitDo, CVisitGoto, CVisitTry
     DEF Visit
<1>3. CASE Decide
  BY <1>1, <1>3, CDecideSimple, CDecideComputed, CDecideBranch, CDecideSwitchConstant,
     CDecideSwitch, CCases DEF Decide
<1>4. CASE Leave
  BY <1>1, <1>4, CAfterNext, CAfterBody, CAfterStmtExpr, CAfterLast, CSeek DEF Leave
<1>5. CASE Loop
  BY <1>1, <1>5, CLoop, CLoopStep DEF Loop
<1>6. CASE Eval
  BY <1>1, <1>6, CEvalLeaf, CEvalOperands, CNextOperand, CLastOperand, COpenStmtExpr,
     CCloseStmtExpr DEF Eval
<1>7. CASE WalkAll
  BY <1>1, <1>7, CWalkAll
<1>8. CASE UNCHANGED vars
  BY <1>1, <1>8, CStutter
<1> QED
  BY <1>2, <1>3, <1>4, <1>5, <1>6, <1>7, <1>8 DEF Next

\* On every regular and exact body -Wunreachable-code only reports what no
\* execution reaches: check_reachable() has missed no path when
\* check_unreachable() walks over the marked statements.
THEOREM MarkingIsComplete ==
  ASSUME RegularBodies, ExactBodies
  PROVE  Spec => []WarnedIsUnreachable
<1>1. Init => CInv
  BY CInit
<1>2. CInv /\ [Next]_vars => CInv'
  BY CNext
<1>3. CInv => WarnedIsUnreachable
  BY DEF CInv
<1> QED
  BY <1>1, <1>2, <1>3, PTL DEF Spec

\* On every regular and exact body the function is warned of for a missing
\* return if control can reach its end, and is a candidate for noreturn only
\* if control cannot leave it.
THEOREM LeavingIsSeen ==
  ASSUME RegularBodies, ExactBodies
  PROVE  Spec => []LeavingIsKnown
<1>1. Init => CInv
  BY CInit
<1>2. CInv /\ [Next]_vars => CInv'
  BY CNext
<1>3. CInv => LeavingIsKnown
  BY DEF CInv, Complete, LeavingIsKnown
<1> QED
  BY <1>1, <1>2, <1>3, PTL DEF Spec
=============================================================================
