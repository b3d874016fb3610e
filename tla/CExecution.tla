----------------------------- MODULE CExecution -----------------------------
(***************************************************************************)
(* The execution of a C function body (C99 6.8, with GNU statement         *)
(* expressions, case ranges and computed gotos), written from the standard *)
(* as the reference for FirmConstruction.  Nothing here follows the code.  *)
(*                                                                         *)
(* Expressions:  <<"const", v>>   <<"address", label>>                     *)
(*   <<"call", f, results>>   a call of f, which returns one of results    *)
(*   <<"noreturn", f>>        a call that does not return                  *)
(*   <<"not", e>>  <<"and", e, f>>  <<"or", e, f>>  <<"comma", e, f>>      *)
(*   <<"cond", c, t, f>>      t may be Omitted                             *)
(*   <<"stmt", body>>         a statement expression                       *)
(* Statements:  <<"empty">>  <<"expr", e>>  <<"return", e>>                *)
(*   <<"compound", list>>  <<"if", c, s, t>>  <<"while", c, s>>            *)
(*   <<"do", c, s>>  <<"for", init, c, step, s>>                            *)
(*   <<"switch", e, s>>  <<"case", first, last, s>>  <<"default", s>>      *)
(*   <<"label", l, s>>  <<"goto", l>>  <<"computed", e>>                   *)
(*   <<"break">>  <<"continue">>                                           *)
(* The parts of a for statement, and an else branch, may be Omitted.       *)
(*                                                                         *)
(* A configuration is what is to be done now, and the frames of what is to *)
(* be done later, the next one first:                                      *)
(*   <<"stmt", s, k>>   <<"eval", e, k>>                                   *)
(*   <<"value", v, k>>  an expression has the value v                      *)
(*   <<"next", 0, k>>   a statement is complete                            *)
(***************************************************************************)
EXTENDS Integers, SequencesExt

Omitted == <<"omitted">>
NoValue == 0                  \* of an expression of type void

Next_(k)     == <<"next", 0, k>>
Stmt(s, k)   == <<"stmt", s, k>>
Eval(e, k)   == <<"eval", e, k>>
Value(v, k)  == <<"value", v, k>>
Bool(b)      == IF b THEN 1 ELSE 0

LoopFrames  == {"again", "do test", "for step"}
BreakFrames == LoopFrames \cup {"end switch"}

\* Everything that is to be done after the statement around a jump.
RECURSIVE Unwind(_, _)
Unwind(k, kinds) == IF k[1][1] \in kinds THEN k ELSE Unwind(Tail(k), kinds)

(***************************************************************************)
(* Where a label is: the statement, and what is to be done after it.  No   *)
(* jump leads into a statement expression.                                 *)
(***************************************************************************)
Frame(s) ==
  CASE s[1] = "while"  -> <<"again", s>>
    [] s[1] = "do"     -> <<"do test", s>>
    [] s[1] = "for"    -> <<"for step", s>>
    [] s[1] = "switch" -> <<"end switch">>

Inner(s) ==
  CASE s[1] = "compound" -> s[2]
    [] s[1] = "if"       -> <<s[3], s[4]>>
    [] s[1] \in {"while", "do", "switch", "label"} -> <<s[3]>>
    [] s[1] = "for"      -> <<s[5]>>
    [] s[1] = "case"     -> <<s[4]>>
    [] s[1] = "default"  -> <<s[2]>>
    [] OTHER             -> << >>

FramesOf(s, i, k) ==
  CASE s[1] = "compound" -> <<<<"rest", SubSeq(s[2], i + 1, Len(s[2]))>>>> \o k
    [] s[1] \in {"while", "do", "for", "switch"} -> <<Frame(s)>> \o k
    [] OTHER -> k

RECURSIVE Places(_, _, _, _)

\* The places in s that Is(_) holds of; the labels of an inner switch belong to
\* that one.
Places(Is(_), s, k, cases) ==
  LET inner == Inner(s)
  IN (IF Is(s) THEN {Stmt(inner[1], k)} ELSE {})
     \cup (IF s[1] = "switch" /\ cases THEN {}
           ELSE UNION { Places(Is, inner[i], FramesOf(s, i, k), cases) :
                          i \in DOMAIN inner })

Labelled(body, l) ==
  Places(LAMBDA s : s[1] = "label" /\ s[2] = l, body, << >>, FALSE)
Cases(s, v, k) ==
  Places(LAMBDA c : c[1] = "case" /\ c[2] <= v /\ v <= c[3], s, k, TRUE)
Defaults(s, k) == Places(LAMBDA c : c[1] = "default", s, k, TRUE)

TheOne(set) == CHOOSE x \in set : TRUE

Selected(s, v, k) ==
  LET inside == <<<<"end switch">>>> \o k
      cases  == Cases(s, v, inside)
      others == Defaults(s, inside)
  IN CASE cases # {}  -> TheOne(cases)
       [] others # {} -> TheOne(others)
       [] OTHER       -> Next_(k)

(***************************************************************************)
(* The steps that nobody sees.                                             *)
(***************************************************************************)
StepStmt(body, s, k) ==
  CASE s[1] \in {"empty", "omitted"} -> Next_(k)
    [] s[1] = "expr"     -> Eval(s[2], <<<<"drop">>>> \o k)
    [] s[1] = "compound" -> Next_(<<<<"rest", s[2]>>>> \o k)
    [] s[1] = "if"       -> Eval(s[2], <<<<"if", s[3], s[4]>>>> \o k)
    [] s[1] = "while"    -> Eval(s[2], <<<<"while", s>>>> \o k)
    [] s[1] = "do"       -> Stmt(s[3], <<Frame(s)>> \o k)
    [] s[1] = "for"      -> IF s[2] = Omitted THEN Next_(<<<<"for test", s>>>> \o k)
                            ELSE Eval(s[2], <<<<"drop">>, <<"for test", s>>>> \o k)
    [] s[1] = "switch"   -> Eval(s[2], <<<<"switch", s[3]>>>> \o k)
    [] s[1] \in {"label", "case", "default"} -> Stmt(Inner(s)[1], k)
    [] s[1] = "goto"     -> TheOne(Labelled(body, s[2]))
    [] s[1] = "computed" -> Eval(s[2], <<<<"goto">>>> \o k)
    [] s[1] = "return"   -> Eval(s[2], <<<<"return">>>>)
    [] s[1] = "break"    -> Next_(Tail(Unwind(k, BreakFrames)))
    [] s[1] = "continue" -> Next_(Unwind(k, LoopFrames))

\* The value of a statement expression is that of its last statement.
Yielded(rest, k) ==
  IF rest # << >> /\ Len(rest) = 1 /\ rest[1][1] = "expr" THEN Eval(rest[1][2], k)
  ELSE IF rest = << >> THEN Value(NoValue, k)
  ELSE Stmt(Head(rest), <<<<"yield", Tail(rest)>>>> \o k)

StepEval(e, k) ==
  CASE e[1] \in {"const", "address"} -> Value(e[2], k)
    [] e[1] = "not"   -> Eval(e[2], <<<<"not">>>> \o k)
    [] e[1] \in {"and", "or"} -> Eval(e[2], <<<<e[1], e[3]>>>> \o k)
    [] e[1] = "comma" -> Eval(e[2], <<<<"comma", e[3]>>>> \o k)
    [] e[1] = "cond"  -> Eval(e[2], <<<<"cond", e[3], e[4]>>>> \o k)
    [] e[1] = "stmt"  -> Yielded(e[2][2], k)

\* The frame f waits for a value.
StepValue(body, v, f, k) ==
  CASE f[1] = "drop"   -> Next_(k)
    [] f[1] = "if"     -> Stmt(f[IF v # 0 THEN 2 ELSE 3], k)
    [] f[1] = "while"  -> IF v # 0 THEN Stmt(f[2][3], <<Frame(f[2])>> \o k) ELSE Next_(k)
    [] f[1] = "until"  -> IF v # 0 THEN Stmt(f[2], k) ELSE Next_(k)
    [] f[1] = "for"    -> IF v # 0 THEN Stmt(f[2][5], <<Frame(f[2])>> \o k) ELSE Next_(k)
    [] f[1] = "switch" -> Selected(f[2], v, k)
    [] f[1] = "goto"   -> TheOne(Labelled(body, v))
    [] f[1] = "not"    -> Value(Bool(v = 0), k)
    [] f[1] = "bool"   -> Value(Bool(v # 0), k)
    [] f[1] = "and"    -> IF v = 0 THEN Value(0, k) ELSE Eval(f[2], <<<<"bool">>>> \o k)
    [] f[1] = "or"     -> IF v # 0 THEN Value(1, k) ELSE Eval(f[2], <<<<"bool">>>> \o k)
    [] f[1] = "comma"  -> Eval(f[2], k)
    [] f[1] = "cond"   -> IF v = 0 THEN Eval(f[3], k)
                          ELSE IF f[2] = Omitted THEN Value(v, k) ELSE Eval(f[2], k)

\* The frame f waits for a statement.
StepNext(f, k) ==
  CASE f[1] = "rest" -> IF f[2] = << >> THEN Next_(k)
                        ELSE Stmt(Head(f[2]), <<<<"rest", Tail(f[2])>>>> \o k)
    [] f[1] = "yield"      -> Yielded(f[2], k)
    [] f[1] = "again"      -> Stmt(f[2], k)
    [] f[1] = "do test"    -> Eval(f[2][2], <<<<"until", f[2]>>>> \o k)
    [] f[1] = "for step"   -> IF f[2][4] = Omitted THEN Next_(<<<<"for test", f[2]>>>> \o k)
                              ELSE Eval(f[2][4], <<<<"drop">>, <<"for test", f[2]>>>> \o k)
    [] f[1] = "for test"   -> IF f[2][3] = Omitted
                              THEN Stmt(f[2][5], <<Frame(f[2])>> \o k)
                              ELSE Eval(f[2][3], <<<<"for", f[2]>>>> \o k)
    [] f[1] = "end switch" -> Next_(k)

SourceStep(body, c) ==
  CASE c[1] = "stmt"  -> StepStmt(body, c[2], c[3])
    [] c[1] = "eval"  -> StepEval(c[2], c[3])
    [] c[1] = "value" -> StepValue(body, c[2], Head(c[3]), Tail(c[3]))
    [] c[1] = "next"  -> StepNext(Head(c[3]), Tail(c[3]))

(***************************************************************************)
(* What is seen of an execution: calls, and how the function ends.         *)
(***************************************************************************)
SourceStart(body) == Stmt(body, << >>)
SourceEvent(c) ==
  CASE c[1] = "eval" /\ c[2][1] = "call"     -> <<"call", c[2][2]>>
    [] c[1] = "eval" /\ c[2][1] = "noreturn" -> <<"noreturn", c[2][2]>>
    [] c[1] = "value" /\ Head(c[3])[1] = "return" -> <<"return", c[2]>>
    [] c[1] = "next" /\ c[3] = << >>         -> <<"end", 0>>
    [] OTHER -> << >>

\* The results that a call may have.
Results(c)        == c[2][3]
Returned(c, v)    == Value(v, c[3])
=============================================================================
