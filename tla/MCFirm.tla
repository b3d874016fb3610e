------------------------------- MODULE MCFirm -------------------------------
(***************************************************************************)
(* Function bodies for FirmExecution.                                      *)
(***************************************************************************)
EXTENDS FirmExecution, Families

Call(f)     == <<"expr", <<"call", f, {0}>>>>
Ask(f)      == <<"call", f, {0, 1}>>
Constant(v) == <<"const", v>>
a == Ask("a")
b == Ask("b")
L == 10
M == 20
List(x)  == <<"compound", x>>
Goto(l)  == <<"goto", l>>
Break    == <<"break">>
Continue == <<"continue">>
Ret      == <<"return", Ask("r")>>
Exits    == <<"expr", <<"noreturn", "exit">>>>

Loop(kind, c, s) ==
  CASE kind = "while"   -> <<"while", c, s>>
    [] kind = "do"      -> <<"do", c, s>>
    [] kind = "for"     -> <<"for", <<"call", "i", {0}>>, c, <<"call", "s", {0}>>, s>>
    [] kind = "stepless" -> <<"for", Omitted, c, Omitted, s>>
    [] kind = "forever" -> <<"for", Omitted, Omitted, <<"call", "s", {0}>>, s>>

\* { w(); A; L: loop (c) { if (b) B else C; M: D; } x(); }
LoopBody(x) ==
  List(<<Call("w"), x[3],
         <<"label", L, Loop(x[1], x[2],
             List(<<<<"if", b, x[4], x[5]>>, <<"label", M, x[6]>>>>))>>,
         Call("x")>>)
Loops ==
  Each(LoopBody,
       << <<"while", "do", "for", "stepless", "forever">>,
          <<a, Constant(0), Constant(1), <<"and", a, Constant(1)>>>>,
          <<Call("y"), Goto(M), Ret>>,
          <<Call("t"), Break, Continue, Goto(L)>>,
          <<Omitted, Goto(M), <<"while", Constant(1), Break>>>>,
          <<Call("d"), Continue, Exits>> >>)

\* { switch (e) { A; case 0: B; case 1 ... n: C; default: D; case 3: } x(); }
\* in a loop
SwitchBodyOf(x) ==
  Loop(x[1], a, List(<<
    <<"switch", <<"call", "e", {-1, 0, 2, 3, 4}>>,
       List(<<x[2], <<"case", 0, 0, x[3]>>, <<"case", 1, x[5], x[4]>>, x[6],
              <<"case", 3, 3, Call("z")>>>>)>>,
    Call("x")>>))
Switches ==
  Each(SwitchBodyOf,
       << <<"while", "do", "for">>,
          <<<<"empty">>, Call("w"), <<"label", L, Call("l")>>>>,
          <<Call("b"), Break, Continue, <<"if", b, Break, Omitted>>>>,
          <<Call("c"), Break, Ret>>,
          <<1, 2>>,
          <<<<"default", Call("d")>>, <<"default", Break>>, Call("f"),
            <<"if", b, <<"default", Call("d")>>, <<"case", 4, 4, Continue>>>>>> >>)

\* Conditions, and where they are evaluated.
Small == <<a, Constant(0), Constant(1), <<"not", b>>>>
Two   == Product(<< <<"and", "or", "comma">>, Small, Small >>)
Conditionals ==
  Product(<< <<"cond">>, Small \o << <<"and", a, b>> >>, Small \o <<Omitted>>, Small >>)
Deep ==
  Product(<< <<"not">>, Two \o Conditionals >>)
    \o Product(<< <<"and">>, Two \o Conditionals, <<Ask("d")>> >>)
    \o Product(<< <<"or">>, <<Ask("d")>>, Two \o Conditionals >>)
    \o Product(<< <<"cond">>, Two, <<Ask("d")>>, <<Constant(0)>> >>)
Evaluation(x) ==
  LET c == x[2]
  IN CASE x[1] = "return" -> <<"return", c>>
       [] x[1] = "if"     -> List(<<<<"if", c, Call("t"), Call("f")>>, Call("x")>>)
       [] x[1] = "expr"   -> List(<<<<"expr", c>>, Call("x")>>)
       [] x[1] = "switch" -> List(<<<<"switch", c, <<"case", 0, 0, Call("t")>>>>,
                                    Call("x")>>)
       [] OTHER           -> List(<<Loop(x[1], c, Call("t")), Call("x")>>)
Evaluations ==
  Each(Evaluation, << <<"return", "if", "expr", "switch", "while", "do">>,
                      Small \o Two \o Conditionals \o Deep >>)

\* { goto *c(); L: A; M: B; C }
ComputedBody(x) ==
  List(<<<<"computed", <<"call", "c", {L, M}>>>>, <<"label", L, x[1]>>,
         <<"label", M, x[2]>>, x[3]>>)
ComputedGotos ==
  Each(ComputedBody,
       << <<Call("t"), Ret, <<"computed", <<"address", M>>>>>>,
          <<Call("u"), Goto(L), Exits>>,
          <<Call("x"), <<"if", a, Goto(L), Exits>>>> >>)

\* { if (({ A; v(); }) op ({ B; v(); })) C else f(); L: x(); }
Inside(s) == <<"stmt", List(<<s, <<"expr", Ask("v")>>>>)>>
InsideBody(x) ==
  List(<<<<"if", <<x[1], Inside(x[2]), Inside(x[3])>>, x[4], Call("f")>>,
         <<"label", L, Call("x")>>>>)
StatementExpressions ==
  Each(InsideBody,
       << <<"and", "or", "comma">>,
          <<Call("t"), <<"if", a, Goto(L), Omitted>>, <<"while", a, Call("l")>>>>,
          <<Call("u"), <<"if", b, Ret, Call("g")>>, <<"do", b, Break>>>>,
          <<Call("y"), Exits>> >>)

MCAll ==
  Loops \o Switches \o Evaluations \o ComputedGotos \o StatementExpressions
MCBodies == MCAll
MCLabels == {L, M}

\* switch (e()) { case 1: b(); case 3 ... 2: c(); } x();
MCEmpty ==
  << List(<<<<"switch", <<"call", "e", {1, 2, 3}>>,
      List(<<<<"case", 1, 1, Call("b")>>, <<"case", 3, 2, Call("c")>>>>)>>, Call("x")>>) >>
MCEmptyRange == MCEmpty
=============================================================================
