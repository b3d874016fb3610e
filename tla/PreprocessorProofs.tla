------------------------- MODULE PreprocessorProofs -------------------------
(***************************************************************************)
(* Proofs about Preprocessor, for every set of names and of alphabets, and *)
(* every bound of the input:                                               *)
(*   Ends               every directive ends with its line, or a known slip*)
(*                      was made;                                          *)
(*   Inclusion          conditionals implement ConditionalGroups, slips or *)
(*                      not;                                               *)
(*   DirectivesAreSeen  the main loop sees every "#" that begins a line;   *)
(*   ExpansionIsChain   what is being expanded is a chain.                 *)
(*                                                                         *)
(* The invariants: Control says who waits for a token, and that nothing is *)
(* expanded in a directive; EndsOK, what pp_token is at the end of a       *)
(* directive; GroupsOK, which groups are in which; SeenOK, where a line's  *)
(* first token is read; ChainOK, the way from the text to                  *)
(* current_expansion. The last two assume that no slip was made.           *)
(***************************************************************************)
EXTENDS Preprocessor, SequenceTheorems, TLAPS

\* Places of the main loop and of the directives, and of what may wait above.
AfterLine == {"end", "skipped", "decided", "other_group", "no_group", "open"}
Lines == {"line", "text"}
Places ==
  AfterLine \cup Lines
  \cup {"directive", "condition", "extra", "else", "endif", "name", "undef", "undefined",
        "(", "parameter", "last_parameter", "separator", "list", "header"}
InArguments == {"argument", "invocation"}

Frames(places) == [at : places, name : Name \cup {None}, flag : BOOLEAN]

StackOK ==
  \/ \E m \in Frames(Places) : stack = << m >>
  \/ \E m \in Frames(AfterLine), e \in Frames({"eat"}) : stack = << m, e >>
  \/ \E m \in Frames(Lines), a \in Frames(InArguments) : stack = << m, a >>

Control ==
  /\ StackOK
  /\ do_expansions =>
       \/ stack[1].at \in Lines
       \/ Top.at = "end" /\ pc \in {"run", "aborted"}
  /\ pc = "peek" => do_expansions /\ ahead = << >> /\ pp_token \in Name

-----------------------------------------------------------------------------
LEMMA AtPlace ==
  ASSUME Control, Top.at \in Places
  PROVE  /\ Top \in Frames(Places) /\ stack = << Top >>
         /\ \A f : Append(Under, f) = << f >>
         /\ \A f, g : Under \o << f, g >> = << f, g >>
<1>1. CASE \E m \in Frames(Places) : stack = << m >>
  <2>1. PICK m \in Frames(Places) : stack = << m >>
    BY <1>1
  <2>2. Top = m /\ Under = << >>
    BY <2>1 DEF Top, Under, Last, Front
  <2>3. QED
    BY <2>1, <2>2
<1>2. CASE \E m \in Frames(AfterLine), e \in Frames({"eat"}) : stack = << m, e >>
  BY <1>2 DEF Top, Last, Frames, Places, Lines, AfterLine
<1>3. CASE \E m \in Frames(Lines), a \in Frames(InArguments) : stack = << m, a >>
  BY <1>3 DEF Top, Last, Frames, Places, Lines, AfterLine, InArguments
<1>4. QED
  BY <1>1, <1>2, <1>3 DEF Control, StackOK

LEMMA Extended ==
  ASSUME NEW m, NEW f
  PROVE  Append(<< m >>, f) = << m, f >>
<1> DEFINE u == Append(<< m >>, f)
<1>1. u \in Seq({m, f}) /\ Len(u) = 2 /\ u[1] = m /\ u[2] = f
  BY AppendProperties
<1>2. << m, f >> \in Seq({m, f}) /\ Len(<< m, f >>) = 2 /\ << m, f >>[1] = m /\ << m, f >>[2] = f
  OBVIOUS
<1> HIDE DEF u
<1>3. u = << m, f >>
  BY <1>1, <1>2, SeqEqual
<1>4. QED
  BY <1>3 DEF u

LEMMA Fronts ==
  ASSUME NEW m, NEW e, stack = << m, e >>
  PROVE  Top = e /\ Under = << m >> /\ \A f : Append(Under, f) = << m, f >>
<1>1. Top = e
  BY DEF Top, Last
<1>2. Under = SubSeq(<< m, e >>, 1, 1)
  BY DEF Under, Front
<1>3. SubSeq(<< m, e >>, 1, 1) = << m >>
  <2> DEFINE s == << m, e >>
             u == SubSeq(s, 1, 1)
  <2>1. s \in Seq({m, e}) /\ Len(s) = 2 /\ s[1] = m
    OBVIOUS
  <2>2. u \in Seq({m, e}) /\ Len(u) = 1 /\ u[1] = m
    BY <2>1, SubSeqProperties
  <2>3. << m >> \in Seq({m, e}) /\ Len(<< m >>) = 1 /\ << m >>[1] = m
    OBVIOUS
  <2> HIDE DEF u
  <2>4. u = << m >>
    BY <2>2, <2>3, SeqEqual
  <2>5. QED
    BY <2>4 DEF u
<1>4. \A f : Append(<< m >>, f) = << m, f >>
  BY Extended
<1>5. Under = << m >>
  BY <1>2, <1>3
<1>6. QED
  BY <1>1, <1>4, <1>5

LEMMA AtEat ==
  ASSUME Control, Top.at = "eat"
  PROVE  \E m \in Frames(AfterLine) :
           /\ stack = << m, Top >> /\ Under = << m >>
           /\ Top \in Frames({"eat"})
           /\ \A f : Append(Under, f) = << m, f >>
<1>1. PICK m \in Frames(AfterLine), e \in Frames({"eat"}) : stack = << m, e >>
  BY DEF Control, StackOK, Top, Last, Frames, Places, Lines, AfterLine, InArguments
<1>2. QED
  BY <1>1, Fronts

LEMMA InsideArguments ==
  ASSUME Control, Top.at \in InArguments
  PROVE  \E m \in Frames(Lines) :
           /\ stack = << m, Top >> /\ Under = << m >>
           /\ Top \in Frames(InArguments)
           /\ \A f : Append(Under, f) = << m, f >>
<1>1. ASSUME NEW m \in Frames(Places), stack = << m >>
      PROVE  FALSE
  BY <1>1 DEF Top, Last, Frames, Places, Lines, AfterLine, InArguments
<1>2. ASSUME NEW m \in Frames(AfterLine), NEW e \in Frames({"eat"}), stack = << m, e >>
      PROVE  FALSE
  BY <1>2 DEF Top, Last, Frames, InArguments
<1>3. PICK m \in Frames(Lines), e \in Frames(InArguments) : stack = << m, e >>
  BY <1>1, <1>2 DEF Control, StackOK
<1>4. QED
  BY <1>3, Fronts

LEMMA OneFrame ==
  ASSUME NEW f, stack = << f >> PROVE Top = f /\ stack[1] = f
BY DEF Top, Last

LEMMA TwoFrames ==
  ASSUME NEW m, NEW f, stack = << m, f >> PROVE Top = f /\ stack[1] = m
BY DEF Top, Last

\* A frame that is put on the stack is its top.
LEMMA Topped ==
  ASSUME NEW f, StackOK, stack' = Append(stack, f)
  PROVE  Top' = f
<1>1. ASSUME NEW m, stack = << m >> PROVE stack \in Seq({m})
  BY <1>1
<1>2. ASSUME NEW m, NEW e, stack = << m, e >> PROVE stack \in Seq({m, e})
  BY <1>2
<1>3. PICK S : stack \in Seq(S)
  BY <1>1, <1>2 DEF StackOK
<1>4. Len(stack') = Len(stack) + 1 /\ stack'[Len(stack) + 1] = f
  BY <1>3, AppendProperties
<1>5. QED
  BY <1>4 DEF Top, Last

\* The stack after a step.
LEMMA OneNext ==
  ASSUME NEW f, stack' = << f >> PROVE Top' = f /\ (stack[1])' = f
BY DEF Top, Last

LEMMA TwoNext ==
  ASSUME NEW m, NEW f, stack' = << m, f >> PROVE Top' = f /\ (stack[1])' = m
BY DEF Top, Last

LEMMA NowAt ==
  ASSUME NEW f \in Frames(Places), stack' = << f >>, pc' # "peek",
         do_expansions' => f.at \in Lines \/ (f.at = "end" /\ pc' \in {"run", "aborted"})
  PROVE  Control'
BY OneNext DEF Control, StackOK

LEMMA NowEating ==
  ASSUME NEW m \in Frames(AfterLine), NEW e \in Frames({"eat"}), stack' = << m, e >>,
         pc' # "peek", ~ do_expansions'
  PROVE  Control'
BY TwoNext DEF Control, StackOK

LEMMA NowInArguments ==
  ASSUME NEW m \in Frames(Lines), NEW a \in Frames(InArguments), stack' = << m, a >>,
         pc' # "peek"
  PROVE  Control'
<1>1. m.at \in Lines
  BY DEF Frames
<1>2. QED
  BY <1>1, TwoNext DEF Control, StackOK

-----------------------------------------------------------------------------
LEMMA Framed ==
  ASSUME NEW places, NEW f, NEW p, f \in Frames(Places), p \in places
  PROVE  /\ [f EXCEPT !.at = p] \in Frames(places)
         /\ [f EXCEPT !.at = p].at = p
         /\ [f EXCEPT !.at = p].name = f.name /\ [f EXCEPT !.at = p].flag = f.flag
BY DEF Frames

LEMMA Made ==
  ASSUME NEW places, NEW p \in places, NEW name \in Name \cup {None}, NEW flag \in BOOLEAN
  PROVE  /\ Frame(p, name, flag) \in Frames(places)
         /\ Frame(p, name, flag).at = p /\ Frame(p, name, flag).flag = flag
         /\ Frame(p, name, flag).name = name
BY DEF Frames, Frame

\* A handler of the main loop or of a directive goes on.
LEMMA Goes ==
  ASSUME Control, Top.at \in Places, NEW p \in Places, Go(p) \/ Read(p)
  PROVE  /\ stack' = << [Top EXCEPT !.at = p] >> /\ Top' = [Top EXCEPT !.at = p]
         /\ Top' \in Frames(Places) /\ Top'.at = p /\ (stack[1].at)' = p
         /\ pc' = "run" \/ pc' = "next"
         /\ (do_expansions' => p \in Lines \/ (p = "end" /\ pc' = "run")) => Control'
<1>1. Top \in Frames(Places) /\ stack' = << [Top EXCEPT !.at = p] >>
  BY AtPlace DEF Go, Read
<1>2. Top' = [Top EXCEPT !.at = p] /\ Top' \in Frames(Places) /\ Top'.at = p /\ (stack[1].at)' = p
  <2>1. Top' = [Top EXCEPT !.at = p] /\ (stack[1])' = [Top EXCEPT !.at = p]
    BY <1>1, OneNext
  <2>2. [Top EXCEPT !.at = p] \in Frames(Places) /\ [Top EXCEPT !.at = p].at = p
    BY <1>1, Framed
  <2>3. QED
    BY <2>1, <2>2
<1>3. pc' = "run" \/ pc' = "next"
  BY DEF Go, Read
<1>4. QED
  BY <1>1, <1>2, <1>3, NowAt

LEMMA Waits ==
  ASSUME Control, Top.at \in Places, NEW p \in Places, NEW name \in Name \cup {None},
         NEW flag \in BOOLEAN, stack' = Append(Under, Frame(p, name, flag)), pc' = "next"
  PROVE  /\ stack' = << Frame(p, name, flag) >> /\ Top' = Frame(p, name, flag) /\ Top'.at = p
         /\ (stack[1].at)' = p
         /\ (do_expansions' => p \in Lines) => Control'
<1>1. stack' = << Frame(p, name, flag) >>
  BY AtPlace
<1>2. Frame(p, name, flag) \in Frames(Places) /\ Frame(p, name, flag).at = p
  BY Made
<1>3. Top' = Frame(p, name, flag) /\ (stack[1])' = Frame(p, name, flag)
  BY <1>1, OneNext
<1>4. PICK f \in Frames(Places) : stack' = << f >> /\ f.at = p
  BY <1>1, <1>2
<1>5. ASSUME do_expansions' => p \in Lines PROVE Control'
  BY <1>4, <1>5, NowAt
<1>6. QED
  BY <1>1, <1>2, <1>3, <1>5

LEMMA Eats ==
  ASSUME Control, Top.at \in Places, NEW p \in AfterLine, NEW flag \in BOOLEAN,
         EatThen(p, Top) \/ EatThen(p, [Top EXCEPT !.flag = flag])
  PROVE  /\ stack' = << [Top EXCEPT !.at = p], Frame("eat", Top.name, FALSE) >>
            \/ stack' = << [Top EXCEPT !.flag = flag, !.at = p], Frame("eat", Top.name, FALSE) >>
         /\ Top'.at = "eat" /\ (stack[1].at)' = p /\ pc' = "run"
         /\ ~ do_expansions' => Control'
<1> DEFINE f == [Top EXCEPT !.flag = flag]
           e == Frame("eat", Top.name, FALSE)
<1>1. Top \in Frames(Places)
  BY AtPlace
<1>2. f \in Frames(Places) /\ f.name = Top.name /\ [f EXCEPT !.at = p] = [Top EXCEPT !.flag = flag, !.at = p]
  BY <1>1 DEF Frames
<1>3. e \in Frames({"eat"}) /\ e.at = "eat"
  BY <1>1, Made DEF Frames
<1>4. PICK g \in {Top, f} : stack' = << [g EXCEPT !.at = p], e >>
  BY <1>2, AtPlace DEF EatThen
<1>5. [g EXCEPT !.at = p] \in Frames(AfterLine) /\ [g EXCEPT !.at = p].at = p
  BY <1>1, <1>2, Framed
<1>6. pc' = "run"
  BY DEF EatThen
<1>7. Top' = e /\ (stack[1])' = [g EXCEPT !.at = p]
  BY <1>4, TwoNext
<1>8. QED
  BY <1>2, <1>3, <1>4, <1>5, <1>6, <1>7, NowEating

\* The next token is looked for.
LEMMA Looks ==
  ASSUME Control, UNCHANGED << stack, do_expansions >>, pc \notin {"run", "aborted"},
         pc' = "peek" => do_expansions /\ ahead' = << >> /\ pp_token' \in Name
  PROVE  Control'
BY DEF Control, StackOK, Top

LEMMA ControlReading ==
  ASSUME Control, Reading
  PROVE  Control'
<1>1. CASE EndOfInput
  BY <1>1, Looks DEF EndOfInput, defining, control
<1>2. CASE PlainToken
  BY <1>2, Looks DEF PlainToken, Raw
<1>3. CASE ObjectMacro
  BY <1>3, Looks DEF ObjectMacro, Raw
<1>4. CASE FunctionMacro
  BY <1>4, Looks DEF FunctionMacro, Raw, IsMacro
<1>5. CASE SkipNewline
  BY <1>5, Looks DEF SkipNewline, Control, control
<1>6. CASE NoArguments
  BY <1>6, Looks DEF NoArguments
<1>7. CASE Arguments
  <2>1. "(" \in Upcoming /\ pc = "peek" /\ ahead = << >> /\ do_expansions
    BY <1>7 DEF Arguments, Control
  <2>2. Len(stack) # 2
    BY <2>1 DEF Upcoming, Permitted
  <2>3. stack[1].at \in Lines
    BY <2>1 DEF Control
  <2>4. PICK m \in Frames(Lines) : stack = << m >>
    BY <2>2, <2>3 DEF Control, StackOK, Frames
  <2>5. Frame("argument", pp_token, FALSE) \in Frames(InArguments)
    BY <2>1, Made DEF Control, InArguments
  <2>6. stack' = << m, Frame("argument", pp_token, FALSE) >> /\ pc' = "next"
    BY <1>7, <2>4, Extended DEF Arguments
  <2>7. QED
    BY <2>5, <2>6, NowInArguments
<1>8. CASE Argument
  <2>1. PICK m \in Frames(Lines) : Under = << m >> /\ Top \in Frames(InArguments)
                                 /\ \A f : Append(Under, f) = << m, f >>
    BY <1>8, InsideArguments DEF Argument, At, InArguments
  <2>2. PICK p \in InArguments : Read(p)
    BY <1>8 DEF Argument, InArguments
  <2>3. [Top EXCEPT !.at = p] \in Frames(InArguments)
    BY <2>1, <2>2 DEF Frames
  <2>4. QED
    BY <2>1, <2>2, <2>3, NowInArguments DEF Read
<1>9. CASE Invocation
  <2>1. PICK m \in Frames(Lines) : stack' = << m >>
    BY <1>9, InsideArguments DEF Invocation, At, InArguments
  <2>2. m \in Frames(Places) /\ m.at \in Lines
    BY DEF Frames, Places
  <2>3. QED
    BY <1>9, <2>1, <2>2, NowAt DEF Invocation
<1>10. CASE Resume
  BY <1>10, Looks DEF Resume, Expanding
<1>11. CASE EndOfExpansion
  BY <1>11, Looks DEF EndOfExpansion
<1>12. CASE ExpandNext
  BY <1>12, Looks DEF ExpandNext
<1>13. QED
  BY <1>1, <1>2, <1>3, <1>4, <1>5, <1>6, <1>7, <1>8, <1>9, <1>10, <1>11, <1>12 DEF Reading

\* In a directive nothing is expanded.
LEMMA Unexpanded ==
  ASSUME Control, pc = "run", Top.at \in Places \ (Lines \cup {"end"})
  PROVE  ~ do_expansions
<1>1. stack[1] = Top
  BY AtPlace, OneFrame
<1>2. QED
  BY <1>1 DEF Control

\* A step that leaves only the stack's top and pc changed.
LEMMA ControlConditionals ==
  ASSUME Control,
         Ifdef \/ Condition \/ Extra \/ Conditional \/ Else \/ EndOfElse \/ OtherGroup \/ NoGroup
  PROVE  Control'
<1>1. ASSUME NEW t, NEW p \in Places, Dispatch(t, p)
      PROVE  Control'
  <2>1. Top.at = "directive" /\ pc = "run" /\ do_expansions' = do_expansions
    BY <1>1 DEF Dispatch, At, others
  <2>2. ~ do_expansions
    BY <2>1, Unexpanded DEF Places, AfterLine, Lines
  <2>3. QED
    BY <1>1, <2>1, <2>2, Waits DEF Dispatch, Places
<1>2. CASE Ifdef
  BY <1>1, <1>2 DEF Ifdef, Places
<1>3. CASE Else
  BY <1>1, <1>3 DEF Else, Places
<1>4. CASE Condition
  <2>1. Top.at = "condition" /\ pc = "run" /\ do_expansions' = do_expansions
    BY <1>4 DEF Condition, At, others
  <2>2. ~ do_expansions /\ Top.at \in Places
    BY <2>1, Unexpanded DEF Places, AfterLine, Lines
  <2>3. ASSUME NEW p \in AfterLine, EatThen(p, Top) PROVE Control'
    BY <2>1, <2>2, <2>3, Eats
  <2>4. ASSUME EatThen("decided", [Top EXCEPT !.flag = TRUE]) PROVE Control'
    BY <2>1, <2>2, <2>4, Eats DEF AfterLine
  <2>5. CASE skip_mode \/ pp_token \notin Name
    BY <1>4, <2>3, <2>4, <2>5 DEF Condition, AfterLine
  <2>6. CASE ~ skip_mode /\ pp_token \in Name
    <3>1. PICK flag \in BOOLEAN : stack' = Append(Under, Frame("extra", None, flag)) /\ pc' = "next"
      BY <1>4, <2>6 DEF Condition
    <3>2. QED
      BY <2>1, <2>2, <3>1, Waits DEF Places
  <2>7. QED
    BY <2>5, <2>6
<1>5. CASE Extra
  BY <1>5, Eats, Unexpanded DEF Extra, At, others, Places, AfterLine, Lines
<1>6. CASE Conditional
  BY <1>6, Goes, Unexpanded DEF Conditional, At, others, Places, AfterLine, Lines
<1>7. CASE EndOfElse
  <2>1. PICK p \in AfterLine : EatThen(p, Top)
    BY <1>7 DEF EndOfElse, AfterLine
  <2>2. QED
    BY <1>7, <2>1, Eats, Unexpanded DEF EndOfElse, At, others, Places, Lines, AfterLine
<1>8. CASE OtherGroup
  BY <1>8, Goes, Unexpanded DEF OtherGroup, At, others, Places, AfterLine, Lines
<1>9. CASE NoGroup
  BY <1>9, Goes, Unexpanded DEF NoGroup, At, others, Places, AfterLine, Lines
<1>10. QED
  BY <1>2, <1>3, <1>4, <1>5, <1>6, <1>7, <1>8, <1>9

LEMMA ControlLines ==
  ASSUME Control, Directive \/ Text \/ EndOfText \/ Eat \/ EndOfDirective \/ InvalidDirective
  PROVE  Control'
<1>1. CASE Directive
  BY <1>1, Goes DEF Directive, At, Places, Lines
<1>2. CASE Text
  <2>1. PICK p \in Lines : Read(p)
    BY <1>2 DEF Text, Lines
  <2>2. QED
    BY <1>2, <2>1, Goes DEF Text, At, Places, Lines
<1>3. CASE EndOfText
  BY <1>3 DEF EndOfText, Control, StackOK, Top, At, Lines
<1>4. CASE Eat
  <2>1. PICK m \in Frames(AfterLine) :
          /\ stack = << m, Top >> /\ Under = << m >> /\ Top \in Frames({"eat"})
          /\ \A f : Append(Under, f) = << m, f >>
    BY <1>4, AtEat DEF Eat, At
  <2>2. ~ do_expansions /\ do_expansions' = do_expansions
    <3>1. stack[1] = m /\ m.at \notin Lines /\ Top.at # "end"
      BY <1>4, <2>1, TwoFrames DEF Frames, AfterLine, Lines, Eat, At
    <3>2. QED
      BY <1>4, <3>1 DEF Control, Eat
  <2>3. CASE pp_token \in EndOfLine
    <3>1. m \in Frames(Places)
      BY DEF Frames, Places
    <3>2. QED
      BY <1>4, <2>1, <2>2, <2>3, <3>1, NowAt DEF Eat
  <2>4. CASE pp_token \notin EndOfLine
    <3>1. stack' = << m, [Top EXCEPT !.at = "eat"] >> /\ pc' = "next"
      BY <1>4, <2>1, <2>4 DEF Eat, Read
    <3>2. [Top EXCEPT !.at = "eat"] \in Frames({"eat"})
      BY <2>1 DEF Frames
    <3>3. QED
      BY <2>2, <3>1, <3>2, NowEating
  <2>5. QED
    BY <2>3, <2>4
<1>5. CASE EndOfDirective
  <2>1. Top.at = "end" /\ "end" \in Places /\ "line" \in Places /\ "line" \in Lines
    BY <1>5 DEF EndOfDirective, At, Places, AfterLine, Lines
  <2>2. CASE pp_token \in EndOfLine
    BY <1>5, <2>1, <2>2, Waits DEF EndOfDirective
  <2>3. CASE pp_token \notin EndOfLine
    BY <1>5, <2>1, <2>3 DEF EndOfDirective, Abort, Control, StackOK, Top
  <2>4. QED
    BY <2>2, <2>3
<1>6. CASE InvalidDirective
  BY <1>6, Eats, Unexpanded DEF InvalidDirective, At, Places, AfterLine, Lines
<1>7. QED
  BY <1>1, <1>2, <1>3, <1>4, <1>5, <1>6

LEMMA ControlDefinitions ==
  ASSUME Control,
         Define \/ MacroName \/ Parameter \/ Replacement \/ EndOfDefine \/ Undef \/ EndOfUndef
  PROVE  Control'
<1>1. CASE Define
  <2>1. PICK t \in Directives, p \in Places : Dispatch(t, p)
    BY <1>1 DEF Define, Places, Directives
  <2>2. Top.at = "directive" /\ pc = "run" /\ do_expansions' = do_expansions
    BY <2>1 DEF Dispatch, At, others
  <2>3. QED
    BY <2>1, <2>2, Unexpanded, Waits DEF Dispatch, Places, AfterLine, Lines
<1>2. CASE MacroName
  <2>1. Top.at = "name" /\ pc = "run" /\ do_expansions' = do_expansions
    BY <1>2 DEF MacroName, At, notDefining
  <2>2. ~ do_expansions /\ Top.at \in Places
    BY <2>1, Unexpanded DEF Places, AfterLine, Lines
  <2>3. CASE pp_token \notin Name
    BY <1>2, <2>1, <2>2, <2>3, Eats DEF MacroName, AfterLine
  <2>4. CASE pp_token \in Name
    <3>1. PICK p \in {"(", "list"} :
            stack' = Append(Under, Frame(p, pp_token, FALSE)) /\ pc' = "next"
      BY <1>2, <2>4 DEF MacroName
    <3>2. QED
      BY <2>1, <2>2, <2>4, <3>1, Waits DEF Places
  <2>5. QED
    BY <2>3, <2>4
<1>3. CASE Parameter
  <2>1. /\ Top.at \in {"(", "parameter", "last_parameter", "separator"} /\ pc = "run"
        /\ do_expansions' = do_expansions
    BY <1>3 DEF Parameter, At, notDefining
  <2>2. ~ do_expansions /\ Top.at \in Places
    BY <2>1, Unexpanded DEF Places, AfterLine, Lines
  <2>3. \/ EatThen("end", Top)
        \/ \E p \in {"parameter", "last_parameter", "separator", "list"} : Go(p) \/ Read(p)
    BY <1>3 DEF Parameter
  <2>4. QED
    BY <2>1, <2>2, <2>3, Goes, Eats DEF Places, AfterLine
<1>4. CASE Replacement
  BY <1>4, Goes, Unexpanded DEF Replacement, At, notDefining, Places, AfterLine, Lines
<1>5. CASE EndOfDefine
  BY <1>5, Goes, Unexpanded DEF EndOfDefine, At, Places, AfterLine, Lines
<1>6. CASE Undef
  <2>1. Top.at = "undef" /\ pc = "run" /\ do_expansions' = do_expansions
    BY <1>6 DEF Undef, At, notDefining
  <2>2. ~ do_expansions /\ Top.at \in Places
    BY <2>1, Unexpanded DEF Places, AfterLine, Lines
  <2>3. Read("undefined") \/ EatThen("end", Top)
    BY <1>6 DEF Undef
  <2>4. QED
    BY <2>1, <2>2, <2>3, Goes, Eats DEF Places, AfterLine
<1>7. CASE EndOfUndef
  BY <1>7, Eats, Unexpanded DEF EndOfUndef, At, notDefining, Places, AfterLine, Lines
<1>8. QED
  BY <1>1, <1>2, <1>3, <1>4, <1>5, <1>6, <1>7

LEMMA ControlInclude ==
  ASSUME Control,
         \/ BegunHeaderName \/ HeaderName \/ UnclosedHeaderName \/ NoHeaderName
         \/ EndOfInclude \/ OpenInput \/ TooDeep
  PROVE  Control'
<1>1. CASE HeaderName
  BY <1>1, Goes, Unexpanded DEF HeaderName, atInclude, At, Places, AfterLine, Lines
<1>2. CASE UnclosedHeaderName
  BY <1>2, Eats, Unexpanded DEF UnclosedHeaderName, atInclude, At, Places, AfterLine, Lines
<1>3. CASE BegunHeaderName \/ NoHeaderName
  <2>1. ~ do_expansions
    BY <1>3, Unexpanded DEF BegunHeaderName, NoHeaderName, atInclude, At, Places, AfterLine, Lines
  <2>2. pc' = "aborted" /\ UNCHANGED << stack, do_expansions, current_expansion >>
    BY <1>3 DEF BegunHeaderName, NoHeaderName, Abort, notInput, expansion
  <2>3. QED
    BY <2>1, <2>2 DEF Control, StackOK
<1>4. CASE EndOfInclude
  BY <1>4, Eats, Unexpanded DEF EndOfInclude, At, Places, AfterLine, Lines
<1>5. CASE OpenInput
  <2>1. Top.at = "open" /\ Top.at \in Places
    BY <1>5 DEF OpenInput, At, Places, AfterLine
  <2>2. CASE Go("end")
    <3>1. pc' = "run"
      BY <2>2 DEF Go
    <3>2. QED
      BY <2>1, <2>2, <3>1, Goes DEF Places, AfterLine
  <2>3. CASE pc' = "next" /\ stack' = Append(Under, Frame("line", None, FALSE))
    BY <2>1, <2>3, Waits DEF Places, Lines
  <2>4. QED
    BY <1>5, <2>2, <2>3 DEF OpenInput
<1>6. CASE TooDeep
  BY <1>6, Goes, Unexpanded DEF TooDeep, At, Places, AfterLine, Lines
<1>7. QED
  BY <1>1, <1>2, <1>3, <1>4, <1>5, <1>6

LEMMA ControlNext ==
  ASSUME Control, [Next]_vars
  PROVE  Control'
<1>1. CASE UNCHANGED vars
  BY <1>1 DEF vars, control, input, Control, StackOK, Top
<1>2. CASE Next
  BY <1>2, ControlReading, ControlLines, ControlConditionals, ControlDefinitions, ControlInclude DEF Next
<1>3. QED
  BY <1>1, <1>2

LEMMA ControlInit ==
  Init => Control
<1>1. ASSUME Init PROVE Control
  <2>1. Frame("line", None, FALSE) \in Frames(Places)
    BY Made DEF Places, Lines
  <2>2. QED
    BY <1>1, <2>1 DEF Init, Control, StackOK
<1>2. QED
  BY <1>1

LEMMA Controlled ==
  Spec => []Control
BY ControlInit, ControlNext, PTL DEF Spec

-----------------------------------------------------------------------------
(***************************************************************************)
(* Directives end with their lines.                                        *)
(***************************************************************************)
\* A directive goes on behind eat_pp_directive() with the end of its line,
\* except that of an include that is too deep.
EndsOK ==
  /\ NotAborted
  /\ Top.at \in AfterLine /\ pc # "aborted" =>
       "deep" \in slips \/ (pc = "run" /\ pp_token \in EndOfLine)

\* What is in slips stays there.
LEMMA Remembered ==
  ASSUME [Next]_vars
  PROVE  slips \subseteq slips'
<1>1. CASE Reading
  BY <1>1 DEF Reading, EndOfInput, Raw, PlainToken, ObjectMacro, FunctionMacro, SkipNewline, NoArguments,
       Arguments, Argument, Invocation, Resume, EndOfExpansion, ExpandNext, Slip
<1>2. CASE Directive \/ Text \/ EndOfText \/ Eat \/ EndOfDirective \/ InvalidDirective
  BY <1>2 DEF Directive, Text, EndOfText, Eat, EndOfDirective, InvalidDirective, Slip
<1>3. CASE Ifdef \/ Condition \/ Extra \/ Conditional \/ Else \/ EndOfElse \/ OtherGroup \/ NoGroup
  BY <1>3 DEF Ifdef, Condition, Extra, Conditional, Else, EndOfElse, OtherGroup, NoGroup, Dispatch, others
<1>4. CASE Define \/ MacroName \/ Parameter \/ Replacement \/ EndOfDefine \/ Undef \/ EndOfUndef
  BY <1>4 DEF Define, MacroName, Parameter, Replacement, EndOfDefine, Undef, EndOfUndef, Dispatch,
       others, notDefining, Slip
<1>5. CASE \/ BegunHeaderName \/ HeaderName \/ UnclosedHeaderName \/ NoHeaderName
           \/ EndOfInclude \/ OpenInput \/ TooDeep
  BY <1>5 DEF BegunHeaderName, HeaderName, UnclosedHeaderName, NoHeaderName, EndOfInclude, OpenInput,
       TooDeep, Slip
<1>6. CASE UNCHANGED vars
  BY <1>6 DEF vars
<1>7. QED
  BY <1>1, <1>2, <1>3, <1>4, <1>5, <1>6 DEF Next

\* Steps that do not come behind the end of a line.
LEMMA NotBehind ==
  ASSUME EndsOK, pc # "aborted", pc' # "aborted", Top'.at \notin AfterLine
  PROVE  EndsOK'
BY DEF EndsOK, NotAborted

LEMMA EndsReading ==
  ASSUME Control, EndsOK, Reading, slips \subseteq slips'
  PROVE  EndsOK'
<1>1. ASSUME UNCHANGED stack, pc \notin {"run", "aborted"}, pc' # "aborted"
      PROVE  EndsOK'
  BY <1>1 DEF EndsOK, NotAborted, Top
<1>2. CASE EndOfInput \/ PlainToken \/ ObjectMacro \/ FunctionMacro
  BY <1>1, <1>2 DEF EndOfInput, PlainToken, ObjectMacro, FunctionMacro, Raw, control
<1>3. CASE SkipNewline \/ NoArguments
  BY <1>1, <1>3 DEF SkipNewline, NoArguments, control
<1>4. CASE Resume \/ EndOfExpansion \/ ExpandNext
  BY <1>1, <1>4 DEF Resume, Expanding, EndOfExpansion, ExpandNext
<1>5. CASE Arguments
  <2>1. Top'.at = "argument"
    <3>1. PICK f : f = Frame("argument", pp_token, FALSE)
      OBVIOUS
    <3>2. stack' = Append(stack, f) /\ f.at = "argument"
      BY <1>5, <3>1 DEF Arguments, Frame
    <3>3. Top' = f
      BY <3>2, Topped DEF Control, StackOK
    <3>4. QED
      BY <3>2, <3>3
  <2>2. QED
    BY <1>5, <2>1, NotBehind DEF Arguments, AfterLine
<1>6. CASE Argument
  <2>1. PICK p \in InArguments : Read(p)
    BY <1>6 DEF Argument, InArguments
  <2>2. Top'.at = p
    BY <1>6, <2>1, InsideArguments, TwoNext DEF Argument, At, InArguments, Read, Frames
  <2>3. QED
    BY <1>6, <2>1, <2>2, NotBehind DEF Argument, At, Read, AfterLine, InArguments
<1>7. CASE Invocation
  <2>1. PICK m \in Frames(Lines) : stack' = << m >>
    BY <1>7, InsideArguments DEF Invocation, At, InArguments
  <2>2. Top' = m /\ m.at \in Lines
    BY <2>1, OneNext DEF Frames
  <2>3. QED
    BY <1>7, <2>2, NotBehind DEF Invocation, At, AfterLine, Lines
<1>8. QED
  BY <1>2, <1>3, <1>4, <1>5, <1>6, <1>7 DEF Reading

LEMMA EndsLines ==
  ASSUME Control, EndsOK, slips \subseteq slips',
         Directive \/ Text \/ EndOfText \/ Eat \/ EndOfDirective \/ InvalidDirective
  PROVE  EndsOK'
<1>1. CASE Directive
  BY <1>1, Goes, NotBehind DEF Directive, At, Places, AfterLine, Lines
<1>2. CASE Text
  <2>1. PICK p \in Lines : Read(p)
    BY <1>2 DEF Text, Lines
  <2>2. QED
    BY <1>2, <2>1, Goes, NotBehind DEF Text, At, Places, AfterLine, Lines
<1>3. CASE EndOfText
  BY <1>3 DEF EndOfText, EndsOK, NotAborted, Top, At, AfterLine
<1>4. CASE Eat
  <2>1. PICK m \in Frames(AfterLine) : stack = << m, Top >> /\ Under = << m >>
                                     /\ \A f : Append(Under, f) = << m, f >>
    BY <1>4, AtEat DEF Eat, At
  <2>2. CASE pp_token \in EndOfLine
    <3>1. pc' = "run" /\ pp_token' \in EndOfLine
      BY <1>4, <2>2 DEF Eat, lines
    <3>2. QED
      BY <3>1 DEF EndsOK, NotAborted
  <2>3. CASE pp_token \notin EndOfLine
    <3>1. stack' = << m, [Top EXCEPT !.at = "eat"] >> /\ pc' = "next" /\ pc = "run"
      BY <1>4, <2>1, <2>3 DEF Eat, Read, At
    <3>2. Top'.at = "eat"
      BY <1>4, <2>1, <3>1, AtEat, TwoNext DEF Frames, Eat, At
    <3>3. QED
      BY <3>1, <3>2, NotBehind DEF AfterLine
  <2>4. QED
    BY <2>2, <2>3
<1>5. CASE EndOfDirective
  <2>1. Top.at = "end" /\ "end" \in Places /\ "line" \in Places /\ "end" \in AfterLine /\ pc = "run"
    BY <1>5 DEF EndOfDirective, At, Places, AfterLine, Lines
  <2>2. CASE pp_token \in EndOfLine
    BY <1>5, <2>1, <2>2, Waits, NotBehind DEF EndOfDirective, AfterLine
  <2>3. CASE pp_token \notin EndOfLine
    <3>1. "deep" \in slips'
      BY <2>1, <2>3 DEF EndsOK
    <3>2. QED
      BY <3>1 DEF EndsOK, NotAborted
  <2>4. QED
    BY <2>2, <2>3
<1>6. CASE InvalidDirective
  BY <1>6, Eats, NotBehind DEF InvalidDirective, At, Places, AfterLine
<1>7. QED
  BY <1>1, <1>2, <1>3, <1>4, <1>5, <1>6

\* From one place behind the end of the line to another.
LEMMA StaysBehind ==
  ASSUME Control, EndsOK, slips \subseteq slips', pc = "run", Top.at \in AfterLine, Go("end"),
         UNCHANGED pp_token
  PROVE  EndsOK'
<1>1. pc' = "run"
  BY DEF Go
<1>2. "deep" \in slips \/ pp_token \in EndOfLine
  BY DEF EndsOK
<1>3. QED
  BY <1>1, <1>2 DEF EndsOK, NotAborted

LEMMA EndsConditionals ==
  ASSUME Control, EndsOK, slips \subseteq slips',
         Ifdef \/ Condition \/ Extra \/ Conditional \/ Else \/ EndOfElse \/ OtherGroup \/ NoGroup
  PROVE  EndsOK'
<1>1. ASSUME NEW t, NEW p \in Places \ AfterLine, Dispatch(t, p)
      PROVE  EndsOK'
  BY <1>1, Waits, NotBehind DEF Dispatch, At, Places
<1>2. CASE Ifdef
  BY <1>1, <1>2 DEF Ifdef, Places, AfterLine
<1>3. CASE Else
  BY <1>1, <1>3 DEF Else, Places, AfterLine
<1>4. CASE Condition
  <2>1. Top.at = "condition" /\ pc = "run" /\ Top.at \in Places
    BY <1>4 DEF Condition, At, Places
  <2>2. ASSUME NEW p \in AfterLine, EatThen(p, Top) \/ EatThen(p, [Top EXCEPT !.flag = TRUE])
        PROVE  EndsOK'
    BY <2>1, <2>2, Eats, NotBehind DEF AfterLine
  <2>3. CASE skip_mode \/ pp_token \notin Name
    BY <1>4, <2>2, <2>3 DEF Condition, AfterLine
  <2>4. CASE ~ skip_mode /\ pp_token \in Name
    <3>1. PICK flag \in BOOLEAN : stack' = Append(Under, Frame("extra", None, flag)) /\ pc' = "next"
      BY <1>4, <2>4 DEF Condition
    <3>2. QED
      BY <2>1, <3>1, Waits, NotBehind DEF Places, AfterLine
  <2>5. QED
    BY <2>3, <2>4
<1>5. CASE Extra
  BY <1>5, Eats, NotBehind DEF Extra, At, Places, AfterLine
<1>6. CASE Conditional
  BY <1>6, StaysBehind DEF Conditional, At, others, AfterLine
<1>7. CASE EndOfElse
  <2>1. PICK p \in AfterLine : EatThen(p, Top)
    BY <1>7 DEF EndOfElse, AfterLine
  <2>2. QED
    BY <1>7, <2>1, Eats, NotBehind DEF EndOfElse, At, Places, AfterLine
<1>8. CASE OtherGroup
  BY <1>8, StaysBehind DEF OtherGroup, At, others, AfterLine
<1>9. CASE NoGroup
  BY <1>9, StaysBehind DEF NoGroup, At, others, AfterLine
<1>10. QED
  BY <1>2, <1>3, <1>4, <1>5, <1>6, <1>7, <1>8, <1>9

LEMMA EndsDefinitions ==
  ASSUME Control, EndsOK, slips \subseteq slips',
         Define \/ MacroName \/ Parameter \/ Replacement \/ EndOfDefine \/ Undef \/ EndOfUndef
  PROVE  EndsOK'
<1>1. CASE Define
  <2>1. PICK t \in Directives, p \in {"name", "undef"} : Dispatch(t, p)
    BY <1>1 DEF Define, Directives
  <2>2. QED
    BY <2>1, Waits, NotBehind DEF Dispatch, At, Places, AfterLine
<1>2. CASE MacroName
  <2>1. Top.at = "name" /\ pc = "run" /\ Top.at \in Places
    BY <1>2 DEF MacroName, At, Places
  <2>2. CASE pp_token \notin Name
    BY <1>2, <2>1, <2>2, Eats, NotBehind DEF MacroName, AfterLine
  <2>3. CASE pp_token \in Name
    <3>1. PICK p \in {"(", "list"} :
            stack' = Append(Under, Frame(p, pp_token, FALSE)) /\ pc' = "next"
      BY <1>2, <2>3 DEF MacroName
    <3>2. QED
      BY <2>1, <2>3, <3>1, Waits, NotBehind DEF Places, AfterLine
  <2>4. QED
    BY <2>2, <2>3
<1>3. CASE Parameter
  <2>1. /\ Top.at \in {"(", "parameter", "last_parameter", "separator"} /\ pc = "run"
        /\ Top.at \in Places
    BY <1>3 DEF Parameter, At, Places
  <2>2. \/ EatThen("end", Top)
        \/ \E p \in {"parameter", "last_parameter", "separator", "list"} : Go(p) \/ Read(p)
    BY <1>3 DEF Parameter
  <2>3. QED
    BY <2>1, <2>2, Goes, Eats, NotBehind DEF Places, AfterLine
<1>4. CASE Replacement
  BY <1>4, Goes, NotBehind DEF Replacement, At, Places, AfterLine
<1>5. CASE EndOfDefine
  <2>1. pc' = "run" /\ pp_token' \in EndOfLine
    BY <1>5 DEF EndOfDefine, Go
  <2>2. QED
    BY <2>1 DEF EndsOK, NotAborted
<1>6. CASE Undef
  <2>1. Top.at = "undef" /\ Top.at \in Places /\ pc = "run"
    BY <1>6 DEF Undef, At, Places
  <2>2. Read("undefined") \/ EatThen("end", Top)
    BY <1>6 DEF Undef
  <2>3. QED
    BY <2>1, <2>2, Goes, Eats, NotBehind DEF Places, AfterLine
<1>7. CASE EndOfUndef
  BY <1>7, Eats, NotBehind DEF EndOfUndef, At, Places, AfterLine
<1>8. QED
  BY <1>1, <1>2, <1>3, <1>4, <1>5, <1>6, <1>7

LEMMA EndsInclude ==
  ASSUME Control, EndsOK, slips \subseteq slips',
         \/ BegunHeaderName \/ HeaderName \/ UnclosedHeaderName \/ NoHeaderName
         \/ EndOfInclude \/ OpenInput \/ TooDeep
  PROVE  EndsOK'
<1>1. CASE HeaderName
  BY <1>1, Goes, NotBehind DEF HeaderName, atInclude, At, Places, AfterLine
<1>2. CASE UnclosedHeaderName
  BY <1>2, Eats, NotBehind DEF UnclosedHeaderName, atInclude, At, Places, AfterLine
<1>3. CASE NoHeaderName
  <2>1. pc' = "aborted" /\ "computed" \in slips'
    BY <1>3 DEF NoHeaderName, Abort, Slip
  <2>2. QED
    BY <2>1 DEF EndsOK, NotAborted
<1>4. CASE EndOfInclude
  BY <1>4, Eats, NotBehind DEF EndOfInclude, At, Places, AfterLine
<1>5. CASE OpenInput
  <2>1. Top.at = "open" /\ Top.at \in Places /\ pc = "run"
    BY <1>5 DEF OpenInput, At, Places, AfterLine
  <2>2. CASE Go("end")
    <3>1. pp_token' = pp_token
      BY <1>5 DEF OpenInput, notInput
    <3>2. QED
      BY <2>1, <2>2, <3>1, StaysBehind DEF AfterLine
  <2>3. CASE pc' = "next" /\ stack' = Append(Under, Frame("line", None, FALSE))
    <3>1. Top'.at = "line"
      BY <2>1, <2>3, Waits DEF Places, Lines
    <3>2. QED
      BY <2>1, <2>3, <3>1, NotBehind DEF AfterLine
  <2>4. QED
    BY <1>5, <2>2, <2>3 DEF OpenInput
<1>6. CASE TooDeep
  BY <1>6 DEF TooDeep, Read, Slip, EndsOK, NotAborted
<1>7. CASE BegunHeaderName
  <2>1. /\ pc' = "aborted" /\ begun /\ Top.at = "directive" /\ pp_token = "include"
        /\ UNCHANGED << begun, stack, pp_token >>
    BY <1>7 DEF BegunHeaderName, Abort, atInclude, At, notInput, input
  <2>2. Top'.at = "directive"
    BY <2>1 DEF Top
  <2>3. QED
    BY <2>1, <2>2 DEF EndsOK, NotAborted
<1>8. QED
  BY <1>1, <1>2, <1>3, <1>4, <1>5, <1>6, <1>7

\* Outside of what the code is known not to cope with, every directive ends
\* with its line: the assertion at the end of
\* parse_preprocessing_directive() holds. Two includes abort by themselves: a
\* computed one, and one behind an include whose header name has no end.
THEOREM Ends == Spec => []NotAborted
<1>1. Init => EndsOK
  <2>1. ASSUME Init PROVE EndsOK
    <3>1. Top = Frame("line", None, FALSE)
      BY <2>1, OneFrame DEF Init
    <3>2. QED
      BY <2>1, <3>1 DEF Init, EndsOK, NotAborted, Frame, AfterLine
  <2>2. QED
    BY <2>1
<1>2. ASSUME Control, EndsOK, [Next]_vars PROVE EndsOK'
  <2>1. slips \subseteq slips'
    BY <1>2, Remembered
  <2>2. CASE UNCHANGED vars
    BY <1>2, <2>2 DEF vars, control, input, EndsOK, NotAborted, Top
  <2>3. CASE Next
    BY <1>2, <2>1, <2>3, EndsReading, EndsLines, EndsConditionals, EndsDefinitions, EndsInclude DEF Next
  <2>4. QED
    BY <1>2, <2>2, <2>3
<1>3. EndsOK => NotAborted
  BY DEF EndsOK
<1>4. QED
  BY <1>1, <1>2, <1>3, Controlled, PTL DEF Spec

-----------------------------------------------------------------------------
(***************************************************************************)
(* Conditional inclusion.                                                  *)
(***************************************************************************)
\* The conditional's place among the groups, for any stack cs and skip_mode.
Opened == [condition : BOOLEAN, in_else : BOOLEAN, skip : BOOLEAN]
Kinds == {"ignored", "taken", "spent", "pending"}

GroupIn(cs, skipping, i) ==
  IF cs[i].skip THEN "ignored"
  ELSE IF ~ skipping \/ (i < Len(cs) /\ ~ cs[i + 1].skip) THEN "taken"
  ELSE IF cs[i].condition \/ cs[i].in_else THEN "spent"
  ELSE "pending"

GroupsIn(cs, skipping) == [i \in 1 .. Len(cs) |-> GroupIn(cs, skipping, i)]

\* Conditionals opened in skipped text are above the others, and text is
\* skipped there. Of the others, one without an #else is being processed if
\* its condition is true.
ConditionalsOK(cs, skipping) ==
  /\ cs \in Seq(Opened) /\ skipping \in BOOLEAN
  /\ cs # << >> => ~ cs[1].skip /\ (cs[Len(cs)].skip => skipping)
  /\ \A i, j \in 1 .. Len(cs) : i <= j /\ cs[i].skip => cs[j].skip
  /\ \A i \in 1 .. Len(cs) :
       ~ cs[i].skip /\ ~ cs[i].in_else =>
         (cs[i].condition <=> GroupIn(cs, skipping, i) = "taken")

LEMMA GroupsAre ==
  ASSUME NEW cs \in Seq(Opened), NEW skipping
  PROVE  /\ GroupsIn(cs, skipping) \in Seq(Kinds)
         /\ Len(GroupsIn(cs, skipping)) = Len(cs) /\ Len(cs) \in Nat
         /\ \A i \in 1 .. Len(cs) :
              GroupsIn(cs, skipping)[i] = GroupIn(cs, skipping, i) /\ GroupIn(cs, skipping, i) \in Kinds
<1> DEFINE n == Len(cs)
           f == GroupsIn(cs, skipping)
<1>1. n \in Nat
  OBVIOUS
<1>2. \A i \in 1 .. n : GroupIn(cs, skipping, i) \in Kinds
  BY DEF GroupIn, Kinds
<1>3. f = [i \in 1 .. n |-> GroupIn(cs, skipping, i)]
  BY DEF GroupsIn
<1>4. f \in [1 .. n -> Kinds]
  BY <1>2, <1>3
<1>5. f \in Seq(Kinds)
  BY <1>1, <1>4, SeqDef
<1>6. \A i \in 1 .. n : f[i] = GroupIn(cs, skipping, i)
  BY <1>3
<1> HIDE DEF f, n
<1>7. Len(f) = n
  <2>1. DOMAIN f = 1 .. n
    BY <1>4
  <2>2. Len(f) \in Nat /\ DOMAIN f = 1 .. Len(f)
    BY <1>5, LenProperties
  <2>3. QED
    BY <1>1, <2>1, <2>2
<1>8. QED
  BY <1>1, <1>2, <1>5, <1>6, <1>7 DEF f, n

\* The last conditional is skipped if text is.
LEMMA SkippedIs ==
  ASSUME NEW cs, NEW skipping, ConditionalsOK(cs, skipping), skipping => cs # << >>
  PROVE  Conditionals!Skipped(GroupsIn(cs, skipping)) = skipping
<1>1. CASE cs = << >>
  <2>1. GroupsIn(cs, skipping) = << >>
    <3>1. GroupsIn(cs, skipping) \in Seq(Kinds) /\ Len(GroupsIn(cs, skipping)) = 0
      BY <1>1, GroupsAre DEF ConditionalsOK
    <3>2. QED
      BY <3>1, EmptySeq
  <2>2. QED
    BY <1>1, <2>1 DEF Conditionals!Skipped, ConditionalsOK
<1>2. CASE cs # << >>
  <2> DEFINE n == Len(cs)
             gs == GroupsIn(cs, skipping)
  <2>1. n \in Nat /\ n >= 1 /\ cs[n] \in Opened
    BY <1>2 DEF ConditionalsOK
  <2>2. gs \in Seq(Kinds) /\ Len(gs) = n /\ gs[n] = GroupIn(cs, skipping, n)
    BY <2>1, GroupsAre DEF ConditionalsOK
  <2>3. gs # << >>
    BY <2>1, <2>2
  <2>4. (GroupIn(cs, skipping, n) # "taken") = skipping
    BY <1>2, <2>1 DEF GroupIn, ConditionalsOK, Opened
  <2> HIDE DEF gs
  <2>5. QED
    BY <2>2, <2>3, <2>4 DEF Conditionals!Skipped, gs
<1>3. QED
  BY <1>1, <1>2

\* A conditional is opened.
LEMMA Opens ==
  ASSUME NEW cs, NEW skipping, ConditionalsOK(cs, skipping), skipping => cs # << >>,
         NEW condition \in BOOLEAN, NEW c,
         c = [condition |-> condition, in_else |-> FALSE, skip |-> skipping],
         skipping => ~ condition
  PROVE  /\ ConditionalsOK(Append(cs, c), ~ condition)
         /\ GroupsIn(Append(cs, c), ~ condition) =
              Append(GroupsIn(cs, skipping),
                     IF skipping THEN "ignored" ELSE IF condition THEN "taken" ELSE "pending")
<1> DEFINE more == Append(cs, c)
           now == ~ condition
           n == Len(cs)
           g == IF skipping THEN "ignored" ELSE IF condition THEN "taken" ELSE "pending"
<1>1. /\ more \in Seq(Opened) /\ Len(more) = n + 1 /\ n \in Nat /\ c \in Opened
      /\ \A i \in 1 .. n : more[i] = cs[i] /\ cs[i] \in Opened
      /\ more[n + 1] = c
  <2>1. cs \in Seq(Opened) /\ n \in Nat
    BY DEF ConditionalsOK
  <2>2. c \in Opened
    BY DEF ConditionalsOK, Opened
  <2>3. /\ more \in Seq(Opened) /\ Len(more) = n + 1
        /\ \A i \in 1 .. n : more[i] = cs[i]
        /\ more[n + 1] = c
    BY <2>1, <2>2, AppendProperties
  <2>4. \A i \in 1 .. n : cs[i] \in Opened
    BY <2>1
  <2>5. QED
    BY <2>1, <2>2, <2>3, <2>4
<1> HIDE DEF more, n
<1>2. \A i \in 1 .. n + 1 : i = n + 1 \/ i \in 1 .. n
  BY <1>1
<1>3. c.skip = skipping /\ c.condition = condition /\ c.in_else = FALSE
  OBVIOUS
<1>4. GroupIn(more, now, n + 1) = g
  BY <1>1, <1>3 DEF GroupIn
<1>5. ASSUME NEW i \in 1 .. n PROVE GroupIn(more, now, i) = GroupIn(cs, skipping, i)
  <2>1. more[i] = cs[i] /\ i < Len(more) /\ i + 1 \in 1 .. n + 1 /\ i + 1 \in Nat /\ n >= 1
    BY <1>1
  <2>2. ~ skipping => ~ cs[i].skip /\ ~ more[i + 1].skip
    <3>1. ~ skipping => ~ cs[n].skip /\ n \in 1 .. n /\ i <= n
      BY <1>1, <2>1 DEF ConditionalsOK, n
    <3>2. ~ skipping => \A j \in 1 .. n : ~ cs[j].skip
      BY <1>1, <3>1 DEF ConditionalsOK, n
    <3>3. QED
      BY <1>1, <1>2, <1>3, <2>1, <3>2
  <2>3. skipping => IF i = n THEN more[i + 1].skip ELSE more[i + 1] = cs[i + 1] /\ i < n
    BY <1>1, <1>3
  <2>4. CASE skipping
    BY <1>1, <2>1, <2>3, <2>4 DEF GroupIn, n
  <2>5. CASE ~ skipping
    BY <1>1, <2>1, <2>2, <2>5 DEF GroupIn, n
  <2>6. QED
    BY <2>4, <2>5 DEF ConditionalsOK
<1>6. ConditionalsOK(more, now)
  <2>1. more # << >> => ~ more[1].skip /\ (more[Len(more)].skip => now)
    BY <1>1, <1>3 DEF ConditionalsOK, n
  <2>2. \A i, j \in 1 .. Len(more) : i <= j /\ more[i].skip => more[j].skip
    <3>1. \A i, j \in 1 .. n : i <= j /\ cs[i].skip => cs[j].skip
      BY DEF ConditionalsOK, n
    <3>2. \A i \in 1 .. n : cs[i].skip => skipping
      <4>1. n >= 1 => (n \in 1 .. n /\ (cs[n].skip => skipping))
        BY <1>1 DEF ConditionalsOK, n
      <4>2. QED
        BY <1>1, <3>1, <4>1
    <3>3. QED
      BY <1>1, <1>2, <1>3, <3>1, <3>2
  <2>3. \A i \in 1 .. Len(more) :
          ~ more[i].skip /\ ~ more[i].in_else =>
            (more[i].condition <=> GroupIn(more, now, i) = "taken")
    <3>1. CASE skipping
      BY <1>1, <1>2, <1>3, <1>4, <1>5, <3>1 DEF ConditionalsOK, n
    <3>2. CASE ~ skipping
      BY <1>1, <1>2, <1>3, <1>4, <1>5, <3>2 DEF ConditionalsOK, n
    <3>3. QED
      BY <3>1, <3>2 DEF ConditionalsOK
  <2>4. QED
    BY <1>1, <2>1, <2>2, <2>3 DEF ConditionalsOK
<1>7. GroupsIn(more, now) = Append(GroupsIn(cs, skipping), g)
  <2> DEFINE gs == GroupsIn(cs, skipping)
             hs == GroupsIn(more, now)
             us == Append(gs, g)
  <2>1. /\ gs \in Seq(Kinds) /\ Len(gs) = n
        /\ \A i \in 1 .. n : gs[i] = GroupIn(cs, skipping, i)
    BY GroupsAre DEF ConditionalsOK, n
  <2>2. /\ hs \in Seq(Kinds) /\ Len(hs) = n + 1
        /\ \A i \in 1 .. n + 1 : hs[i] = GroupIn(more, now, i)
    BY <1>1, GroupsAre
  <2>3. g \in Kinds
    BY DEF Kinds
  <2> HIDE DEF gs, hs, g
  <2>4. /\ us \in Seq(Kinds) /\ Len(us) = n + 1
        /\ \A i \in 1 .. n : us[i] = gs[i]
        /\ us[n + 1] = g
    BY <1>1, <2>1, <2>3, AppendProperties
  <2> HIDE DEF us
  <2>5. \A i \in 1 .. n + 1 : hs[i] = us[i]
    BY <1>1, <1>2, <1>4, <1>5, <2>1, <2>2, <2>4
  <2>6. hs = us
    BY <2>2, <2>4, <2>5, SeqEqual
  <2>7. QED
    BY <2>6 DEF us, hs, gs
<1>8. QED
  BY <1>6, <1>7 DEF more

LEMMA Shortened ==
  ASSUME NEW S, NEW s \in Seq(S), s # << >>
  PROVE  /\ Len(s) \in Nat /\ Len(s) >= 1
         /\ SubSeq(s, 1, Len(s) - 1) \in Seq(S) /\ Len(SubSeq(s, 1, Len(s) - 1)) = Len(s) - 1
         /\ \A i \in 1 .. Len(s) - 1 : SubSeq(s, 1, Len(s) - 1)[i] = s[i]
<1> DEFINE n == Len(s) - 1
           u == SubSeq(s, 1, n)
<1>1. n \in Nat /\ Len(s) = n + 1 /\ \A i \in 1 .. n : s[i] \in S
  OBVIOUS
<1> HIDE DEF n
<1>2. u \in Seq(S) /\ Len(u) = IF 1 <= n THEN n - 1 + 1 ELSE 0
  BY <1>1, SubSeqProperties
<1>3. \A i \in 1 .. n - 1 + 1 : u[i] = s[1 + i - 1]
  BY <1>1, SubSeqProperties
<1> HIDE DEF u
<1>4. Len(u) = n /\ \A i \in 1 .. n : u[i] = s[i]
  BY <1>1, <1>2, <1>3
<1> QED BY <1>1, <1>2, <1>4 DEF n, u

\* The innermost conditional is closed.
LEMMA Closes ==
  ASSUME NEW cs, NEW skipping, ConditionalsOK(cs, skipping), cs # << >>
  PROVE  /\ ConditionalsOK(Front(cs), Last(cs).skip /\ skipping)
         /\ Last(cs).skip /\ skipping => Front(cs) # << >>
         /\ GroupsIn(Front(cs), Last(cs).skip /\ skipping) =
              SubSeq(GroupsIn(cs, skipping), 1, Len(GroupsIn(cs, skipping)) - 1)
<1> DEFINE less == Front(cs)
           now == Last(cs).skip /\ skipping
           n == Len(cs)
<1>1. /\ less \in Seq(Opened) /\ Len(less) = n - 1 /\ n \in Nat /\ n >= 1
      /\ \A i \in 1 .. n - 1 : less[i] = cs[i]
  BY Shortened DEF ConditionalsOK, Front
<1>2. \A i \in 1 .. n : cs[i] \in Opened
  BY DEF ConditionalsOK
<1>3. now = cs[n].skip /\ now \in BOOLEAN
  <2>1. cs[n] \in Opened
    BY <1>1, <1>2
  <2>2. QED
    BY <2>1 DEF Last, ConditionalsOK, Opened
<1> HIDE DEF less, now, n
<1>4. (less # << >>) = (n # 1)
  BY <1>1
<1>5. ~ cs[1].skip /\ (cs[n].skip => skipping)
  BY DEF ConditionalsOK, n
<1>6. now => less # << >>
  BY <1>1, <1>3, <1>4, <1>5
<1>7. ASSUME NEW i \in 1 .. n - 1 PROVE GroupIn(less, now, i) = GroupIn(cs, skipping, i)
  <2>1. less[i] = cs[i] /\ i < n /\ i + 1 \in 1 .. n /\ i \in 1 .. n /\ i <= n /\ n \in 1 .. n
    BY <1>1
  <2>2. ~ cs[n].skip => ~ cs[i].skip /\ ~ cs[i + 1].skip
    BY <1>1, <2>1 DEF ConditionalsOK, n
  <2>3. CASE now
    <3>1. IF i = n - 1 THEN cs[i + 1].skip ELSE i < n - 1 /\ less[i + 1] = cs[i + 1]
      <4>1. CASE i = n - 1
        <5>1. i + 1 = n
          BY <1>1, <4>1
        <5>2. QED
          BY <1>3, <2>3, <4>1, <5>1
      <4>2. CASE i # n - 1
        <5>1. i < n - 1 /\ i + 1 \in 1 .. n - 1
          BY <1>1, <4>2
        <5>2. QED
          BY <1>1, <4>2, <5>1
      <4>3. QED
        BY <4>1, <4>2
    <3>2. skipping
      BY <1>3, <1>5, <2>3
    <3>3. QED
      BY <1>1, <2>1, <2>3, <3>1, <3>2 DEF GroupIn, n
  <2>4. CASE ~ now
    BY <1>1, <1>3, <2>1, <2>2, <2>4 DEF GroupIn, n
  <2>5. QED
    BY <2>3, <2>4
<1>8. ConditionalsOK(less, now)
  <2>1. \A i \in 1 .. n - 1 : i \in 1 .. n
    BY <1>1
  <2>2. \A i, j \in 1 .. n - 1 : i <= j /\ less[i].skip => less[j].skip
    BY <1>1, <2>1 DEF ConditionalsOK, n
  <2>3. less # << >> => ~ less[1].skip /\ (less[n - 1].skip => now)
    <3>1. ASSUME less # << >> PROVE n - 1 \in 1 .. n - 1 /\ 1 \in 1 .. n - 1 /\ n \in 1 .. n
      BY <1>1, <1>4, <3>1
    <3>2. ASSUME less # << >> PROVE cs[n - 1].skip => cs[n].skip
      <4>1. n - 1 <= n /\ n - 1 \in 1 .. n
        BY <3>1, <3>2, <1>1
      <4>2. QED
        BY <4>1, <3>1, <3>2 DEF ConditionalsOK, n
    <3>3. QED
      BY <1>1, <1>3, <1>5, <3>1, <3>2
  <2>4. \A i \in 1 .. n - 1 :
          ~ less[i].skip /\ ~ less[i].in_else =>
            (less[i].condition <=> GroupIn(less, now, i) = "taken")
    BY <1>1, <1>7, <2>1 DEF ConditionalsOK, n
  <2>5. QED
    BY <1>1, <1>3, <2>2, <2>3, <2>4 DEF ConditionalsOK
<1>9. GroupsIn(less, now) = SubSeq(GroupsIn(cs, skipping), 1, Len(GroupsIn(cs, skipping)) - 1)
  <2> DEFINE gs == GroupsIn(cs, skipping)
             hs == GroupsIn(less, now)
             us == SubSeq(gs, 1, Len(gs) - 1)
  <2>1. /\ gs \in Seq(Kinds) /\ Len(gs) = n
        /\ \A i \in 1 .. n : gs[i] = GroupIn(cs, skipping, i)
    BY GroupsAre DEF ConditionalsOK, n
  <2>2. /\ hs \in Seq(Kinds) /\ Len(hs) = n - 1
        /\ \A i \in 1 .. n - 1 : hs[i] = GroupIn(less, now, i)
    BY <1>1, GroupsAre
  <2> HIDE DEF gs, hs
  <2>3. gs # << >>
    BY <1>1, <2>1
  <2>4. /\ us \in Seq(Kinds) /\ Len(us) = n - 1
        /\ \A i \in 1 .. n - 1 : us[i] = gs[i]
    BY <2>1, <2>3, Shortened
  <2> HIDE DEF us
  <2>5. \A i \in 1 .. n - 1 : i \in 1 .. n
    BY <1>1
  <2>6. \A i \in 1 .. n - 1 : hs[i] = us[i]
    BY <1>7, <2>1, <2>2, <2>4, <2>5
  <2>7. hs = us
    BY <2>2, <2>4, <2>6, SeqEqual
  <2>8. QED
    BY <2>7 DEF us, hs, gs
<1>10. QED
  BY <1>6, <1>8, <1>9 DEF less, now

AfterElse(kind) ==
  IF kind = "pending" THEN "taken" ELSE IF kind = "ignored" THEN "ignored" ELSE "spent"

\* The innermost conditional comes to an #else.
LEMMA Turns ==
  ASSUME NEW cs, NEW skipping, ConditionalsOK(cs, skipping), cs # << >>,
         NEW new, NEW now \in BOOLEAN,
         \/ Last(cs).in_else /\ new = cs /\ now = TRUE
         \/ /\ ~ Last(cs).in_else
            /\ new = Append(Front(cs), [Last(cs) EXCEPT !.in_else = TRUE])
            /\ now = IF Last(cs).skip THEN skipping ELSE Last(cs).condition
  PROVE  /\ ConditionalsOK(new, now) /\ new # << >>
         /\ GroupsIn(new, now) =
              Append(SubSeq(GroupsIn(cs, skipping), 1, Len(GroupsIn(cs, skipping)) - 1),
                     AfterElse(GroupsIn(cs, skipping)[Len(GroupsIn(cs, skipping))]))
<1> DEFINE n == Len(cs)
           c == cs[n]
           d == [c EXCEPT !.in_else = TRUE]
<1>1. n \in Nat /\ n >= 1 /\ n \in 1 .. n /\ cs \in Seq(Opened) /\ Last(cs) = c /\ skipping \in BOOLEAN
  BY DEF ConditionalsOK, Last
<1>2. \A i \in 1 .. n : cs[i] \in Opened
  BY DEF ConditionalsOK
<1>3. c \in Opened /\ d \in Opened
  BY <1>1, <1>2 DEF Opened
<1>4. /\ d.skip = c.skip /\ d.in_else = TRUE /\ d.condition = c.condition
      /\ c.skip \in BOOLEAN /\ c.condition \in BOOLEAN /\ c.in_else \in BOOLEAN
  BY <1>3 DEF Opened
<1> HIDE DEF d
<1>5. \A i \in 1 .. n : i = n \/ i \in 1 .. n - 1
  BY <1>1
<1>6. /\ new \in Seq(Opened) /\ Len(new) = n
      /\ \A i \in 1 .. n - 1 : new[i] = cs[i]
      /\ new[n] = c \/ new[n] = d
      /\ new[n].in_else = TRUE
  <2>1. CASE c.in_else
    BY <1>1, <1>4, <2>1
  <2>2. CASE ~ c.in_else
    <3>1. /\ Front(cs) \in Seq(Opened) /\ Len(Front(cs)) = n - 1
          /\ \A i \in 1 .. n - 1 : Front(cs)[i] = cs[i]
      BY <1>1, Shortened DEF Front
    <3>2. new = Append(Front(cs), d)
      BY <1>1, <2>2 DEF d
    <3>3. /\ new \in Seq(Opened) /\ Len(new) = n - 1 + 1
          /\ \A i \in 1 .. n - 1 : new[i] = Front(cs)[i]
          /\ new[n - 1 + 1] = d
      BY <1>3, <3>1, <3>2, AppendProperties
    <3>4. QED
      BY <1>1, <1>4, <3>1, <3>3
  <2>3. QED
    BY <2>1, <2>2
<1>7. new[n].skip = c.skip /\ new[n].condition = c.condition
  BY <1>4, <1>6
<1>8. IF c.skip THEN now /\ skipping ELSE now = (c.in_else \/ c.condition)
  BY <1>1, <1>4 DEF ConditionalsOK
<1>9. ~ c.skip => \A i \in 1 .. n : ~ cs[i].skip
  <2>1. \A i \in 1 .. n : i <= n
    BY <1>1
  <2>2. QED
    BY <1>1, <2>1 DEF ConditionalsOK
<1> HIDE DEF n, c
<1>10. \A i \in 1 .. n : new[i].skip = cs[i].skip
  BY <1>5, <1>6, <1>7 DEF c
<1>11. ASSUME NEW i \in 1 .. n - 1 PROVE GroupIn(new, now, i) = GroupIn(cs, skipping, i)
  <2>1. i < n /\ i + 1 \in 1 .. n /\ i \in 1 .. n /\ new[i] = cs[i]
    BY <1>1, <1>6
  <2>2. CASE c.skip
    BY <1>6, <1>8, <1>10, <2>1, <2>2 DEF GroupIn, n
  <2>3. CASE ~ c.skip
    BY <1>6, <1>9, <1>10, <2>1, <2>3 DEF GroupIn, n
  <2>4. QED
    BY <2>2, <2>3
<1>12. GroupIn(new, now, n) = AfterElse(GroupIn(cs, skipping, n))
  <2>1. ~ (n < n)
    BY <1>1
  <2>2. CASE c.skip
    BY <1>6, <1>7, <2>2 DEF GroupIn, AfterElse, c
  <2>3. CASE ~ c.skip /\ c.in_else
    BY <1>6, <1>7, <1>8, <2>1, <2>3 DEF GroupIn, AfterElse, n, c
  <2>4. CASE ~ c.skip /\ ~ c.in_else
    <3>1. c.condition <=> GroupIn(cs, skipping, n) = "taken"
      BY <1>1, <2>4 DEF ConditionalsOK, n, c
    <3>2. QED
      BY <1>6, <1>7, <1>8, <2>1, <2>4, <3>1 DEF GroupIn, AfterElse, n, c
  <2>5. QED
    BY <1>4, <2>2, <2>3, <2>4
<1>13. ConditionalsOK(new, now)
  <2>1. new # << >>
    BY <1>1, <1>6
  <2>2. ~ new[1].skip /\ (new[n].skip => now)
    <3>1. 1 \in 1 .. n
      BY <1>1
    <3>2. QED
      BY <1>7, <1>8, <1>10, <3>1 DEF ConditionalsOK, n
  <2>3. \A i, j \in 1 .. n : i <= j /\ new[i].skip => new[j].skip
    BY <1>10 DEF ConditionalsOK, n
  <2>4. ASSUME NEW i \in 1 .. n, ~ new[i].skip, ~ new[i].in_else
        PROVE  new[i].condition <=> GroupIn(new, now, i) = "taken"
    <3>1. i \in 1 .. n - 1 /\ new[i] = cs[i]
      BY <1>5, <1>6, <2>4
    <3>2. GroupIn(new, now, i) = GroupIn(cs, skipping, i)
      BY <1>11, <3>1
    <3>3. QED
      BY <2>4, <3>1, <3>2 DEF ConditionalsOK, n
  <2>5. QED
    BY <1>6, <2>2, <2>3, <2>4 DEF ConditionalsOK
<1>14. GroupsIn(new, now) =
         Append(SubSeq(GroupsIn(cs, skipping), 1, Len(GroupsIn(cs, skipping)) - 1),
                AfterElse(GroupsIn(cs, skipping)[Len(GroupsIn(cs, skipping))]))
  <2> DEFINE gs == GroupsIn(cs, skipping)
             hs == GroupsIn(new, now)
             us == SubSeq(gs, 1, Len(gs) - 1)
             g == AfterElse(gs[Len(gs)])
             vs == Append(us, g)
  <2>1. /\ gs \in Seq(Kinds) /\ Len(gs) = n
        /\ \A i \in 1 .. n : gs[i] = GroupIn(cs, skipping, i)
    BY <1>1, GroupsAre DEF n
  <2>2. /\ hs \in Seq(Kinds) /\ Len(hs) = n
        /\ \A i \in 1 .. n : hs[i] = GroupIn(new, now, i)
    BY <1>6, GroupsAre
  <2>3. g \in Kinds
    BY DEF Kinds, AfterElse
  <2>4. g = GroupIn(new, now, n)
    BY <1>1, <1>12, <2>1
  <2> HIDE DEF gs, hs, g
  <2>5. gs # << >>
    BY <1>1, <2>1
  <2>6. /\ us \in Seq(Kinds) /\ Len(us) = n - 1
        /\ \A i \in 1 .. n - 1 : us[i] = gs[i]
    BY <2>1, <2>5, Shortened
  <2> HIDE DEF us
  <2>7. /\ vs \in Seq(Kinds) /\ Len(vs) = n - 1 + 1
        /\ \A i \in 1 .. n - 1 : vs[i] = us[i]
        /\ vs[n - 1 + 1] = g
    BY <2>3, <2>6, AppendProperties
  <2> HIDE DEF vs
  <2>8. n - 1 + 1 = n /\ \A i \in 1 .. n - 1 : i \in 1 .. n
    BY <1>1
  <2>9. \A i \in 1 .. n - 1 : hs[i] = vs[i]
    BY <1>11, <2>1, <2>2, <2>6, <2>7, <2>8
  <2>10. hs[n] = vs[n]
    BY <1>1, <2>2, <2>4, <2>7, <2>8
  <2>11. \A i \in 1 .. n : hs[i] = vs[i]
    BY <1>5, <2>9, <2>10
  <2>12. hs = vs
    BY <2>2, <2>7, <2>8, <2>11, SeqEqual
  <2>13. QED
    BY <2>12 DEF vs, us, g, hs, gs
<1>15. QED
  BY <1>1, <1>6, <1>13, <1>14

GroupsOK ==
  /\ ConditionalsOK(conditional_stack, skip_mode)
  /\ pc # "done" => (skip_mode => conditional_stack # << >>)
  /\ stack[1].at \in {"extra", "decided"} => ~ skip_mode
  /\ stack[1].at = "skipped" => skip_mode

Groups == [i \in DOMAIN conditional_stack |-> Group(i)]

LEMMA GroupsIs ==
  conditional_stack \in Seq(Opened) => Groups = GroupsIn(conditional_stack, skip_mode)
<1>1. ASSUME conditional_stack \in Seq(Opened)
      PROVE  Groups = GroupsIn(conditional_stack, skip_mode)
  <2>1. DOMAIN conditional_stack = 1 .. Len(conditional_stack)
    BY <1>1
  <2>2. ASSUME NEW i \in 1 .. Len(conditional_stack)
        PROVE  Group(i) = GroupIn(conditional_stack, skip_mode, i)
    <3>1. conditional_stack[i] \in Opened
      BY <1>1
    <3>2. conditional_stack[i].skip \in BOOLEAN
      BY <3>1 DEF Opened
    <3>3. QED
      BY <3>2 DEF Group, GroupIn
  <2>3. QED
    BY <2>1, <2>2 DEF Groups, GroupsIn
<1>2. QED
  BY <1>1

LEMMA GroupsNow ==
  ASSUME conditional_stack' \in Seq(Opened)
  PROVE  Groups' = GroupsIn(conditional_stack', skip_mode')
<1>1. (conditional_stack \in Seq(Opened) => Groups = GroupsIn(conditional_stack, skip_mode))'
  BY GroupsIs, PTL
<1>2. PICK cs, s : cs = conditional_stack' /\ s = skip_mode'
  OBVIOUS
<1>3. Groups' = (GroupsIn(conditional_stack, skip_mode))'
  BY <1>1
<1>4. (GroupsIn(conditional_stack, skip_mode))' = GroupsIn(cs, s)
  BY <1>2 DEF GroupsIn, GroupIn
<1>5. QED
  BY <1>2, <1>3, <1>4

\* A step that opens, closes or turns no conditional.
LEMMA SameGroups ==
  ASSUME GroupsOK, UNCHANGED conditional, pc # "done",
         \/ (stack[1].at)' = stack[1].at
         \/ (stack[1].at)' \notin {"extra", "decided", "skipped"}
         \/ (stack[1].at)' = IF skip_mode THEN "skipped" ELSE "decided"
         \/ (stack[1].at)' = "extra" /\ ~ skip_mode
  PROVE  GroupsOK' /\ UNCHANGED << Groups, skip_mode >>
<1>1. UNCHANGED << Groups, skip_mode >>
  BY DEF Groups, Group, conditional
<1>2. QED
  BY <1>1 DEF GroupsOK, conditional

LEMMA GroupsReading ==
  ASSUME Control, GroupsOK, Reading
  PROVE  GroupsOK' /\ UNCHANGED << Groups, skip_mode >>
<1>1. UNCHANGED conditional /\ pc # "done"
  BY DEF Reading, EndOfInput, Raw, PlainToken, ObjectMacro, FunctionMacro, SkipNewline, NoArguments,
       Arguments, Argument, Invocation, Resume, Expanding, EndOfExpansion, ExpandNext, At
<1>2. (stack[1].at)' = stack[1].at
  <2>1. CASE stack' = stack
    BY <2>1
  <2>2. CASE Arguments
    <3>1. PICK f : stack' = Append(stack, f)
      BY <2>2 DEF Arguments
    <3>2. ASSUME NEW S, stack \in Seq(S), stack # << >>
          PROVE  stack'[1] = stack[1]
      <4>1. Len(stack) \in Nat /\ 1 \in 1 .. Len(stack)
        BY <3>2
      <4>2. QED
        BY <3>1, <3>2, <4>1, AppendProperties
    <3>3. ASSUME NEW m, stack = << m >> PROVE stack \in Seq({m}) /\ stack # << >>
      BY <3>3
    <3>4. ASSUME NEW m, NEW e, stack = << m, e >> PROVE stack \in Seq({m, e}) /\ stack # << >>
      BY <3>4
    <3>5. QED
      BY <3>2, <3>3, <3>4 DEF Control, StackOK
  <2>3. CASE Argument \/ Invocation
    <3>1. PICK m \in Frames(Lines) : stack = << m, Top >> /\ Under = << m >>
                                   /\ \A f : Append(Under, f) = << m, f >>
      BY <2>3, InsideArguments DEF Argument, Invocation, At, InArguments
    <3>2. stack' = << m >> \/ \E f : stack' = << m, f >>
      BY <2>3, <3>1 DEF Argument, Invocation, Read
    <3>3. (stack[1])' = m /\ stack[1] = m
      BY <3>1, <3>2, OneNext, TwoNext, TwoFrames
    <3>4. QED
      BY <3>3
  <2>4. QED
    BY <2>1, <2>2, <2>3 DEF Reading, EndOfInput, Raw, PlainToken, ObjectMacro, FunctionMacro, SkipNewline,
       NoArguments, Resume, EndOfExpansion, ExpandNext, control
<1>3. QED
  BY <1>1, <1>2, SameGroups

LEMMA GroupsInit ==
  ASSUME Init PROVE Conditionals!Init /\ GroupsOK
<1>1. conditional_stack = << >> /\ skip_mode = FALSE
  BY DEF Init
<1>2. conditional_stack \in Seq(Opened) /\ Len(conditional_stack) = 0
  BY <1>1
<1>3. Groups = << >>
  <2>1. Groups \in Seq(Kinds) /\ Len(Groups) = 0
    BY <1>2, GroupsIs, GroupsAre
  <2>2. QED
    BY <2>1, EmptySeq
<1>4. stack[1].at = "line"
  BY OneFrame DEF Init, Frame
<1>5. ConditionalsOK(conditional_stack, skip_mode)
  <2>1. 1 .. Len(conditional_stack) = {}
    BY <1>2
  <2>2. QED
    BY <1>1, <1>2, <2>1 DEF ConditionalsOK
<1>6. QED
  BY <1>1, <1>3, <1>4, <1>5 DEF Conditionals!Init, GroupsOK, Groups

LEMMA GroupsLines ==
  ASSUME Control, GroupsOK,
         Directive \/ Text \/ Eat \/ EndOfDirective \/ InvalidDirective
  PROVE  GroupsOK' /\ UNCHANGED << Groups, skip_mode >>
<1>1. UNCHANGED conditional /\ pc # "done"
  BY DEF Directive, Text, Eat, EndOfDirective, InvalidDirective, At
<1>2. CASE Directive
  BY <1>1, <1>2, Goes, SameGroups DEF Directive, At, Places, Lines
<1>3. CASE Text
  <2>1. PICK p \in Lines : Read(p)
    BY <1>3 DEF Text, Lines
  <2>2. QED
    BY <1>1, <1>3, <2>1, Goes, SameGroups DEF Text, At, Places, Lines
<1>4. CASE Eat
  <2>1. PICK m \in Frames(AfterLine) : stack = << m, Top >> /\ Under = << m >>
                                     /\ \A f : Append(Under, f) = << m, f >>
    BY <1>4, AtEat DEF Eat, At
  <2>2. stack' = << m >> \/ \E f : stack' = << m, f >>
    BY <1>4, <2>1 DEF Eat, Read
  <2>3. (stack[1])' = m /\ stack[1] = m
    BY <2>1, <2>2, OneNext, TwoNext, TwoFrames
  <2>4. QED
    BY <1>1, <2>3, SameGroups
<1>5. CASE EndOfDirective
  <2>1. Top.at = "end" /\ "end" \in Places /\ "line" \in Places
    BY <1>5 DEF EndOfDirective, At, Places, AfterLine, Lines
  <2>2. CASE pp_token \in EndOfLine
    <3>1. (stack[1].at)' = "line"
      BY <1>5, <2>1, <2>2, Waits DEF EndOfDirective
    <3>2. QED
      BY <1>1, <3>1, SameGroups
  <2>3. CASE pp_token \notin EndOfLine
    <3>1. (stack[1].at)' = stack[1].at
      BY <1>5, <2>3 DEF EndOfDirective, Abort
    <3>2. QED
      BY <1>1, <3>1, SameGroups
  <2>4. QED
    BY <2>2, <2>3
<1>6. CASE InvalidDirective
  BY <1>1, <1>6, Eats, SameGroups DEF InvalidDirective, At, Places, AfterLine
<1>7. QED
  BY <1>2, <1>3, <1>4, <1>5, <1>6

LEMMA GroupsEnd ==
  ASSUME Control, GroupsOK, EndOfText
  PROVE  GroupsOK' /\ Conditionals!End
<1>1. conditional_stack' = << >> /\ skip_mode' = skip_mode /\ pc' = "done" /\ stack' = stack
  BY DEF EndOfText
<1>2. Top.at \in Lines
  BY DEF EndOfText, At, Lines
<1>3. stack[1] = Top
  BY <1>2, AtPlace, OneFrame DEF Places
<1>4. 1 .. Len(<< >>) = {} /\ << >> \in Seq(Opened)
  OBVIOUS
<1>5. ConditionalsOK(<< >>, skip_mode)
  BY <1>4 DEF ConditionalsOK, GroupsOK
<1>6. GroupsOK'
  BY <1>1, <1>2, <1>3, <1>5 DEF GroupsOK, Lines
<1>7. Groups' = << >>
  <2>1. Groups' = GroupsIn(conditional_stack', skip_mode')
    BY <1>1, <1>4, GroupsNow
  <2>2. GroupsIn(<< >>, skip_mode) \in Seq(Kinds) /\ Len(GroupsIn(<< >>, skip_mode)) = 0
    BY <1>4, GroupsAre
  <2>3. QED
    BY <1>1, <2>1, <2>2, EmptySeq
<1>8. QED
  BY <1>1, <1>6, <1>7 DEF Conditionals!End, Groups

LEMMA GroupsDefinitions ==
  ASSUME Control, GroupsOK,
         Define \/ MacroName \/ Parameter \/ Replacement \/ EndOfDefine \/ Undef \/ EndOfUndef
  PROVE  GroupsOK' /\ UNCHANGED << Groups, skip_mode >>
<1>1. UNCHANGED conditional /\ pc # "done"
  BY DEF Define, Dispatch, MacroName, Parameter, Replacement, EndOfDefine, Undef, EndOfUndef, At,
       notDefining
<1>2. ASSUME (stack[1].at)' \notin {"extra", "decided", "skipped"}
      PROVE  GroupsOK' /\ UNCHANGED << Groups, skip_mode >>
  BY <1>1, <1>2, SameGroups
<1>3. CASE Define
  <2>1. PICK t \in Directives, p \in {"name", "undef"} : Dispatch(t, p)
    BY <1>3 DEF Define, Directives
  <2>2. QED
    BY <1>2, <2>1, Waits DEF Dispatch, At, Places
<1>4. CASE MacroName
  <2>1. Top.at = "name" /\ Top.at \in Places
    BY <1>4 DEF MacroName, At, Places
  <2>2. CASE pp_token \notin Name
    BY <1>2, <1>4, <2>1, <2>2, Eats DEF MacroName, AfterLine
  <2>3. CASE pp_token \in Name
    <3>1. PICK p \in {"(", "list"} :
            stack' = Append(Under, Frame(p, pp_token, FALSE)) /\ pc' = "next"
      BY <1>4, <2>3 DEF MacroName
    <3>2. QED
      BY <1>2, <2>1, <2>3, <3>1, Waits DEF Places
  <2>4. QED
    BY <2>2, <2>3
<1>5. CASE Parameter
  <2>1. Top.at \in Places
    BY <1>5 DEF Parameter, At, Places
  <2>2. \/ EatThen("end", Top)
        \/ \E p \in {"parameter", "last_parameter", "separator", "list"} : Go(p) \/ Read(p)
    BY <1>5 DEF Parameter
  <2>3. QED
    BY <1>2, <2>1, <2>2, Goes, Eats DEF Places, AfterLine
<1>6. CASE Replacement
  BY <1>2, <1>6, Goes DEF Replacement, At, Places
<1>7. CASE EndOfDefine
  BY <1>2, <1>7, Goes DEF EndOfDefine, At, Places, AfterLine
<1>8. CASE Undef
  <2>1. Top.at \in Places /\ (Read("undefined") \/ EatThen("end", Top))
    BY <1>8 DEF Undef, At, Places
  <2>2. QED
    BY <1>2, <2>1, Goes, Eats DEF Places, AfterLine
<1>9. CASE EndOfUndef
  BY <1>2, <1>9, Eats DEF EndOfUndef, At, Places, AfterLine
<1>10. QED
  BY <1>3, <1>4, <1>5, <1>6, <1>7, <1>8, <1>9

LEMMA GroupsInclude ==
  ASSUME Control, GroupsOK,
         \/ BegunHeaderName \/ HeaderName \/ UnclosedHeaderName \/ NoHeaderName
         \/ EndOfInclude \/ OpenInput \/ TooDeep
  PROVE  GroupsOK' /\ UNCHANGED << Groups, skip_mode >>
<1>1. UNCHANGED conditional /\ pc # "done"
  BY DEF BegunHeaderName, HeaderName, UnclosedHeaderName, NoHeaderName, EndOfInclude, OpenInput,
       TooDeep, atInclude, At, notInput
<1>2. ASSUME (stack[1].at)' \notin {"extra", "decided", "skipped"}
      PROVE  GroupsOK' /\ UNCHANGED << Groups, skip_mode >>
  BY <1>1, <1>2, SameGroups
<1>3. CASE HeaderName
  BY <1>2, <1>3, Goes DEF HeaderName, atInclude, At, Places
<1>4. CASE UnclosedHeaderName
  BY <1>2, <1>4, Eats DEF UnclosedHeaderName, atInclude, At, Places, AfterLine
<1>5. CASE BegunHeaderName \/ NoHeaderName
  BY <1>1, <1>5, SameGroups DEF BegunHeaderName, NoHeaderName, Abort
<1>6. CASE EndOfInclude
  BY <1>2, <1>6, Eats DEF EndOfInclude, At, Places, AfterLine
<1>7. CASE OpenInput
  <2>1. Top.at = "open" /\ Top.at \in Places
    BY <1>7 DEF OpenInput, At, Places, AfterLine
  <2>2. CASE Go("end")
    BY <1>2, <2>1, <2>2, Goes DEF Places, AfterLine
  <2>3. CASE pc' = "next" /\ stack' = Append(Under, Frame("line", None, FALSE))
    <3>1. (stack[1].at)' = "line"
      BY <2>1, <2>3, Waits DEF Places, Lines
    <3>2. QED
      BY <1>2, <3>1
  <2>4. QED
    BY <1>7, <2>2, <2>3 DEF OpenInput
<1>8. CASE TooDeep
  BY <1>2, <1>8, Goes DEF TooDeep, At, Places, AfterLine
<1>9. QED
  BY <1>3, <1>4, <1>5, <1>6, <1>7, <1>8

LEMMA AbstractIf ==
  ASSUME NEW k, k \in IF skip_mode THEN {"ignored"} ELSE {"taken", "pending"},
         Groups' = Append(Groups, k), skip_mode' = Conditionals!Skipped(Append(Groups, k))
  PROVE  Conditionals!If
BY DEF Conditionals!If, Conditionals!Become, Groups

LEMMA AbstractElse ==
  ASSUME Groups # << >>, Groups[Len(Groups)] \in Kinds,
         Groups' = Append(SubSeq(Groups, 1, Len(Groups) - 1), AfterElse(Groups[Len(Groups)])),
         skip_mode' = Conditionals!Skipped(Groups')
  PROVE  Conditionals!Else
<1>1. AfterElse(Groups[Len(Groups)]) =
        CASE Groups[Len(Groups)] = "pending" -> "taken"
          [] Groups[Len(Groups)] \in {"taken", "spent"} -> "spent"
          [] Groups[Len(Groups)] = "ignored" -> "ignored"
  BY DEF AfterElse, Kinds
<1>2. QED
  BY <1>1 DEF Conditionals!Else, Conditionals!Become, Conditionals!Outer, Conditionals!Top, Groups

LEMMA AbstractEndIf ==
  ASSUME Groups # << >>, Groups' = SubSeq(Groups, 1, Len(Groups) - 1),
         skip_mode' = Conditionals!Skipped(Groups')
  PROVE  Conditionals!EndIf
BY DEF Conditionals!EndIf, Conditionals!Become, Conditionals!Outer, Groups

\* A step that changes the conditionals of a state where they are in order.
LEMMA Becomes ==
  ASSUME NEW cs, NEW now, conditional_stack' = cs, skip_mode' = now,
         ConditionalsOK(cs, now), now => cs # << >>,
         (stack[1].at)' = "end"
  PROVE  /\ GroupsOK' /\ Groups' = GroupsIn(cs, now)
         /\ skip_mode' = Conditionals!Skipped(GroupsIn(cs, now))
<1>1. Groups' = GroupsIn(cs, now)
  BY GroupsNow DEF ConditionalsOK
<1>2. now = Conditionals!Skipped(GroupsIn(cs, now))
  BY SkippedIs
<1>3. GroupsOK'
  BY DEF GroupsOK
<1>4. QED
  BY <1>1, <1>2, <1>3

LEMMA GroupsConditionals ==
  ASSUME Control, GroupsOK,
         Ifdef \/ Condition \/ Extra \/ Conditional \/ Else \/ EndOfElse \/ OtherGroup \/ NoGroup
  PROVE  GroupsOK' /\ (Conditionals!Next \/ UNCHANGED << Groups, skip_mode >>)
<1> DEFINE cs == conditional_stack
<1>1. /\ cs \in Seq(Opened) /\ skip_mode \in BOOLEAN /\ ConditionalsOK(cs, skip_mode)
      /\ Groups = GroupsIn(cs, skip_mode) /\ Groups \in Seq(Kinds)
      /\ Len(Groups) = Len(cs) /\ Len(cs) \in Nat
  BY GroupsIs, GroupsAre DEF GroupsOK, ConditionalsOK
<1>2. ASSUME NEW t, NEW p \in Places \ {"extra", "decided", "skipped"}, Dispatch(t, p)
      PROVE  GroupsOK' /\ UNCHANGED << Groups, skip_mode >>
  BY <1>2, Waits, SameGroups DEF Dispatch, At, Places
<1>3. CASE Ifdef
  BY <1>2, <1>3 DEF Ifdef, Places, AfterLine
<1>4. CASE Else
  BY <1>2, <1>4 DEF Else, Places, AfterLine
<1>5. CASE Condition
  <2>1. Top.at = "condition" /\ Top.at \in Places /\ pc # "done" /\ UNCHANGED conditional
    BY <1>5 DEF Condition, At, Places
  <2>2. CASE skip_mode
    <3>1. EatThen("skipped", Top)
      BY <1>5, <2>2 DEF Condition
    <3>2. QED
      BY <2>1, <2>2, <3>1, Eats, SameGroups DEF AfterLine
  <2>3. CASE ~ skip_mode /\ pp_token \notin Name
    <3>1. EatThen("decided", [Top EXCEPT !.flag = TRUE])
      BY <1>5, <2>3 DEF Condition
    <3>2. (stack[1].at)' = "decided"
      BY <2>1, <3>1, Eats DEF AfterLine
    <3>3. QED
      BY <2>1, <2>3, <3>2, SameGroups
  <2>4. CASE ~ skip_mode /\ pp_token \in Name
    <3>1. PICK flag \in BOOLEAN : stack' = Append(Under, Frame("extra", None, flag)) /\ pc' = "next"
      BY <1>5, <2>4 DEF Condition
    <3>2. (stack[1].at)' = "extra"
      BY <2>1, <3>1, Waits DEF Places
    <3>3. QED
      BY <2>1, <2>4, <3>2, SameGroups
  <2>5. QED
    BY <2>2, <2>3, <2>4
<1>6. CASE Extra
  <2>1. Top.at = "extra" /\ Top.at \in Places /\ pc # "done" /\ UNCHANGED conditional
        /\ EatThen("decided", Top)
    BY <1>6 DEF Extra, At, Places
  <2>2. stack[1] = Top
    BY <2>1, AtPlace, OneFrame
  <2>3. ~ skip_mode
    BY <2>1, <2>2 DEF GroupsOK
  <2>4. QED
    BY <2>1, <2>3, Eats, SameGroups DEF AfterLine
<1>7. CASE Conditional
  <2>1. /\ Top.at \in {"skipped", "decided"} /\ Top.at \in Places /\ pc # "done"
        /\ Go("end") /\ "end" \in Places
    BY <1>7 DEF Conditional, At, Places, AfterLine
  <2>2. stack[1] = Top /\ Top \in Frames(Places) /\ (stack[1].at)' = "end"
    BY <2>1, AtPlace, OneFrame, Goes
  <2>3. (Top.at = "skipped") = skip_mode /\ (skip_mode => cs # << >>)
    BY <1>1, <2>1, <2>2 DEF GroupsOK
  <2>4. PICK flag \in BOOLEAN : flag = IF skip_mode THEN FALSE ELSE Top.flag
    BY <2>2 DEF Frames
  <2> DEFINE c == [condition |-> flag, in_else |-> FALSE, skip |-> skip_mode]
             k == IF skip_mode THEN "ignored" ELSE IF flag THEN "taken" ELSE "pending"
  <2>5. cs' = Append(cs, c) /\ skip_mode' = ~ flag
    BY <1>1, <1>7, <2>1, <2>3, <2>4 DEF Conditional, push_conditional
  <2>6. /\ ConditionalsOK(Append(cs, c), ~ flag)
        /\ GroupsIn(Append(cs, c), ~ flag) = Append(Groups, k)
    <3>1. flag \in BOOLEAN /\ (skip_mode => ~ flag) /\ (skip_mode => cs # << >>)
      BY <2>3, <2>4
    <3>2. PICK d : d = [condition |-> flag, in_else |-> FALSE, skip |-> skip_mode]
      OBVIOUS
    <3>3. /\ ConditionalsOK(Append(cs, d), ~ flag)
          /\ GroupsIn(Append(cs, d), ~ flag) =
               Append(GroupsIn(cs, skip_mode),
                      IF skip_mode THEN "ignored" ELSE IF flag THEN "taken" ELSE "pending")
      BY <1>1, <3>1, <3>2, Opens
    <3>4. QED
      BY <1>1, <3>2, <3>3
  <2>7. Append(cs, c) # << >>
    <3>1. c \in Opened
      BY <1>1 DEF Opened
    <3>2. QED
      BY <1>1, <3>1, AppendProperties
  <2> HIDE DEF c, k
  <2>8. /\ GroupsOK' /\ Groups' = Append(Groups, k)
        /\ skip_mode' = Conditionals!Skipped(Append(Groups, k))
    BY <2>2, <2>5, <2>6, <2>7, Becomes
  <2>9. k \in IF skip_mode THEN {"ignored"} ELSE {"taken", "pending"}
    BY DEF k
  <2>10. QED
    BY <2>8, <2>9, AbstractIf DEF Conditionals!Next
<1>8. CASE EndOfElse
  <2>1. PICK p \in {"other_group", "no_group"} : EatThen(p, Top)
    BY <1>8 DEF EndOfElse
  <2>2. (stack[1].at)' = p
    BY <1>8, <2>1, Eats DEF EndOfElse, At, Places, AfterLine
  <2>3. QED
    BY <1>8, <2>2, SameGroups DEF EndOfElse, At
<1>9. ASSUME Top.at \in AfterLine, pc = "run", Go("end")
      PROVE  (stack[1].at)' = "end" /\ pc # "done" /\ (skip_mode => cs # << >>)
  <2>1. "end" \in Places /\ Top.at \in Places
    BY <1>9 DEF Places, AfterLine
  <2>2. QED
    BY <1>9, <2>1, Goes DEF GroupsOK
<1>10. ASSUME cs # << >>
       PROVE  Groups # << >> /\ Groups[Len(Groups)] \in Kinds
  <2>1. Len(Groups) \in 1 .. Len(Groups)
    BY <1>1, <1>10
  <2>2. QED
    BY <1>1, <2>1
<1>11. CASE OtherGroup
  <2>1. /\ (stack[1].at)' = "end" /\ pc # "done" /\ (skip_mode => cs # << >>)
    BY <1>9, <1>11 DEF OtherGroup, At, AfterLine
  <2>2. CASE cs = << >>
    BY <1>11, <2>1, <2>2, SameGroups DEF OtherGroup
  <2>3. CASE cs # << >>
    <3>1. Last(cs) \in Opened
      BY <1>1, <2>3 DEF Last
    <3>2. /\ skip_mode' \in BOOLEAN
          /\ \/ Last(cs).in_else /\ cs' = cs /\ skip_mode' = TRUE
             \/ /\ ~ Last(cs).in_else
                /\ cs' = Append(Front(cs), [Last(cs) EXCEPT !.in_else = TRUE])
                /\ skip_mode' = IF Last(cs).skip THEN skip_mode ELSE Last(cs).condition
      BY <1>1, <1>11, <2>3, <3>1 DEF OtherGroup, Innermost, Opened
    <3>3. PICK now \in BOOLEAN : now = skip_mode'
      BY <3>2
    <3>4. PICK new : new = cs'
      OBVIOUS
    <3>5. /\ ConditionalsOK(new, now) /\ new # << >>
          /\ GroupsIn(new, now) =
               Append(SubSeq(Groups, 1, Len(Groups) - 1), AfterElse(Groups[Len(Groups)]))
      <4>1. \/ Last(cs).in_else /\ new = cs /\ now = TRUE
            \/ /\ ~ Last(cs).in_else
               /\ new = Append(Front(cs), [Last(cs) EXCEPT !.in_else = TRUE])
               /\ now = IF Last(cs).skip THEN skip_mode ELSE Last(cs).condition
        BY <3>2, <3>3, <3>4
      <4>2. /\ ConditionalsOK(new, now) /\ new # << >>
            /\ GroupsIn(new, now) =
                 Append(SubSeq(GroupsIn(cs, skip_mode), 1, Len(GroupsIn(cs, skip_mode)) - 1),
                        AfterElse(GroupsIn(cs, skip_mode)[Len(GroupsIn(cs, skip_mode))]))
        BY <1>1, <2>3, <4>1, Turns
      <4>3. QED
        BY <1>1, <4>2
    <3>6. GroupsOK' /\ Groups' = GroupsIn(new, now) /\ skip_mode' = Conditionals!Skipped(Groups')
      BY <2>1, <3>3, <3>4, <3>5, Becomes
    <3>7. QED
      BY <1>10, <2>3, <3>5, <3>6, AbstractElse DEF Conditionals!Next
  <2>4. QED
    BY <2>2, <2>3
<1>12. CASE NoGroup
  <2>1. /\ (stack[1].at)' = "end" /\ pc # "done" /\ (skip_mode => cs # << >>)
    BY <1>9, <1>12 DEF NoGroup, At, AfterLine
  <2>2. CASE cs = << >>
    BY <1>12, <2>1, <2>2, SameGroups DEF NoGroup
  <2>3. CASE cs # << >>
    <3>1. cs' = Front(cs) /\ skip_mode' = (Last(cs).skip /\ skip_mode)
      BY <1>12, <2>3 DEF NoGroup, Innermost
    <3>2. PICK new, now : new = cs' /\ now = skip_mode'
      OBVIOUS
    <3>3. /\ ConditionalsOK(new, now) /\ (now => new # << >>)
          /\ GroupsIn(new, now) = SubSeq(Groups, 1, Len(Groups) - 1)
      BY <1>1, <2>3, <3>1, <3>2, Closes
    <3>4. GroupsOK' /\ Groups' = GroupsIn(new, now) /\ skip_mode' = Conditionals!Skipped(Groups')
      BY <2>1, <3>2, <3>3, Becomes
    <3>5. QED
      BY <1>10, <2>3, <3>3, <3>4, AbstractEndIf DEF Conditionals!Next
  <2>4. QED
    BY <2>2, <2>3
<1>13. QED
  BY <1>3, <1>4, <1>5, <1>6, <1>7, <1>8, <1>11, <1>12

\* Groups are skipped as conditional inclusion wants it, whatever the input:
\* also across included files, and behind everything the code does not cope
\* with.
THEOREM Inclusion == Spec => Implements
<1>1. ASSUME Init PROVE Conditionals!Init /\ GroupsOK
  BY <1>1, GroupsInit
<1>2. ASSUME Control, GroupsOK, [Next]_vars
      PROVE  GroupsOK' /\ (Conditionals!Next \/ UNCHANGED << Groups, skip_mode >>)
  <2>1. CASE UNCHANGED vars
    BY <1>2, <2>1 DEF vars, conditional, control, GroupsOK, Groups, Group
  <2>2. CASE EndOfText
    BY <1>2, <2>2, GroupsEnd DEF Conditionals!Next
  <2>3. CASE Next /\ ~ EndOfText
    BY <1>2, <2>3, GroupsReading, GroupsLines, GroupsConditionals, GroupsDefinitions, GroupsInclude DEF Next
  <2>4. QED
    BY <1>2, <2>1, <2>2, <2>3
<1>3. ASSUME Control, GroupsOK, [Next]_vars
      PROVE  [Conditionals!Next]_<< [i \in DOMAIN conditional_stack |-> Group(i)], skip_mode >>
  BY <1>2, <1>3 DEF Groups
<1>4. QED
  BY <1>1, <1>2, <1>3, Controlled, PTL DEF Spec, Implements, Conditionals!Spec

-----------------------------------------------------------------------------
(***************************************************************************)
(* Directives are seen.                                                    *)
(***************************************************************************)
\* Where no slip was made: nothing is expanded in a directive; where the next
\* token begins a line, the main loop waits for it; what is given to another
\* place does not begin a line.
Seen ==
  /\ current_expansion # 0 => stack[1].at \in Lines /\ ~ line_begin
  /\ pc = "expand" => current_expansion # 0
  /\ pc = "peek" => current_expansion = 0 /\ ~ line_begin
  /\ pc = "next" /\ line_begin => Top.at = "line"
  /\ pc = "run" =>
       /\ line_begin => pp_token = "nl"
       /\ first => current_expansion = 0
       /\ Top.at # "line" => ~ (pp_token = "#" /\ first)
  /\ Top.at = "(" => IF pc = "next" THEN ahead = << "(" >> ELSE pp_token = "("
  /\ Top.at \notin InArguments

SeenOK == slips = {} => Seen

\* A handler reads on.
LEMMA SeenReads ==
  ASSUME Seen, pc = "run", pc' = "next", UNCHANGED << line_begin, current_expansion >>,
         NEW p, Top'.at = p, (stack[1].at)' = p, p # "(", p \notin InArguments,
         current_expansion = 0 \/ p \in Lines,
         p = "line" \/ pp_token # "nl"
  PROVE  Seen'
BY DEF Seen

\* A handler goes on with the same token.
LEMMA SeenGoes ==
  ASSUME Seen, pc = "run", pc' = "run",
         UNCHANGED << line_begin, first, pp_token, current_expansion >>,
         Top.at # "line", Top'.at # "line", Top'.at # "(", Top'.at \notin InArguments,
         current_expansion = 0
  PROVE  Seen'
BY DEF Seen

\* In a directive nothing has been expanded.
LEMMA NoExpansion ==
  ASSUME Control, Seen, pc = "run", Top.at \in Places \ Lines
  PROVE  current_expansion = 0 /\ Top.at # "line"
<1>1. stack[1] = Top
  BY AtPlace, OneFrame
<1>2. QED
  BY <1>1 DEF Seen, Lines

LEMMA SeenReading ==
  ASSUME Control, Seen, Reading, slips' = {}
  PROVE  Seen'
<1>1. CASE EndOfInput
  <2>1. /\ pc = "next" /\ pc' = pc /\ stack' = stack /\ current_expansion = 0
        /\ current_expansion' = 0 /\ line_begin /\ Top' = Top /\ "eof" \in Upcoming
    BY <1>1 DEF EndOfInput, Slip, expansion, control, Top
  <2>2. Top.at = "line"
    BY <2>1 DEF Seen
  <2>3. QED
    BY <2>1, <2>2 DEF Seen, InArguments
<1>2. ASSUME NEW t, Raw(t)
      PROVE  /\ pc = "next" /\ current_expansion = 0 /\ t \in Upcoming /\ pp_token' = t
             /\ first' = line_begin /\ line_begin' = (t = "nl") /\ stack' = stack /\ Top' = Top
             /\ (Top.at = "(" => t = "(")
  BY <1>2 DEF Raw, Seen, Upcoming, Top
<1>3. CASE PlainToken
  <2>1. PICK t : Raw(t) /\ pc' = "run" /\ UNCHANGED expansion
    BY <1>3 DEF PlainToken
  <2>2. QED
    BY <1>2, <2>1 DEF Seen, expansion
<1>4. "(" \notin Name /\ "nl" \notin Name /\ "#" \notin Name
  BY PreprocessorAssumption
<1>5. CASE ObjectMacro
  <2>1. PICK t : Raw(t) /\ IsMacro(t) /\ current_expansion' = macro[t] /\ pc' = "expand"
    BY <1>5 DEF ObjectMacro
  <2>2. t \in Name /\ macro[t] # 0 /\ do_expansions
    BY <2>1 DEF IsMacro
  <2>3. stack[1].at \in Lines
    BY <1>2, <2>1, <2>2 DEF Control
  <2>4. QED
    BY <1>2, <1>4, <2>1, <2>2, <2>3 DEF Seen
<1>6. CASE FunctionMacro
  <2>1. PICK t : Raw(t) /\ IsMacro(t) /\ UNCHANGED expansion /\ pc' = "peek"
    BY <1>6 DEF FunctionMacro
  <2>2. t \in Name
    BY <2>1 DEF IsMacro
  <2>3. QED
    BY <1>2, <1>4, <2>1, <2>2 DEF Seen, expansion
<1>7. CASE SkipNewline
  BY <1>7 DEF SkipNewline, Slip
<1>8. CASE NoArguments
  <2>1. /\ pc = "peek" /\ pc' = "run" /\ UNCHANGED << pp_token, line_begin, first, stack >>
        /\ current_expansion' = current_expansion /\ Top' = Top /\ (stack[1].at)' = stack[1].at
    BY <1>8 DEF NoArguments, expansion, Top
  <2>2. pp_token \in Name /\ do_expansions
    BY <2>1 DEF Control
  <2>3. Top.at # "("
    <3>1. ASSUME Top.at = "(" PROVE FALSE
      <4>1. stack[1] = Top
        BY <3>1, AtPlace, OneFrame DEF Places
      <4>2. QED
        BY <2>1, <2>2, <3>1, <4>1 DEF Control, Lines
    <3>2. QED
      BY <3>1
  <2>4. QED
    BY <1>4, <2>1, <2>2, <2>3 DEF Seen
<1>9. CASE Arguments
  BY <1>9 DEF Arguments, Slip
<1>10. CASE Argument \/ Invocation
  BY <1>10 DEF Argument, Invocation, At, Seen, InArguments
<1>11. CASE Resume
  <2>1. /\ pc = "next" /\ current_expansion # 0 /\ pc' = "expand" /\ Top' = Top
        /\ UNCHANGED << line_begin, stack, current_expansion, ahead, pp_token >>
    BY <1>11 DEF Resume, Expanding, input, expansion, Top
  <2>2. Top.at # "("
    <3>1. ASSUME Top.at = "(" PROVE FALSE
      <4>1. stack[1] = Top
        BY <3>1, AtPlace, OneFrame DEF Places
      <4>2. QED
        BY <2>1, <3>1, <4>1 DEF Seen, Lines
    <3>2. QED
      BY <3>1
  <2>3. QED
    BY <2>1, <2>2 DEF Seen
<1>12. ASSUME pc = "expand"
       PROVE  /\ stack[1].at \in Lines /\ ~ line_begin /\ Top.at # "("
              /\ Top.at \notin InArguments
  <2>1. stack[1].at \in Lines /\ ~ line_begin
    BY <1>12 DEF Seen
  <2>2. ASSUME Top.at = "(" PROVE FALSE
    <3>1. stack[1] = Top
      BY <2>2, AtPlace, OneFrame DEF Places
    <3>2. QED
      BY <2>1, <2>2, <3>1 DEF Lines
  <2>3. QED
    BY <2>1, <2>2 DEF Seen
<1>13. CASE EndOfExpansion
  <2>1. /\ pc = "expand" /\ UNCHANGED << line_begin, stack >> /\ Top' = Top
        /\ (pc' = "next" \/ (pc' = "expand" /\ current_expansion' # 0))
    BY <1>13 DEF EndOfExpansion, input, Top
  <2>2. QED
    BY <1>12, <2>1 DEF Seen
<1>14. CASE ExpandNext
  <2>1. /\ pc = "expand" /\ UNCHANGED << line_begin, stack >> /\ Top' = Top /\ first' = FALSE
        /\ (pc' = "run" \/ (pc' = "expand" /\ current_expansion' # 0))
    BY <1>14 DEF ExpandNext, Top, Seen
  <2>2. QED
    BY <1>12, <2>1 DEF Seen
<1>15. QED
  BY <1>1, <1>3, <1>5, <1>6, <1>7, <1>8, <1>9, <1>10, <1>11, <1>13, <1>14 DEF Reading

LEMMA SeenLines ==
  ASSUME Control, Seen, slips' = {},
         Directive \/ Text \/ EndOfText \/ Eat \/ EndOfDirective \/ InvalidDirective
  PROVE  Seen'
<1>1. UNCHANGED << line_begin, first, pp_token, current_expansion, ahead >>
  BY DEF Directive, Text, EndOfText, Eat, EndOfDirective, InvalidDirective, lines, input, expansion
<1>2. CASE Directive
  <2>1. /\ Top.at = "line" /\ Top.at \in Places /\ pc = "run" /\ pp_token = "#" /\ first
        /\ Read("directive") /\ pc' = "next" /\ "directive" \in Places
    BY <1>2 DEF Directive, At, Slip, Read, Places, Lines
  <2>2. Top'.at = "directive" /\ (stack[1].at)' = "directive"
    BY <2>1, Goes
  <2>3. current_expansion = 0
    BY <2>1 DEF Seen
  <2>4. QED
    BY <1>1, <2>1, <2>2, <2>3, SeenReads DEF InArguments
<1>3. CASE Text
  <2>1. PICK p \in Lines : Read(p) /\ (p = "line" \/ pp_token # "nl")
    BY <1>3 DEF Text, Lines
  <2>2. Top.at \in Places /\ pc = "run" /\ p \in Places /\ pc' = "next"
    BY <1>3, <2>1 DEF Text, At, Places, Lines, Read
  <2>3. Top'.at = p /\ (stack[1].at)' = p
    BY <2>1, <2>2, Goes
  <2>4. p # "(" /\ p \notin InArguments
    BY DEF Lines, InArguments
  <2>5. QED
    BY <1>1, <2>1, <2>2, <2>3, <2>4, SeenReads
<1>4. CASE EndOfText
  <2>1. pc' = "done" /\ stack' = stack /\ Top' = Top /\ Top.at \in Lines
    BY <1>4 DEF EndOfText, Top, At, Lines
  <2>2. QED
    BY <1>1, <2>1 DEF Seen, Lines
<1>5. CASE Eat
  <2>1. PICK m \in Frames(AfterLine) :
          /\ stack = << m, Top >> /\ Under = << m >> /\ Top \in Frames({"eat"})
          /\ \A f : Append(Under, f) = << m, f >>
    BY <1>5, AtEat DEF Eat, At
  <2>2. /\ stack[1] = m /\ m.at \in AfterLine /\ pc = "run" /\ Top.at = "eat"
        /\ m.at \notin Lines /\ m.at \notin InArguments
        /\ m.at # "line" /\ m.at # "("
    BY <1>5, <2>1, TwoFrames DEF Eat, At, Frames, AfterLine, Lines, InArguments
  <2>3. current_expansion = 0
    BY <2>2 DEF Seen
  <2>4. CASE pp_token \in EndOfLine
    <3>1. stack' = << m >> /\ pc' = "run"
      BY <1>5, <2>1, <2>4 DEF Eat
    <3>2. Top' = m
      BY <3>1, OneNext
    <3>3. QED
      BY <1>1, <2>2, <2>3, <3>1, <3>2, SeenGoes
  <2>5. CASE pp_token \notin EndOfLine
    <3>1. PICK e : e = [Top EXCEPT !.at = "eat"]
      OBVIOUS
    <3>2. stack' = << m, e >> /\ pc' = "next" /\ e.at = "eat"
      BY <1>5, <2>1, <2>5, <3>1 DEF Eat, Read, Frames
    <3>3. Top' = e /\ (stack[1])' = m
      BY <3>2, TwoNext
    <3>4. ~ line_begin
      BY <2>2, <2>5 DEF Seen, EndOfLine
    <3>5. QED
      BY <1>1, <2>2, <2>3, <3>2, <3>3, <3>4 DEF Seen, InArguments
  <2>6. QED
    BY <2>4, <2>5
<1>6. CASE EndOfDirective
  <2>1. Top.at = "end" /\ "end" \in Places \ Lines /\ "line" \in Places /\ "line" \in Lines /\ pc = "run"
    BY <1>6 DEF EndOfDirective, At, Places, AfterLine, Lines
  <2>2. CASE pp_token \in EndOfLine
    <3>1. pc' = "next" /\ stack' = Append(Under, Frame("line", None, FALSE))
      BY <1>6, <2>2 DEF EndOfDirective
    <3>2. Top'.at = "line" /\ (stack[1].at)' = "line"
      BY <2>1, <3>1, Waits
    <3>3. QED
      BY <1>1, <2>1, <3>1, <3>2, SeenReads DEF InArguments
  <2>3. CASE pp_token \notin EndOfLine
    <3>1. pc' = "aborted" /\ Top' = Top /\ (stack[1].at)' = stack[1].at
      BY <1>6, <2>3 DEF EndOfDirective, Abort, Top
    <3>2. QED
      BY <1>1, <2>1, <3>1 DEF Seen
  <2>4. QED
    BY <2>2, <2>3
<1>7. CASE InvalidDirective
  <2>1. Top.at = "directive" /\ Top.at \in Places \ Lines /\ pc = "run" /\ EatThen("end", Top)
    BY <1>7 DEF InvalidDirective, At, Places, Lines
  <2>2. QED
    BY <1>1, <2>1, NoExpansion, Eats, SeenGoes DEF AfterLine, InArguments
<1>8. QED
  BY <1>2, <1>3, <1>4, <1>5, <1>6, <1>7

LEMMA SeenConditionals ==
  ASSUME Control, Seen,
         Ifdef \/ Condition \/ Extra \/ Conditional \/ Else \/ EndOfElse \/ OtherGroup \/ NoGroup
  PROVE  Seen'
<1>1. /\ UNCHANGED << line_begin, first, pp_token, current_expansion >>
      /\ pc = "run" /\ Top.at \in Places \ Lines
  BY DEF Ifdef, Condition, Extra, Conditional, Else, EndOfElse, OtherGroup, NoGroup, Dispatch, others,
       input, expansion, At, Places, AfterLine, Lines
<1>2. current_expansion = 0 /\ Top.at # "line"
  BY <1>1, NoExpansion
<1>3. ASSUME NEW t \in Directives, NEW p \in Places \ {"("}, Dispatch(t, p)
      PROVE  Seen'
  <2>1. pp_token # "nl" /\ pc' = "next" /\ Top'.at = p /\ (stack[1].at)' = p
    BY <1>1, <1>3, Waits DEF Dispatch, Directives
  <2>2. p \notin InArguments
    BY DEF InArguments, Places, AfterLine, Lines
  <2>3. QED
    BY <1>1, <1>2, <2>1, <2>2, SeenReads
<1>4. ASSUME NEW p \in AfterLine, Go(p)
      PROVE  Seen'
  <2>1. pc' = "run" /\ Top'.at = p /\ p \notin InArguments /\ p \notin {"line", "("}
    BY <1>1, <1>4, Goes DEF Go, Places, AfterLine, InArguments
  <2>2. QED
    BY <1>1, <1>2, <2>1, SeenGoes
<1>5. ASSUME NEW p \in AfterLine, NEW flag \in BOOLEAN,
             EatThen(p, Top) \/ EatThen(p, [Top EXCEPT !.flag = flag])
      PROVE  Seen'
  <2>1. pc' = "run" /\ Top'.at = "eat"
    BY <1>1, <1>5, Eats
  <2>2. QED
    BY <1>1, <1>2, <2>1, SeenGoes DEF InArguments
<1>6. CASE Ifdef \/ Else
  BY <1>3, <1>6 DEF Ifdef, Else, Places, AfterLine, Directives
<1>7. CASE Condition
  <2>1. CASE skip_mode \/ pp_token \notin Name
    BY <1>5, <1>7, <2>1 DEF Condition, AfterLine
  <2>2. CASE ~ skip_mode /\ pp_token \in Name
    <3>1. PICK flag \in BOOLEAN : stack' = Append(Under, Frame("extra", None, flag)) /\ pc' = "next"
      BY <1>7, <2>2 DEF Condition
    <3>2. Top'.at = "extra" /\ (stack[1].at)' = "extra"
      BY <1>1, <3>1, Waits DEF Places
    <3>3. pp_token # "nl"
      BY <2>2, PreprocessorAssumption
    <3>4. QED
      BY <1>1, <1>2, <3>1, <3>2, <3>3, SeenReads DEF InArguments
  <2>3. QED
    BY <2>1, <2>2
<1>8. CASE Extra \/ EndOfElse
  BY <1>5, <1>8 DEF Extra, EndOfElse, AfterLine
<1>9. CASE Conditional \/ OtherGroup \/ NoGroup
  BY <1>4, <1>9 DEF Conditional, OtherGroup, NoGroup, AfterLine
<1>10. QED
  BY <1>6, <1>7, <1>8, <1>9

LEMMA SeenDefinitions ==
  ASSUME Control, Seen,
         Define \/ MacroName \/ Parameter \/ Replacement \/ EndOfDefine \/ Undef \/ EndOfUndef
  PROVE  Seen'
<1>1. /\ UNCHANGED << line_begin, first, pp_token, current_expansion >>
      /\ pc = "run" /\ Top.at \in Places \ Lines
  BY DEF Define, MacroName, Parameter, Replacement, EndOfDefine, Undef, EndOfUndef, Dispatch, others,
       notDefining, input, expansion, At, Places, AfterLine, Lines
<1>2. current_expansion = 0 /\ Top.at # "line"
  BY <1>1, NoExpansion
<1>3. Name \cap {"nl", "eof"} = {}
  BY PreprocessorAssumption
<1>4. ASSUME NEW p \in Places \ {"("}, Read(p), pp_token # "nl"
      PROVE  Seen'
  <2>1. pc' = "next" /\ Top'.at = p /\ (stack[1].at)' = p
    BY <1>1, <1>4, Goes DEF Read
  <2>2. p \notin InArguments
    BY DEF InArguments, Places, AfterLine, Lines
  <2>3. QED
    BY <1>1, <1>2, <1>4, <2>1, <2>2, SeenReads
<1>5. ASSUME NEW p \in Places \ {"(", "line"}, Go(p)
      PROVE  Seen'
  <2>1. pc' = "run" /\ Top'.at = p /\ p \notin InArguments
    BY <1>1, <1>5, Goes DEF Go, Places, AfterLine, Lines, InArguments
  <2>2. QED
    BY <1>1, <1>2, <2>1, SeenGoes
<1>6. ASSUME EatThen("end", Top)
      PROVE  Seen'
  <2>1. pc' = "run" /\ Top'.at = "eat"
    BY <1>1, <1>6, Eats DEF AfterLine
  <2>2. QED
    BY <1>1, <1>2, <2>1, SeenGoes DEF InArguments
<1>7. CASE Define
  <2>1. PICK t \in Directives, p \in {"name", "undef"} : Dispatch(t, p)
    BY <1>7 DEF Define, Directives
  <2>2. pp_token # "nl" /\ pc' = "next" /\ Top'.at = p /\ (stack[1].at)' = p
    BY <1>1, <2>1, Waits DEF Dispatch, Directives, Places
  <2>3. QED
    BY <1>1, <1>2, <2>2, SeenReads DEF InArguments
<1>8. CASE MacroName
  <2>1. CASE pp_token \notin Name
    BY <1>6, <1>8, <2>1 DEF MacroName
  <2>2. CASE pp_token \in Name
    <3>1. PICK t \in Upcoming, adjacent \in BOOLEAN :
            /\ ahead' = << t >> /\ pc' = "next" /\ (adjacent => t = "(")
            /\ stack' = Append(Under, Frame(IF adjacent THEN "(" ELSE "list", pp_token, FALSE))
      BY <1>8, <2>2 DEF MacroName
    <3>2. PICK p \in {"(", "list"} : p = IF adjacent THEN "(" ELSE "list"
      OBVIOUS
    <3>3. Top'.at = p /\ (stack[1].at)' = p
      BY <1>1, <2>2, <3>1, <3>2, Waits DEF Places
    <3>4. ~ line_begin
      BY <1>1, <1>3, <2>2 DEF Seen
    <3>5. QED
      BY <1>1, <1>2, <3>1, <3>2, <3>3, <3>4 DEF Seen, InArguments
  <2>3. QED
    BY <2>1, <2>2
<1>9. CASE Parameter
  <2>1. \/ EatThen("end", Top)
        \/ \E p \in {"parameter", "last_parameter", "separator", "list"} :
             Go(p) \/ (Read(p) /\ pp_token # "nl")
    <3>1. CASE At("(") /\ Read("parameter")
      <4>1. pp_token = "("
        BY <3>1 DEF At, Seen
      <4>2. QED
        BY <3>1, <4>1
    <3>2. CASE At("parameter")
      <4>1. \/ pp_token = ")" /\ Read("list")
            \/ pp_token = "..." /\ Read("last_parameter")
            \/ pp_token \in Name /\ Read("separator")
            \/ EatThen("end", Top)
        BY <1>9, <3>2 DEF Parameter, At
      <4>2. QED
        BY <1>3, <4>1
    <3>3. CASE At("last_parameter")
      BY <1>9, <3>3 DEF Parameter, At
    <3>4. CASE At("separator")
      BY <1>9, <3>4 DEF Parameter, At
    <3>5. QED
      BY <1>9, <3>1, <3>2, <3>3, <3>4 DEF Parameter
  <2>2. QED
    BY <1>4, <1>5, <1>6, <2>1 DEF Places
<1>10. CASE Replacement
  BY <1>4, <1>10 DEF Replacement, Places, EndOfLine
<1>11. CASE EndOfDefine
  BY <1>5, <1>11 DEF EndOfDefine, Places, AfterLine
<1>12. CASE Undef
  BY <1>3, <1>4, <1>6, <1>12 DEF Undef, Places
<1>13. CASE EndOfUndef
  BY <1>6, <1>13 DEF EndOfUndef
<1>14. QED
  BY <1>7, <1>8, <1>9, <1>10, <1>11, <1>12, <1>13

LEMMA SeenInclude ==
  ASSUME Control, Seen, slips' = {},
         \/ BegunHeaderName \/ HeaderName \/ UnclosedHeaderName \/ NoHeaderName
         \/ EndOfInclude \/ OpenInput \/ TooDeep
  PROVE  Seen'
<1>1. CASE UnclosedHeaderName \/ NoHeaderName \/ TooDeep
  BY <1>1 DEF UnclosedHeaderName, NoHeaderName, TooDeep, Slip
<1>2. CASE HeaderName
  <2>1. /\ Top.at = "directive" /\ Top.at \in Places \ Lines /\ pc = "run" /\ pp_token = "include"
        /\ Read("header") /\ pc' = "next" /\ "header" \in Places
        /\ UNCHANGED << line_begin, current_expansion >>
    BY <1>2 DEF HeaderName, atInclude, At, Places, Lines, Read, input, notInput, expansion
  <2>2. Top'.at = "header" /\ (stack[1].at)' = "header"
    BY <2>1, Goes
  <2>3. QED
    BY <2>1, <2>2, NoExpansion, SeenReads DEF InArguments
<1>3. CASE EndOfInclude
  <2>1. /\ Top.at = "header" /\ Top.at \in Places \ Lines /\ pc = "run" /\ EatThen("open", Top)
        /\ UNCHANGED << line_begin, first, pp_token, current_expansion >>
    BY <1>3 DEF EndOfInclude, At, Places, Lines, input, notInput, expansion
  <2>2. QED
    BY <2>1, NoExpansion, Eats, SeenGoes DEF AfterLine, InArguments
<1>4. CASE OpenInput
  <2>1. /\ Top.at = "open" /\ Top.at \in Places \ Lines /\ pc = "run"
        /\ UNCHANGED << first, pp_token, current_expansion >>
    BY <1>4 DEF OpenInput, At, Places, AfterLine, Lines, notInput, expansion
  <2>2. current_expansion = 0 /\ Top.at # "line"
    BY <2>1, NoExpansion
  <2>3. CASE Go("end") /\ UNCHANGED line_begin
    <3>1. pc' = "run" /\ Top'.at = "end"
      BY <2>1, <2>3, Goes DEF Go, Places, AfterLine
    <3>2. QED
      BY <2>1, <2>2, <2>3, <3>1, SeenGoes DEF InArguments
  <2>4. CASE pc' = "next" /\ stack' = Append(Under, Frame("line", None, FALSE))
    <3>1. Top'.at = "line" /\ (stack[1].at)' = "line"
      BY <2>1, <2>4, Waits DEF Places, Lines
    <3>2. QED
      BY <2>1, <2>2, <2>4, <3>1 DEF Seen, InArguments
  <2>5. QED
    BY <1>4, <2>3, <2>4 DEF OpenInput
<1>5. CASE BegunHeaderName
  BY <1>5 DEF BegunHeaderName, Abort, atInclude, At, notInput, input, expansion, Seen, Top
<1>6. QED
  BY <1>1, <1>2, <1>3, <1>4, <1>5

LEMMA SeenNext ==
  ASSUME Control, SeenOK, [Next]_vars
  PROVE  SeenOK'
<1>1. SUFFICES ASSUME slips' = {} PROVE Seen'
  BY DEF SeenOK
<1>2. slips = {}
  BY <1>1, Remembered
<1>3. Seen
  BY <1>2 DEF SeenOK
<1>4. CASE UNCHANGED vars
  BY <1>3, <1>4 DEF vars, Seen, control, input, expansion, Top
<1>5. CASE Next
  BY <1>1, <1>3, <1>5, SeenReading, SeenLines, SeenConditionals, SeenDefinitions, SeenInclude DEF Next
<1>6. QED
  BY <1>4, <1>5

LEMMA SeenInit ==
  Init => SeenOK
<1>1. ASSUME Init PROVE Seen
  <2>1. Top = Frame("line", None, FALSE) /\ stack[1] = Frame("line", None, FALSE)
    BY <1>1, OneFrame DEF Init
  <2>2. QED
    BY <1>1, <2>1 DEF Init, Seen, Frame, InArguments, Lines
<1>2. QED
  BY <1>1 DEF SeenOK

LEMMA AlwaysSeen ==
  Spec => []SeenOK
BY Controlled, SeenInit, SeenNext, PTL DEF Spec

\* Outside of what the code is known not to cope with, the main loop sees every
\* "#" that is the first token of a line of a file: no directive is lost in
\* another, in a skipped group, behind an included file or in an expansion.
THEOREM DirectivesAreSeen == Spec => []DirectivesOK
<1>1. SeenOK => DirectivesOK
  BY DEF SeenOK, Seen, DirectivesOK
<1>2. QED
  BY <1>1, AlwaysSeen, PTL

-----------------------------------------------------------------------------
(***************************************************************************)
(* The active expansions.                                                  *)
(***************************************************************************)
Definition ==
  [list : Seq(Tokens), has_parameters : BOOLEAN, is_expanding : BOOLEAN,
   parent_expansion : Nat, expand_pos : Nat \ {0}]

\* ch has the definitions in defs that are being expanded, each where its name
\* was met in the one before it; current is the last.
Chain(ch, defs, mac, current) ==
  /\ ch \in Seq(1 .. Len(defs))
  /\ \A i, j \in 1 .. Len(ch) : ch[i] = ch[j] => i = j
  /\ \A d \in 1 .. Len(defs) : defs[d].is_expanding <=> \E i \in 1 .. Len(ch) : ch[i] = d
  /\ current = IF ch = << >> THEN 0 ELSE ch[Len(ch)]
  /\ \A i \in 1 .. Len(ch) : defs[ch[i]].parent_expansion = IF i = 1 THEN 0 ELSE ch[i - 1]
  /\ \A i \in 1 .. Len(ch) - 1 : mac[defs[ch[i]].list[defs[ch[i]].expand_pos - 1]] = ch[i + 1]
  /\ \A d \in 1 .. Len(defs) : ~ defs[d].is_expanding => defs[d].parent_expansion = 0

\* One definition changes.
Altered(defs, d, expanding, pos, parent) ==
  [defs EXCEPT ![d].is_expanding = expanding, ![d].expand_pos = pos, ![d].parent_expansion = parent]

Alters(new, defs, d, expanding, pos, parent) ==
  /\ new \in Seq(Definition) /\ Len(new) = Len(defs) /\ Len(defs) \in Nat
  /\ \A e \in 1 .. Len(defs) : e # d => new[e] = defs[e]
  /\ new[d].list = defs[d].list /\ new[d].is_expanding = expanding
  /\ new[d].expand_pos = pos /\ new[d].parent_expansion = parent

LEMMA Changes ==
  ASSUME NEW defs \in Seq(Definition), NEW d \in 1 .. Len(defs),
         NEW expanding \in BOOLEAN, NEW parent \in Nat, NEW pos \in Nat \ {0}
  PROVE  Alters(Altered(defs, d, expanding, pos, parent), defs, d, expanding, pos, parent)
<1> DEFINE r == [defs[d] EXCEPT !.is_expanding = expanding, !.expand_pos = pos, !.parent_expansion = parent]
           new == [defs EXCEPT ![d] = r]
<1>1. defs[d] \in Definition
  OBVIOUS
<1>2. /\ r \in Definition /\ r.list = defs[d].list /\ r.is_expanding = expanding
      /\ r.expand_pos = pos /\ r.parent_expansion = parent
  BY <1>1 DEF Definition
<1>3. Altered(defs, d, expanding, pos, parent) = new
  BY DEF Altered
<1> HIDE DEF r
<1>4. /\ new \in Seq(Definition) /\ Len(new) = Len(defs)
      /\ \A e \in 1 .. Len(defs) : new[e] = IF e = d THEN r ELSE defs[e]
  BY <1>2, ExceptSeq
<1> HIDE DEF new
<1>5. QED
  BY <1>2, <1>3, <1>4 DEF Alters

\* Nothing is being expanded.
LEMMA Idle ==
  ASSUME NEW ch, NEW defs, NEW mac, Chain(ch, defs, mac, 0)
  PROVE  ch = << >>
<1>1. ASSUME ch # << >> PROVE FALSE
  <2>1. Len(ch) \in 1 .. Len(ch) /\ ch[Len(ch)] \in 1 .. Len(defs)
    BY <1>1 DEF Chain
  <2>2. QED
    BY <1>1, <2>1 DEF Chain
<1>2. QED
  BY <1>1

\* A macro's name is met in the text.
LEMMA Begins ==
  ASSUME NEW defs \in Seq(Definition), NEW mac, Chain(<< >>, defs, mac, 0),
         NEW d \in 1 .. Len(defs), NEW new,
         Alters(new, defs, d, TRUE, 1, defs[d].parent_expansion)
  PROVE  Chain(<< d >>, new, mac, d) /\ new \in Seq(Definition) /\ Len(new) = Len(defs)
<1>1. defs[d].parent_expansion = 0
  BY DEF Chain
<1>2. /\ new \in Seq(Definition) /\ Len(new) = Len(defs)
      /\ \A e \in 1 .. Len(defs) : e # d => new[e] = defs[e]
      /\ new[d].is_expanding = TRUE /\ new[d].parent_expansion = 0
  BY <1>1 DEF Alters
<1>3. << d >> \in Seq(1 .. Len(defs)) /\ Len(<< d >>) = 1 /\ << d >>[1] = d /\ << d >> # << >>
  OBVIOUS
<1>4. QED
  BY <1>2, <1>3 DEF Chain

\* The next token is taken from the replacement.
LEMMA Advances ==
  ASSUME NEW ch, NEW defs \in Seq(Definition), NEW mac, NEW c \in 1 .. Len(defs),
         Chain(ch, defs, mac, c), NEW new,
         Alters(new, defs, c, defs[c].is_expanding, defs[c].expand_pos + 1, defs[c].parent_expansion)
  PROVE  /\ Chain(ch, new, mac, c) /\ new \in Seq(Definition) /\ Len(new) = Len(defs)
         /\ new[c].list = defs[c].list /\ new[c].expand_pos = defs[c].expand_pos + 1
         /\ \A e \in 1 .. Len(defs) : new[e].is_expanding = defs[e].is_expanding
         /\ Len(ch) \in 1 .. Len(ch) /\ ch[Len(ch)] = c
<1> DEFINE n == Len(ch)
<1>1. ch \in Seq(1 .. Len(defs)) /\ n \in Nat /\ ch # << >> /\ n \in 1 .. n /\ ch[n] = c
  BY DEF Chain
<1>2. defs[c] \in Definition
  OBVIOUS
<1>3. /\ defs[c].is_expanding \in BOOLEAN /\ defs[c].expand_pos + 1 \in Nat \ {0}
      /\ defs[c].parent_expansion \in Nat
  BY <1>2 DEF Definition
<1>5. /\ new \in Seq(Definition) /\ Len(new) = Len(defs)
      /\ \A e \in 1 .. Len(defs) : e # c => new[e] = defs[e]
      /\ new[c].list = defs[c].list /\ new[c].is_expanding = defs[c].is_expanding
      /\ new[c].expand_pos = defs[c].expand_pos + 1
      /\ new[c].parent_expansion = defs[c].parent_expansion
  BY <1>3 DEF Alters
<1> HIDE DEF n
<1>6. \A e \in 1 .. Len(defs) :
        /\ new[e].is_expanding = defs[e].is_expanding
        /\ new[e].parent_expansion = defs[e].parent_expansion /\ new[e].list = defs[e].list
        /\ e # c => new[e].expand_pos = defs[e].expand_pos
  BY <1>5
<1>7. \A i \in 1 .. n : ch[i] \in 1 .. Len(defs)
  BY <1>1 DEF n
<1>8. \A i \in 1 .. n - 1 : i \in 1 .. n /\ ch[i] # c
  <2>1. \A i, j \in 1 .. n : ch[i] = ch[j] => i = j
    BY DEF Chain, n
  <2>2. \A i \in 1 .. n - 1 : i \in 1 .. n /\ i # n
    BY <1>1
  <2>3. QED
    BY <1>1, <2>1, <2>2
<1>9. Chain(ch, new, mac, c)
  <2>1. \A i \in 1 .. n - 1 : mac[new[ch[i]].list[new[ch[i]].expand_pos - 1]] = ch[i + 1]
    BY <1>6, <1>7, <1>8 DEF Chain, n
  <2>2. \A i \in 1 .. n : new[ch[i]].parent_expansion = IF i = 1 THEN 0 ELSE ch[i - 1]
    BY <1>6, <1>7 DEF Chain, n
  <2>3. \A d \in 1 .. Len(new) : new[d].is_expanding <=> \E i \in 1 .. n : ch[i] = d
    BY <1>5, <1>6 DEF Chain, n
  <2>4. \A d \in 1 .. Len(new) : ~ new[d].is_expanding => new[d].parent_expansion = 0
    BY <1>5, <1>6 DEF Chain
  <2>5. QED
    BY <1>5, <2>1, <2>2, <2>3, <2>4 DEF Chain, n
<1>10. QED
  BY <1>1, <1>5, <1>6, <1>9 DEF n

\* The name of another macro is met in the replacement.
LEMMA Descends ==
  ASSUME NEW ch, NEW defs \in Seq(Definition), NEW mac, NEW c \in 1 .. Len(defs),
         Chain(ch, defs, mac, c), NEW d \in 1 .. Len(defs), ~ defs[d].is_expanding,
         mac[defs[c].list[defs[c].expand_pos - 1]] = d, NEW new,
         Alters(new, defs, d, TRUE, 1, c)
  PROVE  Chain(Append(ch, d), new, mac, d) /\ new \in Seq(Definition) /\ Len(new) = Len(defs)
<1> DEFINE n == Len(ch)
           more == Append(ch, d)
<1>1. ch \in Seq(1 .. Len(defs)) /\ n \in Nat /\ ch # << >> /\ n \in 1 .. n /\ ch[n] = c
  BY DEF Chain
<1>2. /\ new \in Seq(Definition) /\ Len(new) = Len(defs)
      /\ \A e \in 1 .. Len(defs) : e # d => new[e] = defs[e]
      /\ new[d].is_expanding = TRUE /\ new[d].parent_expansion = c
  BY DEF Alters
<1>3. /\ more \in Seq(1 .. Len(defs)) /\ Len(more) = n + 1
      /\ \A i \in 1 .. n : more[i] = ch[i]
      /\ more[n + 1] = d
  BY <1>1, AppendProperties
<1>4. \A i \in 1 .. n : ch[i] \in 1 .. Len(defs) /\ ch[i] # d
  BY <1>1 DEF Chain
<1>15. /\ \A i, j \in 1 .. n : ch[i] = ch[j] => i = j
       /\ \A e \in 1 .. Len(defs) : defs[e].is_expanding <=> \E i \in 1 .. n : ch[i] = e
       /\ \A i \in 1 .. n : defs[ch[i]].parent_expansion = IF i = 1 THEN 0 ELSE ch[i - 1]
       /\ \A i \in 1 .. n - 1 : mac[defs[ch[i]].list[defs[ch[i]].expand_pos - 1]] = ch[i + 1]
  BY DEF Chain
<1> HIDE DEF more, n
<1>5. \A i \in 1 .. n + 1 : i = n + 1 \/ i \in 1 .. n
  BY <1>1
<1>6. \A i \in 1 .. n : new[ch[i]] = defs[ch[i]]
  BY <1>2, <1>4
<1>7. \A i, j \in 1 .. n + 1 : more[i] = more[j] => i = j
  <2>1. ASSUME NEW i \in 1 .. n + 1, NEW j \in 1 .. n + 1, more[i] = more[j] PROVE i = j
    <3>1. CASE i = n + 1
      BY <1>3, <1>4, <1>5, <2>1, <3>1
    <3>2. CASE i \in 1 .. n /\ j \in 1 .. n
      BY <1>3, <1>15, <2>1, <3>2
    <3>3. CASE i \in 1 .. n /\ j = n + 1
      BY <1>3, <1>4, <2>1, <3>3
    <3>4. QED
      BY <1>5, <3>1, <3>2, <3>3
  <2>2. QED
    BY <2>1
<1>8. \A e \in 1 .. Len(new) : new[e].is_expanding <=> \E i \in 1 .. n + 1 : more[i] = e
  <2>1. \A i \in 1 .. n : i \in 1 .. n + 1
    BY <1>1
  <2>2. n + 1 \in 1 .. n + 1
    BY <1>1
  <2>3. ASSUME NEW e \in 1 .. Len(defs), e # d
        PROVE  (\E i \in 1 .. n + 1 : more[i] = e) <=> (\E i \in 1 .. n : ch[i] = e)
    BY <1>3, <1>5, <2>1, <2>3
  <2>4. ASSUME NEW e \in 1 .. Len(defs)
        PROVE  new[e].is_expanding <=> \E i \in 1 .. n + 1 : more[i] = e
    <3>1. CASE e = d
      BY <1>2, <1>3, <2>2, <3>1
    <3>2. CASE e # d
      BY <1>2, <1>15, <2>3, <3>2
    <3>3. QED
      BY <3>1, <3>2
  <2>5. QED
    BY <1>2, <2>4
<1>9. \A i \in 1 .. n + 1 : new[more[i]].parent_expansion = IF i = 1 THEN 0 ELSE more[i - 1]
  <2>1. ASSUME NEW i \in 1 .. n
        PROVE  new[more[i]].parent_expansion = IF i = 1 THEN 0 ELSE more[i - 1]
    <3>1. i # 1 => i - 1 \in 1 .. n
      BY <1>1
    <3>2. new[more[i]].parent_expansion = IF i = 1 THEN 0 ELSE ch[i - 1]
      BY <1>3, <1>6, <1>15
    <3>3. i # 1 => more[i - 1] = ch[i - 1]
      BY <1>3, <3>1
    <3>4. QED
      BY <3>2, <3>3
  <2>2. new[more[n + 1]].parent_expansion = more[n] /\ n + 1 # 1 /\ n + 1 - 1 = n
    BY <1>1, <1>2, <1>3
  <2>3. ASSUME NEW i \in 1 .. n + 1
        PROVE  new[more[i]].parent_expansion = IF i = 1 THEN 0 ELSE more[i - 1]
    <3>1. CASE i = n + 1
      <4>1. i - 1 = n /\ i # 1
        BY <1>1, <3>1
      <4>2. QED
        BY <2>2, <3>1, <4>1
    <3>2. CASE i \in 1 .. n
      BY <2>1, <3>2
    <3>3. QED
      BY <1>5, <3>1, <3>2
  <2>4. QED
    BY <2>3
<1>10. \A i \in 1 .. n : mac[new[more[i]].list[new[more[i]].expand_pos - 1]] = more[i + 1]
  <2>1. ASSUME NEW i \in 1 .. n, i # n
        PROVE  mac[new[more[i]].list[new[more[i]].expand_pos - 1]] = more[i + 1]
    <3>1. i \in 1 .. n - 1 /\ i + 1 \in 1 .. n
      BY <1>1, <2>1
    <3>2. mac[new[more[i]].list[new[more[i]].expand_pos - 1]] = ch[i + 1]
      BY <1>3, <1>6, <1>15, <3>1
    <3>3. QED
      BY <1>3, <3>1, <3>2
  <2>2. mac[new[more[n]].list[new[more[n]].expand_pos - 1]] = more[n + 1]
    BY <1>1, <1>3, <1>6
  <2>3. QED
    BY <2>1, <2>2
<1>11. \A e \in 1 .. Len(new) : ~ new[e].is_expanding => new[e].parent_expansion = 0
  BY <1>2 DEF Chain
<1>12. more # << >> /\ n + 1 - 1 = n
  BY <1>1, <1>3
<1>13. Chain(more, new, mac, d)
  <2>1. /\ more \in Seq(1 .. Len(new)) /\ Len(more) = n + 1 /\ more # << >> /\ n + 1 - 1 = n
        /\ d = IF more = << >> THEN 0 ELSE more[n + 1]
    BY <1>2, <1>3, <1>12
  <2>2. /\ \A i, j \in 1 .. Len(more) : more[i] = more[j] => i = j
        /\ \A i \in 1 .. Len(more) :
             new[more[i]].parent_expansion = IF i = 1 THEN 0 ELSE more[i - 1]
    BY <1>7, <1>9, <2>1
  <2>3. /\ \A e \in 1 .. Len(new) : new[e].is_expanding <=> \E i \in 1 .. Len(more) : more[i] = e
        /\ d = IF more = << >> THEN 0 ELSE more[Len(more)]
    BY <1>8, <2>1
  <2>4. \A i \in 1 .. Len(more) - 1 : mac[new[more[i]].list[new[more[i]].expand_pos - 1]] = more[i + 1]
    <3>1. Len(more) - 1 = n
      BY <1>1, <2>1
    <3>2. QED
      BY <1>10, <3>1, Zenon
  <2>5. QED
    BY <1>11, <2>1, <2>2, <2>3, <2>4 DEF Chain
<1>14. QED
  BY <1>2, <1>13 DEF more

\* An expansion ends.
LEMMA Returns ==
  ASSUME NEW ch, NEW defs \in Seq(Definition), NEW mac, NEW c \in 1 .. Len(defs),
         Chain(ch, defs, mac, c), NEW new,
         Alters(new, defs, c, FALSE, defs[c].expand_pos, 0)
  PROVE  /\ Chain(SubSeq(ch, 1, Len(ch) - 1), new, mac, defs[c].parent_expansion)
         /\ new \in Seq(Definition) /\ Len(new) = Len(defs)
         /\ defs[c].parent_expansion \in 0 .. Len(defs)
<1> DEFINE n == Len(ch)
           less == SubSeq(ch, 1, n - 1)
           p == defs[c].parent_expansion
<1>1. ch \in Seq(1 .. Len(defs)) /\ n \in Nat /\ ch # << >> /\ n \in 1 .. n /\ ch[n] = c
  BY DEF Chain
<1>2. defs[c] \in Definition
  OBVIOUS
<1>3. defs[c].expand_pos \in Nat \ {0}
  BY <1>2 DEF Definition
<1>5. /\ new \in Seq(Definition) /\ Len(new) = Len(defs) /\ Len(defs) \in Nat
      /\ \A e \in 1 .. Len(defs) : e # c => new[e] = defs[e]
      /\ new[c].is_expanding = FALSE /\ new[c].parent_expansion = 0
  BY <1>3 DEF Alters
<1>6. /\ less \in Seq(1 .. Len(defs)) /\ Len(less) = n - 1 /\ n >= 1
      /\ \A i \in 1 .. n - 1 : less[i] = ch[i]
  BY <1>1, Shortened
<1> HIDE DEF less, n, p
<1>7. \A i \in 1 .. n : i = n \/ i \in 1 .. n - 1
  BY <1>1
<1>8. \A i \in 1 .. n - 1 : i \in 1 .. n /\ i # n
  BY <1>1
<1>9. \A i \in 1 .. n - 1 : ch[i] # c /\ ch[i] \in 1 .. Len(defs)
  <2>1. \A i, j \in 1 .. n : ch[i] = ch[j] => i = j
    BY DEF Chain, n
  <2>2. \A i \in 1 .. n : ch[i] \in 1 .. Len(defs)
    BY <1>1 DEF n
  <2>3. QED
    BY <1>1, <1>8, <2>1, <2>2
<1>10. \A i \in 1 .. n - 1 : new[less[i]] = defs[ch[i]]
  BY <1>5, <1>6, <1>9
<1>11. p = IF less = << >> THEN 0 ELSE less[n - 1]
  <2>1. p = IF n = 1 THEN 0 ELSE ch[n - 1]
    BY <1>1 DEF Chain, n, p
  <2>2. (less = << >>) = (n = 1)
    BY <1>1, <1>6
  <2>3. n # 1 => n - 1 \in 1 .. n - 1
    BY <1>1
  <2>4. QED
    BY <1>6, <2>1, <2>2, <2>3
<1>12. p \in 0 .. Len(defs)
  <2>1. n # 1 => n - 1 \in 1 .. n
    BY <1>1
  <2>2. p = IF n = 1 THEN 0 ELSE ch[n - 1]
    BY <1>1 DEF Chain, n, p
  <2>3. QED
    BY <1>1, <1>5, <2>1, <2>2 DEF n
<1>13. \A i, j \in 1 .. n - 1 : less[i] = less[j] => i = j
  <2>1. \A i, j \in 1 .. n : ch[i] = ch[j] => i = j
    BY DEF Chain, n
  <2>2. QED
    BY <1>6, <1>8, <2>1
<1>14. \A e \in 1 .. Len(new) : new[e].is_expanding <=> \E i \in 1 .. n - 1 : less[i] = e
  <2>1. ASSUME NEW e \in 1 .. Len(defs), e # c
        PROVE  (\E i \in 1 .. n - 1 : less[i] = e) <=> (\E i \in 1 .. n : ch[i] = e)
    BY <1>1, <1>6, <1>7, <1>8, <2>1
  <2>2. ~ \E i \in 1 .. n - 1 : less[i] = c
    BY <1>6, <1>9
  <2>3. \A e \in 1 .. Len(defs) : defs[e].is_expanding <=> \E i \in 1 .. n : ch[i] = e
    BY DEF Chain, n
  <2>4. ASSUME NEW e \in 1 .. Len(defs)
        PROVE  new[e].is_expanding <=> \E i \in 1 .. n - 1 : less[i] = e
    <3>1. CASE e = c
      BY <1>5, <2>2, <3>1
    <3>2. CASE e # c
      BY <1>5, <2>1, <2>3, <3>2
    <3>3. QED
      BY <3>1, <3>2
  <2>5. QED
    BY <1>5, <2>4
<1>15. \A i \in 1 .. n - 1 : new[less[i]].parent_expansion = IF i = 1 THEN 0 ELSE less[i - 1]
  <2>1. \A i \in 1 .. n - 1 : i # 1 => i - 1 \in 1 .. n - 1
    BY <1>1
  <2>2. QED
    BY <1>6, <1>8, <1>10, <2>1 DEF Chain, n
<1>16. \A i \in 1 .. n - 1 - 1 : mac[new[less[i]].list[new[less[i]].expand_pos - 1]] = less[i + 1]
  <2>1. \A i \in 1 .. n - 1 - 1 : i \in 1 .. n - 1 /\ i + 1 \in 1 .. n - 1
    BY <1>1
  <2>2. QED
    BY <1>6, <1>10, <2>1 DEF Chain, n
<1>17. \A e \in 1 .. Len(new) : ~ new[e].is_expanding => new[e].parent_expansion = 0
  BY <1>5 DEF Chain
<1>18. Chain(less, new, mac, p)
  BY <1>5, <1>6, <1>11, <1>13, <1>14, <1>15, <1>16, <1>17 DEF Chain
<1>19. QED
  BY <1>5, <1>12, <1>18 DEF less, n, p

\* A step forward in a replacement, and the end of an expansion.
LEMMA StepsForward ==
  ASSUME NEW defs \in Seq(Definition), NEW c \in 1 .. Len(defs)
  PROVE  Alters([defs EXCEPT ![c].expand_pos = @ + 1], defs, c,
                defs[c].is_expanding, defs[c].expand_pos + 1, defs[c].parent_expansion)
<1> DEFINE r == [defs[c] EXCEPT !.expand_pos = defs[c].expand_pos + 1]
           new == [defs EXCEPT ![c] = r]
<1>0. defs[c] \in Definition
  OBVIOUS
<1>1. defs[c] \in Definition /\ defs[c].expand_pos \in Nat /\ defs[c].expand_pos + 1 \in Nat \ {0}
  <2>1. defs[c].expand_pos \in Nat
    BY <1>0 DEF Definition
  <2>2. QED
    BY <1>0, <2>1
<1>2. /\ r \in Definition /\ r.list = defs[c].list /\ r.is_expanding = defs[c].is_expanding
      /\ r.expand_pos = defs[c].expand_pos + 1 /\ r.parent_expansion = defs[c].parent_expansion
  BY <1>1 DEF Definition
<1>3. [defs EXCEPT ![c].expand_pos = @ + 1] = new
  OBVIOUS
<1> HIDE DEF r
<1>4. /\ new \in Seq(Definition) /\ Len(new) = Len(defs) /\ Len(defs) \in Nat
      /\ \A e \in 1 .. Len(defs) : new[e] = IF e = c THEN r ELSE defs[e]
  BY <1>2, ExceptSeq
<1> HIDE DEF new
<1>5. QED
  BY <1>2, <1>3, <1>4 DEF Alters

LEMMA Stops ==
  ASSUME NEW defs \in Seq(Definition), NEW c \in 1 .. Len(defs)
  PROVE  Alters([defs EXCEPT ![c].is_expanding = FALSE, ![c].parent_expansion = 0], defs, c,
                FALSE, defs[c].expand_pos, 0)
<1> DEFINE r == [defs[c] EXCEPT !.is_expanding = FALSE, !.parent_expansion = 0]
           new == [defs EXCEPT ![c] = r]
<1>1. defs[c] \in Definition
  OBVIOUS
<1>2. /\ r \in Definition /\ r.list = defs[c].list /\ r.is_expanding = FALSE
      /\ r.expand_pos = defs[c].expand_pos /\ r.parent_expansion = 0
  BY <1>1 DEF Definition
<1>3. [defs EXCEPT ![c].is_expanding = FALSE, ![c].parent_expansion = 0] = new
  OBVIOUS
<1> HIDE DEF r
<1>4. /\ new \in Seq(Definition) /\ Len(new) = Len(defs) /\ Len(defs) \in Nat
      /\ \A e \in 1 .. Len(defs) : new[e] = IF e = c THEN r ELSE defs[e]
  BY <1>2, ExceptSeq
<1> HIDE DEF new
<1>5. QED
  BY <1>2, <1>3, <1>4 DEF Alters

Typed ==
  /\ alphabet \in Alphabets
  /\ pp_token \in Tokens \cup {"eof"} /\ ahead \in Seq(Tokens \cup {"eof"})
  /\ list \in Seq(Tokens) /\ parameters \in BOOLEAN
  /\ definitions \in Seq(Definition) /\ macro \in [Name -> 0 .. Len(definitions)]

Active == \E ch : Chain(ch, definitions, macro, current_expansion)

ChainOK == slips = {} => Typed /\ Active

LEMMA CurrentIs ==
  ASSUME Typed, Active
  PROVE  current_expansion \in 0 .. Len(definitions) /\ Len(definitions) \in Nat
<1>1. PICK ch : Chain(ch, definitions, macro, current_expansion)
  BY DEF Active
<1>2. ch # << >> => Len(ch) \in 1 .. Len(ch) /\ ch[Len(ch)] \in 1 .. Len(definitions)
  BY <1>1 DEF Chain
<1>3. Len(definitions) \in Nat
  BY DEF Typed
<1>4. QED
  BY <1>1, <1>2, <1>3 DEF Chain

LEMMA ReadsToken ==
  ASSUME Typed, NEW t \in Upcoming
  PROVE  t \in Tokens \cup {"eof"}
<1>1. alphabet \subseteq Tokens
  BY PreprocessorAssumption DEF Typed
<1>2. ahead # << >> => Head(ahead) \in Tokens \cup {"eof"}
  BY DEF Typed
<1>3. QED
  BY <1>1, <1>2 DEF Upcoming

\* Nothing of the expansions changes.
LEMMA SameChain ==
  ASSUME Typed, Active, UNCHANGED << alphabet, expansion, defining >>,
         pp_token' \in Tokens \cup {"eof"}, ahead' \in Seq(Tokens \cup {"eof"})
  PROVE  Typed' /\ Active'
BY DEF Typed, Active, expansion, defining

LEMMA ChainReading ==
  ASSUME Control, Seen, Typed, Active, Reading, slips' = {}
  PROVE  Typed' /\ Active'
<1> USE DEF Typed
<1>1. << >> \in Seq(Tokens \cup {"eof"})
  OBVIOUS
<1>2. CASE EndOfInput
  BY <1>1, <1>2, SameChain DEF EndOfInput
<1>3. ASSUME NEW t \in Upcoming, Raw(t)
      PROVE  /\ UNCHANGED << alphabet, defining >> /\ current_expansion = 0
             /\ pp_token' \in Tokens \cup {"eof"} /\ ahead' \in Seq(Tokens \cup {"eof"})
  BY <1>1, <1>3, ReadsToken DEF Raw
<1>4. CASE PlainToken \/ FunctionMacro
  BY <1>3, <1>4, SameChain DEF PlainToken, FunctionMacro
<1>5. CASE ObjectMacro
  <2>1. PICK t \in Upcoming :
          /\ Raw(t) /\ IsMacro(t) /\ current_expansion' = macro[t]
          /\ definitions' = Started(macro[t], definitions[macro[t]].parent_expansion)
          /\ macro' = macro
    BY <1>5 DEF ObjectMacro
  <2>2. PICK d : d = macro[t]
    OBVIOUS
  <2>3. d \in 1 .. Len(definitions)
    BY <2>1, <2>2 DEF IsMacro
  <2>4. definitions \in Seq(Definition) /\ definitions[d] \in Definition
    BY <2>3
  <2>5. Alters(definitions', definitions, d, TRUE, 1, definitions[d].parent_expansion)
    <3>1. definitions' = Altered(definitions, d, TRUE, 1, definitions[d].parent_expansion)
      BY <2>1, <2>2 DEF Started, Altered
    <3>2. definitions[d].parent_expansion \in Nat /\ TRUE \in BOOLEAN /\ 1 \in Nat \ {0}
      BY <2>4 DEF Definition
    <3>3. Alters(Altered(definitions, d, TRUE, 1, definitions[d].parent_expansion),
                 definitions, d, TRUE, 1, definitions[d].parent_expansion)
      BY <2>3, <2>4, <3>2, Changes
    <3>4. QED
      BY <3>1, <3>3
  <2>6. Chain(<< >>, definitions, macro, 0)
    BY <1>3, <2>1, Idle DEF Active
  <2>7. Chain(<< d >>, definitions', macro, d) /\ definitions' \in Seq(Definition)
        /\ Len(definitions') = Len(definitions)
    BY <2>3, <2>5, <2>6, Begins
  <2>8. QED
    BY <1>3, <2>1, <2>2, <2>7 DEF Active, defining
<1>6. CASE SkipNewline \/ Arguments
  BY <1>6 DEF SkipNewline, Arguments, Slip
<1>7. CASE NoArguments
  <2>1. PICK t \in Upcoming : ahead' = << t >>
    BY <1>7 DEF NoArguments
  <2>2. << t >> \in Seq(Tokens \cup {"eof"})
    BY ReadsToken
  <2>3. QED
    BY <1>7, <2>1, <2>2, SameChain DEF NoArguments
<1>8. CASE Argument \/ Invocation
  BY <1>8 DEF Argument, Invocation, At, Seen, InArguments
<1>9. CASE Resume
  BY <1>9, SameChain DEF Resume, input
<1>10. ASSUME pc = "expand"
       PROVE  current_expansion \in 1 .. Len(definitions)
  BY <1>10, CurrentIs DEF Seen
<1>11. PICK ch : Chain(ch, definitions, macro, current_expansion)
  BY DEF Active
<1>12. PICK c : c = current_expansion
  OBVIOUS
<1>13. CASE EndOfExpansion
  <2>1. /\ c \in 1 .. Len(definitions)
        /\ definitions' = [definitions EXCEPT ![c].is_expanding = FALSE, ![c].parent_expansion = 0]
        /\ current_expansion' = definitions[c].parent_expansion
        /\ UNCHANGED << alphabet, pp_token, ahead, macro, list, parameters >>
    BY <1>10, <1>12, <1>13 DEF EndOfExpansion, Current, input, defining
  <2>2. Alters(definitions', definitions, c, FALSE, definitions[c].expand_pos, 0)
    BY <2>1, Stops
  <2>3. /\ Chain(SubSeq(ch, 1, Len(ch) - 1), definitions', macro, definitions[c].parent_expansion)
        /\ definitions' \in Seq(Definition) /\ Len(definitions') = Len(definitions)
    <3>1. definitions \in Seq(Definition) /\ Chain(ch, definitions, macro, c)
      BY <1>11, <1>12
    <3>2. PICK new : new = definitions'
      OBVIOUS
    <3>3. Alters(new, definitions, c, FALSE, definitions[c].expand_pos, 0)
      BY <2>2, <3>2
    <3>4. /\ Chain(SubSeq(ch, 1, Len(ch) - 1), new, macro, definitions[c].parent_expansion)
          /\ new \in Seq(Definition) /\ Len(new) = Len(definitions)
      BY <2>1, <3>1, <3>3, Returns
    <3>5. QED
      BY <3>2, <3>4
  <2>4. QED
    BY <2>1, <2>3 DEF Active
<1>14. CASE ExpandNext
  <2>1. PICK t, past, d :
          /\ c \in 1 .. Len(definitions)
          /\ definitions[c].expand_pos <= Len(definitions[c].list)
          /\ t = definitions[c].list[definitions[c].expand_pos]
          /\ past = [definitions EXCEPT ![c].expand_pos = @ + 1]
          /\ d = IF t \in Name THEN macro[t] ELSE 0
          /\ pp_token' = t
          /\ IF d # 0 /\ ~ definitions[d].is_expanding
             THEN /\ definitions' = Altered(past, d, TRUE, 1, c)
                  /\ current_expansion' = d
             ELSE /\ definitions' = past
                  /\ UNCHANGED current_expansion
          /\ UNCHANGED << alphabet, ahead, macro, list, parameters >>
    BY <1>10, <1>12, <1>14 DEF ExpandNext, Current, Altered, defining
  <2>2. t \in Tokens
    <3>1. definitions[c] \in Definition
      BY <2>1
    <3>2. definitions[c].list \in Seq(Tokens) /\ definitions[c].expand_pos \in Nat \ {0}
      BY <3>1 DEF Definition
    <3>3. QED
      BY <2>1, <3>2
  <2>3. Alters(past, definitions, c, definitions[c].is_expanding, definitions[c].expand_pos + 1,
               definitions[c].parent_expansion)
    BY <2>1, StepsForward
  <2>4. Chain(ch, definitions, macro, c)
    BY <1>11, <1>12
  <2>5. /\ Chain(ch, past, macro, c) /\ past \in Seq(Definition) /\ Len(past) = Len(definitions)
        /\ past[c].list = definitions[c].list /\ past[c].expand_pos = definitions[c].expand_pos + 1
        /\ \A e \in 1 .. Len(definitions) : past[e].is_expanding = definitions[e].is_expanding
    <3>1. definitions \in Seq(Definition) /\ c \in 1 .. Len(definitions)
      BY <2>1
    <3>2. PICK defs, mac : defs \in Seq(Definition) /\ defs = definitions /\ mac = macro
      BY <3>1
    <3>3. c \in 1 .. Len(defs) /\ Chain(ch, defs, mac, c)
      BY <2>4, <3>1, <3>2
    <3>4. Alters(past, defs, c, defs[c].is_expanding, defs[c].expand_pos + 1, defs[c].parent_expansion)
      BY <2>3, <3>2
    <3>5. Chain(ch, past, mac, c)
      BY <3>2, <3>3, <3>4, Advances
    <3>6. Chain(ch, past, macro, c)
      BY <3>2, <3>5
    <3>7. /\ past \in Seq(Definition) /\ Len(past) = Len(definitions)
          /\ past[c].list = definitions[c].list
          /\ past[c].expand_pos = definitions[c].expand_pos + 1
      BY <2>3 DEF Alters
    <3>8. \A e \in 1 .. Len(definitions) : past[e].is_expanding = definitions[e].is_expanding
      BY <2>3 DEF Alters
    <3>9. QED
      BY <3>6, <3>7, <3>8
  <2>6. CASE d # 0 /\ ~ definitions[d].is_expanding
    <3>1. t \in Name /\ d = macro[t] /\ d \in 1 .. Len(past) /\ c \in 1 .. Len(past) /\ c \in Nat
      BY <2>1, <2>5, <2>6
    <3>2. Alters(definitions', past, d, TRUE, 1, c)
      <4>1. definitions' = Altered(past, d, TRUE, 1, c)
        BY <2>1, <2>6
      <4>2. TRUE \in BOOLEAN /\ 1 \in Nat \ {0} /\ past \in Seq(Definition)
        BY <2>5
      <4>3. Alters(Altered(past, d, TRUE, 1, c), past, d, TRUE, 1, c)
        BY <3>1, <4>2, Changes
      <4>4. QED
        BY <4>1, <4>3
    <3>3. past[c].expand_pos - 1 = definitions[c].expand_pos
      <4>1. definitions[c] \in Definition
        BY <2>1
      <4>2. definitions[c].expand_pos \in Nat
        BY <4>1 DEF Definition
      <4>3. QED
        BY <2>5, <4>2
    <3>4. ~ past[d].is_expanding /\ macro[past[c].list[past[c].expand_pos - 1]] = d
      BY <2>1, <2>5, <2>6, <3>1, <3>3
    <3>5. /\ Chain(Append(ch, d), definitions', macro, d) /\ definitions' \in Seq(Definition)
          /\ Len(definitions') = Len(past)
      <4>1. PICK new : new = definitions'
        OBVIOUS
      <4>2. Alters(new, past, d, TRUE, 1, c)
        BY <3>2, <4>1
      <4>3. Chain(ch, past, macro, c) /\ past \in Seq(Definition)
        BY <2>5
      <4>4. PICK mac : mac = macro
        OBVIOUS
      <4>5. Chain(ch, past, mac, c) /\ mac[past[c].list[past[c].expand_pos - 1]] = d
        BY <3>4, <4>3, <4>4
      <4>6. Chain(Append(ch, d), new, mac, d)
        BY <3>1, <3>4, <4>2, <4>3, <4>5, Descends
      <4>7. new \in Seq(Definition) /\ Len(new) = Len(past)
        BY <4>2 DEF Alters
      <4>8. QED
        BY <4>1, <4>4, <4>6, <4>7
    <3>6. QED
      BY <2>1, <2>2, <2>5, <2>6, <3>5 DEF Active
  <2>7. CASE ~ (d # 0 /\ ~ definitions[d].is_expanding)
    <3>1. definitions' = past /\ current_expansion' = c
      BY <1>12, <2>1, <2>7
    <3>2. QED
      BY <2>1, <2>2, <2>5, <3>1 DEF Active
  <2>8. QED
    BY <2>6, <2>7
<1>15. QED
  BY <1>2, <1>4, <1>5, <1>6, <1>7, <1>8, <1>9, <1>13, <1>14 DEF Reading

LEMMA ChainLines ==
  ASSUME Typed, Active,
         \/ Directive \/ Text \/ EndOfText \/ Eat \/ EndOfDirective \/ InvalidDirective
         \/ Ifdef \/ Condition \/ Extra \/ Conditional \/ Else \/ EndOfElse \/ OtherGroup \/ NoGroup
         \/ BegunHeaderName \/ HeaderName \/ UnclosedHeaderName \/ NoHeaderName
         \/ EndOfInclude \/ OpenInput \/ TooDeep
  PROVE  Typed' /\ Active'
<1>1. UNCHANGED << alphabet, pp_token, ahead, expansion, defining >>
  BY DEF Directive, Text, EndOfText, Eat, EndOfDirective, InvalidDirective, lines, input,
         Ifdef, Condition, Extra, Conditional, Else, EndOfElse, OtherGroup, NoGroup, Dispatch, others,
         BegunHeaderName, HeaderName, UnclosedHeaderName, NoHeaderName, EndOfInclude, OpenInput,
         TooDeep, notInput
<1>2. QED
  BY <1>1, SameChain DEF Typed

LEMMA ChainDefinitions ==
  ASSUME Control, Seen, Typed, Active,
         Define \/ MacroName \/ Parameter \/ Replacement \/ EndOfDefine \/ Undef \/ EndOfUndef
  PROVE  Typed' /\ Active'
<1> USE DEF Typed
<1>1. pc = "run" /\ Top.at \in Places \ Lines
  BY DEF Define, MacroName, Parameter, Replacement, EndOfDefine, Undef, EndOfUndef, Dispatch,
         At, Places, AfterLine, Lines
<1>2. current_expansion = 0
  BY <1>1, NoExpansion
<1>3. Chain(<< >>, definitions, macro, 0)
  BY <1>2, Idle DEF Active
<1>4. CASE Define \/ Parameter \/ EndOfUndef
  BY <1>4, SameChain DEF Define, Dispatch, others, Parameter, EndOfUndef, notDefining, input
<1>5. CASE MacroName
  <2>1. CASE pp_token \notin Name
    BY <1>5, <2>1, SameChain DEF MacroName, notDefining
  <2>2. CASE pp_token \in Name
    <3>1. PICK t \in Upcoming, adjacent \in BOOLEAN :
            ahead' = << t >> /\ list' = << >> /\ parameters' = adjacent
      BY <1>5, <2>2 DEF MacroName
    <3>2. << t >> \in Seq(Tokens \cup {"eof"}) /\ << >> \in Seq(Tokens)
      BY ReadsToken
    <3>3. QED
      BY <1>5, <3>1, <3>2 DEF MacroName, notDefining, expansion, Active
  <2>3. QED
    BY <2>1, <2>2
<1>6. CASE Replacement
  <2>1. pp_token \in Tokens
    BY <1>6 DEF Replacement, EndOfLine
  <2>2. list' \in Seq(Tokens)
    BY <1>6, <2>1, AppendProperties DEF Replacement
  <2>3. QED
    BY <1>6, <2>2 DEF Replacement, notDefining, input, expansion, Active
<1>7. CASE EndOfDefine
  <2>1. /\ list' = << >> /\ parameters' = FALSE /\ << >> \in Seq(Tokens)
        /\ UNCHANGED << alphabet, pp_token, ahead, current_expansion >>
    BY <1>7 DEF EndOfDefine, input
  <2>2. CASE UNCHANGED << definitions, macro >>
    BY <2>1, <2>2 DEF Active
  <2>3. CASE ~ Redefines(Top.name)
    <3>1. PICK f : f = [ list |-> list, has_parameters |-> parameters, is_expanding |-> FALSE,
                         parent_expansion |-> 0, expand_pos |-> Len(list) + 1 ]
      OBVIOUS
    <3>2. Len(list) \in Nat
      OBVIOUS
    <3>3. f \in Definition /\ ~ f.is_expanding /\ f.parent_expansion = 0
      BY <3>1, <3>2 DEF Definition
    <3>4. PICK k \in Nat : k = Len(definitions)
      OBVIOUS
    <3>5. /\ definitions' = Append(definitions, f)
          /\ macro' = [macro EXCEPT ![Top.name] = Len(definitions')]
      BY <1>7, <2>3, <3>1 DEF EndOfDefine
    <3>6. /\ definitions' \in Seq(Definition) /\ Len(definitions') = k + 1
          /\ \A e \in 1 .. k : definitions'[e] = definitions[e]
          /\ definitions'[k + 1] = f
      BY <3>3, <3>4, <3>5, AppendProperties
    <3>7. macro' \in [Name -> 0 .. Len(definitions')]
      <4>1. \A name \in Name : macro[name] \in 0 .. k + 1
        <5>1. \A name \in Name : macro[name] \in 0 .. k
          BY <3>4
        <5>2. \A i \in 0 .. k : i \in 0 .. k + 1
          BY <3>4
        <5>3. QED
          BY <5>1, <5>2
      <4>2. k + 1 \in 0 .. k + 1
        BY <3>4
      <4>3. macro = [name \in Name |-> macro[name]]
        OBVIOUS
      <4>4. macro' = [name \in Name |-> IF name = Top.name THEN k + 1 ELSE macro[name]]
        BY <3>5, <3>6, <4>3
      <4>5. macro' \in [Name -> 0 .. k + 1]
        BY <4>1, <4>2, <4>4
      <4>6. QED
        BY <3>6, <4>5
    <3>8. \A e \in 1 .. k + 1 : e \in 1 .. k \/ e = k + 1
      BY <3>4
    <3>9. /\ << >> \in Seq(1 .. Len(definitions')) /\ Len(<< >>) = 0
          /\ \A e \in 1 .. k : ~ definitions[e].is_expanding /\ definitions[e].parent_expansion = 0
      BY <1>3, <3>4 DEF Chain
    <3>10. \A e \in 1 .. k + 1 : ~ definitions'[e].is_expanding /\ definitions'[e].parent_expansion = 0
      BY <3>3, <3>6, <3>8, <3>9
    <3>11. Chain(<< >>, definitions', macro', 0)
      BY <3>6, <3>9, <3>10 DEF Chain
    <3>12. QED
      BY <1>2, <2>1, <3>6, <3>7, <3>11 DEF Active
  <2>4. QED
    BY <1>7, <2>2, <2>3 DEF EndOfDefine
<1>8. CASE Undef
  <2>1. UNCHANGED << alphabet, pp_token, ahead, definitions, current_expansion, list, parameters >>
    BY <1>8 DEF Undef, notDefining, input, defining
  <2>2. macro' \in [Name -> 0 .. Len(definitions)]
    BY <1>8 DEF Undef
  <2>3. Chain(<< >>, definitions, macro', 0)
    BY <1>3 DEF Chain
  <2>4. QED
    BY <1>2, <2>1, <2>2, <2>3 DEF Active
<1>9. QED
  BY <1>4, <1>5, <1>6, <1>7, <1>8

LEMMA ChainNext ==
  ASSUME Control, SeenOK, ChainOK, [Next]_vars
  PROVE  ChainOK'
<1>1. SUFFICES ASSUME slips' = {} PROVE Typed' /\ Active'
  BY DEF ChainOK
<1>2. slips = {}
  BY <1>1, Remembered
<1>3. Seen /\ Typed /\ Active
  BY <1>2 DEF SeenOK, ChainOK
<1>4. CASE UNCHANGED vars
  BY <1>3, <1>4 DEF vars, Typed, Active, input, expansion, defining
<1>5. CASE Next
  BY <1>1, <1>3, <1>5, ChainReading, ChainLines, ChainDefinitions DEF Next
<1>6. QED
  BY <1>4, <1>5

LEMMA ChainInit ==
  Init => ChainOK
<1>1. ASSUME Init PROVE Typed /\ Active
  <2>1. definitions = << >> /\ list = << >> /\ ahead = << >> /\ current_expansion = 0
    BY <1>1 DEF Init
  <2>2. Chain(<< >>, << >>, macro, 0)
    BY DEF Chain
  <2>3. "nl" \in Tokens
    BY DEF Tokens
  <2>4. << >> \in Seq(Definition) /\ << >> \in Seq(Tokens) /\ << >> \in Seq(Tokens \cup {"eof"})
        /\ Len(<< >>) = 0
    OBVIOUS
  <2>5. Typed
    <3>1. /\ alphabet \in Alphabets /\ pp_token = "nl" /\ parameters = FALSE
          /\ macro = [name \in Name |-> 0]
      BY <1>1 DEF Init
    <3>2. macro \in [Name -> 0 .. 0] /\ FALSE \in BOOLEAN
      BY <3>1
    <3>3. Len(definitions) = 0 /\ definitions \in Seq(Definition) /\ list \in Seq(Tokens)
          /\ ahead \in Seq(Tokens \cup {"eof"})
      BY <2>1, <2>4
    <3>4. QED
      BY <2>3, <3>1, <3>2, <3>3 DEF Typed
  <2>6. QED
    BY <2>1, <2>2, <2>5 DEF Active
<1>2. QED
  BY <1>1 DEF ChainOK

LEMMA ChainIsExpanded ==
  ASSUME Typed, NEW ch, Chain(ch, definitions, macro, current_expansion)
  PROVE  /\ current_expansion = 0 <=> Expanded = {}
         /\ current_expansion # 0 => current_expansion \in Expanded /\ Children(current_expansion) = {}
         /\ \A d \in Expanded \ {current_expansion} :
              \E e \in Expanded :
                /\ Children(d) = {e}
                /\ macro[definitions[d].list[definitions[d].expand_pos - 1]] = e
         /\ \A d \in DOMAIN definitions \ Expanded : definitions[d].parent_expansion = 0
<1> DEFINE n == Len(ch)
<1>1. /\ ch \in Seq(1 .. Len(definitions)) /\ n \in Nat
      /\ \A i \in 1 .. n : ch[i] \in 1 .. Len(definitions) /\ ch[i] # 0
      /\ (ch = << >>) <=> (n = 0)
      /\ DOMAIN definitions = 1 .. Len(definitions)
  BY DEF Chain, Typed
<1>2. /\ \A i, j \in 1 .. n : ch[i] = ch[j] => i = j
      /\ current_expansion = IF ch = << >> THEN 0 ELSE ch[n]
      /\ \A i \in 1 .. n : definitions[ch[i]].parent_expansion = IF i = 1 THEN 0 ELSE ch[i - 1]
      /\ \A i \in 1 .. n - 1 :
           macro[definitions[ch[i]].list[definitions[ch[i]].expand_pos - 1]] = ch[i + 1]
  BY DEF Chain
<1>3. \A d : d \in Expanded <=> \E i \in 1 .. n : ch[i] = d
  <2>1. \A d : d \in Expanded <=> d \in 1 .. Len(definitions) /\ definitions[d].is_expanding
    BY <1>1 DEF Expanded
  <2>2. \A d \in 1 .. Len(definitions) :
          definitions[d].is_expanding <=> \E i \in 1 .. n : ch[i] = d
    BY DEF Chain
  <2>3. QED
    BY <1>1, <2>1, <2>2
<1>4. \A d \in DOMAIN definitions \ Expanded : definitions[d].parent_expansion = 0
  BY <1>1 DEF Chain, Expanded
<1> HIDE DEF n
<1>5. n # 0 => n \in 1 .. n
  BY <1>1
<1>6. current_expansion = 0 <=> Expanded = {}
  <2>1. CASE n = 0
    BY <1>1, <1>2, <1>3, <2>1
  <2>2. CASE n # 0
    <3>1. current_expansion = ch[n] /\ ch[n] # 0 /\ ch[n] \in Expanded
      BY <1>1, <1>2, <1>3, <1>5, <2>2
    <3>2. QED
      BY <3>1
  <2>3. QED
    BY <2>1, <2>2
<1>7. ASSUME NEW i \in 1 .. n, NEW e \in Children(ch[i])
      PROVE  i + 1 \in 1 .. n /\ e = ch[i + 1]
  <2>1. e \in Expanded /\ definitions[e].parent_expansion = ch[i]
    BY <1>7 DEF Children
  <2>2. PICK j \in 1 .. n : ch[j] = e
    BY <1>3, <2>1
  <2>3. j # 1 /\ ch[j - 1] = ch[i]
    BY <1>1, <1>2, <2>1, <2>2
  <2>4. j - 1 \in 1 .. n
    BY <1>1, <2>3
  <2>5. j - 1 = i
    BY <1>2, <2>3, <2>4
  <2>6. i + 1 = j
    BY <1>1, <2>5
  <2>7. QED
    BY <2>2, <2>6
<1>8. ASSUME current_expansion # 0
      PROVE  current_expansion \in Expanded /\ Children(current_expansion) = {}
  <2>1. n # 0 /\ current_expansion = ch[n] /\ n \in 1 .. n
    BY <1>1, <1>2, <1>5, <1>8
  <2>2. n + 1 \notin 1 .. n
    BY <1>1
  <2>3. Children(ch[n]) = {}
    BY <1>7, <2>1, <2>2
  <2>4. QED
    BY <1>3, <2>1, <2>3
<1>9. ASSUME NEW d \in Expanded \ {current_expansion}
      PROVE  \E e \in Expanded :
               /\ Children(d) = {e}
               /\ macro[definitions[d].list[definitions[d].expand_pos - 1]] = e
  <2>1. PICK i \in 1 .. n : ch[i] = d
    BY <1>3
  <2>2. i # n /\ n # 0
    BY <1>1, <1>2, <2>1
  <2>3. i \in 1 .. n - 1 /\ i + 1 \in 1 .. n /\ i + 1 # 1 /\ i + 1 - 1 = i
    BY <1>1, <2>2
  <2>4. ch[i + 1] \in Expanded
    BY <1>3, <2>3
  <2>5. definitions[ch[i + 1]].parent_expansion = ch[i]
    BY <1>2, <2>3
  <2>6. ch[i + 1] \in Children(ch[i])
    BY <2>4, <2>5 DEF Children
  <2>7. Children(d) = { ch[i + 1] }
    BY <1>7, <2>1, <2>6
  <2>8. macro[definitions[d].list[definitions[d].expand_pos - 1]] = ch[i + 1]
    BY <1>2, <2>1, <2>3
  <2>9. QED
    BY <2>4, <2>7, <2>8
<1>10. QED
  BY <1>4, <1>6, <1>8, <1>9

\* Outside of what the code is known not to cope with, the macros that are being
\* expanded are the parents of current_expansion, each once: no expansion is
\* entered again before it ends, left half-way or forgotten to be marked ended.
THEOREM ExpansionIsChain == Spec => []ExpansionOK
<1>1. ChainOK => ExpansionOK
  BY ChainIsExpanded DEF ChainOK, Active, ExpansionOK
<1>2. QED
  BY <1>1, Controlled, AlwaysSeen, ChainInit, ChainNext, PTL DEF Spec
=============================================================================
