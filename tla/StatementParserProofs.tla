----------------------- MODULE StatementParserProofs ------------------------
(***************************************************************************)
(* Whatever the input, every parsing function leaves the parser as it was  *)
(* called in, and the globals name the constructs around the token.        *)
(*                                                                         *)
(* The invariant is about one active function at a time: what it holds of  *)
(* the anchor set (Holds) and what it has changed of the globals (Fits)    *)
(* since it was called is determined by the place where it is. What is     *)
(* found by one active function is what the one below it leaves, and so    *)
(* the globals are determined by the whole stack, without induction over   *)
(* it in any step (Context). A function returns from a place where it      *)
(* holds nothing and has changed nothing: this is what Balanced says.      *)
(*                                                                         *)
(* The anchors are counted in unsigned char: what is said of them holds as *)
(* long as no count comes to the limit (Shallow).                          *)
(***************************************************************************)
EXTENDS StatementParser, FiniteSetTheorems, SequenceTheorems, WellFoundedInduction, TLAPS

\* No more anchors than can be counted, also after the next one is added.
Shallow == \A t \in alphabet : token_anchor_set[t] < Width - 1

-----------------------------------------------------------------------------
(***************************************************************************)
(* What an active function holds and has changed, by the place where it    *)
(* is. There is one more place, "returned", behind the end of a function.  *)
(***************************************************************************)
StatementFunctions ==
  { "if", "while", "switch", "do", "for", "case", "default", "goto", "return", "break",
    "label", "__try", "__extension__", "expression_statement" }

\* The functions that are called; "statement" goes on as the one for the
\* statement, "external" as "declaration" or "linkage".
Callees ==
  { "externals", "external", "declaration", "for_declaration", "declarator", "compound",
    "statement", "expression", "assignment_expression" }

FunctionNames == Callees \cup StatementFunctions \cup {"linkage"}

Points ==
  { "start", "loop", "opening", "closing", "single", "rest", "next", "body", "inner", "infix",
    "extended", "opened", "cast", "closed", "arguments", "argument", "keyword", "wrapped",
    "statement", "condition", "then", "else", "while", "semicolon", "first", "second", "third",
    "declared", "initialised", "initialiser", "step", "value", "end", "tried", "handlers",
    "handled", "except", "filter" }

\* The ";" of parse_statement().
Outer(function, at) ==
  IF function \in StatementFunctions \/ (function = "statement" /\ at = "wrapped")
  THEN {"semicolon"} ELSE {}

Inner(function, at) ==
  IF function = "externals" THEN (IF at = "loop" THEN {"rbrace", EOF} ELSE {})
  ELSE IF function = "declaration"
  THEN (IF at = "rest" THEN {"comma", "semicolon", "lbrace"}
        ELSE IF at = "next" THEN {"semicolon", "comma"} ELSE {})
  ELSE IF function = "for_declaration" THEN (IF at = "next" THEN {"semicolon", "comma"} ELSE {})
  ELSE IF function = "declarator" THEN (IF at = "inner" THEN {")"} ELSE {})
  ELSE IF function \in Expressions
  THEN (IF at = "closing" THEN {")"}
        ELSE IF at \in {"arguments", "argument"} THEN {")", "comma"} ELSE {})
  ELSE IF function = "compound" THEN (IF at \in {"loop", "statement"} THEN StatementAnchors ELSE {})
  ELSE IF function = "if"
  THEN (IF at = "condition" THEN {")", "lbrace"} ELSE IF at = "closing" THEN {"lbrace"}
        ELSE IF at = "then" THEN {"else"} ELSE {})
  ELSE IF function = "do"
  THEN (IF at = "body" THEN {"while"} ELSE IF at = "condition" THEN {")"} ELSE {})
  ELSE IF function = "for"
  THEN (IF at \in {"initialised", "condition"} THEN {")", "semicolon"}
        ELSE IF at \in {"first", "declared", "initialiser", "second", "semicolon", "third", "step"}
        THEN {")"} ELSE {})
  ELSE IF function \in {"while", "switch"} THEN (IF at = "condition" THEN {")"} ELSE {})
  ELSE IF function = "__try" THEN (IF at = "filter" THEN {")"} ELSE {})
  ELSE {}

One(t, tokens) == IF t \in tokens THEN 1 ELSE 0

\* A is what the anchors from have become at this place.
Holds(function, at, from, A) ==
  \A t \in alphabet : A[t] = from[t] + One(t, Outer(function, at)) + One(t, Inner(function, at))

\* Where the function itself is what the global names.
IsBody(function, at) == function = "declaration" /\ at = "body"
IsParent(function, at) ==
  \/ function \in {"if", "while", "switch", "do", "label", "default"}
  \/ function = "compound" /\ at # "start"
  \/ function = "for" /\ at # "keyword"
  \/ function = "case" /\ at \in {"inner", "end"}
  \/ function = "__try" /\ at \in {"keyword", "tried"}
IsLoop(function, at) == function \in {"while", "do", "for"} /\ at = "body"
IsSwitch(function, at) == function = "switch" /\ at = "body"
IsTry(function, at) == function = "__try" /\ at = "tried"
IsScope(function, at) ==
  \/ function = "compound" /\ at # "start"
  \/ function = "for" /\ at # "keyword"
  \/ IsBody(function, at)
IsLinkage(function, at) == function = "linkage" /\ at \in {"opening", "closing", "single"}

\* Where in_gcc_extension is set, and where it may be.
Extends(function, at) ==
  \/ function = "__extension__" /\ at = "extended"
  \/ function \in Expressions /\ at = "extended"
MayExtend(function, at) ==
  function = "for" /\ at \in {"first", "declared", "initialised", "initialiser"}

Globals ==
  [ parent : Nat, loop : Nat, switch : Nat, try : Nat, scope : Nat, function : Nat,
    linkage : Nat, jumps : Nat, gcc_extension : BOOLEAN ]

\* g is what the globals h have become at this place of the function at i.
Fits(function, at, h, i, g) ==
  /\ g \in Globals
  /\ g.parent = IF IsParent(function, at) THEN i
                ELSE IF IsBody(function, at) THEN Null ELSE h.parent
  /\ g.loop = IF IsLoop(function, at) THEN i ELSE h.loop
  /\ g.switch = IF IsSwitch(function, at) THEN i ELSE h.switch
  /\ g.try = IF IsTry(function, at) THEN i ELSE h.try
  /\ g.scope = IF IsScope(function, at) THEN i ELSE h.scope
  /\ g.function = IF IsBody(function, at) THEN i ELSE h.function
  /\ g.linkage = IF IsLinkage(function, at) THEN i ELSE h.linkage
  /\ MayExtend(function, at) \/ (g.gcc_extension <=> Extends(function, at) \/ h.gcc_extension)
  /\ IsBody(function, at) => h.function = Null

-----------------------------------------------------------------------------
(***************************************************************************)
(* The invariant.                                                          *)
(***************************************************************************)
\* Which functions are called outside of functions, which within.
Level(function) ==
  IF function \in {"externals", "external", "linkage"} THEN "outer"
  ELSE IF function \in {"declaration", "declarator"} THEN "any"
  ELSE "inner"

Frame ==
  [function : FunctionNames, at : Points, found : Globals, found_anchors : [alphabet -> Int]]

\* What is found by a function of this level.
FoundOK(level, h) ==
  /\ level = "outer" => ~ h.gcc_extension
  /\ level = "inner" => h.function # Null
  /\ h.function = Null => h.parent = Null /\ h.loop = Null /\ h.switch = Null /\ h.try = Null

\* The globals as the function at i has left them, before the one above it
\* was called, if there is one.
Left(i) == IF i = Me THEN globals ELSE stack[i + 1].found
LeftAnchors(i) == IF i = Me THEN token_anchor_set ELSE stack[i + 1].found_anchors

NoConstruct(g) ==
  /\ g.parent = Null /\ g.loop = Null /\ g.switch = Null /\ g.try = Null
  /\ g.scope = Null /\ g.function = Null /\ g.linkage = Null

Context ==
  /\ stack \in Seq(Frame)
  /\ globals \in Globals
  /\ token_anchor_set \in [alphabet -> Int]
  /\ \A i \in 1 .. Me :
       /\ FoundOK(Level(stack[i].function), stack[i].found)
       /\ Fits(stack[i].function, stack[i].at, stack[i].found, i, Left(i))
  /\ NoConstruct(IF stack = << >> THEN globals ELSE stack[1].found)
  /\ globals.function # Null => globals.jumps = globals.function

Anchored ==
  /\ ret # "abort"
  /\ \A t \in alphabet : token_anchor_set[t] >= 0
  /\ \A i \in 1 .. Me :
       /\ \A t \in alphabet : stack[i].found_anchors[t] >= 0
       /\ Holds(stack[i].function, stack[i].at, stack[i].found_anchors, LeftAnchors(i))

\* What is shown of each step.
Returned ==
  /\ [globals' EXCEPT !.jumps = Top.found.jumps] = Top.found
  /\ Anchored /\ Shallow => token_anchor_set' = Top.found_anchors

Kept ==
  /\ Context'
  /\ Anchored /\ Shallow => Anchored'
  /\ Len(stack') < Len(stack) => Returned

-----------------------------------------------------------------------------
(***************************************************************************)
(* The stack.                                                              *)
(***************************************************************************)
\* The top of the stack returns.
LEMMA Popped ==
  ASSUME NEW S, NEW s \in Seq(S), s # << >>
  PROVE  /\ Front(s) \in Seq(S) /\ Len(Front(s)) = Len(s) - 1 /\ Len(s) \in Nat
         /\ \A i \in 1 .. Len(s) - 1 : Front(s)[i] = s[i]
<1> DEFINE n == Len(s) - 1
           u == SubSeq(s, 1, n)
<1>1. n \in Nat /\ Len(s) = n + 1 /\ \A i \in 1 .. n : s[i] \in S
  OBVIOUS
<1>2. Front(s) = u
  BY DEF Front
<1> HIDE DEF n
<1>3. u \in Seq(S) /\ Len(u) = IF 1 <= n THEN n - 1 + 1 ELSE 0
  BY <1>1, SubSeqProperties
<1>4. \A i \in 1 .. n - 1 + 1 : u[i] = s[1 + i - 1]
  BY <1>1, SubSeqProperties
<1> HIDE DEF u
<1>5. Len(u) = n /\ \A i \in 1 .. n : u[i] = s[i]
  BY <1>1, <1>3, <1>4
<1> QED BY <1>1, <1>2, <1>3, <1>5

\* The top of the stack changes.
LEMMA Replaced ==
  ASSUME NEW S, NEW s \in Seq(S), s # << >>, NEW f \in S
  PROVE  /\ Append(Front(s), f) \in Seq(S)
         /\ Len(Append(Front(s), f)) = Len(s)
         /\ \A i \in 1 .. Len(s) : Append(Front(s), f)[i] = IF i = Len(s) THEN f ELSE s[i]
<1>1. Len(s) \in Nat /\ Len(s) >= 1
  OBVIOUS
<1>2. Front(s) \in Seq(S) /\ Len(Front(s)) = Len(s) - 1
      /\ \A i \in 1 .. Len(s) - 1 : Front(s)[i] = s[i]
  BY <1>1, Popped
<1> QED BY <1>1, <1>2

\* The top of the stack changes, and calls.
LEMMA Called ==
  ASSUME NEW S, NEW s \in Seq(S), s # << >>, NEW f \in S, NEW g \in S
  PROVE  /\ Append(Front(s), f) \o << g >> \in Seq(S)
         /\ Len(Append(Front(s), f) \o << g >>) = Len(s) + 1
         /\ \A i \in 1 .. Len(s) + 1 :
              (Append(Front(s), f) \o << g >>)[i] =
                IF i = Len(s) + 1 THEN g ELSE IF i = Len(s) THEN f ELSE s[i]
<1> DEFINE u == Append(Front(s), f)
<1>1. u \in Seq(S) /\ Len(u) = Len(s)
      /\ \A i \in 1 .. Len(s) : u[i] = IF i = Len(s) THEN f ELSE s[i]
  BY Replaced
<1> HIDE DEF u
<1>2. u \o << g >> = Append(u, g)
  BY <1>1
<1>3. Len(s) \in Nat
  OBVIOUS
<1>4. /\ Append(u, g) \in Seq(S) /\ Len(Append(u, g)) = Len(s) + 1
      /\ \A i \in 1 .. Len(s) : Append(u, g)[i] = u[i]
      /\ Append(u, g)[Len(s) + 1] = g
  BY <1>1, AppendProperties
<1>5. \A i \in 1 .. Len(s) + 1 :
        Append(u, g)[i] = IF i = Len(s) + 1 THEN g ELSE IF i = Len(s) THEN f ELSE s[i]
  BY <1>1, <1>3, <1>4
<1> QED BY <1>2, <1>4, <1>5 DEF u

-----------------------------------------------------------------------------
(***************************************************************************)
(* Staying, calling and returning.                                         *)
(***************************************************************************)
\* What is known of the active function on top.
LEMMA OnTop ==
  ASSUME Context, stack # << >>
  PROVE  /\ Me \in Nat /\ Me >= 1 /\ Top = stack[Me] /\ Top \in Frame /\ Top.found \in Globals
         /\ globals \in Globals /\ token_anchor_set \in [alphabet -> Int]
         /\ FoundOK(Level(Top.function), Top.found)
         /\ Fits(Top.function, Top.at, Top.found, Me, globals)
         /\ Anchored => /\ Holds(Top.function, Top.at, Top.found_anchors, token_anchor_set)
                        /\ \A t \in alphabet : Top.found_anchors[t] >= 0
<1>1. Me \in Nat /\ Me >= 1 /\ Top = stack[Me] /\ stack[Me] \in Frame
  BY DEF Context, Me, Top, Last
<1>2. Me \in 1 .. Me /\ Left(Me) = globals /\ LeftAnchors(Me) = token_anchor_set
  BY <1>1 DEF Left, LeftAnchors
<1>3. Top.found \in Globals
  BY <1>1 DEF Frame
<1> QED BY <1>1, <1>2, <1>3 DEF Context, Anchored

LEMMA StayKeeps ==
  ASSUME Context, stack # << >>,
         NEW function \in FunctionNames, NEW at \in Points, NEW A, NEW g,
         Stay(function, at, A, g),
         Level(function) \in {Level(Top.function), "any"},
         A \in [alphabet -> Int],
         Anchored /\ Shallow => Holds(function, at, Top.found_anchors, A),
         Fits(function, at, Top.found, Me, g),
         g.function # Null => g.jumps = g.function
  PROVE  Kept
<1> DEFINE f == [Top EXCEPT !.function = function, !.at = at]
<1>1. /\ Me \in Nat /\ Me >= 1 /\ Top = stack[Me] /\ Top \in Frame
      /\ FoundOK(Level(Top.function), Top.found)
  BY OnTop
<1>2. /\ f \in Frame /\ f.function = function /\ f.at = at
      /\ f.found = Top.found /\ f.found_anchors = Top.found_anchors
  BY <1>1 DEF Frame
<1>3. /\ stack' = Append(Front(stack), f) /\ token_anchor_set' = A /\ globals' = g
      /\ alphabet' = alphabet /\ ret' = ret
  BY DEF Stay, Resume
<1> HIDE DEF f
<1>4. /\ stack' \in Seq(Frame) /\ Len(stack') = Me
      /\ \A i \in 1 .. Me : stack'[i] = IF i = Me THEN f ELSE stack[i]
  BY <1>2, <1>3, Replaced DEF Context, Me
<1>5. /\ Me' = Me /\ stack' # << >>
      /\ Frame' = Frame
      /\ \A i \in 1 .. Me : Left(i)' = IF i = Me THEN g ELSE Left(i)
      /\ \A i \in 1 .. Me : LeftAnchors(i)' = IF i = Me THEN A ELSE LeftAnchors(i)
  <2>1. Me' = Me /\ stack' # << >>
    BY <1>1, <1>4 DEF Me
  <2>2. \A i \in 1 .. Me : i # Me => i + 1 \in 1 .. Me
    BY <1>1
  <2>3. \A i \in 1 .. Me : i # Me => stack'[i + 1].found = stack[i + 1].found
                               /\ stack'[i + 1].found_anchors = stack[i + 1].found_anchors
    BY <1>1, <1>2, <1>4, <2>2
  <2>4. Frame' = Frame
    BY <1>3 DEF Frame
  <2> QED BY <1>3, <2>1, <2>3, <2>4 DEF Left, LeftAnchors
<1>6. FoundOK(Level(function), Top.found)
  BY <1>1 DEF FoundOK
<1>7. Context'
  <2>1. \A i \in 1 .. Me : FoundOK(Level(stack'[i].function), stack'[i].found)
    BY <1>1, <1>2, <1>4, <1>6 DEF Context
  <2>2. \A i \in 1 .. Me : Fits(stack'[i].function, stack'[i].at, stack'[i].found, i, Left(i)')
    BY <1>1, <1>2, <1>4, <1>5 DEF Context
  <2>3. stack'[1].found = stack[1].found
    BY <1>1, <1>2, <1>4
  <2>4. globals' \in Globals
    BY <1>3 DEF Fits
  <2> QED BY <1>3, <1>4, <1>5, <2>1, <2>2, <2>3, <2>4 DEF Context
<1>8. ASSUME Anchored, Shallow  PROVE Anchored'
  <2>1. \A t \in alphabet : Top.found_anchors[t] >= 0
    BY <1>8, OnTop
  <2>2. \A t \in alphabet : Top.found_anchors[t] \in Int /\ A[t] \in Int
    BY <1>1 DEF Frame
  <2>3. \A t \in alphabet : A[t] >= 0
    BY <1>8, <2>1, <2>2 DEF Holds, One
  <2>4. \A i \in 1 .. Me : \A t \in alphabet : stack'[i].found_anchors[t] >= 0
    BY <1>1, <1>2, <1>4, <1>8 DEF Anchored
  <2>5. \A i \in 1 .. Me :
          Holds(stack'[i].function, stack'[i].at, stack'[i].found_anchors, LeftAnchors(i)')
    BY <1>1, <1>2, <1>4, <1>5, <1>8 DEF Anchored
  <2> QED BY <1>3, <1>5, <1>8, <2>3, <2>4, <2>5 DEF Anchored, Holds
<1> QED BY <1>1, <1>4, <1>7, <1>8 DEF Kept, Me

\* The stack grows by a call.
LEMMA Pushed ==
  ASSUME Context, stack # << >>,
         NEW function \in FunctionNames, NEW at \in Points, NEW callee \in Callees,
         NEW A \in [alphabet -> Int], NEW g \in Globals,
         CallFrom(function, at, callee, A, g)
  PROVE  Len(stack') = Len(stack) + 1
<1> DEFINE f == [Top EXCEPT !.function = function, !.at = at]
           c == Activation(callee, g, A)
<1>1. f \in Frame
  BY OnTop DEF Frame
<1>2. c \in Frame
  <2>1. callee \in FunctionNames /\ "start" \in Points
    BY DEF FunctionNames, Points
  <2> QED BY <2>1 DEF Frame, Activation
<1>3. stack' = Append(Front(stack), f) \o << c >>
  BY DEF CallFrom
<1> HIDE DEF f, c
<1> QED BY <1>1, <1>2, <1>3, Called DEF Context

\* A function begins with what it finds.
LEMMA Begins ==
  ASSUME NEW function \in Callees, NEW g \in Globals, NEW i, NEW A \in [alphabet -> Int]
  PROVE  Fits(function, "start", g, i, g) /\ Holds(function, "start", A, A)
<1>1. Outer(function, "start") = {} /\ Inner(function, "start") = {}
  BY DEF Callees, Outer, Inner, StatementFunctions, Expressions
<1>2. Holds(function, "start", A, A)
  BY <1>1 DEF Holds, One
<1>3. Fits(function, "start", g, i, g)
  BY DEF Callees, Fits, IsParent, IsBody, IsLoop, IsSwitch, IsTry, IsScope, IsLinkage,
         Extends, MayExtend, Expressions, Globals
<1> QED BY <1>2, <1>3

\* Globals that differ in jumps only.
LEMMA SameGlobals ==
  ASSUME NEW g \in Globals, NEW h \in Globals,
         g.parent = h.parent, g.loop = h.loop, g.switch = h.switch, g.try = h.try,
         g.scope = h.scope, g.function = h.function, g.linkage = h.linkage,
         g.gcc_extension = h.gcc_extension
  PROVE  [g EXCEPT !.jumps = h.jumps] = h
BY DEF Globals

LEMMA CallKeeps ==
  ASSUME Context, stack # << >>,
         NEW function \in FunctionNames, NEW at \in Points, NEW callee \in Callees, NEW A, NEW g,
         CallFrom(function, at, callee, A, g),
         Level(function) \in {Level(Top.function), "any"},
         Level(callee) \in {Level(function), "any"}
           \/ (IsBody(function, at) /\ callee = "compound"),
         A \in [alphabet -> Int],
         Anchored /\ Shallow => Holds(function, at, Top.found_anchors, A),
         Fits(function, at, Top.found, Me, g),
         g.function # Null => g.jumps = g.function
  PROVE  Kept
<1>0. PICK n \in Nat : n = Me
  BY OnTop
<1> DEFINE f == [Top EXCEPT !.function = function, !.at = at]
           c == Activation(callee, g, A)
<1>1. /\ Me \in Nat /\ Me >= 1 /\ Top = stack[Me] /\ Top \in Frame
      /\ FoundOK(Level(Top.function), Top.found) /\ g \in Globals
  BY OnTop DEF Fits
<1>2. /\ f \in Frame /\ f.function = function /\ f.at = at
      /\ f.found = Top.found /\ f.found_anchors = Top.found_anchors
  BY <1>1 DEF Frame
<1>3. /\ c \in Frame /\ c.function = callee /\ c.at = "start"
      /\ c.found = g /\ c.found_anchors = A
  <2>1. callee \in FunctionNames /\ "start" \in Points
    BY DEF FunctionNames, Points
  <2>2. A \in [alphabet -> Int]
    OBVIOUS
  <2> QED BY <1>1, <2>1, <2>2 DEF Frame, Activation
<1>4. /\ stack' = Append(Front(stack), f) \o << c >> /\ token_anchor_set' = A /\ globals' = g
      /\ alphabet' = alphabet /\ ret' = ret
  BY DEF CallFrom
<1> HIDE DEF f, c
<1>5. /\ stack' \in Seq(Frame) /\ Len(stack') = Me + 1
      /\ \A i \in 1 .. Me + 1 :
           stack'[i] = IF i = Me + 1 THEN c ELSE IF i = Me THEN f ELSE stack[i]
  BY <1>2, <1>3, <1>4, Called DEF Context, Me
<1>6. /\ Me' = Me + 1 /\ stack' # << >> /\ Frame' = Frame
      /\ Left(n + 1)' = g /\ LeftAnchors(n + 1)' = A
      /\ Left(n)' = g /\ LeftAnchors(n)' = A
      /\ \A i \in 1 .. Me - 1 : Left(i)' = Left(i) /\ LeftAnchors(i)' = LeftAnchors(i)
  <2>1. Me' = Me + 1 /\ stack' # << >>
    BY <1>1, <1>5 DEF Me
  <2>2. \A i \in 1 .. Me - 1 : stack'[i + 1].found = stack[i + 1].found
                           /\ stack'[i + 1].found_anchors = stack[i + 1].found_anchors
    BY <1>1, <1>2, <1>5
  <2>3. Frame' = Frame
    BY <1>4 DEF Frame
  <2>4. stack'[Me + 1] = c
    BY <1>1, <1>5
  <2>5. Left(n + 1)' = g /\ LeftAnchors(n + 1)' = A
    BY <1>0, <1>1, <1>4, <2>1 DEF Left, LeftAnchors
  <2>6. Left(n)' = g /\ LeftAnchors(n)' = A
    BY <1>0, <1>1, <1>3, <2>1, <2>4 DEF Left, LeftAnchors
  <2>7. \A i \in 1 .. Me - 1 : Left(i)' = Left(i) /\ LeftAnchors(i)' = LeftAnchors(i)
    BY <1>0, <1>1, <2>1, <2>2 DEF Left, LeftAnchors
  <2> QED BY <2>1, <2>3, <2>5, <2>6, <2>7
<1>7. FoundOK(Level(function), Top.found)
  BY <1>1 DEF FoundOK
<1>8. FoundOK(Level(callee), g)
  <2>1. /\ g.function = IF IsBody(function, at) THEN Me ELSE Top.found.function
        /\ g.parent = IF IsParent(function, at) THEN Me
                      ELSE IF IsBody(function, at) THEN Null ELSE Top.found.parent
        /\ g.loop = IF IsLoop(function, at) THEN Me ELSE Top.found.loop
        /\ g.switch = IF IsSwitch(function, at) THEN Me ELSE Top.found.switch
        /\ g.try = IF IsTry(function, at) THEN Me ELSE Top.found.try
        /\ MayExtend(function, at)
             \/ (g.gcc_extension <=> Extends(function, at) \/ Top.found.gcc_extension)
    BY DEF Fits
  <2>2. IsParent(function, at) \/ IsLoop(function, at) \/ IsSwitch(function, at)
          \/ IsTry(function, at) => Level(function) = "inner"
    BY DEF IsParent, IsLoop, IsSwitch, IsTry, Level
  <2>3. g.function = Null => g.parent = Null /\ g.loop = Null /\ g.switch = Null /\ g.try = Null
    BY <1>1, <1>7, <2>1, <2>2 DEF FoundOK, Null
  <2>4. ASSUME Level(callee) = "inner"  PROVE g.function # Null
    BY <1>1, <1>7, <2>1, <2>4 DEF FoundOK, Null, Level, IsBody
  <2>5. ASSUME Level(callee) = "outer"  PROVE ~ g.gcc_extension
    <3>1. Level(function) = "outer"
      BY <2>5 DEF Level
    <3>2. ~ MayExtend(function, at) /\ ~ Extends(function, at)
      BY <3>1 DEF Level, MayExtend, Extends, Expressions
    <3>3. ~ Top.found.gcc_extension
      BY <1>7, <3>1 DEF FoundOK
    <3> QED BY <2>1, <3>2, <3>3
  <2> QED BY <2>3, <2>4, <2>5 DEF FoundOK
<1>9. Fits(callee, "start", g, Me + 1, g) /\ Holds(callee, "start", A, A)
  BY <1>1, Begins
<1>10. \A i \in 1 .. Me + 1 : i = Me + 1 \/ i = Me \/ (i \in 1 .. Me - 1 /\ i \in 1 .. Me)
  BY <1>1
<1>11. Context'
  <2>1. \A i \in 1 .. Me + 1 : FoundOK(Level(stack'[i].function), stack'[i].found)
    BY <1>1, <1>2, <1>3, <1>5, <1>7, <1>8, <1>10 DEF Context
  <2>2. \A i \in 1 .. Me + 1 :
          Fits(stack'[i].function, stack'[i].at, stack'[i].found, i, Left(i)')
    <3>1. Fits(stack'[n + 1].function, stack'[n + 1].at, stack'[n + 1].found, n + 1, Left(n + 1)')
      BY <1>0, <1>1, <1>3, <1>5, <1>6, <1>9
    <3>2. Fits(stack'[n].function, stack'[n].at, stack'[n].found, n, Left(n)')
      BY <1>0, <1>1, <1>2, <1>5, <1>6
    <3>3. \A i \in 1 .. Me - 1 :
            Fits(stack'[i].function, stack'[i].at, stack'[i].found, i, Left(i)')
      BY <1>1, <1>5, <1>6 DEF Context
    <3> QED BY <1>0, <1>10, <3>1, <3>2, <3>3
  <2>3. stack'[1].found = stack[1].found
    BY <1>1, <1>2, <1>5
  <2> QED BY <1>1, <1>4, <1>5, <1>6, <2>1, <2>2, <2>3 DEF Context
<1>12. ASSUME Anchored, Shallow  PROVE Anchored'
  <2>1. \A t \in alphabet : Top.found_anchors[t] >= 0
    BY <1>12, OnTop
  <2>2. \A t \in alphabet : Top.found_anchors[t] \in Int /\ A[t] \in Int
    BY <1>1 DEF Frame
  <2>3. \A t \in alphabet : A[t] >= 0
    BY <1>12, <2>1, <2>2 DEF Holds, One
  <2>4. \A i \in 1 .. Me + 1 : \A t \in alphabet : stack'[i].found_anchors[t] >= 0
    BY <1>1, <1>2, <1>3, <1>5, <1>10, <1>12, <2>3 DEF Anchored
  <2>5. \A i \in 1 .. Me + 1 :
          Holds(stack'[i].function, stack'[i].at, stack'[i].found_anchors, LeftAnchors(i)')
    <3>1. Holds(stack'[n + 1].function, stack'[n + 1].at, stack'[n + 1].found_anchors,
                LeftAnchors(n + 1)')
      BY <1>0, <1>1, <1>3, <1>5, <1>6, <1>9
    <3>2. Holds(stack'[n].function, stack'[n].at, stack'[n].found_anchors, LeftAnchors(n)')
      BY <1>0, <1>1, <1>2, <1>5, <1>6, <1>12
    <3>3. \A i \in 1 .. Me - 1 :
            Holds(stack'[i].function, stack'[i].at, stack'[i].found_anchors, LeftAnchors(i)')
      BY <1>1, <1>5, <1>6, <1>12 DEF Anchored
    <3> QED BY <1>0, <1>10, <3>1, <3>2, <3>3
  <2> QED BY <1>4, <1>6, <1>12, <2>3, <2>4, <2>5 DEF Anchored, Holds
<1> QED BY <1>1, <1>5, <1>11, <1>12 DEF Kept, Me

LEMMA ReturnKeeps ==
  ASSUME Context, stack # << >>,
         NEW value, NEW A, NEW g, Return(value, A, g),
         Anchored => value # "abort",
         A \in [alphabet -> Int],
         Anchored /\ Shallow => Holds("returned", "returned", Top.found_anchors, A),
         Fits("returned", "returned", Top.found, Me, g),
         g.function # Null => g.jumps = g.function
  PROVE  Kept
<1>0. PICK n \in Nat : n = Me
  BY OnTop
<1>1. /\ Me \in Nat /\ Me >= 1 /\ Top = stack[Me] /\ Top \in Frame /\ Top.found \in Globals
      /\ g \in Globals
  BY OnTop DEF Fits, Frame
<1>2. /\ stack' = Front(stack) /\ token_anchor_set' = A /\ globals' = g /\ ret' = value
      /\ alphabet' = alphabet
  BY DEF Return
<1>3. /\ stack' \in Seq(Frame) /\ Len(stack') = Me - 1
      /\ \A i \in 1 .. Me - 1 : stack'[i] = stack[i]
  BY <1>2, Popped DEF Context, Me
<1>4. /\ g.parent = Top.found.parent /\ g.loop = Top.found.loop /\ g.switch = Top.found.switch
      /\ g.try = Top.found.try /\ g.scope = Top.found.scope /\ g.function = Top.found.function
      /\ g.linkage = Top.found.linkage /\ (g.gcc_extension <=> Top.found.gcc_extension)
  BY DEF Fits, IsParent, IsBody, IsLoop, IsSwitch, IsTry, IsScope, IsLinkage, Extends, MayExtend,
         Expressions
<1>5. [g EXCEPT !.jumps = Top.found.jumps] = Top.found
  <2>1. g.gcc_extension = Top.found.gcc_extension
    BY <1>1, <1>4 DEF Globals
  <2> QED BY <1>1, <1>4, <2>1, SameGlobals
<1>6. ASSUME Anchored, Shallow  PROVE A = Top.found_anchors
  <2>1. \A t \in alphabet : A[t] = Top.found_anchors[t]
    <3>1. Outer("returned", "returned") = {} /\ Inner("returned", "returned") = {}
      BY DEF Outer, Inner, StatementFunctions, Expressions
    <3>2. \A t \in alphabet : Top.found_anchors[t] \in Int /\ A[t] \in Int
      BY <1>1 DEF Frame
    <3> QED BY <1>6, <3>1, <3>2 DEF Holds, One
  <2> QED BY <1>1, <2>1 DEF Frame
<1>7. /\ Me' = Me - 1 /\ Frame' = Frame
      /\ \A i \in 1 .. Me - 2 : Left(i)' = Left(i) /\ LeftAnchors(i)' = LeftAnchors(i)
      /\ Left(n - 1)' = g /\ LeftAnchors(n - 1)' = A
      /\ Me > 1 => Left(Me - 1) = Top.found /\ LeftAnchors(Me - 1) = Top.found_anchors
  <2>1. Me' = Me - 1
    BY <1>1, <1>3 DEF Me
  <2>2. \A i \in 1 .. Me - 2 : stack'[i + 1] = stack[i + 1]
    BY <1>1, <1>3
  <2>3. Frame' = Frame
    BY <1>2 DEF Frame
  <2> QED BY <1>0, <1>1, <1>2, <2>1, <2>2, <2>3 DEF Left, LeftAnchors
<1>8. \A i \in 1 .. Me - 1 : i \in 1 .. Me /\ (i = Me - 1 \/ i \in 1 .. Me - 2)
  BY <1>1
<1>9. Context'
  <2>1. \A i \in 1 .. Me - 1 : FoundOK(Level(stack'[i].function), stack'[i].found)
    BY <1>3, <1>8 DEF Context
  <2>2. \A i \in 1 .. Me - 1 :
          Fits(stack'[i].function, stack'[i].at, stack'[i].found, i, Left(i)')
    <3>1. ASSUME Me > 1
          PROVE  Fits(stack[Me - 1].function, stack[Me - 1].at, stack[Me - 1].found, Me - 1, g)
      <4>1. Me - 1 \in 1 .. Me
        BY <1>1, <3>1
      <4>2. Fits(stack[Me - 1].function, stack[Me - 1].at, stack[Me - 1].found, Me - 1, Top.found)
        BY <1>7, <3>1, <4>1 DEF Context
      <4> QED BY <1>1, <1>4, <4>2 DEF Fits
    <3>2. \A i \in 1 .. Me - 2 : Fits(stack[i].function, stack[i].at, stack[i].found, i, Left(i)')
      BY <1>1, <1>7 DEF Context
    <3>3. \A i \in 1 .. Me - 1 : Me > 1
      BY <1>1
    <3> QED BY <1>0, <1>3, <1>7, <1>8, <3>1, <3>2, <3>3
  <2>3. NoConstruct(IF stack' = << >> THEN globals' ELSE stack'[1].found)
    <3>1. NoConstruct(stack[1].found)
      BY DEF Context
    <3>2. CASE Me = 1
      <4>1. stack' = << >>
        BY <1>3, <3>2
      <4>2. NoConstruct(g)
        BY <1>1, <1>4, <3>1, <3>2 DEF NoConstruct
      <4> QED BY <1>2, <4>1, <4>2
    <3>3. CASE Me # 1
      <4>1. stack' # << >> /\ stack'[1] = stack[1]
        BY <1>1, <1>3, <3>3
      <4> QED BY <3>1, <4>1
    <3> QED BY <3>2, <3>3
  <2> QED BY <1>1, <1>2, <1>3, <1>7, <2>1, <2>2, <2>3 DEF Context
<1>10. ASSUME Anchored, Shallow  PROVE Anchored'
  <2>1. \A t \in alphabet : A[t] >= 0
    BY <1>6, <1>10, OnTop
  <2>2. \A i \in 1 .. Me - 1 : \A t \in alphabet : stack'[i].found_anchors[t] >= 0
    BY <1>3, <1>8, <1>10 DEF Anchored
  <2>3. \A i \in 1 .. Me - 1 :
          Holds(stack'[i].function, stack'[i].at, stack'[i].found_anchors, LeftAnchors(i)')
    <3>1. \A i \in 1 .. Me - 1 : LeftAnchors(i)' = LeftAnchors(i)
      <4>1. Me > 1 => LeftAnchors(n - 1)' = LeftAnchors(n - 1)
        BY <1>0, <1>6, <1>7, <1>10
      <4> QED BY <1>0, <1>1, <1>7, <1>8, <4>1
    <3> QED BY <1>3, <1>8, <1>10, <3>1 DEF Anchored
  <2> QED BY <1>2, <1>7, <1>10, <2>1, <2>2, <2>3 DEF Anchored, Holds
<1> QED BY <1>2, <1>5, <1>6, <1>9, <1>10 DEF Kept, Returned

\* The parser stops.
LEMMA AbortKeeps ==
  ASSUME Context, Abort, ~ (Anchored /\ Shallow)
  PROVE  Kept
<1>1. /\ alphabet' = alphabet /\ stack' = stack /\ globals' = globals
      /\ token_anchor_set' = token_anchor_set
  BY DEF Abort
<1>2. Me' = Me /\ Frame' = Frame /\ \A i : Left(i)' = Left(i)
  BY <1>1 DEF Me, Frame, Left
<1>3. Context'
  BY <1>1, <1>2 DEF Context
<1>4. Len(stack') = Len(stack) /\ Len(stack) \in Nat
  BY <1>1 DEF Context
<1> QED BY <1>3, <1>4 DEF Kept

-----------------------------------------------------------------------------
(***************************************************************************)
(* The anchors.                                                            *)
(***************************************************************************)
\* A is the anchor set with one more of each of P and one less of each of M.
ChangedBy(A, P, M) ==
  /\ A \in [alphabet -> Int]
  /\ Anchored /\ Shallow =>
       \A t \in alphabet : A[t] = token_anchor_set[t] + One(t, P) - One(t, M)

\* Adding does not reach the limit.
LEMMA Adding ==
  ASSUME NEW A \in [alphabet -> Int], NEW S
  PROVE  /\ add_anchor_tokens(A, S) \in [alphabet -> Int]
         /\ \A t \in alphabet :
              A[t] \in -1 .. Width - 2 => add_anchor_tokens(A, S)[t] = A[t] + One(t, S)
<1>1. \A n \in Int : n % Width \in Int
  BY DEF Width
<1>2. \A n \in -1 .. Width - 2 : (n + 1) % Width = n + 1
  BY DEF Width
<1>3. \A t \in alphabet : A[t] \in Int /\ (A[t] + 1) % Width \in Int
  BY <1>1
<1>4. add_anchor_tokens(A, S) \in [alphabet -> Int]
  BY <1>3 DEF add_anchor_tokens
<1>5. \A t \in alphabet : add_anchor_tokens(A, S)[t] = IF t \in S THEN (A[t] + 1) % Width ELSE A[t]
  BY DEF add_anchor_tokens
<1> QED BY <1>2, <1>3, <1>4, <1>5 DEF One

LEMMA Removing ==
  ASSUME NEW A \in [alphabet -> Int], NEW S
  PROVE  /\ rem_anchor_tokens(A, S) \in [alphabet -> Int]
         /\ \A t \in alphabet : rem_anchor_tokens(A, S)[t] = A[t] - One(t, S)
<1>1. \A t \in alphabet : A[t] \in Int
  OBVIOUS
<1> QED BY <1>1 DEF rem_anchor_tokens, One

LEMMA InRange ==
  ASSUME token_anchor_set \in [alphabet -> Int], Anchored, Shallow, NEW t \in alphabet
  PROVE  /\ token_anchor_set[t] \in 0 .. Width - 2
         /\ token_anchor_set[t] \in -1 .. Width - 2
<1>1. token_anchor_set[t] \in Int /\ token_anchor_set[t] >= 0 /\ token_anchor_set[t] < Width - 1
  BY DEF Anchored, Shallow
<1> QED BY <1>1 DEF Width

LEMMA AnchorsKept ==
  ASSUME Context
  PROVE  ChangedBy(token_anchor_set, {}, {})
BY DEF Context, ChangedBy, One

LEMMA AnchorsAdded ==
  ASSUME Context, NEW P
  PROVE  ChangedBy(Plus(P), P, {})
<1>1. token_anchor_set \in [alphabet -> Int]
  BY DEF Context
<1>2. Anchored /\ Shallow => \A t \in alphabet : token_anchor_set[t] \in -1 .. Width - 2
  BY <1>1, InRange
<1> QED BY <1>1, <1>2, Adding DEF Plus, ChangedBy, One

LEMMA AnchorsRemoved ==
  ASSUME Context, NEW M
  PROVE  ChangedBy(Minus(M), {}, M)
<1>1. token_anchor_set \in [alphabet -> Int]
  BY DEF Context
<1> QED BY <1>1, Removing DEF Minus, ChangedBy, One

LEMMA AnchorsReplaced ==
  ASSUME Context, NEW P, NEW M
  PROVE  ChangedBy(add_anchor_tokens(Minus(M), P), P, M)
<1>1. token_anchor_set \in [alphabet -> Int]
  BY DEF Context
<1>2. /\ Minus(M) \in [alphabet -> Int]
      /\ \A t \in alphabet : Minus(M)[t] = token_anchor_set[t] - One(t, M)
  BY <1>1, Removing DEF Minus
<1>3. Anchored /\ Shallow => \A t \in alphabet : Minus(M)[t] \in -1 .. Width - 2
  <2>1. ASSUME NEW t \in alphabet, Anchored, Shallow
        PROVE  token_anchor_set[t] \in 0 .. Width - 2
    BY <1>1, <2>1, InRange
  <2>2. \A n \in 0 .. Width - 2 : n - 1 \in -1 .. Width - 2 /\ n - 0 \in -1 .. Width - 2
    BY DEF Width
  <2> QED BY <1>2, <2>1, <2>2 DEF One
<1> QED BY <1>1, <1>2, <1>3, Adding DEF ChangedBy, One

\* The ";" of a statement is removed last.
LEMMA SemicolonRemoved ==
  ASSUME Context, NEW A, NEW M, ChangedBy(A, {}, M), "semicolon" \notin M
  PROVE  ChangedBy(rem_anchor_tokens(A, {"semicolon"}), {}, M \cup {"semicolon"})
<1>1. token_anchor_set \in [alphabet -> Int] /\ A \in [alphabet -> Int]
  BY DEF Context, ChangedBy
<1>2. /\ rem_anchor_tokens(A, {"semicolon"}) \in [alphabet -> Int]
      /\ \A t \in alphabet : rem_anchor_tokens(A, {"semicolon"})[t] = A[t] - One(t, {"semicolon"})
  BY <1>1, Removing
<1>3. ASSUME NEW t \in alphabet, Anchored, Shallow
      PROVE  rem_anchor_tokens(A, {"semicolon"})[t]
               = token_anchor_set[t] + One(t, {}) - One(t, M \cup {"semicolon"})
  <2>1. A[t] = token_anchor_set[t] + One(t, {}) - One(t, M) /\ token_anchor_set[t] \in Int
    BY <1>1, <1>3 DEF ChangedBy
  <2>2. One(t, M \cup {"semicolon"}) = One(t, M) + One(t, {"semicolon"})
    BY DEF One
  <2>3. One(t, {}) = 0 /\ One(t, M) \in Int /\ One(t, {"semicolon"}) \in Int
    BY DEF One
  <2> HIDE DEF One
  <2> QED BY <1>2, <2>1, <2>2, <2>3
<1> QED BY <1>2, <1>3 DEF ChangedBy

-----------------------------------------------------------------------------
(***************************************************************************)
(* The lemmas on the steps, for one place after the other.                 *)
(***************************************************************************)
\* From where the active function is to this place, these are added and
\* removed.
Held(function, at, t) == One(t, Outer(function, at)) + One(t, Inner(function, at))
Moves(function, at, P, M) ==
  \A t \in alphabet :
    Held(function, at, t) + One(t, M) = Held(Top.function, Top.at, t) + One(t, P)

Goes(function, at) ==
  /\ function \in FunctionNames /\ at \in Points
  /\ Level(function) \in {Level(Top.function), "any"}

\* g fits there.
Now(function, at, g) ==
  Fits(function, at, Top.found, Me, g) /\ (g.function # Null => g.jumps = g.function)

LEMMA MovesHolds ==
  ASSUME Context, stack # << >>,
         NEW function, NEW at, NEW A, NEW P, NEW M, ChangedBy(A, P, M),
         Moves(function, at, P, M)
  PROVE  /\ A \in [alphabet -> Int]
         /\ Anchored /\ Shallow => Holds(function, at, Top.found_anchors, A)
<1>1. /\ token_anchor_set \in [alphabet -> Int] /\ Top \in Frame
      /\ Anchored => Holds(Top.function, Top.at, Top.found_anchors, token_anchor_set)
  BY OnTop
<1>2. \A t \in alphabet : Top.found_anchors[t] \in Int /\ token_anchor_set[t] \in Int
  BY <1>1 DEF Frame
<1>3. ASSUME NEW t \in alphabet, Anchored, Shallow
      PROVE  A[t] = Top.found_anchors[t] + One(t, Outer(function, at)) + One(t, Inner(function, at))
  <2>1. A[t] = token_anchor_set[t] + One(t, P) - One(t, M)
    BY <1>3 DEF ChangedBy
  <2>2. token_anchor_set[t] = Top.found_anchors[t] + One(t, Outer(Top.function, Top.at))
                                + One(t, Inner(Top.function, Top.at))
    BY <1>1, <1>3 DEF Holds
  <2>3. One(t, Outer(function, at)) + One(t, Inner(function, at)) + One(t, M)
          = One(t, Outer(Top.function, Top.at)) + One(t, Inner(Top.function, Top.at)) + One(t, P)
    BY DEF Moves, Held
  <2> DEFINE to1 == One(t, Outer(function, at))
             to2 == One(t, Inner(function, at))
             here1 == One(t, Outer(Top.function, Top.at))
             here2 == One(t, Inner(Top.function, Top.at))
             added == One(t, P)
             removed == One(t, M)
             found == Top.found_anchors[t]
             set == token_anchor_set[t]
  <2>4. /\ to1 \in Int /\ to2 \in Int /\ here1 \in Int /\ here2 \in Int
        /\ added \in Int /\ removed \in Int /\ found \in Int /\ set \in Int
    BY <1>2 DEF One
  <2>5. set = found + here1 + here2 /\ to1 + to2 + removed = here1 + here2 + added
    BY <2>2, <2>3
  <2>6. A[t] = set + added - removed
    BY <2>1
  <2> HIDE DEF to1, to2, here1, here2, added, removed, found, set
  <2>7. A[t] = found + to1 + to2
    BY <2>4, <2>5, <2>6
  <2> QED BY <2>7 DEF to1, to2, found
<1> QED BY <1>3 DEF ChangedBy, Holds

LEMMA StaysAt ==
  ASSUME Context, stack # << >>,
         NEW function, NEW at, NEW A, NEW P, NEW M, NEW g,
         Stay(function, at, A, g), Goes(function, at), ChangedBy(A, P, M),
         Moves(function, at, P, M), Now(function, at, g)
  PROVE  Kept
<1>1. /\ A \in [alphabet -> Int]
      /\ Anchored /\ Shallow => Holds(function, at, Top.found_anchors, A)
  BY MovesHolds
<1>2. /\ function \in FunctionNames /\ at \in Points
      /\ Level(function) \in {Level(Top.function), "any"}
      /\ Fits(function, at, Top.found, Me, g) /\ (g.function # Null => g.jumps = g.function)
  BY DEF Goes, Now
<1> QED BY <1>1, <1>2, StayKeeps

LEMMA CallsAt ==
  ASSUME Context, stack # << >>,
         NEW function, NEW at, NEW callee, NEW A, NEW P, NEW M, NEW g,
         CallFrom(function, at, callee, A, g), Goes(function, at), ChangedBy(A, P, M),
         Moves(function, at, P, M), Now(function, at, g),
         callee \in Callees,
         Level(callee) \in {Level(function), "any"} \/ (IsBody(function, at) /\ callee = "compound")
  PROVE  Kept
<1>1. /\ A \in [alphabet -> Int]
      /\ Anchored /\ Shallow => Holds(function, at, Top.found_anchors, A)
  BY MovesHolds
<1>2. /\ function \in FunctionNames /\ at \in Points
      /\ Level(function) \in {Level(Top.function), "any"}
      /\ Fits(function, at, Top.found, Me, g) /\ (g.function # Null => g.jumps = g.function)
  BY DEF Goes, Now
<1> QED BY <1>1, <1>2, CallKeeps

LEMMA ReturnsAt ==
  ASSUME Context, stack # << >>,
         NEW value, NEW A, NEW M, NEW g,
         Return(value, A, g), Anchored => value # "abort", ChangedBy(A, {}, M),
         Moves("returned", "returned", {}, M), Now("returned", "returned", g)
  PROVE  Kept
<1>1. /\ A \in [alphabet -> Int]
      /\ Anchored /\ Shallow => Holds("returned", "returned", Top.found_anchors, A)
  BY MovesHolds
<1> QED BY <1>1, ReturnKeeps DEF Now

\* The functions of statements.
LEMMA StatementReturns ==
  ASSUME Context, stack # << >>,
         NEW value, NEW A, NEW M, NEW g,
         ReturnStatement(value, A, g), Anchored => value # "abort", ChangedBy(A, {}, M),
         "semicolon" \notin M,
         Moves("returned", "returned", {}, M \cup {"semicolon"}), Now("returned", "returned", g)
  PROVE  Kept
<1>1. ChangedBy(rem_anchor_tokens(A, {"semicolon"}), {}, M \cup {"semicolon"})
  BY SemicolonRemoved
<1>2. Return(value, rem_anchor_tokens(A, {"semicolon"}), g)
  BY DEF ReturnStatement
<1> QED BY <1>1, <1>2, ReturnsAt

-----------------------------------------------------------------------------
(***************************************************************************)
(* The steps: from where, to where, what is added and removed, and what    *)
(* the globals become.                                                     *)
(***************************************************************************)
\* External declarations.
LEMMA ExternalKeeps ==
  ASSUME Context, slips' = {},
         Externals \/ External \/ LeakFound \/ EndOfExternals \/ ExternalDeclaration \/
           Linkage \/ Stray \/ LinkageOpening \/ EndLinkage
  PROVE  Kept
<1>1. CASE Externals
  <2>1. /\ stack # << >> /\ Top.function = "externals" /\ Top.at = "start"
        /\ Stay("externals", "loop", Plus({"rbrace", EOF}), globals)
    BY <1>1 DEF Externals, In
  <2>2. Goes("externals", "loop")
    BY <2>1 DEF Goes, FunctionNames, Callees, StatementFunctions, Points, Level, Expressions
  <2>3. Moves("externals", "loop", {"rbrace", EOF}, {})
    BY <2>1 DEF Moves, Held, One, Outer, Inner, StatementFunctions, Expressions
  <2>4. Now("externals", "loop", globals)
    BY <2>1, OnTop DEF Now, Fits, IsParent, IsBody, IsLoop, IsSwitch, IsTry, IsScope,
      IsLinkage, Extends, MayExtend, Expressions, Context
  <2> QED BY <2>1, <2>2, <2>3, <2>4, AnchorsAdded, StaysAt
<1>2. CASE External
  <2>1. /\ stack # << >> /\ Top.function = "externals" /\ Top.at = "loop"
        /\ CallFrom(Top.function, "loop", "external", token_anchor_set, globals)
    BY <1>2 DEF External, In, Call
  <2>2. Goes(Top.function, "loop")
    BY <2>1 DEF Goes, FunctionNames, Callees, StatementFunctions, Points, Level, Expressions
  <2>3. Moves(Top.function, "loop", {}, {})
    BY <2>1 DEF Moves, Held, One, Outer, Inner, StatementFunctions, Expressions
  <2>4. Now(Top.function, "loop", globals)
    BY <2>1, OnTop DEF Now, Fits, IsParent, IsBody, IsLoop, IsSwitch, IsTry, IsScope,
      IsLinkage, Extends, MayExtend, Expressions, Context
  <2>5. "external" \in Callees /\ Level("external") \in {Level(Top.function), "any"}
    BY <2>1 DEF Callees, Level, Expressions, StatementFunctions
  <2> QED BY <2>1, <2>2, <2>3, <2>4, <2>5, AnchorsKept, CallsAt
<1>3. CASE LeakFound
  <2>1. /\ stack # << >> /\ Top.function = "externals" /\ Top.at = "loop" /\ Leaked /\ Abort
    BY <1>3 DEF LeakFound, In
  <2>2. ASSUME Anchored, Shallow  PROVE FALSE
    <3>1. ~ globals.gcc_extension
      BY <2>1, OnTop DEF FoundOK, Level, Fits, MayExtend, Extends, Expressions
    <3>2. /\ Top.found_anchors \in [alphabet -> Int] /\ token_anchor_set \in [alphabet -> Int]
          /\ \A t \in alphabet : Top.found_anchors[t] >= 0
          /\ Holds(Top.function, Top.at, Top.found_anchors, token_anchor_set)
      BY <2>1, <2>2, OnTop DEF Frame
    <3>3. \A t \in alphabet : token_anchor_set[t] = Top.found_anchors[t] + One(t, {"rbrace", EOF})
      <4>1. Outer(Top.function, Top.at) = {} /\ Inner(Top.function, Top.at) = {"rbrace", EOF}
        BY <2>1 DEF Outer, Inner, StatementFunctions
      <4>2. \A t : One(t, {}) = 0
        BY DEF One
      <4>3. \A t \in alphabet : Top.found_anchors[t] \in Int /\ One(t, {"rbrace", EOF}) \in Int
        BY <3>2 DEF One
      <4> QED BY <3>2, <4>1, <4>2, <4>3 DEF Holds
    <3>4. \A t \in alphabet : Top.found_anchors[t] \in -1 .. Width - 2
      <4>1. ASSUME NEW t \in alphabet  PROVE Top.found_anchors[t] \in -1 .. Width - 2
        <5>1. token_anchor_set[t] \in 0 .. Width - 2
          BY <2>2, <3>2, InRange
        <5>2. Top.found_anchors[t] \in Int /\ Top.found_anchors[t] >= 0
          BY <3>2
        <5>3. token_anchor_set[t] = Top.found_anchors[t]
                \/ token_anchor_set[t] = Top.found_anchors[t] + 1
          BY <3>3, <5>2 DEF One
        <5> QED BY <5>1, <5>2, <5>3 DEF Width
      <4> QED BY <4>1
    <3>5. token_anchor_set = add_anchor_tokens(Top.found_anchors, {"rbrace", EOF})
      <4> DEFINE A == add_anchor_tokens(Top.found_anchors, {"rbrace", EOF})
      <4>1. A \in [alphabet -> Int] /\ \A t \in alphabet : A[t] = token_anchor_set[t]
        BY <3>2, <3>3, <3>4, Adding
      <4> HIDE DEF A
      <4>2. token_anchor_set = A
        BY <3>2, <4>1
      <4> QED BY <4>2 DEF A
    <3> QED BY <2>1, <3>1, <3>5 DEF Leaked
  <2> QED BY <2>1, <2>2, AbortKeeps
<1>4. CASE EndOfExternals
  <2>1. stack # << >> /\ Top.function = "externals" /\ Top.at = "loop"
    BY <1>4 DEF EndOfExternals, In
  <2>2. \/ Return("ok", Minus({"rbrace", EOF}), globals)
        \/ Stay("externals", "start", Minus({"rbrace", EOF}), globals)
    BY <1>4 DEF EndOfExternals
  <2>3. CASE Return("ok", Minus({"rbrace", EOF}), globals)
    <3>1. Moves("returned", "returned", {}, {"rbrace", EOF})
      BY <2>1, <2>3 DEF Moves, Held, One, Outer, Inner, StatementFunctions, Expressions
    <3>2. Now("returned", "returned", globals)
      BY <2>1, <2>3, OnTop DEF Now, Fits, IsParent, IsBody, IsLoop, IsSwitch, IsTry,
        IsScope, IsLinkage, Extends, MayExtend, Expressions, Context
    <3> QED BY <2>1, <2>3, <3>1, <3>2, AnchorsRemoved, ReturnsAt
  <2>4. CASE Stay("externals", "start", Minus({"rbrace", EOF}), globals)
    <3>1. Goes("externals", "start")
      BY <2>1, <2>4 DEF Goes, FunctionNames, Callees, StatementFunctions, Points, Level,
        Expressions
    <3>2. Moves("externals", "start", {}, {"rbrace", EOF})
      BY <2>1, <2>4 DEF Moves, Held, One, Outer, Inner, StatementFunctions, Expressions
    <3>3. Now("externals", "start", globals)
      BY <2>1, <2>4, OnTop DEF Now, Fits, IsParent, IsBody, IsLoop, IsSwitch, IsTry,
        IsScope, IsLinkage, Extends, MayExtend, Expressions, Context
    <3> QED BY <2>1, <2>4, <3>1, <3>2, <3>3, AnchorsRemoved, StaysAt
  <2> QED BY <2>2, <2>3, <2>4
<1>5. CASE ExternalDeclaration
  <2>1. /\ stack # << >> /\ Top.function = "external" /\ Top.at = "start"
        /\ Stay("declaration", "start", token_anchor_set, globals)
    BY <1>5 DEF ExternalDeclaration, In
  <2>2. Goes("declaration", "start")
    BY <2>1 DEF Goes, FunctionNames, Callees, StatementFunctions, Points, Level, Expressions
  <2>3. Moves("declaration", "start", {}, {})
    BY <2>1 DEF Moves, Held, One, Outer, Inner, StatementFunctions, Expressions
  <2>4. Now("declaration", "start", globals)
    BY <2>1, OnTop DEF Now, Fits, IsParent, IsBody, IsLoop, IsSwitch, IsTry, IsScope,
      IsLinkage, Extends, MayExtend, Expressions, Context
  <2> QED BY <2>1, <2>2, <2>3, <2>4, AnchorsKept, StaysAt
<1>6. CASE Linkage
  <2>1. /\ stack # << >> /\ Top.function = "external" /\ Top.at = "start"
        /\ Stay("linkage", "opening", token_anchor_set, [globals EXCEPT !.linkage = Me])
    BY <1>6 DEF Linkage, In
  <2>2. Goes("linkage", "opening")
    BY <2>1 DEF Goes, FunctionNames, Callees, StatementFunctions, Points, Level, Expressions
  <2>3. Moves("linkage", "opening", {}, {})
    BY <2>1 DEF Moves, Held, One, Outer, Inner, StatementFunctions, Expressions
  <2>4. Now("linkage", "opening", [globals EXCEPT !.linkage = Me])
    BY <2>1, OnTop DEF Now, Fits, IsParent, IsBody, IsLoop, IsSwitch, IsTry, IsScope,
      IsLinkage, Extends, MayExtend, Expressions, Context, Globals
  <2> QED BY <2>1, <2>2, <2>3, <2>4, AnchorsKept, StaysAt
<1>7. CASE Stray
  <2>1. /\ stack # << >> /\ Top.function = "external" /\ Top.at = "start"
        /\ Return("ok", token_anchor_set, globals)
    BY <1>7 DEF Stray, In
  <2>2. Moves("returned", "returned", {}, {})
    BY <2>1 DEF Moves, Held, One, Outer, Inner, StatementFunctions, Expressions
  <2>3. Now("returned", "returned", globals)
    BY <2>1, OnTop DEF Now, Fits, IsParent, IsBody, IsLoop, IsSwitch, IsTry, IsScope,
      IsLinkage, Extends, MayExtend, Expressions, Context
  <2> QED BY <2>1, <2>2, <2>3, AnchorsKept, ReturnsAt
<1>8. CASE LinkageOpening
  <2>1. stack # << >> /\ Top.function = "linkage" /\ Top.at = "opening"
    BY <1>8 DEF LinkageOpening, In
  <2>2. \/ CallFrom(Top.function, "closing", "externals", token_anchor_set, globals)
        \/ CallFrom(Top.function, "single", "external", token_anchor_set, globals)
    BY <1>8 DEF LinkageOpening, Call
  <2>3. CASE CallFrom(Top.function, "closing", "externals", token_anchor_set, globals)
    <3>1. Goes(Top.function, "closing")
      BY <2>1, <2>3 DEF Goes, FunctionNames, Callees, StatementFunctions, Points, Level,
        Expressions
    <3>2. Moves(Top.function, "closing", {}, {})
      BY <2>1, <2>3 DEF Moves, Held, One, Outer, Inner, StatementFunctions, Expressions
    <3>3. Now(Top.function, "closing", globals)
      BY <2>1, <2>3, OnTop DEF Now, Fits, IsParent, IsBody, IsLoop, IsSwitch, IsTry,
        IsScope, IsLinkage, Extends, MayExtend, Expressions, Context
    <3>4. "externals" \in Callees /\ Level("externals") \in {Level(Top.function), "any"}
      BY <2>1, <2>3 DEF Callees, Level, Expressions, StatementFunctions
    <3> QED BY <2>1, <2>3, <3>1, <3>2, <3>3, <3>4, AnchorsKept, CallsAt
  <2>4. CASE CallFrom(Top.function, "single", "external", token_anchor_set, globals)
    <3>1. Goes(Top.function, "single")
      BY <2>1, <2>4 DEF Goes, FunctionNames, Callees, StatementFunctions, Points, Level,
        Expressions
    <3>2. Moves(Top.function, "single", {}, {})
      BY <2>1, <2>4 DEF Moves, Held, One, Outer, Inner, StatementFunctions, Expressions
    <3>3. Now(Top.function, "single", globals)
      BY <2>1, <2>4, OnTop DEF Now, Fits, IsParent, IsBody, IsLoop, IsSwitch, IsTry,
        IsScope, IsLinkage, Extends, MayExtend, Expressions, Context
    <3>4. "external" \in Callees /\ Level("external") \in {Level(Top.function), "any"}
      BY <2>1, <2>4 DEF Callees, Level, Expressions, StatementFunctions
    <3> QED BY <2>1, <2>4, <3>1, <3>2, <3>3, <3>4, AnchorsKept, CallsAt
  <2> QED BY <2>2, <2>3, <2>4
<1>9. CASE EndLinkage
  <2>1. /\ stack # << >> /\ Top.function = "linkage" /\ Top.at \in {"closing", "single"}
        /\ Return("ok", token_anchor_set, [globals EXCEPT !.linkage = Top.found.linkage])
    BY <1>9 DEF EndLinkage, In
  <2>2. Moves("returned", "returned", {}, {})
    BY <2>1 DEF Moves, Held, One, Outer, Inner, StatementFunctions, Expressions
  <2>3. Now("returned", "returned", [globals EXCEPT !.linkage = Top.found.linkage])
    BY <2>1, OnTop DEF Now, Fits, IsParent, IsBody, IsLoop, IsSwitch, IsTry, IsScope,
      IsLinkage, Extends, MayExtend, Expressions, Context, Globals
  <2> QED BY <2>1, <2>2, <2>3, AnchorsKept, ReturnsAt
<1> QED BY <1>1, <1>2, <1>3, <1>4, <1>5, <1>6, <1>7, <1>8, <1>9

\* Declarations.
LEMMA DeclarationKeeps ==
  ASSUME Context, slips' = {},
         Specifier \/ EndOfSpecifiers \/ Declarator \/ InnerDeclarator \/ CloseDeclarator \/
           DeclarationRest \/ ForDeclarationRest \/ NextDeclarator \/ NoFunction \/
           SkippedBody \/ FunctionBody \/ EndOfFunction
  PROVE  Kept
<1>1. CASE Specifier
  <2>1. /\ stack # << >> /\ Top.function \in {"declaration", "for_declaration"} /\ Top.at = "start"
        /\ Stay(Top.function, "start", token_anchor_set, globals)
    BY <1>1 DEF Specifier, In
  <2>2. Goes(Top.function, "start")
    BY <2>1 DEF Goes, FunctionNames, Callees, StatementFunctions, Points, Level, Expressions
  <2>3. Moves(Top.function, "start", {}, {})
    BY <2>1 DEF Moves, Held, One, Outer, Inner, StatementFunctions, Expressions
  <2>4. Now(Top.function, "start", globals)
    BY <2>1, OnTop DEF Now, Fits, IsParent, IsBody, IsLoop, IsSwitch, IsTry, IsScope,
      IsLinkage, Extends, MayExtend, Expressions, Context
  <2> QED BY <2>1, <2>2, <2>3, <2>4, AnchorsKept, StaysAt
<1>2. CASE EndOfSpecifiers
  <2>1. stack # << >>
    BY <1>2 DEF EndOfSpecifiers, In
  <2>2. \/ /\ Top.function \in {"declaration", "for_declaration"} /\ Top.at = "start"
           /\ Return("ok", token_anchor_set, globals)
        \/ /\ Top.function = "declaration" /\ Top.at = "start"
           /\ CallFrom(Top.function, "rest", "declarator", Plus(DeclaratorAnchors), globals)
        \/ /\ Top.function = "for_declaration" /\ Top.at = "start"
           /\ CallFrom(Top.function, "rest", "declarator", token_anchor_set, globals)
    BY <1>2 DEF EndOfSpecifiers, In, Call
  <2>3. CASE /\ Top.function \in {"declaration", "for_declaration"} /\ Top.at = "start"
             /\ Return("ok", token_anchor_set, globals)
    <3>1. Moves("returned", "returned", {}, {})
      BY <2>1, <2>3 DEF Moves, Held, One, Outer, Inner, StatementFunctions, Expressions
    <3>2. Now("returned", "returned", globals)
      BY <2>1, <2>3, OnTop DEF Now, Fits, IsParent, IsBody, IsLoop, IsSwitch, IsTry,
        IsScope, IsLinkage, Extends, MayExtend, Expressions, Context
    <3> QED BY <2>1, <2>3, <3>1, <3>2, AnchorsKept, ReturnsAt
  <2>4. CASE /\ Top.function = "declaration" /\ Top.at = "start"
             /\ CallFrom(Top.function, "rest", "declarator", Plus(DeclaratorAnchors), globals)
    <3>1. Goes(Top.function, "rest")
      BY <2>1, <2>4 DEF Goes, FunctionNames, Callees, StatementFunctions, Points, Level,
        Expressions
    <3>2. Moves(Top.function, "rest", DeclaratorAnchors, {})
      BY <2>1, <2>4 DEF Moves, Held, One, Outer, Inner, StatementFunctions, Expressions,
        DeclaratorAnchors
    <3>3. Now(Top.function, "rest", globals)
      BY <2>1, <2>4, OnTop DEF Now, Fits, IsParent, IsBody, IsLoop, IsSwitch, IsTry,
        IsScope, IsLinkage, Extends, MayExtend, Expressions, Context
    <3>4. "declarator" \in Callees /\ Level("declarator") \in {Level(Top.function), "any"}
      BY <2>1, <2>4 DEF Callees, Level, Expressions, StatementFunctions
    <3> QED BY <2>1, <2>4, <3>1, <3>2, <3>3, <3>4, AnchorsAdded, CallsAt
  <2>5. CASE /\ Top.function = "for_declaration" /\ Top.at = "start"
             /\ CallFrom(Top.function, "rest", "declarator", token_anchor_set, globals)
    <3>1. Goes(Top.function, "rest")
      BY <2>1, <2>5 DEF Goes, FunctionNames, Callees, StatementFunctions, Points, Level,
        Expressions
    <3>2. Moves(Top.function, "rest", {}, {})
      BY <2>1, <2>5 DEF Moves, Held, One, Outer, Inner, StatementFunctions, Expressions
    <3>3. Now(Top.function, "rest", globals)
      BY <2>1, <2>5, OnTop DEF Now, Fits, IsParent, IsBody, IsLoop, IsSwitch, IsTry,
        IsScope, IsLinkage, Extends, MayExtend, Expressions, Context
    <3>4. "declarator" \in Callees /\ Level("declarator") \in {Level(Top.function), "any"}
      BY <2>1, <2>5 DEF Callees, Level, Expressions, StatementFunctions
    <3> QED BY <2>1, <2>5, <3>1, <3>2, <3>3, <3>4, AnchorsKept, CallsAt
  <2> QED BY <2>2, <2>3, <2>4, <2>5
<1>3. CASE Declarator
  <2>1. stack # << >> /\ Top.function = "declarator" /\ Top.at = "start"
    BY <1>3 DEF Declarator, In
  <2>2. \/ Return("ok", token_anchor_set, globals)
        \/ CallFrom(Top.function, "inner", "declarator", Plus({")"}), globals)
        \/ Return("invalid", token_anchor_set, globals)
    BY <1>3 DEF Declarator, Call
  <2>3. CASE Return("ok", token_anchor_set, globals)
    <3>1. Moves("returned", "returned", {}, {})
      BY <2>1, <2>3 DEF Moves, Held, One, Outer, Inner, StatementFunctions, Expressions
    <3>2. Now("returned", "returned", globals)
      BY <2>1, <2>3, OnTop DEF Now, Fits, IsParent, IsBody, IsLoop, IsSwitch, IsTry,
        IsScope, IsLinkage, Extends, MayExtend, Expressions, Context
    <3> QED BY <2>1, <2>3, <3>1, <3>2, AnchorsKept, ReturnsAt
  <2>4. CASE CallFrom(Top.function, "inner", "declarator", Plus({")"}), globals)
    <3>1. Goes(Top.function, "inner")
      BY <2>1, <2>4 DEF Goes, FunctionNames, Callees, StatementFunctions, Points, Level,
        Expressions
    <3>2. Moves(Top.function, "inner", {")"}, {})
      BY <2>1, <2>4 DEF Moves, Held, One, Outer, Inner, StatementFunctions, Expressions
    <3>3. Now(Top.function, "inner", globals)
      BY <2>1, <2>4, OnTop DEF Now, Fits, IsParent, IsBody, IsLoop, IsSwitch, IsTry,
        IsScope, IsLinkage, Extends, MayExtend, Expressions, Context
    <3>4. "declarator" \in Callees /\ Level("declarator") \in {Level(Top.function), "any"}
      BY <2>1, <2>4 DEF Callees, Level, Expressions, StatementFunctions
    <3> QED BY <2>1, <2>4, <3>1, <3>2, <3>3, <3>4, AnchorsAdded, CallsAt
  <2>5. CASE Return("invalid", token_anchor_set, globals)
    <3>1. Moves("returned", "returned", {}, {})
      BY <2>1, <2>5 DEF Moves, Held, One, Outer, Inner, StatementFunctions, Expressions
    <3>2. Now("returned", "returned", globals)
      BY <2>1, <2>5, OnTop DEF Now, Fits, IsParent, IsBody, IsLoop, IsSwitch, IsTry,
        IsScope, IsLinkage, Extends, MayExtend, Expressions, Context
    <3> QED BY <2>1, <2>5, <3>1, <3>2, AnchorsKept, ReturnsAt
  <2> QED BY <2>2, <2>3, <2>4, <2>5
<1>4. CASE InnerDeclarator
  <2>1. /\ stack # << >> /\ Top.function = "declarator" /\ Top.at = "inner"
        /\ Stay("declarator", "closing", Minus({")"}), globals)
    BY <1>4 DEF InnerDeclarator, In
  <2>2. Goes("declarator", "closing")
    BY <2>1 DEF Goes, FunctionNames, Callees, StatementFunctions, Points, Level, Expressions
  <2>3. Moves("declarator", "closing", {}, {")"})
    BY <2>1 DEF Moves, Held, One, Outer, Inner, StatementFunctions, Expressions
  <2>4. Now("declarator", "closing", globals)
    BY <2>1, OnTop DEF Now, Fits, IsParent, IsBody, IsLoop, IsSwitch, IsTry, IsScope,
      IsLinkage, Extends, MayExtend, Expressions, Context
  <2> QED BY <2>1, <2>2, <2>3, <2>4, AnchorsRemoved, StaysAt
<1>5. CASE CloseDeclarator
  <2>1. /\ stack # << >> /\ Top.function = "declarator" /\ Top.at = "closing"
        /\ Return("ok", token_anchor_set, globals)
    BY <1>5 DEF CloseDeclarator, In
  <2>2. Moves("returned", "returned", {}, {})
    BY <2>1 DEF Moves, Held, One, Outer, Inner, StatementFunctions, Expressions
  <2>3. Now("returned", "returned", globals)
    BY <2>1, OnTop DEF Now, Fits, IsParent, IsBody, IsLoop, IsSwitch, IsTry, IsScope,
      IsLinkage, Extends, MayExtend, Expressions, Context
  <2> QED BY <2>1, <2>2, <2>3, AnchorsKept, ReturnsAt
<1>6. CASE DeclarationRest
  <2>1. stack # << >> /\ Top.function = "declaration" /\ Top.at = "rest"
    BY <1>6 DEF DeclarationRest, In
  <2>2. \/ Return("ok", Minus(DeclaratorAnchors), globals)
        \/ CallFrom(Top.function, "next", "declarator",
                    add_anchor_tokens(Minus(DeclaratorAnchors), {"semicolon", "comma"}), globals)
    BY <1>6 DEF DeclarationRest, Call
  <2>3. CASE Return("ok", Minus(DeclaratorAnchors), globals)
    <3>1. Moves("returned", "returned", {}, DeclaratorAnchors)
      BY <2>1, <2>3 DEF Moves, Held, One, Outer, Inner, StatementFunctions, Expressions,
        DeclaratorAnchors
    <3>2. Now("returned", "returned", globals)
      BY <2>1, <2>3, OnTop DEF Now, Fits, IsParent, IsBody, IsLoop, IsSwitch, IsTry,
        IsScope, IsLinkage, Extends, MayExtend, Expressions, Context
    <3> QED BY <2>1, <2>3, <3>1, <3>2, AnchorsRemoved, ReturnsAt
  <2>4. CASE CallFrom(Top.function, "next", "declarator",
                      add_anchor_tokens(Minus(DeclaratorAnchors), {"semicolon", "comma"}), globals)
    <3>1. Goes(Top.function, "next")
      BY <2>1, <2>4 DEF Goes, FunctionNames, Callees, StatementFunctions, Points, Level,
        Expressions
    <3>2. Moves(Top.function, "next", {"semicolon", "comma"}, DeclaratorAnchors)
      BY <2>1, <2>4 DEF Moves, Held, One, Outer, Inner, StatementFunctions, Expressions,
        DeclaratorAnchors
    <3>3. Now(Top.function, "next", globals)
      BY <2>1, <2>4, OnTop DEF Now, Fits, IsParent, IsBody, IsLoop, IsSwitch, IsTry,
        IsScope, IsLinkage, Extends, MayExtend, Expressions, Context
    <3>4. "declarator" \in Callees /\ Level("declarator") \in {Level(Top.function), "any"}
      BY <2>1, <2>4 DEF Callees, Level, Expressions, StatementFunctions
    <3> QED BY <2>1, <2>4, <3>1, <3>2, <3>3, <3>4, AnchorsReplaced, CallsAt
  <2> QED BY <2>2, <2>3, <2>4
<1>7. CASE ForDeclarationRest
  <2>1. /\ stack # << >> /\ Top.function = "for_declaration" /\ Top.at = "rest"
        /\ Stay("for_declaration", "next", Plus({"semicolon", "comma"}), globals)
    BY <1>7 DEF ForDeclarationRest, In
  <2>2. Goes("for_declaration", "next")
    BY <2>1 DEF Goes, FunctionNames, Callees, StatementFunctions, Points, Level, Expressions
  <2>3. Moves("for_declaration", "next", {"semicolon", "comma"}, {})
    BY <2>1 DEF Moves, Held, One, Outer, Inner, StatementFunctions, Expressions
  <2>4. Now("for_declaration", "next", globals)
    BY <2>1, OnTop DEF Now, Fits, IsParent, IsBody, IsLoop, IsSwitch, IsTry, IsScope,
      IsLinkage, Extends, MayExtend, Expressions, Context
  <2> QED BY <2>1, <2>2, <2>3, <2>4, AnchorsAdded, StaysAt
<1>8. CASE NextDeclarator
  <2>1. stack # << >> /\ Top.function \in {"declaration", "for_declaration"} /\ Top.at = "next"
    BY <1>8 DEF NextDeclarator, In
  <2>2. \/ CallFrom(Top.function, "next", "declarator", token_anchor_set, globals)
        \/ Return("ok", Minus({"semicolon", "comma"}), globals)
    BY <1>8 DEF NextDeclarator, Call
  <2>3. CASE CallFrom(Top.function, "next", "declarator", token_anchor_set, globals)
    <3>1. Goes(Top.function, "next")
      BY <2>1, <2>3 DEF Goes, FunctionNames, Callees, StatementFunctions, Points, Level,
        Expressions
    <3>2. Moves(Top.function, "next", {}, {})
      BY <2>1, <2>3 DEF Moves, Held, One, Outer, Inner, StatementFunctions, Expressions
    <3>3. Now(Top.function, "next", globals)
      BY <2>1, <2>3, OnTop DEF Now, Fits, IsParent, IsBody, IsLoop, IsSwitch, IsTry,
        IsScope, IsLinkage, Extends, MayExtend, Expressions, Context
    <3>4. "declarator" \in Callees /\ Level("declarator") \in {Level(Top.function), "any"}
      BY <2>1, <2>3 DEF Callees, Level, Expressions, StatementFunctions
    <3> QED BY <2>1, <2>3, <3>1, <3>2, <3>3, <3>4, AnchorsKept, CallsAt
  <2>4. CASE Return("ok", Minus({"semicolon", "comma"}), globals)
    <3>1. Moves("returned", "returned", {}, {"semicolon", "comma"})
      BY <2>1, <2>4 DEF Moves, Held, One, Outer, Inner, StatementFunctions, Expressions
    <3>2. Now("returned", "returned", globals)
      BY <2>1, <2>4, OnTop DEF Now, Fits, IsParent, IsBody, IsLoop, IsSwitch, IsTry,
        IsScope, IsLinkage, Extends, MayExtend, Expressions, Context
    <3> QED BY <2>1, <2>4, <3>1, <3>2, AnchorsRemoved, ReturnsAt
  <2> QED BY <2>2, <2>3, <2>4
<1>9. CASE NoFunction
  <2>1. /\ stack # << >> /\ Top.function = "declaration" /\ Top.at = "rest"
        /\ Return("ok", Minus(DeclaratorAnchors), globals)
    BY <1>9 DEF NoFunction, In
  <2>2. Moves("returned", "returned", {}, DeclaratorAnchors)
    BY <2>1 DEF Moves, Held, One, Outer, Inner, StatementFunctions, Expressions,
      DeclaratorAnchors
  <2>3. Now("returned", "returned", globals)
    BY <2>1, OnTop DEF Now, Fits, IsParent, IsBody, IsLoop, IsSwitch, IsTry, IsScope,
      IsLinkage, Extends, MayExtend, Expressions, Context
  <2> QED BY <2>1, <2>2, <2>3, AnchorsRemoved, ReturnsAt
<1>10. CASE SkippedBody
  <2>1. /\ stack # << >> /\ Top.function = "declaration" /\ Top.at = "rest"
        /\ Return("ok", Minus(DeclaratorAnchors), globals)
    BY <1>10 DEF SkippedBody, In
  <2>2. Moves("returned", "returned", {}, DeclaratorAnchors)
    BY <2>1 DEF Moves, Held, One, Outer, Inner, StatementFunctions, Expressions,
      DeclaratorAnchors
  <2>3. Now("returned", "returned", globals)
    BY <2>1, OnTop DEF Now, Fits, IsParent, IsBody, IsLoop, IsSwitch, IsTry, IsScope,
      IsLinkage, Extends, MayExtend, Expressions, Context
  <2> QED BY <2>1, <2>2, <2>3, AnchorsRemoved, ReturnsAt
<1>11. CASE FunctionBody
  <2> DEFINE g == [globals EXCEPT !.scope = Me, !.function = Me, !.jumps = Me, !.parent = Null]
  <2>1. /\ stack # << >> /\ Top.function = "declaration" /\ Top.at = "rest"
        /\ CallFrom(Top.function, "body", "compound", Minus(DeclaratorAnchors), g)
    BY <1>11 DEF FunctionBody, In, Call
  <2>2. g \in Globals
    BY <2>1, OnTop DEF Globals, Null
  <2>3. Minus(DeclaratorAnchors) \in [alphabet -> Int]
    BY AnchorsRemoved DEF ChangedBy
  <2> HIDE DEF g
  <2>4. Len(stack') > Len(stack)
    <3>1. /\ Top.function \in FunctionNames /\ "body" \in Points /\ "compound" \in Callees
          /\ Len(stack) \in Nat
      BY <2>1, OnTop DEF FunctionNames, Callees, Points, Me
    <3> QED BY <2>1, <2>2, <2>3, <3>1, Pushed
  <2>5. globals.function = Null
    <3>1. "nested" \notin slips'
      OBVIOUS
    <3>2. /\ In({"declaration"}, "rest") /\ token = "lbrace"
          /\ ~ In({"switch"}, "condition") /\ ~ In({"for"}, "initialiser")
      BY <1>11 DEF FunctionBody, In
    <3>3. Note
      BY <2>1 DEF CallFrom
    <3> QED BY <2>4, <3>1, <3>2, <3>3 DEF Note, Made
  <2>6. Goes(Top.function, "body")
    BY <2>1 DEF Goes, FunctionNames, Callees, Points
  <2>7. Moves(Top.function, "body", {}, DeclaratorAnchors)
    BY <2>1 DEF Moves, Held, One, Outer, Inner, StatementFunctions, Expressions, DeclaratorAnchors
  <2>8. Now(Top.function, "body", g)
    BY <2>1, <2>2, <2>5, OnTop DEF g, Now, Fits, IsParent, IsBody, IsLoop, IsSwitch, IsTry, IsScope,
      IsLinkage, Extends, MayExtend, Expressions, Context, Globals
  <2>9. "compound" \in Callees /\ IsBody(Top.function, "body")
    BY <2>1 DEF Callees, IsBody
  <2> QED BY <2>1, <2>6, <2>7, <2>8, <2>9, AnchorsRemoved, CallsAt
<1>12. CASE EndOfFunction
  <2>1. /\ stack # << >> /\ Top.function = "declaration" /\ Top.at = "body"
        /\ Return("ok", token_anchor_set,
                  [globals EXCEPT !.scope = Top.found.scope, !.function = Top.found.function])
    BY <1>12 DEF EndOfFunction, In
  <2>2. Moves("returned", "returned", {}, {})
    BY <2>1 DEF Moves, Held, One, Outer, Inner, StatementFunctions, Expressions
  <2>3. Now("returned", "returned", [globals EXCEPT !.scope = Top.found.scope, !.function =
    Top.found.function])
    BY <2>1, OnTop DEF Now, Fits, IsParent, IsBody, IsLoop, IsSwitch, IsTry, IsScope,
      IsLinkage, Extends, MayExtend, Expressions, Context, Globals, FoundOK, Null
  <2> QED BY <2>1, <2>2, <2>3, AnchorsKept, ReturnsAt
<1> QED BY <1>1, <1>2, <1>3, <1>4, <1>5, <1>6, <1>7, <1>8, <1>9, <1>10, <1>11, <1>12

\* Expressions.
LEMMA ExpressionKeeps ==
  ASSUME Context, slips' = {},
         Primary \/ NoPrimary \/ ExtendedOperand \/ EndOfExtendedOperand \/ Parenthesis \/
           Cast \/ EndOfCast \/ Parenthesized \/ EndOfParenthesized \/ Closed \/ CallOperator
           \/ Argument \/ NextArgument \/ EndOfArguments \/ Comma \/ EndOfExpression
  PROVE  Kept
<1>1. CASE Primary
  <2>1. /\ stack # << >> /\ Top.function \in Expressions /\ Top.at = "start"
        /\ Stay(Top.function, "infix", token_anchor_set, globals)
    BY <1>1 DEF Primary, In
  <2>2. Goes(Top.function, "infix")
    BY <2>1 DEF Goes, FunctionNames, Callees, StatementFunctions, Points, Level, Expressions
  <2>3. Moves(Top.function, "infix", {}, {})
    BY <2>1 DEF Moves, Held, One, Outer, Inner, StatementFunctions, Expressions
  <2>4. Now(Top.function, "infix", globals)
    BY <2>1, OnTop DEF Now, Fits, IsParent, IsBody, IsLoop, IsSwitch, IsTry, IsScope,
      IsLinkage, Extends, MayExtend, Expressions, Context
  <2> QED BY <2>1, <2>2, <2>3, <2>4, AnchorsKept, StaysAt
<1>2. CASE NoPrimary
  <2>1. /\ stack # << >> /\ Top.function \in Expressions /\ Top.at = "start"
        /\ Stay(Top.function, "infix", token_anchor_set, globals)
    BY <1>2 DEF NoPrimary, In
  <2>2. Goes(Top.function, "infix")
    BY <2>1 DEF Goes, FunctionNames, Callees, StatementFunctions, Points, Level, Expressions
  <2>3. Moves(Top.function, "infix", {}, {})
    BY <2>1 DEF Moves, Held, One, Outer, Inner, StatementFunctions, Expressions
  <2>4. Now(Top.function, "infix", globals)
    BY <2>1, OnTop DEF Now, Fits, IsParent, IsBody, IsLoop, IsSwitch, IsTry, IsScope,
      IsLinkage, Extends, MayExtend, Expressions, Context
  <2> QED BY <2>1, <2>2, <2>3, <2>4, AnchorsKept, StaysAt
<1>3. CASE ExtendedOperand
  <2>1. /\ stack # << >> /\ Top.function \in Expressions /\ Top.at = "start"
        /\ CallFrom(Top.function, "extended", "assignment_expression", token_anchor_set,
                    [globals EXCEPT !.gcc_extension = TRUE])
    BY <1>3 DEF ExtendedOperand, In, Call
  <2>2. Goes(Top.function, "extended")
    BY <2>1 DEF Goes, FunctionNames, Callees, StatementFunctions, Points, Level, Expressions
  <2>3. Moves(Top.function, "extended", {}, {})
    BY <2>1 DEF Moves, Held, One, Outer, Inner, StatementFunctions, Expressions
  <2>4. Now(Top.function, "extended", [globals EXCEPT !.gcc_extension = TRUE])
    BY <2>1, OnTop DEF Now, Fits, IsParent, IsBody, IsLoop, IsSwitch, IsTry, IsScope,
      IsLinkage, Extends, MayExtend, Expressions, Context, Globals
  <2>5. "assignment_expression" \in Callees /\ Level("assignment_expression") \in
    {Level(Top.function), "any"}
    BY <2>1 DEF Callees, Level, Expressions, StatementFunctions
  <2> QED BY <2>1, <2>2, <2>3, <2>4, <2>5, AnchorsKept, CallsAt
<1>4. CASE EndOfExtendedOperand
  <2>1. /\ stack # << >> /\ Top.function \in Expressions /\ Top.at = "extended"
        /\ Stay(Top.function, "infix", token_anchor_set,
                [globals EXCEPT !.gcc_extension = Top.found.gcc_extension])
    BY <1>4 DEF EndOfExtendedOperand, In
  <2>2. Goes(Top.function, "infix")
    BY <2>1 DEF Goes, FunctionNames, Callees, StatementFunctions, Points, Level, Expressions
  <2>3. Moves(Top.function, "infix", {}, {})
    BY <2>1 DEF Moves, Held, One, Outer, Inner, StatementFunctions, Expressions
  <2>4. Now(Top.function, "infix", [globals EXCEPT !.gcc_extension =
    Top.found.gcc_extension])
    BY <2>1, OnTop DEF Now, Fits, IsParent, IsBody, IsLoop, IsSwitch, IsTry, IsScope,
      IsLinkage, Extends, MayExtend, Expressions, Context, Globals
  <2> QED BY <2>1, <2>2, <2>3, <2>4, AnchorsKept, StaysAt
<1>5. CASE Parenthesis
  <2>1. /\ stack # << >> /\ Top.function \in Expressions /\ Top.at = "start"
        /\ Stay(Top.function, "opened", token_anchor_set, globals)
    BY <1>5 DEF Parenthesis, In
  <2>2. Goes(Top.function, "opened")
    BY <2>1 DEF Goes, FunctionNames, Callees, StatementFunctions, Points, Level, Expressions
  <2>3. Moves(Top.function, "opened", {}, {})
    BY <2>1 DEF Moves, Held, One, Outer, Inner, StatementFunctions, Expressions
  <2>4. Now(Top.function, "opened", globals)
    BY <2>1, OnTop DEF Now, Fits, IsParent, IsBody, IsLoop, IsSwitch, IsTry, IsScope,
      IsLinkage, Extends, MayExtend, Expressions, Context
  <2> QED BY <2>1, <2>2, <2>3, <2>4, AnchorsKept, StaysAt
<1>6. CASE Cast
  <2>1. /\ stack # << >> /\ Top.function \in Expressions /\ Top.at = "opened"
        /\ Stay(Top.function, "cast", token_anchor_set, globals)
    BY <1>6 DEF Cast, In
  <2>2. Goes(Top.function, "cast")
    BY <2>1 DEF Goes, FunctionNames, Callees, StatementFunctions, Points, Level, Expressions
  <2>3. Moves(Top.function, "cast", {}, {})
    BY <2>1 DEF Moves, Held, One, Outer, Inner, StatementFunctions, Expressions
  <2>4. Now(Top.function, "cast", globals)
    BY <2>1, OnTop DEF Now, Fits, IsParent, IsBody, IsLoop, IsSwitch, IsTry, IsScope,
      IsLinkage, Extends, MayExtend, Expressions, Context
  <2> QED BY <2>1, <2>2, <2>3, <2>4, AnchorsKept, StaysAt
<1>7. CASE EndOfCast
  <2>1. stack # << >> /\ Top.function \in Expressions /\ Top.at = "cast"
    BY <1>7 DEF EndOfCast, In
  <2>2. \/ Stay(Top.function, "start", token_anchor_set, globals)
        \/ Stay(Top.function, "infix", token_anchor_set, globals)
    BY <1>7 DEF EndOfCast
  <2>3. CASE Stay(Top.function, "start", token_anchor_set, globals)
    <3>1. Goes(Top.function, "start")
      BY <2>1, <2>3 DEF Goes, FunctionNames, Callees, StatementFunctions, Points, Level,
        Expressions
    <3>2. Moves(Top.function, "start", {}, {})
      BY <2>1, <2>3 DEF Moves, Held, One, Outer, Inner, StatementFunctions, Expressions
    <3>3. Now(Top.function, "start", globals)
      BY <2>1, <2>3, OnTop DEF Now, Fits, IsParent, IsBody, IsLoop, IsSwitch, IsTry,
        IsScope, IsLinkage, Extends, MayExtend, Expressions, Context
    <3> QED BY <2>1, <2>3, <3>1, <3>2, <3>3, AnchorsKept, StaysAt
  <2>4. CASE Stay(Top.function, "infix", token_anchor_set, globals)
    <3>1. Goes(Top.function, "infix")
      BY <2>1, <2>4 DEF Goes, FunctionNames, Callees, StatementFunctions, Points, Level,
        Expressions
    <3>2. Moves(Top.function, "infix", {}, {})
      BY <2>1, <2>4 DEF Moves, Held, One, Outer, Inner, StatementFunctions, Expressions
    <3>3. Now(Top.function, "infix", globals)
      BY <2>1, <2>4, OnTop DEF Now, Fits, IsParent, IsBody, IsLoop, IsSwitch, IsTry,
        IsScope, IsLinkage, Extends, MayExtend, Expressions, Context
    <3> QED BY <2>1, <2>4, <3>1, <3>2, <3>3, AnchorsKept, StaysAt
  <2> QED BY <2>2, <2>3, <2>4
<1>8. CASE Parenthesized
  <2>1. /\ stack # << >> /\ Top.function \in Expressions /\ Top.at = "opened"
        /\ CallFrom(Top.function, "closing",
                    IF token = "lbrace" THEN "compound" ELSE "expression", Plus({")"}), globals)
    BY <1>8 DEF Parenthesized, In, Call
  <2>2. Goes(Top.function, "closing")
    BY <2>1 DEF Goes, FunctionNames, Callees, StatementFunctions, Points, Level, Expressions
  <2>3. Moves(Top.function, "closing", {")"}, {})
    BY <2>1 DEF Moves, Held, One, Outer, Inner, StatementFunctions, Expressions
  <2>4. Now(Top.function, "closing", globals)
    BY <2>1, OnTop DEF Now, Fits, IsParent, IsBody, IsLoop, IsSwitch, IsTry, IsScope,
      IsLinkage, Extends, MayExtend, Expressions, Context
  <2>5. (IF token = "lbrace" THEN "compound" ELSE "expression") \in Callees /\ Level((IF
    token = "lbrace" THEN "compound" ELSE "expression")) \in {Level(Top.function), "any"}
    BY <2>1 DEF Callees, Level, Expressions, StatementFunctions
  <2> QED BY <2>1, <2>2, <2>3, <2>4, <2>5, AnchorsAdded, CallsAt
<1>9. CASE EndOfParenthesized
  <2>1. /\ stack # << >> /\ Top.function \in Expressions /\ Top.at = "closing"
        /\ Stay(Top.function, "closed", Minus({")"}), globals)
    BY <1>9 DEF EndOfParenthesized, In
  <2>2. Goes(Top.function, "closed")
    BY <2>1 DEF Goes, FunctionNames, Callees, StatementFunctions, Points, Level, Expressions
  <2>3. Moves(Top.function, "closed", {}, {")"})
    BY <2>1 DEF Moves, Held, One, Outer, Inner, StatementFunctions, Expressions
  <2>4. Now(Top.function, "closed", globals)
    BY <2>1, OnTop DEF Now, Fits, IsParent, IsBody, IsLoop, IsSwitch, IsTry, IsScope,
      IsLinkage, Extends, MayExtend, Expressions, Context
  <2> QED BY <2>1, <2>2, <2>3, <2>4, AnchorsRemoved, StaysAt
<1>10. CASE Closed
  <2>1. /\ stack # << >> /\ Top.function \in Expressions /\ Top.at = "closed"
        /\ Stay(Top.function, "infix", token_anchor_set, globals)
    BY <1>10 DEF Closed, In
  <2>2. Goes(Top.function, "infix")
    BY <2>1 DEF Goes, FunctionNames, Callees, StatementFunctions, Points, Level, Expressions
  <2>3. Moves(Top.function, "infix", {}, {})
    BY <2>1 DEF Moves, Held, One, Outer, Inner, StatementFunctions, Expressions
  <2>4. Now(Top.function, "infix", globals)
    BY <2>1, OnTop DEF Now, Fits, IsParent, IsBody, IsLoop, IsSwitch, IsTry, IsScope,
      IsLinkage, Extends, MayExtend, Expressions, Context
  <2> QED BY <2>1, <2>2, <2>3, <2>4, AnchorsKept, StaysAt
<1>11. CASE CallOperator
  <2>1. /\ stack # << >> /\ Top.function \in Expressions /\ Top.at = "infix"
        /\ Stay(Top.function, "arguments", Plus({")", "comma"}), globals)
    BY <1>11 DEF CallOperator, In
  <2>2. Goes(Top.function, "arguments")
    BY <2>1 DEF Goes, FunctionNames, Callees, StatementFunctions, Points, Level, Expressions
  <2>3. Moves(Top.function, "arguments", {")", "comma"}, {})
    BY <2>1 DEF Moves, Held, One, Outer, Inner, StatementFunctions, Expressions
  <2>4. Now(Top.function, "arguments", globals)
    BY <2>1, OnTop DEF Now, Fits, IsParent, IsBody, IsLoop, IsSwitch, IsTry, IsScope,
      IsLinkage, Extends, MayExtend, Expressions, Context
  <2> QED BY <2>1, <2>2, <2>3, <2>4, AnchorsAdded, StaysAt
<1>12. CASE Argument
  <2>1. /\ stack # << >> /\ Top.function \in Expressions /\ Top.at = "arguments"
        /\ CallFrom(Top.function, "argument", "assignment_expression", token_anchor_set, globals)
    BY <1>12 DEF Argument, In, Call
  <2>2. Goes(Top.function, "argument")
    BY <2>1 DEF Goes, FunctionNames, Callees, StatementFunctions, Points, Level, Expressions
  <2>3. Moves(Top.function, "argument", {}, {})
    BY <2>1 DEF Moves, Held, One, Outer, Inner, StatementFunctions, Expressions
  <2>4. Now(Top.function, "argument", globals)
    BY <2>1, OnTop DEF Now, Fits, IsParent, IsBody, IsLoop, IsSwitch, IsTry, IsScope,
      IsLinkage, Extends, MayExtend, Expressions, Context
  <2>5. "assignment_expression" \in Callees /\ Level("assignment_expression") \in
    {Level(Top.function), "any"}
    BY <2>1 DEF Callees, Level, Expressions, StatementFunctions
  <2> QED BY <2>1, <2>2, <2>3, <2>4, <2>5, AnchorsKept, CallsAt
<1>13. CASE NextArgument
  <2>1. /\ stack # << >> /\ Top.function \in Expressions /\ Top.at = "argument"
        /\ CallFrom(Top.function, "argument", "assignment_expression", token_anchor_set, globals)
    BY <1>13 DEF NextArgument, In, Call
  <2>2. Goes(Top.function, "argument")
    BY <2>1 DEF Goes, FunctionNames, Callees, StatementFunctions, Points, Level, Expressions
  <2>3. Moves(Top.function, "argument", {}, {})
    BY <2>1 DEF Moves, Held, One, Outer, Inner, StatementFunctions, Expressions
  <2>4. Now(Top.function, "argument", globals)
    BY <2>1, OnTop DEF Now, Fits, IsParent, IsBody, IsLoop, IsSwitch, IsTry, IsScope,
      IsLinkage, Extends, MayExtend, Expressions, Context
  <2>5. "assignment_expression" \in Callees /\ Level("assignment_expression") \in
    {Level(Top.function), "any"}
    BY <2>1 DEF Callees, Level, Expressions, StatementFunctions
  <2> QED BY <2>1, <2>2, <2>3, <2>4, <2>5, AnchorsKept, CallsAt
<1>14. CASE EndOfArguments
  <2>1. /\ stack # << >> /\ Top.function \in Expressions /\ Top.at \in {"arguments", "argument"}
        /\ Stay(Top.function, "closed", Minus({")", "comma"}), globals)
    BY <1>14 DEF EndOfArguments, In
  <2>2. Goes(Top.function, "closed")
    BY <2>1 DEF Goes, FunctionNames, Callees, StatementFunctions, Points, Level, Expressions
  <2>3. Moves(Top.function, "closed", {}, {")", "comma"})
    BY <2>1 DEF Moves, Held, One, Outer, Inner, StatementFunctions, Expressions
  <2>4. Now(Top.function, "closed", globals)
    BY <2>1, OnTop DEF Now, Fits, IsParent, IsBody, IsLoop, IsSwitch, IsTry, IsScope,
      IsLinkage, Extends, MayExtend, Expressions, Context
  <2> QED BY <2>1, <2>2, <2>3, <2>4, AnchorsRemoved, StaysAt
<1>15. CASE Comma
  <2>1. /\ stack # << >> /\ Top.function = "expression" /\ Top.at = "infix"
        /\ CallFrom(Top.function, "infix", "assignment_expression", token_anchor_set, globals)
    BY <1>15 DEF Comma, In, Call
  <2>2. Goes(Top.function, "infix")
    BY <2>1 DEF Goes, FunctionNames, Callees, StatementFunctions, Points, Level, Expressions
  <2>3. Moves(Top.function, "infix", {}, {})
    BY <2>1 DEF Moves, Held, One, Outer, Inner, StatementFunctions, Expressions
  <2>4. Now(Top.function, "infix", globals)
    BY <2>1, OnTop DEF Now, Fits, IsParent, IsBody, IsLoop, IsSwitch, IsTry, IsScope,
      IsLinkage, Extends, MayExtend, Expressions, Context
  <2>5. "assignment_expression" \in Callees /\ Level("assignment_expression") \in
    {Level(Top.function), "any"}
    BY <2>1 DEF Callees, Level, Expressions, StatementFunctions
  <2> QED BY <2>1, <2>2, <2>3, <2>4, <2>5, AnchorsKept, CallsAt
<1>16. CASE EndOfExpression
  <2>1. /\ stack # << >> /\ Top.function \in Expressions /\ Top.at = "infix"
        /\ Return("ok", token_anchor_set, globals)
    BY <1>16 DEF EndOfExpression, In
  <2>2. Moves("returned", "returned", {}, {})
    BY <2>1 DEF Moves, Held, One, Outer, Inner, StatementFunctions, Expressions
  <2>3. Now("returned", "returned", globals)
    BY <2>1, OnTop DEF Now, Fits, IsParent, IsBody, IsLoop, IsSwitch, IsTry, IsScope,
      IsLinkage, Extends, MayExtend, Expressions, Context
  <2> QED BY <2>1, <2>2, <2>3, AnchorsKept, ReturnsAt
<1> QED BY <1>1, <1>2, <1>3, <1>4, <1>5, <1>6, <1>7, <1>8, <1>9, <1>10, <1>11, <1>12, <1>13,
  <1>14, <1>15, <1>16

\* Where a statement begins, and what is wrapped in one.
LEMMA StatementKeeps ==
  ASSUME Context, slips' = {},
         Keyword \/ Label \/ EmptyStatement \/ Wrapped \/ EndOfWrapped \/ Unexpected \/
           MoreExtension \/ Extended \/ EndOfExtended
  PROVE  Kept
<1>1. CASE Keyword
  <2> DEFINE function == FunctionOf[token]
             g == IF token \in Pushes THEN PUSH_PARENT ELSE globals
  <2>1. /\ stack # << >> /\ Top.function = "statement" /\ Top.at = "start"
        /\ token \in DOMAIN FunctionOf
        /\ Stay(function, "keyword", Plus({"semicolon"}), g)
    BY <1>1 DEF Keyword, In
  <2>2. /\ function \in StatementFunctions \ {"expression_statement", "label"}
        /\ token \in Pushes <=> function \in Pushes
    BY <2>1 DEF FunctionOf, StatementFunctions, Pushes
  <2> HIDE DEF function
  <2>3. Goes(function, "keyword")
    BY <2>1, <2>2 DEF Goes, FunctionNames, Callees, StatementFunctions, Points, Level
  <2>4. Moves(function, "keyword", {"semicolon"}, {})
    BY <2>1, <2>2 DEF Moves, Held, One, Outer, Inner, StatementFunctions, Expressions
  <2>5. Now(function, "keyword", g)
    <3>1. CASE function \in Pushes
      BY <2>1, <2>2, <3>1, OnTop DEF Now, Fits, IsParent, IsBody, IsLoop, IsSwitch, IsTry, IsScope,
        IsLinkage, Extends, MayExtend, Expressions, Context, Globals, PUSH_PARENT, Pushes
    <3>2. CASE function \notin Pushes
      BY <2>1, <2>2, <3>2, OnTop DEF Now, Fits, IsParent, IsBody, IsLoop, IsSwitch, IsTry, IsScope,
        IsLinkage, Extends, MayExtend, Expressions, Context, Globals, Pushes, StatementFunctions
    <3> QED BY <3>1, <3>2
  <2> HIDE DEF g
  <2> QED BY <2>1, <2>3, <2>4, <2>5, AnchorsAdded, StaysAt
<1>2. CASE Label
  <2>1. /\ stack # << >> /\ Top.function = "statement" /\ Top.at = "start"
        /\ Stay("label", "inner", Plus({"semicolon"}), PUSH_PARENT)
    BY <1>2 DEF Label, In
  <2>2. Goes("label", "inner")
    BY <2>1 DEF Goes, FunctionNames, Callees, StatementFunctions, Points, Level, Expressions
  <2>3. Moves("label", "inner", {"semicolon"}, {})
    BY <2>1 DEF Moves, Held, One, Outer, Inner, StatementFunctions, Expressions
  <2>4. Now("label", "inner", PUSH_PARENT)
    BY <2>1, OnTop DEF Now, Fits, IsParent, IsBody, IsLoop, IsSwitch, IsTry, IsScope,
      IsLinkage, Extends, MayExtend, Expressions, Context, Globals, PUSH_PARENT
  <2> QED BY <2>1, <2>2, <2>3, <2>4, AnchorsAdded, StaysAt
<1>3. CASE EmptyStatement
  <2>1. /\ stack # << >> /\ Top.function = "statement" /\ Top.at = "start"
        /\ Return("ok", token_anchor_set, globals)
    BY <1>3 DEF EmptyStatement, In
  <2>2. Moves("returned", "returned", {}, {})
    BY <2>1 DEF Moves, Held, One, Outer, Inner, StatementFunctions, Expressions
  <2>3. Now("returned", "returned", globals)
    BY <2>1, OnTop DEF Now, Fits, IsParent, IsBody, IsLoop, IsSwitch, IsTry, IsScope,
      IsLinkage, Extends, MayExtend, Expressions, Context
  <2> QED BY <2>1, <2>2, <2>3, AnchorsKept, ReturnsAt
<1>4. CASE Wrapped
  <2>1. stack # << >> /\ Top.function = "statement" /\ Top.at = "start"
    BY <1>4 DEF Wrapped, In
  <2>2. \/ CallFrom("statement", "wrapped", "compound", Plus({"semicolon"}), globals)
        \/ CallFrom("statement", "wrapped", "declaration", Plus({"semicolon"}), globals)
        \/ CallFrom("expression_statement", "wrapped", "expression", Plus({"semicolon"}), globals)
    BY <1>4 DEF Wrapped
  <2>3. CASE CallFrom("statement", "wrapped", "compound", Plus({"semicolon"}), globals)
    <3>1. Goes("statement", "wrapped")
      BY <2>1, <2>3 DEF Goes, FunctionNames, Callees, StatementFunctions, Points, Level,
        Expressions
    <3>2. Moves("statement", "wrapped", {"semicolon"}, {})
      BY <2>1, <2>3 DEF Moves, Held, One, Outer, Inner, StatementFunctions, Expressions
    <3>3. Now("statement", "wrapped", globals)
      BY <2>1, <2>3, OnTop DEF Now, Fits, IsParent, IsBody, IsLoop, IsSwitch, IsTry,
        IsScope, IsLinkage, Extends, MayExtend, Expressions, Context
    <3>4. "compound" \in Callees /\ Level("compound") \in {Level("statement"), "any"}
      BY <2>1, <2>3 DEF Callees, Level, Expressions, StatementFunctions
    <3> QED BY <2>1, <2>3, <3>1, <3>2, <3>3, <3>4, AnchorsAdded, CallsAt
  <2>4. CASE CallFrom("statement", "wrapped", "declaration", Plus({"semicolon"}), globals)
    <3>1. Goes("statement", "wrapped")
      BY <2>1, <2>4 DEF Goes, FunctionNames, Callees, StatementFunctions, Points, Level,
        Expressions
    <3>2. Moves("statement", "wrapped", {"semicolon"}, {})
      BY <2>1, <2>4 DEF Moves, Held, One, Outer, Inner, StatementFunctions, Expressions
    <3>3. Now("statement", "wrapped", globals)
      BY <2>1, <2>4, OnTop DEF Now, Fits, IsParent, IsBody, IsLoop, IsSwitch, IsTry,
        IsScope, IsLinkage, Extends, MayExtend, Expressions, Context
    <3>4. "declaration" \in Callees /\ Level("declaration") \in {Level("statement"), "any"}
      BY <2>1, <2>4 DEF Callees, Level, Expressions, StatementFunctions
    <3> QED BY <2>1, <2>4, <3>1, <3>2, <3>3, <3>4, AnchorsAdded, CallsAt
  <2>5. CASE CallFrom("expression_statement", "wrapped", "expression", Plus({"semicolon"}),
                      globals)
    <3>1. Goes("expression_statement", "wrapped")
      BY <2>1, <2>5 DEF Goes, FunctionNames, Callees, StatementFunctions, Points, Level,
        Expressions
    <3>2. Moves("expression_statement", "wrapped", {"semicolon"}, {})
      BY <2>1, <2>5 DEF Moves, Held, One, Outer, Inner, StatementFunctions, Expressions
    <3>3. Now("expression_statement", "wrapped", globals)
      BY <2>1, <2>5, OnTop DEF Now, Fits, IsParent, IsBody, IsLoop, IsSwitch, IsTry,
        IsScope, IsLinkage, Extends, MayExtend, Expressions, Context
    <3>4. "expression" \in Callees /\ Level("expression") \in
      {Level("expression_statement"), "any"}
      BY <2>1, <2>5 DEF Callees, Level, Expressions, StatementFunctions
    <3> QED BY <2>1, <2>5, <3>1, <3>2, <3>3, <3>4, AnchorsAdded, CallsAt
  <2> QED BY <2>2, <2>3, <2>4, <2>5
<1>5. CASE EndOfWrapped
  <2>1. /\ stack # << >> /\ Top.function = "statement" /\ Top.at = "wrapped"
        /\ ReturnStatement("ok", token_anchor_set, globals)
    BY <1>5 DEF EndOfWrapped, In
  <2>2. Moves("returned", "returned", {}, {} \cup {"semicolon"})
    BY <2>1 DEF Moves, Held, One, Outer, Inner, StatementFunctions, Expressions
  <2>3. Now("returned", "returned", globals)
    BY <2>1, OnTop DEF Now, Fits, IsParent, IsBody, IsLoop, IsSwitch, IsTry, IsScope,
      IsLinkage, Extends, MayExtend, Expressions, Context
  <2> QED BY <2>1, <2>2, <2>3, AnchorsKept, StatementReturns
<1>6. CASE Unexpected
  <2>1. /\ stack # << >> /\ Top.function = "statement" /\ Top.at = "start"
        /\ Return("invalid", token_anchor_set, globals)
    BY <1>6 DEF Unexpected, In
  <2>2. Moves("returned", "returned", {}, {})
    BY <2>1 DEF Moves, Held, One, Outer, Inner, StatementFunctions, Expressions
  <2>3. Now("returned", "returned", globals)
    BY <2>1, OnTop DEF Now, Fits, IsParent, IsBody, IsLoop, IsSwitch, IsTry, IsScope,
      IsLinkage, Extends, MayExtend, Expressions, Context
  <2> QED BY <2>1, <2>2, <2>3, AnchorsKept, ReturnsAt
<1>7. CASE MoreExtension
  <2>1. /\ stack # << >> /\ Top.function = "__extension__" /\ Top.at = "keyword"
        /\ Stay("__extension__", "keyword", token_anchor_set, globals)
    BY <1>7 DEF MoreExtension, In
  <2>2. Goes("__extension__", "keyword")
    BY <2>1 DEF Goes, FunctionNames, Callees, StatementFunctions, Points, Level, Expressions
  <2>3. Moves("__extension__", "keyword", {}, {})
    BY <2>1 DEF Moves, Held, One, Outer, Inner, StatementFunctions, Expressions
  <2>4. Now("__extension__", "keyword", globals)
    BY <2>1, OnTop DEF Now, Fits, IsParent, IsBody, IsLoop, IsSwitch, IsTry, IsScope,
      IsLinkage, Extends, MayExtend, Expressions, Context
  <2> QED BY <2>1, <2>2, <2>3, <2>4, AnchorsKept, StaysAt
<1>8. CASE Extended
  <2>1. /\ stack # << >> /\ Top.function = "__extension__" /\ Top.at = "keyword"
        /\ CallFrom(Top.function, "extended", "statement", token_anchor_set,
                    [globals EXCEPT !.gcc_extension = TRUE])
    BY <1>8 DEF Extended, In, Call
  <2>2. Goes(Top.function, "extended")
    BY <2>1 DEF Goes, FunctionNames, Callees, StatementFunctions, Points, Level, Expressions
  <2>3. Moves(Top.function, "extended", {}, {})
    BY <2>1 DEF Moves, Held, One, Outer, Inner, StatementFunctions, Expressions
  <2>4. Now(Top.function, "extended", [globals EXCEPT !.gcc_extension = TRUE])
    BY <2>1, OnTop DEF Now, Fits, IsParent, IsBody, IsLoop, IsSwitch, IsTry, IsScope,
      IsLinkage, Extends, MayExtend, Expressions, Context, Globals
  <2>5. "statement" \in Callees /\ Level("statement") \in {Level(Top.function), "any"}
    BY <2>1 DEF Callees, Level, Expressions, StatementFunctions
  <2> QED BY <2>1, <2>2, <2>3, <2>4, <2>5, AnchorsKept, CallsAt
<1>9. CASE EndOfExtended
  <2>1. /\ stack # << >> /\ Top.function = "__extension__" /\ Top.at = "extended"
        /\ ReturnStatement(ret, token_anchor_set,
                           [globals EXCEPT !.gcc_extension = Top.found.gcc_extension])
    BY <1>9 DEF EndOfExtended, In
  <2>2. Moves("returned", "returned", {}, {} \cup {"semicolon"})
    BY <2>1 DEF Moves, Held, One, Outer, Inner, StatementFunctions, Expressions
  <2>3. Now("returned", "returned", [globals EXCEPT !.gcc_extension =
    Top.found.gcc_extension])
    BY <2>1, OnTop DEF Now, Fits, IsParent, IsBody, IsLoop, IsSwitch, IsTry, IsScope,
      IsLinkage, Extends, MayExtend, Expressions, Context, Globals
  <2>4. Anchored => ret # "abort"
    BY DEF Anchored
  <2> QED BY <2>1, <2>2, <2>3, <2>4, AnchorsKept, StatementReturns
<1> QED BY <1>1, <1>2, <1>3, <1>4, <1>5, <1>6, <1>7, <1>8, <1>9

\* Compound statements.
LEMMA CompoundKeeps ==
  ASSUME Context, slips' = {},
         Brace \/ NoBrace \/ InCompound \/ AfterStatement \/ EndOfCompound \/ BrokenCompound
  PROVE  Kept
<1>1. CASE Brace
  <2>1. /\ stack # << >> /\ Top.function = "compound" /\ Top.at = "start"
        /\ Stay("compound", "loop", Plus(StatementAnchors), [PUSH_PARENT EXCEPT !.scope = Me])
    BY <1>1 DEF Brace, In
  <2>2. Goes("compound", "loop")
    BY <2>1 DEF Goes, FunctionNames, Callees, StatementFunctions, Points, Level, Expressions
  <2>3. Moves("compound", "loop", StatementAnchors, {})
    BY <2>1 DEF Moves, Held, One, Outer, Inner, StatementFunctions, Expressions
  <2>4. Now("compound", "loop", [PUSH_PARENT EXCEPT !.scope = Me])
    BY <2>1, OnTop DEF Now, Fits, IsParent, IsBody, IsLoop, IsSwitch, IsTry, IsScope,
      IsLinkage, Extends, MayExtend, Expressions, Context, Globals, PUSH_PARENT
  <2> QED BY <2>1, <2>2, <2>3, <2>4, AnchorsAdded, StaysAt
<1>2. CASE NoBrace
  <2>1. "try" \in slips'
    BY <1>2 DEF NoBrace, In, Abort, Note, Made
  <2> QED BY <2>1
<1>3. CASE InCompound
  <2>1. /\ stack # << >> /\ Top.function = "compound" /\ Top.at = "loop"
        /\ CallFrom(Top.function, "statement", "statement", token_anchor_set, globals)
    BY <1>3 DEF InCompound, In, Call
  <2>2. Goes(Top.function, "statement")
    BY <2>1 DEF Goes, FunctionNames, Callees, StatementFunctions, Points, Level, Expressions
  <2>3. Moves(Top.function, "statement", {}, {})
    BY <2>1 DEF Moves, Held, One, Outer, Inner, StatementFunctions, Expressions
  <2>4. Now(Top.function, "statement", globals)
    BY <2>1, OnTop DEF Now, Fits, IsParent, IsBody, IsLoop, IsSwitch, IsTry, IsScope,
      IsLinkage, Extends, MayExtend, Expressions, Context
  <2>5. "statement" \in Callees /\ Level("statement") \in {Level(Top.function), "any"}
    BY <2>1 DEF Callees, Level, Expressions, StatementFunctions
  <2> QED BY <2>1, <2>2, <2>3, <2>4, <2>5, AnchorsKept, CallsAt
<1>4. CASE AfterStatement
  <2>1. /\ stack # << >> /\ Top.function = "compound" /\ Top.at = "statement"
        /\ Stay("compound", "loop", token_anchor_set, globals)
    BY <1>4 DEF AfterStatement, In
  <2>2. Goes("compound", "loop")
    BY <2>1 DEF Goes, FunctionNames, Callees, StatementFunctions, Points, Level, Expressions
  <2>3. Moves("compound", "loop", {}, {})
    BY <2>1 DEF Moves, Held, One, Outer, Inner, StatementFunctions, Expressions
  <2>4. Now("compound", "loop", globals)
    BY <2>1, OnTop DEF Now, Fits, IsParent, IsBody, IsLoop, IsSwitch, IsTry, IsScope,
      IsLinkage, Extends, MayExtend, Expressions, Context
  <2> QED BY <2>1, <2>2, <2>3, <2>4, AnchorsKept, StaysAt
<1>5. CASE EndOfCompound
  <2>1. /\ stack # << >> /\ Top.function = "compound" /\ Top.at = "loop"
        /\ Return("ok", Minus(StatementAnchors), [POP_PARENT EXCEPT !.scope = Top.found.scope])
    BY <1>5 DEF EndOfCompound, In, LeaveCompound
  <2>2. Moves("returned", "returned", {}, StatementAnchors)
    BY <2>1 DEF Moves, Held, One, Outer, Inner, StatementFunctions, Expressions
  <2>3. Now("returned", "returned", [POP_PARENT EXCEPT !.scope = Top.found.scope])
    BY <2>1, OnTop DEF Now, Fits, IsParent, IsBody, IsLoop, IsSwitch, IsTry, IsScope,
      IsLinkage, Extends, MayExtend, Expressions, Context, Globals, POP_PARENT
  <2> QED BY <2>1, <2>2, <2>3, AnchorsRemoved, ReturnsAt
<1>6. CASE BrokenCompound
  <2>1. /\ stack # << >> /\ Top.function = "compound" /\ Top.at = "statement"
        /\ Return("ok", Minus(StatementAnchors), [POP_PARENT EXCEPT !.scope = Top.found.scope])
    BY <1>6 DEF BrokenCompound, In, LeaveCompound
  <2>2. Moves("returned", "returned", {}, StatementAnchors)
    BY <2>1 DEF Moves, Held, One, Outer, Inner, StatementFunctions, Expressions
  <2>3. Now("returned", "returned", [POP_PARENT EXCEPT !.scope = Top.found.scope])
    BY <2>1, OnTop DEF Now, Fits, IsParent, IsBody, IsLoop, IsSwitch, IsTry, IsScope,
      IsLinkage, Extends, MayExtend, Expressions, Context, Globals, POP_PARENT
  <2> QED BY <2>1, <2>2, <2>3, AnchorsRemoved, ReturnsAt
<1> QED BY <1>1, <1>2, <1>3, <1>4, <1>5, <1>6

\* if; while and switch begin like it.
LEMMA IfKeeps ==
  ASSUME Context, slips' = {},
         Opening \/ NoOpening \/ IfNoOpening \/ IfCondition \/ IfThen \/ IfElse \/ EndOfIf
  PROVE  Kept
<1>1. CASE Opening
  <2>1. /\ stack # << >> /\ Top.function \in {"if", "while", "switch"} /\ Top.at = "keyword"
        /\ CallFrom(Top.function, "condition", "expression",
                    Plus(IF Top.function = "if" THEN {")", "lbrace"} ELSE {")"}), globals)
    BY <1>1 DEF Opening, In, Call
  <2>2. Goes(Top.function, "condition")
    BY <2>1 DEF Goes, FunctionNames, Callees, StatementFunctions, Points, Level, Expressions
  <2>3. Moves(Top.function, "condition", IF Top.function = "if" THEN {")", "lbrace"} ELSE
    {")"}, {})
    BY <2>1 DEF Moves, Held, One, Outer, Inner, StatementFunctions, Expressions
  <2>4. Now(Top.function, "condition", globals)
    BY <2>1, OnTop DEF Now, Fits, IsParent, IsBody, IsLoop, IsSwitch, IsTry, IsScope,
      IsLinkage, Extends, MayExtend, Expressions, Context
  <2>5. "expression" \in Callees /\ Level("expression") \in {Level(Top.function), "any"}
    BY <2>1 DEF Callees, Level, Expressions, StatementFunctions
  <2> QED BY <2>1, <2>2, <2>3, <2>4, <2>5, AnchorsAdded, CallsAt
<1>2. CASE NoOpening
  <2>1. /\ stack # << >> /\ Top.function \in {"while", "switch"} /\ Top.at = "keyword"
        /\ ReturnStatement("invalid", token_anchor_set, POP_PARENT)
    BY <1>2 DEF NoOpening, In, Invalid
  <2>2. Moves("returned", "returned", {}, {} \cup {"semicolon"})
    BY <2>1 DEF Moves, Held, One, Outer, Inner, StatementFunctions, Expressions
  <2>3. Now("returned", "returned", POP_PARENT)
    BY <2>1, OnTop DEF Now, Fits, IsParent, IsBody, IsLoop, IsSwitch, IsTry, IsScope,
      IsLinkage, Extends, MayExtend, Expressions, Context, Globals, POP_PARENT
  <2> QED BY <2>1, <2>2, <2>3, AnchorsKept, StatementReturns
<1>3. CASE IfNoOpening
  <2>1. /\ stack # << >> /\ Top.function = "if" /\ Top.at = "keyword"
        /\ CallFrom(Top.function, "then", "statement", Plus({"else"}), globals)
    BY <1>3 DEF IfNoOpening, In, Call
  <2>2. Goes(Top.function, "then")
    BY <2>1 DEF Goes, FunctionNames, Callees, StatementFunctions, Points, Level, Expressions
  <2>3. Moves(Top.function, "then", {"else"}, {})
    BY <2>1 DEF Moves, Held, One, Outer, Inner, StatementFunctions, Expressions
  <2>4. Now(Top.function, "then", globals)
    BY <2>1, OnTop DEF Now, Fits, IsParent, IsBody, IsLoop, IsSwitch, IsTry, IsScope,
      IsLinkage, Extends, MayExtend, Expressions, Context
  <2>5. "statement" \in Callees /\ Level("statement") \in {Level(Top.function), "any"}
    BY <2>1 DEF Callees, Level, Expressions, StatementFunctions
  <2> QED BY <2>1, <2>2, <2>3, <2>4, <2>5, AnchorsAdded, CallsAt
<1>4. CASE IfCondition
  <2>1. /\ stack # << >> /\ Top.function = "if" /\ Top.at = "condition"
        /\ Stay("if", "closing", Minus({")"}), globals)
    BY <1>4 DEF IfCondition, In
  <2>2. Goes("if", "closing")
    BY <2>1 DEF Goes, FunctionNames, Callees, StatementFunctions, Points, Level, Expressions
  <2>3. Moves("if", "closing", {}, {")"})
    BY <2>1 DEF Moves, Held, One, Outer, Inner, StatementFunctions, Expressions
  <2>4. Now("if", "closing", globals)
    BY <2>1, OnTop DEF Now, Fits, IsParent, IsBody, IsLoop, IsSwitch, IsTry, IsScope,
      IsLinkage, Extends, MayExtend, Expressions, Context
  <2> QED BY <2>1, <2>2, <2>3, <2>4, AnchorsRemoved, StaysAt
<1>5. CASE IfThen
  <2>1. /\ stack # << >> /\ Top.function = "if" /\ Top.at = "closing"
        /\ CallFrom(Top.function, "then", "statement",
                    add_anchor_tokens(Minus({"lbrace"}), {"else"}), globals)
    BY <1>5 DEF IfThen, In, Call
  <2>2. Goes(Top.function, "then")
    BY <2>1 DEF Goes, FunctionNames, Callees, StatementFunctions, Points, Level, Expressions
  <2>3. Moves(Top.function, "then", {"else"}, {"lbrace"})
    BY <2>1 DEF Moves, Held, One, Outer, Inner, StatementFunctions, Expressions
  <2>4. Now(Top.function, "then", globals)
    BY <2>1, OnTop DEF Now, Fits, IsParent, IsBody, IsLoop, IsSwitch, IsTry, IsScope,
      IsLinkage, Extends, MayExtend, Expressions, Context
  <2>5. "statement" \in Callees /\ Level("statement") \in {Level(Top.function), "any"}
    BY <2>1 DEF Callees, Level, Expressions, StatementFunctions
  <2> QED BY <2>1, <2>2, <2>3, <2>4, <2>5, AnchorsReplaced, CallsAt
<1>6. CASE IfElse
  <2>1. /\ stack # << >> /\ Top.function = "if" /\ Top.at = "then"
        /\ CallFrom(Top.function, "else", "statement", Minus({"else"}), globals)
    BY <1>6 DEF IfElse, In, Call
  <2>2. Goes(Top.function, "else")
    BY <2>1 DEF Goes, FunctionNames, Callees, StatementFunctions, Points, Level, Expressions
  <2>3. Moves(Top.function, "else", {}, {"else"})
    BY <2>1 DEF Moves, Held, One, Outer, Inner, StatementFunctions, Expressions
  <2>4. Now(Top.function, "else", globals)
    BY <2>1, OnTop DEF Now, Fits, IsParent, IsBody, IsLoop, IsSwitch, IsTry, IsScope,
      IsLinkage, Extends, MayExtend, Expressions, Context
  <2>5. "statement" \in Callees /\ Level("statement") \in {Level(Top.function), "any"}
    BY <2>1 DEF Callees, Level, Expressions, StatementFunctions
  <2> QED BY <2>1, <2>2, <2>3, <2>4, <2>5, AnchorsRemoved, CallsAt
<1>7. CASE EndOfIf
  <2>1. stack # << >>
    BY <1>7 DEF EndOfIf, In
  <2>2. \/ /\ Top.function = "if" /\ Top.at = "then"
           /\ ReturnStatement("ok", Minus({"else"}), POP_PARENT)
        \/ /\ Top.function = "if" /\ Top.at = "else"
           /\ ReturnStatement("ok", token_anchor_set, POP_PARENT)
    BY <1>7 DEF EndOfIf, In
  <2>3. CASE /\ Top.function = "if" /\ Top.at = "then"
             /\ ReturnStatement("ok", Minus({"else"}), POP_PARENT)
    <3>1. Moves("returned", "returned", {}, {"else"} \cup {"semicolon"})
      BY <2>1, <2>3 DEF Moves, Held, One, Outer, Inner, StatementFunctions, Expressions
    <3>2. Now("returned", "returned", POP_PARENT)
      BY <2>1, <2>3, OnTop DEF Now, Fits, IsParent, IsBody, IsLoop, IsSwitch, IsTry,
        IsScope, IsLinkage, Extends, MayExtend, Expressions, Context, Globals, POP_PARENT
    <3>3. "semicolon" \notin {"else"}
      OBVIOUS
    <3> QED BY <2>1, <2>3, <3>1, <3>2, <3>3, AnchorsRemoved, StatementReturns
  <2>4. CASE /\ Top.function = "if" /\ Top.at = "else"
             /\ ReturnStatement("ok", token_anchor_set, POP_PARENT)
    <3>1. Moves("returned", "returned", {}, {} \cup {"semicolon"})
      BY <2>1, <2>4 DEF Moves, Held, One, Outer, Inner, StatementFunctions, Expressions
    <3>2. Now("returned", "returned", POP_PARENT)
      BY <2>1, <2>4, OnTop DEF Now, Fits, IsParent, IsBody, IsLoop, IsSwitch, IsTry,
        IsScope, IsLinkage, Extends, MayExtend, Expressions, Context, Globals, POP_PARENT
    <3> QED BY <2>1, <2>4, <3>1, <3>2, AnchorsKept, StatementReturns
  <2> QED BY <2>2, <2>3, <2>4
<1> QED BY <1>1, <1>2, <1>3, <1>4, <1>5, <1>6, <1>7

\* while and do.
LEMMA LoopKeeps ==
  ASSUME Context, slips' = {},
         WhileCondition \/ WhileBody \/ EndOfWhile \/ DoBody \/ DoWhile \/ DoOpening \/
           DoCondition \/ DoClosing \/ DoSemicolon \/ EndOfDo
  PROVE  Kept
<1>1. CASE WhileCondition
  <2>1. /\ stack # << >> /\ Top.function = "while" /\ Top.at = "condition"
        /\ Stay("while", "closing", Minus({")"}), globals)
    BY <1>1 DEF WhileCondition, In
  <2>2. Goes("while", "closing")
    BY <2>1 DEF Goes, FunctionNames, Callees, StatementFunctions, Points, Level, Expressions
  <2>3. Moves("while", "closing", {}, {")"})
    BY <2>1 DEF Moves, Held, One, Outer, Inner, StatementFunctions, Expressions
  <2>4. Now("while", "closing", globals)
    BY <2>1, OnTop DEF Now, Fits, IsParent, IsBody, IsLoop, IsSwitch, IsTry, IsScope,
      IsLinkage, Extends, MayExtend, Expressions, Context
  <2> QED BY <2>1, <2>2, <2>3, <2>4, AnchorsRemoved, StaysAt
<1>2. CASE WhileBody
  <2>1. stack # << >> /\ Top.function = "while" /\ Top.at = "closing"
    BY <1>2 DEF WhileBody, In
  <2>2. \/ CallFrom(Top.function, "body", "statement", token_anchor_set,
                    [globals EXCEPT !.loop = Me])
        \/ ReturnStatement("invalid", token_anchor_set, POP_PARENT)
    BY <1>2 DEF WhileBody, Call, LoopBody, Invalid
  <2>3. CASE CallFrom(Top.function, "body", "statement", token_anchor_set,
                      [globals EXCEPT !.loop = Me])
    <3>1. Goes(Top.function, "body")
      BY <2>1, <2>3 DEF Goes, FunctionNames, Callees, StatementFunctions, Points, Level,
        Expressions
    <3>2. Moves(Top.function, "body", {}, {})
      BY <2>1, <2>3 DEF Moves, Held, One, Outer, Inner, StatementFunctions, Expressions
    <3>3. Now(Top.function, "body", [globals EXCEPT !.loop = Me])
      BY <2>1, <2>3, OnTop DEF Now, Fits, IsParent, IsBody, IsLoop, IsSwitch, IsTry,
        IsScope, IsLinkage, Extends, MayExtend, Expressions, Context, Globals
    <3>4. "statement" \in Callees /\ Level("statement") \in {Level(Top.function), "any"}
      BY <2>1, <2>3 DEF Callees, Level, Expressions, StatementFunctions
    <3> QED BY <2>1, <2>3, <3>1, <3>2, <3>3, <3>4, AnchorsKept, CallsAt
  <2>4. CASE ReturnStatement("invalid", token_anchor_set, POP_PARENT)
    <3>1. Moves("returned", "returned", {}, {} \cup {"semicolon"})
      BY <2>1, <2>4 DEF Moves, Held, One, Outer, Inner, StatementFunctions, Expressions
    <3>2. Now("returned", "returned", POP_PARENT)
      BY <2>1, <2>4, OnTop DEF Now, Fits, IsParent, IsBody, IsLoop, IsSwitch, IsTry,
        IsScope, IsLinkage, Extends, MayExtend, Expressions, Context, Globals, POP_PARENT
    <3> QED BY <2>1, <2>4, <3>1, <3>2, AnchorsKept, StatementReturns
  <2> QED BY <2>2, <2>3, <2>4
<1>3. CASE EndOfWhile
  <2>1. /\ stack # << >> /\ Top.function = "while" /\ Top.at = "body"
        /\ ReturnStatement("ok", token_anchor_set, [POP_PARENT EXCEPT !.loop = Top.found.loop])
    BY <1>3 DEF EndOfWhile, In
  <2>2. Moves("returned", "returned", {}, {} \cup {"semicolon"})
    BY <2>1 DEF Moves, Held, One, Outer, Inner, StatementFunctions, Expressions
  <2>3. Now("returned", "returned", [POP_PARENT EXCEPT !.loop = Top.found.loop])
    BY <2>1, OnTop DEF Now, Fits, IsParent, IsBody, IsLoop, IsSwitch, IsTry, IsScope,
      IsLinkage, Extends, MayExtend, Expressions, Context, Globals, POP_PARENT
  <2> QED BY <2>1, <2>2, <2>3, AnchorsKept, StatementReturns
<1>4. CASE DoBody
  <2>1. /\ stack # << >> /\ Top.function = "do" /\ Top.at = "keyword"
        /\ CallFrom(Top.function, "body", "statement", Plus({"while"}),
                    [globals EXCEPT !.loop = Me])
    BY <1>4 DEF DoBody, In, Call, LoopBody
  <2>2. Goes(Top.function, "body")
    BY <2>1 DEF Goes, FunctionNames, Callees, StatementFunctions, Points, Level, Expressions
  <2>3. Moves(Top.function, "body", {"while"}, {})
    BY <2>1 DEF Moves, Held, One, Outer, Inner, StatementFunctions, Expressions
  <2>4. Now(Top.function, "body", [globals EXCEPT !.loop = Me])
    BY <2>1, OnTop DEF Now, Fits, IsParent, IsBody, IsLoop, IsSwitch, IsTry, IsScope,
      IsLinkage, Extends, MayExtend, Expressions, Context, Globals
  <2>5. "statement" \in Callees /\ Level("statement") \in {Level(Top.function), "any"}
    BY <2>1 DEF Callees, Level, Expressions, StatementFunctions
  <2> QED BY <2>1, <2>2, <2>3, <2>4, <2>5, AnchorsAdded, CallsAt
<1>5. CASE DoWhile
  <2>1. /\ stack # << >> /\ Top.function = "do" /\ Top.at = "body"
        /\ Stay("do", "while", Minus({"while"}), LeftLoop)
    BY <1>5 DEF DoWhile, In
  <2>2. Goes("do", "while")
    BY <2>1 DEF Goes, FunctionNames, Callees, StatementFunctions, Points, Level, Expressions
  <2>3. Moves("do", "while", {}, {"while"})
    BY <2>1 DEF Moves, Held, One, Outer, Inner, StatementFunctions, Expressions
  <2>4. Now("do", "while", LeftLoop)
    BY <2>1, OnTop DEF Now, Fits, IsParent, IsBody, IsLoop, IsSwitch, IsTry, IsScope,
      IsLinkage, Extends, MayExtend, Expressions, Context, Globals, LeftLoop
  <2> QED BY <2>1, <2>2, <2>3, <2>4, AnchorsRemoved, StaysAt
<1>6. CASE DoOpening
  <2>1. stack # << >> /\ Top.function = "do" /\ Top.at = "while"
    BY <1>6 DEF DoOpening, In
  <2>2. \/ Stay("do", "opening", token_anchor_set, globals)
        \/ ReturnStatement("invalid", token_anchor_set, POP_PARENT)
    BY <1>6 DEF DoOpening, Invalid
  <2>3. CASE Stay("do", "opening", token_anchor_set, globals)
    <3>1. Goes("do", "opening")
      BY <2>1, <2>3 DEF Goes, FunctionNames, Callees, StatementFunctions, Points, Level,
        Expressions
    <3>2. Moves("do", "opening", {}, {})
      BY <2>1, <2>3 DEF Moves, Held, One, Outer, Inner, StatementFunctions, Expressions
    <3>3. Now("do", "opening", globals)
      BY <2>1, <2>3, OnTop DEF Now, Fits, IsParent, IsBody, IsLoop, IsSwitch, IsTry,
        IsScope, IsLinkage, Extends, MayExtend, Expressions, Context
    <3> QED BY <2>1, <2>3, <3>1, <3>2, <3>3, AnchorsKept, StaysAt
  <2>4. CASE ReturnStatement("invalid", token_anchor_set, POP_PARENT)
    <3>1. Moves("returned", "returned", {}, {} \cup {"semicolon"})
      BY <2>1, <2>4 DEF Moves, Held, One, Outer, Inner, StatementFunctions, Expressions
    <3>2. Now("returned", "returned", POP_PARENT)
      BY <2>1, <2>4, OnTop DEF Now, Fits, IsParent, IsBody, IsLoop, IsSwitch, IsTry,
        IsScope, IsLinkage, Extends, MayExtend, Expressions, Context, Globals, POP_PARENT
    <3> QED BY <2>1, <2>4, <3>1, <3>2, AnchorsKept, StatementReturns
  <2> QED BY <2>2, <2>3, <2>4
<1>7. CASE DoCondition
  <2>1. stack # << >> /\ Top.function = "do" /\ Top.at = "opening"
    BY <1>7 DEF DoCondition, In
  <2>2. \/ CallFrom(Top.function, "condition", "expression", Plus({")"}), globals)
        \/ ReturnStatement("invalid", token_anchor_set, POP_PARENT)
    BY <1>7 DEF DoCondition, Call, Invalid
  <2>3. CASE CallFrom(Top.function, "condition", "expression", Plus({")"}), globals)
    <3>1. Goes(Top.function, "condition")
      BY <2>1, <2>3 DEF Goes, FunctionNames, Callees, StatementFunctions, Points, Level,
        Expressions
    <3>2. Moves(Top.function, "condition", {")"}, {})
      BY <2>1, <2>3 DEF Moves, Held, One, Outer, Inner, StatementFunctions, Expressions
    <3>3. Now(Top.function, "condition", globals)
      BY <2>1, <2>3, OnTop DEF Now, Fits, IsParent, IsBody, IsLoop, IsSwitch, IsTry,
        IsScope, IsLinkage, Extends, MayExtend, Expressions, Context
    <3>4. "expression" \in Callees /\ Level("expression") \in {Level(Top.function), "any"}
      BY <2>1, <2>3 DEF Callees, Level, Expressions, StatementFunctions
    <3> QED BY <2>1, <2>3, <3>1, <3>2, <3>3, <3>4, AnchorsAdded, CallsAt
  <2>4. CASE ReturnStatement("invalid", token_anchor_set, POP_PARENT)
    <3>1. Moves("returned", "returned", {}, {} \cup {"semicolon"})
      BY <2>1, <2>4 DEF Moves, Held, One, Outer, Inner, StatementFunctions, Expressions
    <3>2. Now("returned", "returned", POP_PARENT)
      BY <2>1, <2>4, OnTop DEF Now, Fits, IsParent, IsBody, IsLoop, IsSwitch, IsTry,
        IsScope, IsLinkage, Extends, MayExtend, Expressions, Context, Globals, POP_PARENT
    <3> QED BY <2>1, <2>4, <3>1, <3>2, AnchorsKept, StatementReturns
  <2> QED BY <2>2, <2>3, <2>4
<1>8. CASE DoClosing
  <2>1. /\ stack # << >> /\ Top.function = "do" /\ Top.at = "condition"
        /\ Stay("do", "closing", Minus({")"}), globals)
    BY <1>8 DEF DoClosing, In
  <2>2. Goes("do", "closing")
    BY <2>1 DEF Goes, FunctionNames, Callees, StatementFunctions, Points, Level, Expressions
  <2>3. Moves("do", "closing", {}, {")"})
    BY <2>1 DEF Moves, Held, One, Outer, Inner, StatementFunctions, Expressions
  <2>4. Now("do", "closing", globals)
    BY <2>1, OnTop DEF Now, Fits, IsParent, IsBody, IsLoop, IsSwitch, IsTry, IsScope,
      IsLinkage, Extends, MayExtend, Expressions, Context
  <2> QED BY <2>1, <2>2, <2>3, <2>4, AnchorsRemoved, StaysAt
<1>9. CASE DoSemicolon
  <2>1. stack # << >> /\ Top.function = "do" /\ Top.at = "closing"
    BY <1>9 DEF DoSemicolon, In
  <2>2. \/ Stay("do", "semicolon", token_anchor_set, globals)
        \/ ReturnStatement("invalid", token_anchor_set, POP_PARENT)
    BY <1>9 DEF DoSemicolon, Invalid
  <2>3. CASE Stay("do", "semicolon", token_anchor_set, globals)
    <3>1. Goes("do", "semicolon")
      BY <2>1, <2>3 DEF Goes, FunctionNames, Callees, StatementFunctions, Points, Level,
        Expressions
    <3>2. Moves("do", "semicolon", {}, {})
      BY <2>1, <2>3 DEF Moves, Held, One, Outer, Inner, StatementFunctions, Expressions
    <3>3. Now("do", "semicolon", globals)
      BY <2>1, <2>3, OnTop DEF Now, Fits, IsParent, IsBody, IsLoop, IsSwitch, IsTry,
        IsScope, IsLinkage, Extends, MayExtend, Expressions, Context
    <3> QED BY <2>1, <2>3, <3>1, <3>2, <3>3, AnchorsKept, StaysAt
  <2>4. CASE ReturnStatement("invalid", token_anchor_set, POP_PARENT)
    <3>1. Moves("returned", "returned", {}, {} \cup {"semicolon"})
      BY <2>1, <2>4 DEF Moves, Held, One, Outer, Inner, StatementFunctions, Expressions
    <3>2. Now("returned", "returned", POP_PARENT)
      BY <2>1, <2>4, OnTop DEF Now, Fits, IsParent, IsBody, IsLoop, IsSwitch, IsTry,
        IsScope, IsLinkage, Extends, MayExtend, Expressions, Context, Globals, POP_PARENT
    <3> QED BY <2>1, <2>4, <3>1, <3>2, AnchorsKept, StatementReturns
  <2> QED BY <2>2, <2>3, <2>4
<1>10. CASE EndOfDo
  <2>1. stack # << >> /\ Top.function = "do" /\ Top.at = "semicolon"
    BY <1>10 DEF EndOfDo, In
  <2>2. \/ ReturnStatement("ok", token_anchor_set, POP_PARENT)
        \/ ReturnStatement("invalid", token_anchor_set, POP_PARENT)
    BY <1>10 DEF EndOfDo, Invalid
  <2>3. CASE ReturnStatement("ok", token_anchor_set, POP_PARENT)
    <3>1. Moves("returned", "returned", {}, {} \cup {"semicolon"})
      BY <2>1, <2>3 DEF Moves, Held, One, Outer, Inner, StatementFunctions, Expressions
    <3>2. Now("returned", "returned", POP_PARENT)
      BY <2>1, <2>3, OnTop DEF Now, Fits, IsParent, IsBody, IsLoop, IsSwitch, IsTry,
        IsScope, IsLinkage, Extends, MayExtend, Expressions, Context, Globals, POP_PARENT
    <3> QED BY <2>1, <2>3, <3>1, <3>2, AnchorsKept, StatementReturns
  <2>4. CASE ReturnStatement("invalid", token_anchor_set, POP_PARENT)
    <3>1. Moves("returned", "returned", {}, {} \cup {"semicolon"})
      BY <2>1, <2>4 DEF Moves, Held, One, Outer, Inner, StatementFunctions, Expressions
    <3>2. Now("returned", "returned", POP_PARENT)
      BY <2>1, <2>4, OnTop DEF Now, Fits, IsParent, IsBody, IsLoop, IsSwitch, IsTry,
        IsScope, IsLinkage, Extends, MayExtend, Expressions, Context, Globals, POP_PARENT
    <3> QED BY <2>1, <2>4, <3>1, <3>2, AnchorsKept, StatementReturns
  <2> QED BY <2>2, <2>3, <2>4
<1> QED BY <1>1, <1>2, <1>3, <1>4, <1>5, <1>6, <1>7, <1>8, <1>9, <1>10

\* for.
LEMMA ForKeeps ==
  ASSUME Context, slips' = {},
         ForOpening \/ ForExtension \/ ForFirst \/ ForDeclared \/ ForInitialised \/
           ForInitialiser \/ ForSecond \/ ForCondition \/ ForSemicolon \/ ForThird \/ ForBody
           \/ EndOfFor
  PROVE  Kept
<1>1. CASE ForOpening
  <2>1. stack # << >> /\ Top.function = "for" /\ Top.at = "keyword"
    BY <1>1 DEF ForOpening, In
  <2>2. \/ Stay("for", "first", Plus({")"}), [PUSH_PARENT EXCEPT !.scope = Me])
        \/ ReturnStatement("invalid", token_anchor_set, globals)
    BY <1>1 DEF ForOpening
  <2>3. CASE Stay("for", "first", Plus({")"}), [PUSH_PARENT EXCEPT !.scope = Me])
    <3>1. Goes("for", "first")
      BY <2>1, <2>3 DEF Goes, FunctionNames, Callees, StatementFunctions, Points, Level,
        Expressions
    <3>2. Moves("for", "first", {")"}, {})
      BY <2>1, <2>3 DEF Moves, Held, One, Outer, Inner, StatementFunctions, Expressions
    <3>3. Now("for", "first", [PUSH_PARENT EXCEPT !.scope = Me])
      BY <2>1, <2>3, OnTop DEF Now, Fits, IsParent, IsBody, IsLoop, IsSwitch, IsTry,
        IsScope, IsLinkage, Extends, MayExtend, Expressions, Context, Globals, PUSH_PARENT
    <3> QED BY <2>1, <2>3, <3>1, <3>2, <3>3, AnchorsAdded, StaysAt
  <2>4. CASE ReturnStatement("invalid", token_anchor_set, globals)
    <3>1. Moves("returned", "returned", {}, {} \cup {"semicolon"})
      BY <2>1, <2>4 DEF Moves, Held, One, Outer, Inner, StatementFunctions, Expressions
    <3>2. Now("returned", "returned", globals)
      BY <2>1, <2>4, OnTop DEF Now, Fits, IsParent, IsBody, IsLoop, IsSwitch, IsTry,
        IsScope, IsLinkage, Extends, MayExtend, Expressions, Context
    <3> QED BY <2>1, <2>4, <3>1, <3>2, AnchorsKept, StatementReturns
  <2> QED BY <2>2, <2>3, <2>4
<1>2. CASE ForExtension
  <2>1. /\ stack # << >> /\ Top.function = "for" /\ Top.at = "first"
        /\ Stay("for", "first", token_anchor_set, [globals EXCEPT !.gcc_extension = TRUE])
    BY <1>2 DEF ForExtension, In
  <2>2. Goes("for", "first")
    BY <2>1 DEF Goes, FunctionNames, Callees, StatementFunctions, Points, Level, Expressions
  <2>3. Moves("for", "first", {}, {})
    BY <2>1 DEF Moves, Held, One, Outer, Inner, StatementFunctions, Expressions
  <2>4. Now("for", "first", [globals EXCEPT !.gcc_extension = TRUE])
    BY <2>1, OnTop DEF Now, Fits, IsParent, IsBody, IsLoop, IsSwitch, IsTry, IsScope,
      IsLinkage, Extends, MayExtend, Expressions, Context, Globals
  <2> QED BY <2>1, <2>2, <2>3, <2>4, AnchorsKept, StaysAt
<1>3. CASE ForFirst
  <2>1. stack # << >> /\ Top.function = "for" /\ Top.at = "first"
    BY <1>3 DEF ForFirst, In
  <2>2. \/ Stay("for", "second", token_anchor_set, NoExtension)
        \/ CallFrom(Top.function, "declared", "for_declaration", token_anchor_set, globals)
        \/ CallFrom(Top.function, "initialised", "expression", Plus({"semicolon"}), globals)
    BY <1>3 DEF ForFirst, Call
  <2>3. CASE Stay("for", "second", token_anchor_set, NoExtension)
    <3>1. Goes("for", "second")
      BY <2>1, <2>3 DEF Goes, FunctionNames, Callees, StatementFunctions, Points, Level,
        Expressions
    <3>2. Moves("for", "second", {}, {})
      BY <2>1, <2>3 DEF Moves, Held, One, Outer, Inner, StatementFunctions, Expressions
    <3>3. Now("for", "second", NoExtension)
      BY <2>1, <2>3, OnTop DEF Now, Fits, IsParent, IsBody, IsLoop, IsSwitch, IsTry,
        IsScope, IsLinkage, Extends, MayExtend, Expressions, Context, Globals, NoExtension
    <3> QED BY <2>1, <2>3, <3>1, <3>2, <3>3, AnchorsKept, StaysAt
  <2>4. CASE CallFrom(Top.function, "declared", "for_declaration", token_anchor_set, globals)
    <3>1. Goes(Top.function, "declared")
      BY <2>1, <2>4 DEF Goes, FunctionNames, Callees, StatementFunctions, Points, Level,
        Expressions
    <3>2. Moves(Top.function, "declared", {}, {})
      BY <2>1, <2>4 DEF Moves, Held, One, Outer, Inner, StatementFunctions, Expressions
    <3>3. Now(Top.function, "declared", globals)
      BY <2>1, <2>4, OnTop DEF Now, Fits, IsParent, IsBody, IsLoop, IsSwitch, IsTry,
        IsScope, IsLinkage, Extends, MayExtend, Expressions, Context
    <3>4. "for_declaration" \in Callees /\ Level("for_declaration") \in
      {Level(Top.function), "any"}
      BY <2>1, <2>4 DEF Callees, Level, Expressions, StatementFunctions
    <3> QED BY <2>1, <2>4, <3>1, <3>2, <3>3, <3>4, AnchorsKept, CallsAt
  <2>5. CASE CallFrom(Top.function, "initialised", "expression", Plus({"semicolon"}), globals)
    <3>1. Goes(Top.function, "initialised")
      BY <2>1, <2>5 DEF Goes, FunctionNames, Callees, StatementFunctions, Points, Level,
        Expressions
    <3>2. Moves(Top.function, "initialised", {"semicolon"}, {})
      BY <2>1, <2>5 DEF Moves, Held, One, Outer, Inner, StatementFunctions, Expressions
    <3>3. Now(Top.function, "initialised", globals)
      BY <2>1, <2>5, OnTop DEF Now, Fits, IsParent, IsBody, IsLoop, IsSwitch, IsTry,
        IsScope, IsLinkage, Extends, MayExtend, Expressions, Context
    <3>4. "expression" \in Callees /\ Level("expression") \in {Level(Top.function), "any"}
      BY <2>1, <2>5 DEF Callees, Level, Expressions, StatementFunctions
    <3> QED BY <2>1, <2>5, <3>1, <3>2, <3>3, <3>4, AnchorsAdded, CallsAt
  <2> QED BY <2>2, <2>3, <2>4, <2>5
<1>4. CASE ForDeclared
  <2>1. /\ stack # << >> /\ Top.function = "for" /\ Top.at = "declared"
        /\ Stay("for", "second", token_anchor_set, NoExtension)
    BY <1>4 DEF ForDeclared, In
  <2>2. Goes("for", "second")
    BY <2>1 DEF Goes, FunctionNames, Callees, StatementFunctions, Points, Level, Expressions
  <2>3. Moves("for", "second", {}, {})
    BY <2>1 DEF Moves, Held, One, Outer, Inner, StatementFunctions, Expressions
  <2>4. Now("for", "second", NoExtension)
    BY <2>1, OnTop DEF Now, Fits, IsParent, IsBody, IsLoop, IsSwitch, IsTry, IsScope,
      IsLinkage, Extends, MayExtend, Expressions, Context, Globals, NoExtension
  <2> QED BY <2>1, <2>2, <2>3, <2>4, AnchorsKept, StaysAt
<1>5. CASE ForInitialised
  <2>1. /\ stack # << >> /\ Top.function = "for" /\ Top.at = "initialised"
        /\ Stay("for", "initialiser", Minus({"semicolon"}), globals)
    BY <1>5 DEF ForInitialised, In
  <2>2. Goes("for", "initialiser")
    BY <2>1 DEF Goes, FunctionNames, Callees, StatementFunctions, Points, Level, Expressions
  <2>3. Moves("for", "initialiser", {}, {"semicolon"})
    BY <2>1 DEF Moves, Held, One, Outer, Inner, StatementFunctions, Expressions
  <2>4. Now("for", "initialiser", globals)
    BY <2>1, OnTop DEF Now, Fits, IsParent, IsBody, IsLoop, IsSwitch, IsTry, IsScope,
      IsLinkage, Extends, MayExtend, Expressions, Context
  <2> QED BY <2>1, <2>2, <2>3, <2>4, AnchorsRemoved, StaysAt
<1>6. CASE ForInitialiser
  <2>1. stack # << >>
    BY <1>6 DEF ForInitialiser, In
  <2>2. \/ /\ Top.function = "for" /\ Top.at = "initialiser"
           /\ Stay("for", "second", token_anchor_set, NoExtension)
        \/ /\ Top.function = "for" /\ Top.at = "initialiser"
           /\ globals.gcc_extension = Top.found.gcc_extension
           /\ ReturnStatement("invalid", Minus({")"}), [POP_PARENT EXCEPT !.scope = Top.found.scope])
    BY <1>6 DEF ForInitialiser, In, BrokenFor, Minus, Missing, MissingBefore,
      ReturnStatement, Return, Note, Made
  <2>3. CASE /\ Top.function = "for" /\ Top.at = "initialiser"
             /\ Stay("for", "second", token_anchor_set, NoExtension)
    <3>1. Goes("for", "second")
      BY <2>1, <2>3 DEF Goes, FunctionNames, Callees, StatementFunctions, Points, Level,
        Expressions
    <3>2. Moves("for", "second", {}, {})
      BY <2>1, <2>3 DEF Moves, Held, One, Outer, Inner, StatementFunctions, Expressions
    <3>3. Now("for", "second", NoExtension)
      BY <2>1, <2>3, OnTop DEF Now, Fits, IsParent, IsBody, IsLoop, IsSwitch, IsTry,
        IsScope, IsLinkage, Extends, MayExtend, Expressions, Context, Globals, NoExtension
    <3> QED BY <2>1, <2>3, <3>1, <3>2, <3>3, AnchorsKept, StaysAt
  <2>4. CASE /\ Top.function = "for" /\ Top.at = "initialiser"
             /\ globals.gcc_extension = Top.found.gcc_extension
             /\ ReturnStatement("invalid", Minus({")"}), [POP_PARENT EXCEPT !.scope = Top.found.scope])
    <3>1. Moves("returned", "returned", {}, {")"} \cup {"semicolon"})
      BY <2>1, <2>4 DEF Moves, Held, One, Outer, Inner, StatementFunctions, Expressions
    <3>2. Now("returned", "returned", [POP_PARENT EXCEPT !.scope = Top.found.scope])
      BY <2>1, <2>4, OnTop DEF Now, Fits, IsParent, IsBody, IsLoop, IsSwitch, IsTry,
        IsScope, IsLinkage, Extends, MayExtend, Expressions, Context, Globals, POP_PARENT
    <3>3. "semicolon" \notin {")"}
      OBVIOUS
    <3> QED BY <2>1, <2>4, <3>1, <3>2, <3>3, AnchorsRemoved, StatementReturns
  <2> QED BY <2>2, <2>3, <2>4
<1>7. CASE ForSecond
  <2>1. /\ stack # << >> /\ Top.function = "for" /\ Top.at = "second"
        /\ CallFrom(Top.function, "condition", "expression", Plus({"semicolon"}), globals)
    BY <1>7 DEF ForSecond, In, Call
  <2>2. Goes(Top.function, "condition")
    BY <2>1 DEF Goes, FunctionNames, Callees, StatementFunctions, Points, Level, Expressions
  <2>3. Moves(Top.function, "condition", {"semicolon"}, {})
    BY <2>1 DEF Moves, Held, One, Outer, Inner, StatementFunctions, Expressions
  <2>4. Now(Top.function, "condition", globals)
    BY <2>1, OnTop DEF Now, Fits, IsParent, IsBody, IsLoop, IsSwitch, IsTry, IsScope,
      IsLinkage, Extends, MayExtend, Expressions, Context
  <2>5. "expression" \in Callees /\ Level("expression") \in {Level(Top.function), "any"}
    BY <2>1 DEF Callees, Level, Expressions, StatementFunctions
  <2> QED BY <2>1, <2>2, <2>3, <2>4, <2>5, AnchorsAdded, CallsAt
<1>8. CASE ForCondition
  <2>1. /\ stack # << >> /\ Top.function = "for" /\ Top.at = "condition"
        /\ Stay("for", "semicolon", Minus({"semicolon"}), globals)
    BY <1>8 DEF ForCondition, In
  <2>2. Goes("for", "semicolon")
    BY <2>1 DEF Goes, FunctionNames, Callees, StatementFunctions, Points, Level, Expressions
  <2>3. Moves("for", "semicolon", {}, {"semicolon"})
    BY <2>1 DEF Moves, Held, One, Outer, Inner, StatementFunctions, Expressions
  <2>4. Now("for", "semicolon", globals)
    BY <2>1, OnTop DEF Now, Fits, IsParent, IsBody, IsLoop, IsSwitch, IsTry, IsScope,
      IsLinkage, Extends, MayExtend, Expressions, Context
  <2> QED BY <2>1, <2>2, <2>3, <2>4, AnchorsRemoved, StaysAt
<1>9. CASE ForSemicolon
  <2>1. stack # << >> /\ Top.function = "for" /\ Top.at \in {"second", "semicolon"}
    BY <1>9 DEF ForSemicolon, In
  <2>2. \/ Stay("for", "third", token_anchor_set, globals)
        \/ ReturnStatement("invalid", Minus({")"}), [POP_PARENT EXCEPT !.scope = Top.found.scope])
    BY <1>9 DEF ForSemicolon, BrokenFor, Minus
  <2>3. CASE Stay("for", "third", token_anchor_set, globals)
    <3>1. Goes("for", "third")
      BY <2>1, <2>3 DEF Goes, FunctionNames, Callees, StatementFunctions, Points, Level,
        Expressions
    <3>2. Moves("for", "third", {}, {})
      BY <2>1, <2>3 DEF Moves, Held, One, Outer, Inner, StatementFunctions, Expressions
    <3>3. Now("for", "third", globals)
      BY <2>1, <2>3, OnTop DEF Now, Fits, IsParent, IsBody, IsLoop, IsSwitch, IsTry,
        IsScope, IsLinkage, Extends, MayExtend, Expressions, Context
    <3> QED BY <2>1, <2>3, <3>1, <3>2, <3>3, AnchorsKept, StaysAt
  <2>4. CASE ReturnStatement("invalid",
                             Minus({")"}), [POP_PARENT EXCEPT !.scope = Top.found.scope])
    <3>1. Moves("returned", "returned", {}, {")"} \cup {"semicolon"})
      BY <2>1, <2>4 DEF Moves, Held, One, Outer, Inner, StatementFunctions, Expressions
    <3>2. Now("returned", "returned", [POP_PARENT EXCEPT !.scope = Top.found.scope])
      BY <2>1, <2>4, OnTop DEF Now, Fits, IsParent, IsBody, IsLoop, IsSwitch, IsTry,
        IsScope, IsLinkage, Extends, MayExtend, Expressions, Context, Globals, POP_PARENT
    <3>3. "semicolon" \notin {")"}
      OBVIOUS
    <3> QED BY <2>1, <2>4, <3>1, <3>2, <3>3, AnchorsRemoved, StatementReturns
  <2> QED BY <2>2, <2>3, <2>4
<1>10. CASE ForThird
  <2>1. /\ stack # << >> /\ Top.function = "for" /\ Top.at = "third"
        /\ CallFrom(Top.function, "step", "expression", token_anchor_set, globals)
    BY <1>10 DEF ForThird, In, Call
  <2>2. Goes(Top.function, "step")
    BY <2>1 DEF Goes, FunctionNames, Callees, StatementFunctions, Points, Level, Expressions
  <2>3. Moves(Top.function, "step", {}, {})
    BY <2>1 DEF Moves, Held, One, Outer, Inner, StatementFunctions, Expressions
  <2>4. Now(Top.function, "step", globals)
    BY <2>1, OnTop DEF Now, Fits, IsParent, IsBody, IsLoop, IsSwitch, IsTry, IsScope,
      IsLinkage, Extends, MayExtend, Expressions, Context
  <2>5. "expression" \in Callees /\ Level("expression") \in {Level(Top.function), "any"}
    BY <2>1 DEF Callees, Level, Expressions, StatementFunctions
  <2> QED BY <2>1, <2>2, <2>3, <2>4, <2>5, AnchorsKept, CallsAt
<1>11. CASE ForBody
  <2>1. stack # << >> /\ Top.function = "for" /\ Top.at \in {"third", "step"}
    BY <1>11 DEF ForBody, In
  <2>2. \/ CallFrom(Top.function, "body", "statement", Minus({")"}), [globals EXCEPT !.loop = Me])
        \/ ReturnStatement("invalid", Minus({")"}), [POP_PARENT EXCEPT !.scope = Top.found.scope])
    BY <1>11 DEF ForBody, Call, BrokenFor, LoopBody, Minus
  <2>3. CASE CallFrom(Top.function, "body", "statement",
                      Minus({")"}), [globals EXCEPT !.loop = Me])
    <3>1. Goes(Top.function, "body")
      BY <2>1, <2>3 DEF Goes, FunctionNames, Callees, StatementFunctions, Points, Level,
        Expressions
    <3>2. Moves(Top.function, "body", {}, {")"})
      BY <2>1, <2>3 DEF Moves, Held, One, Outer, Inner, StatementFunctions, Expressions
    <3>3. Now(Top.function, "body", [globals EXCEPT !.loop = Me])
      BY <2>1, <2>3, OnTop DEF Now, Fits, IsParent, IsBody, IsLoop, IsSwitch, IsTry,
        IsScope, IsLinkage, Extends, MayExtend, Expressions, Context, Globals
    <3>4. "statement" \in Callees /\ Level("statement") \in {Level(Top.function), "any"}
      BY <2>1, <2>3 DEF Callees, Level, Expressions, StatementFunctions
    <3> QED BY <2>1, <2>3, <3>1, <3>2, <3>3, <3>4, AnchorsRemoved, CallsAt
  <2>4. CASE ReturnStatement("invalid",
                             Minus({")"}), [POP_PARENT EXCEPT !.scope = Top.found.scope])
    <3>1. Moves("returned", "returned", {}, {")"} \cup {"semicolon"})
      BY <2>1, <2>4 DEF Moves, Held, One, Outer, Inner, StatementFunctions, Expressions
    <3>2. Now("returned", "returned", [POP_PARENT EXCEPT !.scope = Top.found.scope])
      BY <2>1, <2>4, OnTop DEF Now, Fits, IsParent, IsBody, IsLoop, IsSwitch, IsTry,
        IsScope, IsLinkage, Extends, MayExtend, Expressions, Context, Globals, POP_PARENT
    <3>3. "semicolon" \notin {")"}
      OBVIOUS
    <3> QED BY <2>1, <2>4, <3>1, <3>2, <3>3, AnchorsRemoved, StatementReturns
  <2> QED BY <2>2, <2>3, <2>4
<1>12. CASE EndOfFor
  <2>1. /\ stack # << >> /\ Top.function = "for" /\ Top.at = "body"
        /\ ReturnStatement("ok", token_anchor_set,
                           [POP_PARENT EXCEPT !.scope = Top.found.scope, !.loop = Top.found.loop])
    BY <1>12 DEF EndOfFor, In
  <2>2. Moves("returned", "returned", {}, {} \cup {"semicolon"})
    BY <2>1 DEF Moves, Held, One, Outer, Inner, StatementFunctions, Expressions
  <2>3. Now("returned", "returned", [POP_PARENT EXCEPT !.scope = Top.found.scope, !.loop =
    Top.found.loop])
    BY <2>1, OnTop DEF Now, Fits, IsParent, IsBody, IsLoop, IsSwitch, IsTry, IsScope,
      IsLinkage, Extends, MayExtend, Expressions, Context, Globals, POP_PARENT
  <2> QED BY <2>1, <2>2, <2>3, AnchorsKept, StatementReturns
<1> QED BY <1>1, <1>2, <1>3, <1>4, <1>5, <1>6, <1>7, <1>8, <1>9, <1>10, <1>11, <1>12

\* switch and labels.
LEMMA SwitchKeeps ==
  ASSUME Context, slips' = {},
         SwitchBody \/ EndOfSwitch \/ CaseValue \/ CaseColon \/ LabelInner \/ EndOfLabel
  PROVE  Kept
<1>1. CASE SwitchBody
  <2>1. /\ stack # << >> /\ Top.function = "switch" /\ Top.at = "condition"
        /\ CallFrom(Top.function, "body", "statement",
                    Minus({")"}), [globals EXCEPT !.switch = Me])
    BY <1>1 DEF SwitchBody, In, Call, Missing, MissingBefore, Invalid, ReturnStatement,
      Return, Note, Made
  <2>2. Goes(Top.function, "body")
    BY <2>1 DEF Goes, FunctionNames, Callees, StatementFunctions, Points, Level, Expressions
  <2>3. Moves(Top.function, "body", {}, {")"})
    BY <2>1 DEF Moves, Held, One, Outer, Inner, StatementFunctions, Expressions
  <2>4. Now(Top.function, "body", [globals EXCEPT !.switch = Me])
    BY <2>1, OnTop DEF Now, Fits, IsParent, IsBody, IsLoop, IsSwitch, IsTry, IsScope,
      IsLinkage, Extends, MayExtend, Expressions, Context, Globals
  <2>5. "statement" \in Callees /\ Level("statement") \in {Level(Top.function), "any"}
    BY <2>1 DEF Callees, Level, Expressions, StatementFunctions
  <2> QED BY <2>1, <2>2, <2>3, <2>4, <2>5, AnchorsRemoved, CallsAt
<1>2. CASE EndOfSwitch
  <2>1. /\ stack # << >> /\ Top.function = "switch" /\ Top.at = "body"
        /\ ReturnStatement("ok", token_anchor_set,
                           [POP_PARENT EXCEPT !.switch = Top.found.switch])
    BY <1>2 DEF EndOfSwitch, In
  <2>2. Moves("returned", "returned", {}, {} \cup {"semicolon"})
    BY <2>1 DEF Moves, Held, One, Outer, Inner, StatementFunctions, Expressions
  <2>3. Now("returned", "returned", [POP_PARENT EXCEPT !.switch = Top.found.switch])
    BY <2>1, OnTop DEF Now, Fits, IsParent, IsBody, IsLoop, IsSwitch, IsTry, IsScope,
      IsLinkage, Extends, MayExtend, Expressions, Context, Globals, POP_PARENT
  <2> QED BY <2>1, <2>2, <2>3, AnchorsKept, StatementReturns
<1>3. CASE CaseValue
  <2>1. /\ stack # << >> /\ Top.function = "case" /\ Top.at = "keyword"
        /\ CallFrom(Top.function, "value", "expression", token_anchor_set, globals)
    BY <1>3 DEF CaseValue, In, Call
  <2>2. Goes(Top.function, "value")
    BY <2>1 DEF Goes, FunctionNames, Callees, StatementFunctions, Points, Level, Expressions
  <2>3. Moves(Top.function, "value", {}, {})
    BY <2>1 DEF Moves, Held, One, Outer, Inner, StatementFunctions, Expressions
  <2>4. Now(Top.function, "value", globals)
    BY <2>1, OnTop DEF Now, Fits, IsParent, IsBody, IsLoop, IsSwitch, IsTry, IsScope,
      IsLinkage, Extends, MayExtend, Expressions, Context
  <2>5. "expression" \in Callees /\ Level("expression") \in {Level(Top.function), "any"}
    BY <2>1 DEF Callees, Level, Expressions, StatementFunctions
  <2> QED BY <2>1, <2>2, <2>3, <2>4, <2>5, AnchorsKept, CallsAt
<1>4. CASE CaseColon
  <2>1. stack # << >>
    BY <1>4 DEF CaseColon, In
  <2>2. \/ /\ Top.function = "case" /\ Top.at = "value"
           /\ Stay(Top.function, "inner", token_anchor_set, PUSH_PARENT)
        \/ /\ Top.function = "default" /\ Top.at = "keyword"
           /\ Stay(Top.function, "inner", token_anchor_set, PUSH_PARENT)
    BY <1>4 DEF CaseColon, In
  <2>3. CASE /\ Top.function = "case" /\ Top.at = "value"
             /\ Stay(Top.function, "inner", token_anchor_set, PUSH_PARENT)
    <3>1. Goes(Top.function, "inner")
      BY <2>1, <2>3 DEF Goes, FunctionNames, Callees, StatementFunctions, Points, Level,
        Expressions
    <3>2. Moves(Top.function, "inner", {}, {})
      BY <2>1, <2>3 DEF Moves, Held, One, Outer, Inner, StatementFunctions, Expressions
    <3>3. Now(Top.function, "inner", PUSH_PARENT)
      BY <2>1, <2>3, OnTop DEF Now, Fits, IsParent, IsBody, IsLoop, IsSwitch, IsTry,
        IsScope, IsLinkage, Extends, MayExtend, Expressions, Context, Globals, PUSH_PARENT
    <3> QED BY <2>1, <2>3, <3>1, <3>2, <3>3, AnchorsKept, StaysAt
  <2>4. CASE /\ Top.function = "default" /\ Top.at = "keyword"
             /\ Stay(Top.function, "inner", token_anchor_set, PUSH_PARENT)
    <3>1. Goes(Top.function, "inner")
      BY <2>1, <2>4 DEF Goes, FunctionNames, Callees, StatementFunctions, Points, Level,
        Expressions
    <3>2. Moves(Top.function, "inner", {}, {})
      BY <2>1, <2>4 DEF Moves, Held, One, Outer, Inner, StatementFunctions, Expressions
    <3>3. Now(Top.function, "inner", PUSH_PARENT)
      BY <2>1, <2>4, OnTop DEF Now, Fits, IsParent, IsBody, IsLoop, IsSwitch, IsTry,
        IsScope, IsLinkage, Extends, MayExtend, Expressions, Context, Globals, PUSH_PARENT
    <3> QED BY <2>1, <2>4, <3>1, <3>2, <3>3, AnchorsKept, StaysAt
  <2> QED BY <2>2, <2>3, <2>4
<1>5. CASE LabelInner
  <2>1. /\ stack # << >> /\ Top.function \in {"label", "case", "default"} /\ Top.at = "inner"
        /\ CallFrom(Top.function, "end", "statement", token_anchor_set, globals)
    BY <1>5 DEF LabelInner, In, Call
  <2>2. Goes(Top.function, "end")
    BY <2>1 DEF Goes, FunctionNames, Callees, StatementFunctions, Points, Level, Expressions
  <2>3. Moves(Top.function, "end", {}, {})
    BY <2>1 DEF Moves, Held, One, Outer, Inner, StatementFunctions, Expressions
  <2>4. Now(Top.function, "end", globals)
    BY <2>1, OnTop DEF Now, Fits, IsParent, IsBody, IsLoop, IsSwitch, IsTry, IsScope,
      IsLinkage, Extends, MayExtend, Expressions, Context
  <2>5. "statement" \in Callees /\ Level("statement") \in {Level(Top.function), "any"}
    BY <2>1 DEF Callees, Level, Expressions, StatementFunctions
  <2> QED BY <2>1, <2>2, <2>3, <2>4, <2>5, AnchorsKept, CallsAt
<1>6. CASE EndOfLabel
  <2>1. /\ stack # << >> /\ Top.function \in {"label", "case", "default"}
        /\ Top.at \in {"inner", "end"}
        /\ ReturnStatement("ok", token_anchor_set, POP_PARENT)
    BY <1>6 DEF EndOfLabel, In
  <2>2. Moves("returned", "returned", {}, {} \cup {"semicolon"})
    BY <2>1 DEF Moves, Held, One, Outer, Inner, StatementFunctions, Expressions
  <2>3. Now("returned", "returned", POP_PARENT)
    BY <2>1, OnTop DEF Now, Fits, IsParent, IsBody, IsLoop, IsSwitch, IsTry, IsScope,
      IsLinkage, Extends, MayExtend, Expressions, Context, Globals, POP_PARENT
  <2> QED BY <2>1, <2>2, <2>3, AnchorsKept, StatementReturns
<1> QED BY <1>1, <1>2, <1>3, <1>4, <1>5, <1>6

\* Jumps and expression statements.
LEMMA JumpKeeps ==
  ASSUME Context, slips' = {},
         Goto \/ NoGoto \/ ReturnValue \/ Semicolon
  PROVE  Kept
<1>1. CASE Goto
  <2>1. /\ stack # << >> /\ Top.function = "goto" /\ Top.at = "keyword"
        /\ Stay("goto", "semicolon", token_anchor_set, globals)
    BY <1>1 DEF Goto, In
  <2>2. Goes("goto", "semicolon")
    BY <2>1 DEF Goes, FunctionNames, Callees, StatementFunctions, Points, Level, Expressions
  <2>3. Moves("goto", "semicolon", {}, {})
    BY <2>1 DEF Moves, Held, One, Outer, Inner, StatementFunctions, Expressions
  <2>4. Now("goto", "semicolon", globals)
    BY <2>1, OnTop DEF Now, Fits, IsParent, IsBody, IsLoop, IsSwitch, IsTry, IsScope,
      IsLinkage, Extends, MayExtend, Expressions, Context
  <2> QED BY <2>1, <2>2, <2>3, <2>4, AnchorsKept, StaysAt
<1>2. CASE NoGoto
  <2>1. /\ stack # << >> /\ Top.function = "goto" /\ Top.at = "keyword"
        /\ ReturnStatement("invalid", token_anchor_set, globals)
    BY <1>2 DEF NoGoto, In
  <2>2. Moves("returned", "returned", {}, {} \cup {"semicolon"})
    BY <2>1 DEF Moves, Held, One, Outer, Inner, StatementFunctions, Expressions
  <2>3. Now("returned", "returned", globals)
    BY <2>1, OnTop DEF Now, Fits, IsParent, IsBody, IsLoop, IsSwitch, IsTry, IsScope,
      IsLinkage, Extends, MayExtend, Expressions, Context
  <2> QED BY <2>1, <2>2, <2>3, AnchorsKept, StatementReturns
<1>3. CASE ReturnValue
  <2>1. /\ stack # << >> /\ Top.function = "return" /\ Top.at = "keyword"
        /\ CallFrom(Top.function, "semicolon", "expression", token_anchor_set, globals)
    BY <1>3 DEF ReturnValue, In, Call
  <2>2. Goes(Top.function, "semicolon")
    BY <2>1 DEF Goes, FunctionNames, Callees, StatementFunctions, Points, Level, Expressions
  <2>3. Moves(Top.function, "semicolon", {}, {})
    BY <2>1 DEF Moves, Held, One, Outer, Inner, StatementFunctions, Expressions
  <2>4. Now(Top.function, "semicolon", globals)
    BY <2>1, OnTop DEF Now, Fits, IsParent, IsBody, IsLoop, IsSwitch, IsTry, IsScope,
      IsLinkage, Extends, MayExtend, Expressions, Context
  <2>5. "expression" \in Callees /\ Level("expression") \in {Level(Top.function), "any"}
    BY <2>1 DEF Callees, Level, Expressions, StatementFunctions
  <2> QED BY <2>1, <2>2, <2>3, <2>4, <2>5, AnchorsKept, CallsAt
<1>4. CASE Semicolon
  <2>1. /\ stack # << >> /\ Top.function \in {"break", "return", "goto", "expression_statement"}
        /\ Top.at \in {"keyword", "semicolon", "wrapped"}
        /\ ReturnStatement("ok", token_anchor_set, globals)
    BY <1>4 DEF Semicolon, In
  <2>2. Moves("returned", "returned", {}, {} \cup {"semicolon"})
    BY <2>1 DEF Moves, Held, One, Outer, Inner, StatementFunctions, Expressions
  <2>3. Now("returned", "returned", globals)
    BY <2>1, OnTop DEF Now, Fits, IsParent, IsBody, IsLoop, IsSwitch, IsTry, IsScope,
      IsLinkage, Extends, MayExtend, Expressions, Context
  <2> QED BY <2>1, <2>2, <2>3, AnchorsKept, StatementReturns
<1> QED BY <1>1, <1>2, <1>3, <1>4

\* __try.
LEMMA TryKeeps ==
  ASSUME Context, slips' = {},
         Try \/ Tried \/ Finally \/ Except \/ ExceptFilter \/ EndOfFilter \/ ExceptHandler
           \/ EndOfTry
  PROVE  Kept
<1>1. CASE Try
  <2>1. /\ stack # << >> /\ Top.function = "__try" /\ Top.at = "keyword"
        /\ CallFrom(Top.function, "tried", "compound", token_anchor_set,
                    [globals EXCEPT !.try = Me])
    BY <1>1 DEF Try, In, Call
  <2>2. Goes(Top.function, "tried")
    BY <2>1 DEF Goes, FunctionNames, Callees, StatementFunctions, Points, Level, Expressions
  <2>3. Moves(Top.function, "tried", {}, {})
    BY <2>1 DEF Moves, Held, One, Outer, Inner, StatementFunctions, Expressions
  <2>4. Now(Top.function, "tried", [globals EXCEPT !.try = Me])
    BY <2>1, OnTop DEF Now, Fits, IsParent, IsBody, IsLoop, IsSwitch, IsTry, IsScope,
      IsLinkage, Extends, MayExtend, Expressions, Context, Globals
  <2>5. "compound" \in Callees /\ Level("compound") \in {Level(Top.function), "any"}
    BY <2>1 DEF Callees, Level, Expressions, StatementFunctions
  <2> QED BY <2>1, <2>2, <2>3, <2>4, <2>5, AnchorsKept, CallsAt
<1>2. CASE Tried
  <2>1. /\ stack # << >> /\ Top.function = "__try" /\ Top.at = "tried"
        /\ Stay("__try", "handlers", token_anchor_set, [POP_PARENT EXCEPT !.try = Top.found.try])
    BY <1>2 DEF Tried, In
  <2>2. Goes("__try", "handlers")
    BY <2>1 DEF Goes, FunctionNames, Callees, StatementFunctions, Points, Level, Expressions
  <2>3. Moves("__try", "handlers", {}, {})
    BY <2>1 DEF Moves, Held, One, Outer, Inner, StatementFunctions, Expressions
  <2>4. Now("__try", "handlers", [POP_PARENT EXCEPT !.try = Top.found.try])
    BY <2>1, OnTop DEF Now, Fits, IsParent, IsBody, IsLoop, IsSwitch, IsTry, IsScope,
      IsLinkage, Extends, MayExtend, Expressions, Context, Globals, POP_PARENT
  <2> QED BY <2>1, <2>2, <2>3, <2>4, AnchorsKept, StaysAt
<1>3. CASE Finally
  <2>1. /\ stack # << >> /\ Top.function = "__try" /\ Top.at = "handlers"
        /\ CallFrom(Top.function, "handled", "compound", token_anchor_set, globals)
    BY <1>3 DEF Finally, In, Call
  <2>2. Goes(Top.function, "handled")
    BY <2>1 DEF Goes, FunctionNames, Callees, StatementFunctions, Points, Level, Expressions
  <2>3. Moves(Top.function, "handled", {}, {})
    BY <2>1 DEF Moves, Held, One, Outer, Inner, StatementFunctions, Expressions
  <2>4. Now(Top.function, "handled", globals)
    BY <2>1, OnTop DEF Now, Fits, IsParent, IsBody, IsLoop, IsSwitch, IsTry, IsScope,
      IsLinkage, Extends, MayExtend, Expressions, Context
  <2>5. "compound" \in Callees /\ Level("compound") \in {Level(Top.function), "any"}
    BY <2>1 DEF Callees, Level, Expressions, StatementFunctions
  <2> QED BY <2>1, <2>2, <2>3, <2>4, <2>5, AnchorsKept, CallsAt
<1>4. CASE Except
  <2>1. /\ stack # << >> /\ Top.function = "__try" /\ Top.at = "handlers"
        /\ Stay("__try", "except", token_anchor_set, globals)
    BY <1>4 DEF Except, In
  <2>2. Goes("__try", "except")
    BY <2>1 DEF Goes, FunctionNames, Callees, StatementFunctions, Points, Level, Expressions
  <2>3. Moves("__try", "except", {}, {})
    BY <2>1 DEF Moves, Held, One, Outer, Inner, StatementFunctions, Expressions
  <2>4. Now("__try", "except", globals)
    BY <2>1, OnTop DEF Now, Fits, IsParent, IsBody, IsLoop, IsSwitch, IsTry, IsScope,
      IsLinkage, Extends, MayExtend, Expressions, Context
  <2> QED BY <2>1, <2>2, <2>3, <2>4, AnchorsKept, StaysAt
<1>5. CASE ExceptFilter
  <2>1. stack # << >> /\ Top.function = "__try" /\ Top.at = "except"
    BY <1>5 DEF ExceptFilter, In
  <2>2. \/ CallFrom(Top.function, "filter", "expression", Plus({")"}), globals)
        \/ ReturnStatement("invalid", token_anchor_set, globals)
    BY <1>5 DEF ExceptFilter, Call
  <2>3. CASE CallFrom(Top.function, "filter", "expression", Plus({")"}), globals)
    <3>1. Goes(Top.function, "filter")
      BY <2>1, <2>3 DEF Goes, FunctionNames, Callees, StatementFunctions, Points, Level,
        Expressions
    <3>2. Moves(Top.function, "filter", {")"}, {})
      BY <2>1, <2>3 DEF Moves, Held, One, Outer, Inner, StatementFunctions, Expressions
    <3>3. Now(Top.function, "filter", globals)
      BY <2>1, <2>3, OnTop DEF Now, Fits, IsParent, IsBody, IsLoop, IsSwitch, IsTry,
        IsScope, IsLinkage, Extends, MayExtend, Expressions, Context
    <3>4. "expression" \in Callees /\ Level("expression") \in {Level(Top.function), "any"}
      BY <2>1, <2>3 DEF Callees, Level, Expressions, StatementFunctions
    <3> QED BY <2>1, <2>3, <3>1, <3>2, <3>3, <3>4, AnchorsAdded, CallsAt
  <2>4. CASE ReturnStatement("invalid", token_anchor_set, globals)
    <3>1. Moves("returned", "returned", {}, {} \cup {"semicolon"})
      BY <2>1, <2>4 DEF Moves, Held, One, Outer, Inner, StatementFunctions, Expressions
    <3>2. Now("returned", "returned", globals)
      BY <2>1, <2>4, OnTop DEF Now, Fits, IsParent, IsBody, IsLoop, IsSwitch, IsTry,
        IsScope, IsLinkage, Extends, MayExtend, Expressions, Context
    <3> QED BY <2>1, <2>4, <3>1, <3>2, AnchorsKept, StatementReturns
  <2> QED BY <2>2, <2>3, <2>4
<1>6. CASE EndOfFilter
  <2>1. /\ stack # << >> /\ Top.function = "__try" /\ Top.at = "filter"
        /\ Stay("__try", "closing", Minus({")"}), globals)
    BY <1>6 DEF EndOfFilter, In
  <2>2. Goes("__try", "closing")
    BY <2>1 DEF Goes, FunctionNames, Callees, StatementFunctions, Points, Level, Expressions
  <2>3. Moves("__try", "closing", {}, {")"})
    BY <2>1 DEF Moves, Held, One, Outer, Inner, StatementFunctions, Expressions
  <2>4. Now("__try", "closing", globals)
    BY <2>1, OnTop DEF Now, Fits, IsParent, IsBody, IsLoop, IsSwitch, IsTry, IsScope,
      IsLinkage, Extends, MayExtend, Expressions, Context
  <2> QED BY <2>1, <2>2, <2>3, <2>4, AnchorsRemoved, StaysAt
<1>7. CASE ExceptHandler
  <2>1. stack # << >> /\ Top.function = "__try" /\ Top.at = "closing"
    BY <1>7 DEF ExceptHandler, In
  <2>2. \/ CallFrom(Top.function, "handled", "compound", token_anchor_set, globals)
        \/ ReturnStatement("invalid", token_anchor_set, globals)
    BY <1>7 DEF ExceptHandler, Call
  <2>3. CASE CallFrom(Top.function, "handled", "compound", token_anchor_set, globals)
    <3>1. Goes(Top.function, "handled")
      BY <2>1, <2>3 DEF Goes, FunctionNames, Callees, StatementFunctions, Points, Level,
        Expressions
    <3>2. Moves(Top.function, "handled", {}, {})
      BY <2>1, <2>3 DEF Moves, Held, One, Outer, Inner, StatementFunctions, Expressions
    <3>3. Now(Top.function, "handled", globals)
      BY <2>1, <2>3, OnTop DEF Now, Fits, IsParent, IsBody, IsLoop, IsSwitch, IsTry,
        IsScope, IsLinkage, Extends, MayExtend, Expressions, Context
    <3>4. "compound" \in Callees /\ Level("compound") \in {Level(Top.function), "any"}
      BY <2>1, <2>3 DEF Callees, Level, Expressions, StatementFunctions
    <3> QED BY <2>1, <2>3, <3>1, <3>2, <3>3, <3>4, AnchorsKept, CallsAt
  <2>4. CASE ReturnStatement("invalid", token_anchor_set, globals)
    <3>1. Moves("returned", "returned", {}, {} \cup {"semicolon"})
      BY <2>1, <2>4 DEF Moves, Held, One, Outer, Inner, StatementFunctions, Expressions
    <3>2. Now("returned", "returned", globals)
      BY <2>1, <2>4, OnTop DEF Now, Fits, IsParent, IsBody, IsLoop, IsSwitch, IsTry,
        IsScope, IsLinkage, Extends, MayExtend, Expressions, Context
    <3> QED BY <2>1, <2>4, <3>1, <3>2, AnchorsKept, StatementReturns
  <2> QED BY <2>2, <2>3, <2>4
<1>8. CASE EndOfTry
  <2>1. stack # << >> /\ Top.function = "__try" /\ Top.at \in {"handled", "handlers"}
    BY <1>8 DEF EndOfTry, In
  <2>2. \/ ReturnStatement("ok", token_anchor_set, globals)
        \/ ReturnStatement("invalid", token_anchor_set, globals)
    BY <1>8 DEF EndOfTry
  <2>3. CASE ReturnStatement("ok", token_anchor_set, globals)
    <3>1. Moves("returned", "returned", {}, {} \cup {"semicolon"})
      BY <2>1, <2>3 DEF Moves, Held, One, Outer, Inner, StatementFunctions, Expressions
    <3>2. Now("returned", "returned", globals)
      BY <2>1, <2>3, OnTop DEF Now, Fits, IsParent, IsBody, IsLoop, IsSwitch, IsTry,
        IsScope, IsLinkage, Extends, MayExtend, Expressions, Context
    <3> QED BY <2>1, <2>3, <3>1, <3>2, AnchorsKept, StatementReturns
  <2>4. CASE ReturnStatement("invalid", token_anchor_set, globals)
    <3>1. Moves("returned", "returned", {}, {} \cup {"semicolon"})
      BY <2>1, <2>4 DEF Moves, Held, One, Outer, Inner, StatementFunctions, Expressions
    <3>2. Now("returned", "returned", globals)
      BY <2>1, <2>4, OnTop DEF Now, Fits, IsParent, IsBody, IsLoop, IsSwitch, IsTry,
        IsScope, IsLinkage, Extends, MayExtend, Expressions, Context
    <3> QED BY <2>1, <2>4, <3>1, <3>2, AnchorsKept, StatementReturns
  <2> QED BY <2>2, <2>3, <2>4
<1> QED BY <1>1, <1>2, <1>3, <1>4, <1>5, <1>6, <1>7, <1>8

-----------------------------------------------------------------------------
(***************************************************************************)
(* The globals name the innermost constructs: a global is what the last    *)
(* function has made it that names itself in it, or that clears it.        *)
(***************************************************************************)
LEMMA Least ==
  ASSUME NEW S \in SUBSET Nat, S # {}
  PROVE  \E n \in S : \A m \in S : n <= m
<1> DEFINE Less == { ss \in Nat \X Nat : ss[1] < ss[2] }
<1>1. IsWellFoundedOn(Less, Nat)
  BY NatLessThanWellFounded DEF OpToRel
<1>2. PICK n \in S : \A m \in S : << m, n >> \notin Less
  <2> HIDE DEF Less
  <2> QED BY <1>1, WFMin
<1>3. ASSUME NEW m \in S  PROVE n <= m
  <2>1. << m, n >> \notin Less /\ << m, n >> \in Nat \X Nat
    BY <1>2
  <2>2. ~ (<< m, n >>[1] < << m, n >>[2])
    BY <2>1, Zenon
  <2> QED BY <2>2
<1> QED BY <1>3

LEMMA LastPlace ==
  ASSUME NEW n \in Nat, NEW T
  PROVE  \E a \in 0 .. n : (a = 0 \/ a \in T) /\ \A i \in 1 .. n : i > a => i \notin T
<1> DEFINE D == { d \in 0 .. n : n - d = 0 \/ n - d \in T }
<1>1. n \in D /\ D \in SUBSET Nat
  OBVIOUS
<1>2. PICK d \in D : \A m \in D : d <= m
  <2> HIDE DEF D
  <2> QED BY <1>1, Least
<1>3. n - d \in 0 .. n /\ (n - d = 0 \/ n - d \in T)
  BY <1>2
<1>4. ASSUME NEW i \in 1 .. n, i > n - d, i \in T  PROVE FALSE
  <2>1. n - i \in 0 .. n /\ n - (n - i) = i
    OBVIOUS
  <2>2. n - i \in D
    BY <1>4, <2>1
  <2>3. d <= n - i /\ d \in Int
    BY <1>2, <2>2
  <2> QED BY <1>4, <2>3
<1> QED BY <1>3, <1>4

LEMMA Constantly ==
  ASSUME NEW n \in Nat, NEW v, NEW a \in 0 .. n, \A i \in 1 .. n : i > a => v[i] = v[i - 1]
  PROVE  v[n] = v[a]
<1> DEFINE D == { i \in 0 .. n : i >= a /\ v[i] # v[a] }
<1>1. ASSUME D # {}  PROVE FALSE
  <2>1. D \in SUBSET Nat
    OBVIOUS
  <2>2. PICK b \in D : \A m \in D : b <= m
    <3> HIDE DEF D
    <3> QED BY <1>1, <2>1, Least
  <2>3. b \in 1 .. n /\ b > a /\ b - 1 \in 0 .. n /\ b - 1 >= a
    BY <2>2
  <2>4. v[b] = v[b - 1]
    BY <2>3
  <2>5. b - 1 \in D
    BY <2>2, <2>3, <2>4
  <2>6. b <= b - 1
    BY <2>2, <2>5
  <2> QED BY <2>3, <2>6
<1> QED BY <1>1

\* v[i] is i where i is in S, nothing where it is in R, and else what v was.
LEMMA LastOf ==
  ASSUME NEW n \in Nat, NEW v, NEW S \in SUBSET (1 .. n), NEW R \in SUBSET (1 .. n),
         NEW f \in 0 .. n, f = 0 \/ f \in R, \A r \in R : r <= f,
         v[0] = 0, S \cap R = {},
         \A i \in 1 .. n : v[i] = IF i \in S THEN i ELSE IF i \in R THEN 0 ELSE v[i - 1]
  PROVE  /\ v[n] \in { p \in S : p > f } \cup {0}
         /\ \A p \in S : p > f => p <= v[n]
<1>1. PICK a \in 0 .. n : (a = 0 \/ a \in S \cup R) /\ \A i \in 1 .. n : i > a => i \notin S \cup R
  BY LastPlace
<1>2. \A i \in 1 .. n : i > a => v[i] = v[i - 1]
  BY <1>1
<1>3. v[n] = v[a]
  BY <1>2, Constantly
<1>4. \A p \in S \cup R : p <= a /\ p \in Int
  BY <1>1
<1>5. CASE a = 0
  BY <1>3, <1>4, <1>5
<1>6. CASE a \in S
  <2>1. v[a] = a
    BY <1>6
  <2>2. f < a
    BY <1>4, <1>6
  <2> QED BY <1>3, <1>4, <1>6, <2>1, <2>2
<1>7. CASE a \in R
  <2>1. v[a] = 0
    BY <1>7
  <2>2. a <= f
    BY <1>7
  <2> QED BY <1>3, <1>4, <2>1, <2>2
<1> QED BY <1>1, <1>5, <1>6, <1>7

LEMMA LastOfAll ==
  ASSUME NEW n \in Nat, NEW v, NEW S \in SUBSET (1 .. n), v[0] = 0,
         \A i \in 1 .. n : v[i] = IF i \in S THEN i ELSE v[i - 1]
  PROVE  v[n] \in S \cup {0} /\ \A p \in S : p <= v[n]
<1> DEFINE R == {}
<1>1. R \in SUBSET (1 .. n) /\ 0 \in 0 .. n /\ (\A r \in R : r <= 0) /\ S \cap R = {}
  OBVIOUS
<1>2. \A i \in 1 .. n : v[i] = IF i \in S THEN i ELSE IF i \in R THEN 0 ELSE v[i - 1]
  OBVIOUS
<1> HIDE DEF R
<1>3. v[n] \in { p \in S : p > 0 } \cup {0} /\ \A p \in S : p > 0 => p <= v[n]
  BY <1>1, <1>2, LastOf
<1>4. \A p \in S : p > 0
  OBVIOUS
<1> QED BY <1>3, <1>4

LEMMA IsInnermost ==
  ASSUME NEW P \in SUBSET Nat, NEW m \in P \cup {0}, \A p \in P : p <= m
  PROVE  Innermost(P) = m
<1> DEFINE Q == P \cup {0}
           x == CHOOSE y \in Q : \A p \in Q : y >= p
<1>1. Q \in SUBSET Nat /\ m \in Q /\ \A p \in Q : m >= p
  OBVIOUS
<1> HIDE DEF Q
<1>2. x \in Q /\ \A p \in Q : x >= p
  BY <1>1
<1> HIDE DEF x
<1>3. x = m
  BY <1>1, <1>2
<1>4. Innermost(P) = x
  BY DEF Innermost, Max, Null, Q, x
<1> QED BY <1>3, <1>4

\* The globals before and behind each active function.
LEMMA Chain ==
  ASSUME Context
  PROVE  \E V : /\ V[Me] = globals /\ NoConstruct(V[0])
                /\ \A i \in 1 .. Me :
                     /\ FoundOK(Level(stack[i].function), V[i - 1])
                     /\ Fits(stack[i].function, stack[i].at, V[i - 1], i, V[i])
<1> DEFINE first == IF stack = << >> THEN globals ELSE stack[1].found
           V == [i \in 0 .. Me |-> IF i = 0 THEN first ELSE Left(i)]
<1>1. Me \in Nat /\ (Me = 0 <=> stack = << >>)
  BY DEF Context, Me
<1>2. Me \in 0 .. Me /\ 0 \in 0 .. Me
  BY <1>1
<1>3. V[Me] = globals /\ NoConstruct(V[0])
  BY <1>1, <1>2 DEF Context, Left
<1>4. \A i \in 1 .. Me : i - 1 \in 0 .. Me /\ i \in 0 .. Me
        /\ i # 0 /\ i - 1 # Me /\ (i - 1) + 1 = i
  BY <1>1
<1>5. \A i \in 1 .. Me : V[i - 1] = stack[i].found /\ V[i] = Left(i)
  BY <1>1, <1>4 DEF Left
<1> HIDE DEF V
<1> QED BY <1>3, <1>5 DEF Context

LEMMA FunctionIsLast ==
  ASSUME Context
  PROVE  /\ globals.function = Function /\ Function \in 0 .. Me
         /\ Function = 0 \/ Function \in Places({"declaration"}, {"body"})
         /\ \A p \in Places({"declaration"}, {"body"}) : p <= Function
<1> DEFINE S == Places({"declaration"}, {"body"})
<1>1. Me \in Nat /\ S \in SUBSET (1 .. Me) /\ S \in SUBSET Nat
  BY DEF Context, Me, Places
<1>2. PICK V : /\ V[Me] = globals /\ NoConstruct(V[0])
               /\ \A i \in 1 .. Me : Fits(stack[i].function, stack[i].at, V[i - 1], i, V[i])
  BY Chain
<1> DEFINE v == [i \in 0 .. Me |-> V[i].function]
<1>3. \A i \in 1 .. Me : i \in S <=> IsBody(stack[i].function, stack[i].at)
  BY <1>1 DEF Context, Me, Places, IsBody
<1>4. \A i \in 1 .. Me : V[i].function = IF i \in S THEN i ELSE V[i - 1].function
  BY <1>2, <1>3 DEF Fits
<1>5. \A i \in 1 .. Me : i \in 0 .. Me /\ i - 1 \in 0 .. Me
  BY <1>1
<1>6. /\ v[Me] = globals.function /\ v[0] = 0
      /\ \A i \in 1 .. Me : v[i] = IF i \in S THEN i ELSE v[i - 1]
  BY <1>1, <1>2, <1>4, <1>5 DEF NoConstruct, Null
<1> HIDE DEF v, S
<1>7. v[Me] \in S \cup {0} /\ \A p \in S : p <= v[Me]
  BY <1>1, <1>6, LastOfAll
<1>8. Innermost(S) = v[Me]
  BY <1>1, <1>7, IsInnermost
<1>9. Function = v[Me]
  BY <1>8 DEF Function, S
<1> QED BY <1>1, <1>6, <1>7, <1>9 DEF S

\* The one for a global that a function body clears, and the one for others.
LEMMA NamesInFunction ==
  ASSUME Context, NEW v, NEW S \in SUBSET (1 .. Me), NEW m,
         v[Me] = m, v[0] = 0, S \cap Places({"declaration"}, {"body"}) = {},
         \A i \in 1 .. Me :
           v[i] = IF i \in S THEN i
                  ELSE IF i \in Places({"declaration"}, {"body"}) THEN 0 ELSE v[i - 1]
  PROVE  m = Innermost(OfFunction(S))
<1> DEFINE R == Places({"declaration"}, {"body"})
           f == Function
<1>1. Me \in Nat /\ R \in SUBSET (1 .. Me)
  BY DEF Context, Me, Places
<1>2. f \in 0 .. Me /\ (f = 0 \/ f \in R) /\ \A r \in R : r <= f
  BY FunctionIsLast
<1>3. OfFunction(S) = { p \in S : p > f }
  BY DEF OfFunction
<1> HIDE DEF f, R
<1>4. v[Me] \in { p \in S : p > f } \cup {0} /\ \A p \in S : p > f => p <= v[Me]
  <2>1. /\ S \cap R = {}
        /\ \A i \in 1 .. Me : v[i] = IF i \in S THEN i ELSE IF i \in R THEN 0 ELSE v[i - 1]
    BY DEF R
  <2> QED BY <1>1, <1>2, <2>1, LastOf
<1>5. OfFunction(S) \in SUBSET Nat
  <2>1. OfFunction(S) \subseteq S /\ S \subseteq 1 .. Me /\ 1 .. Me \subseteq Nat
    BY <1>1, <1>3
  <2> QED BY <2>1
<1>6. m \in OfFunction(S) \cup {0} /\ \A p \in OfFunction(S) : p <= m
  BY <1>3, <1>4
<1> QED BY <1>5, <1>6, IsInnermost

LEMMA NamesAnywhere ==
  ASSUME Context, NEW v, NEW S \in SUBSET (1 .. Me), NEW m,
         v[Me] = m, v[0] = 0,
         \A i \in 1 .. Me : v[i] = IF i \in S THEN i ELSE v[i - 1]
  PROVE  m = Innermost(S)
<1>1. Me \in Nat /\ S \in SUBSET Nat
  BY DEF Context, Me
<1>2. m \in S \cup {0} /\ \A p \in S : p <= m
  BY <1>1, LastOfAll
<1> QED BY <1>1, <1>2, IsInnermost

LEMMA Lexical ==
  ASSUME Context
  PROVE  ContextIsLexical
<1> DEFINE Bodies == Places({"declaration"}, {"body"})
           Loops == Places({"while", "do", "for"}, {"body"})
           Switches == Places({"switch"}, {"body"})
           Tries == Places({"__try"}, {"tried"})
           Linkages == Places({"linkage"}, {"opening", "closing", "single"})
           Scopes == OtherPlaces({"compound"}, {"start"}) \cup OtherPlaces({"for"}, {"keyword"})
                       \cup Places({"declaration"}, {"body"})
           Parents == OtherPlaces({"compound"}, {"start"})
                        \cup OtherPlaces({"for"}, {"keyword"})
                        \cup OtherPlaces({"if", "while", "switch", "do", "label", "default"}, {})
                        \cup Places({"case"}, {"inner", "end"})
                        \cup Places({"__try"}, {"keyword", "tried"})
<1>1. Me \in Nat /\ DOMAIN stack = 1 .. Me
  BY DEF Context, Me
<1>2. PICK V : /\ V[Me] = globals /\ NoConstruct(V[0])
               /\ \A i \in 1 .. Me :
                    /\ FoundOK(Level(stack[i].function), V[i - 1])
                    /\ Fits(stack[i].function, stack[i].at, V[i - 1], i, V[i])
  BY Chain
<1>3. \A i \in 1 .. Me : i \in 0 .. Me /\ i - 1 \in 0 .. Me
  BY <1>1
<1>4. /\ Loops \in SUBSET (1 .. Me) /\ Switches \in SUBSET (1 .. Me) /\ Tries \in SUBSET (1 .. Me)
      /\ Linkages \in SUBSET (1 .. Me) /\ Scopes \in SUBSET (1 .. Me)
      /\ Parents \in SUBSET (1 .. Me) /\ Bodies \in SUBSET (1 .. Me)
  BY <1>1 DEF Places, OtherPlaces
<1>5. \A i \in 1 .. Me : (i \in Bodies <=> IsBody(stack[i].function, stack[i].at))
  BY <1>1 DEF Places, IsBody
<1>6. \A i \in 1 .. Me :
        /\ i \in Loops <=> IsLoop(stack[i].function, stack[i].at)
        /\ i \in Switches <=> IsSwitch(stack[i].function, stack[i].at)
        /\ i \in Tries <=> IsTry(stack[i].function, stack[i].at)
        /\ i \in Linkages <=> IsLinkage(stack[i].function, stack[i].at)
  BY <1>1 DEF Places, IsLoop, IsSwitch, IsTry, IsLinkage
<1>7. \A i \in 1 .. Me : i \in Scopes <=> IsScope(stack[i].function, stack[i].at)
  BY <1>1 DEF Places, OtherPlaces, IsScope, IsBody
<1>8. \A i \in 1 .. Me : i \in Parents <=> IsParent(stack[i].function, stack[i].at)
  BY <1>1 DEF Places, OtherPlaces, IsParent
<1>9. /\ Loops \cap Bodies = {} /\ Switches \cap Bodies = {} /\ Tries \cap Bodies = {}
      /\ Parents \cap Bodies = {}
  BY <1>4, <1>5, <1>6, <1>8 DEF IsBody, IsLoop, IsSwitch, IsTry, IsParent
<1>10. \A i \in Bodies : V[i - 1].loop = 0 /\ V[i - 1].switch = 0 /\ V[i - 1].try = 0
  BY <1>2, <1>4, <1>5 DEF Fits, FoundOK, Null
<1> HIDE DEF Loops, Switches, Tries, Linkages, Scopes, Parents
<1>11. globals.function = Function
  BY FunctionIsLast
<1>12. Function # Null => globals.jumps = Function
  BY <1>11 DEF Context
<1>13. globals.loop = Innermost(OfFunction(Loops))
  <2> DEFINE v == [i \in 0 .. Me |-> V[i].loop]
  <2>1. v[Me] = globals.loop /\ v[0] = 0
    BY <1>1, <1>2 DEF NoConstruct, Null
  <2>2. \A i \in 1 .. Me : v[i] = IF i \in Loops THEN i ELSE v[i - 1]
    BY <1>2, <1>3, <1>6 DEF Fits
  <2>3. \A i \in Bodies : v[i - 1] = 0
    BY <1>3, <1>4, <1>10
  <2> HIDE DEF v
  <2>4. \A i \in 1 .. Me : v[i] = IF i \in Loops THEN i ELSE IF i \in Bodies THEN 0 ELSE v[i - 1]
    BY <2>2, <2>3
  <2> QED BY <1>4, <1>9, <2>1, <2>4, NamesInFunction
<1>14. globals.switch = Innermost(OfFunction(Switches))
  <2> DEFINE v == [i \in 0 .. Me |-> V[i].switch]
  <2>1. v[Me] = globals.switch /\ v[0] = 0
    BY <1>1, <1>2 DEF NoConstruct, Null
  <2>2. \A i \in 1 .. Me : v[i] = IF i \in Switches THEN i ELSE v[i - 1]
    BY <1>2, <1>3, <1>6 DEF Fits
  <2>3. \A i \in Bodies : v[i - 1] = 0
    BY <1>3, <1>4, <1>10
  <2> HIDE DEF v
  <2>4. \A i \in 1 .. Me : v[i] = IF i \in Switches THEN i ELSE IF i \in Bodies THEN 0 ELSE v[i - 1]
    BY <2>2, <2>3
  <2> QED BY <1>4, <1>9, <2>1, <2>4, NamesInFunction
<1>15. globals.try = Innermost(OfFunction(Tries))
  <2> DEFINE v == [i \in 0 .. Me |-> V[i].try]
  <2>1. v[Me] = globals.try /\ v[0] = 0
    BY <1>1, <1>2 DEF NoConstruct, Null
  <2>2. \A i \in 1 .. Me : v[i] = IF i \in Tries THEN i ELSE v[i - 1]
    BY <1>2, <1>3, <1>6 DEF Fits
  <2>3. \A i \in Bodies : v[i - 1] = 0
    BY <1>3, <1>4, <1>10
  <2> HIDE DEF v
  <2>4. \A i \in 1 .. Me : v[i] = IF i \in Tries THEN i ELSE IF i \in Bodies THEN 0 ELSE v[i - 1]
    BY <2>2, <2>3
  <2> QED BY <1>4, <1>9, <2>1, <2>4, NamesInFunction
<1>16. globals.linkage = Innermost(Linkages)
  <2> DEFINE v == [i \in 0 .. Me |-> V[i].linkage]
  <2>1. v[Me] = globals.linkage /\ v[0] = 0
    BY <1>1, <1>2 DEF NoConstruct, Null
  <2>2. \A i \in 1 .. Me : v[i] = IF i \in Linkages THEN i ELSE v[i - 1]
    BY <1>2, <1>3, <1>6 DEF Fits
  <2> HIDE DEF v
  <2> QED BY <1>4, <2>1, <2>2, NamesAnywhere
<1>17. globals.scope = Innermost(Scopes)
  <2> DEFINE v == [i \in 0 .. Me |-> V[i].scope]
  <2>1. v[Me] = globals.scope /\ v[0] = 0
    BY <1>1, <1>2 DEF NoConstruct, Null
  <2>2. \A i \in 1 .. Me : v[i] = IF i \in Scopes THEN i ELSE v[i - 1]
    BY <1>2, <1>3, <1>7 DEF Fits
  <2> HIDE DEF v
  <2> QED BY <1>4, <2>1, <2>2, NamesAnywhere
<1>18. globals.parent = Innermost(OfFunction(Parents))
  <2> DEFINE v == [i \in 0 .. Me |-> V[i].parent]
  <2>1. v[Me] = globals.parent /\ v[0] = 0
    BY <1>1, <1>2 DEF NoConstruct, Null
  <2>2. \A i \in 1 .. Me :
          v[i] = IF i \in Parents THEN i ELSE IF i \in Bodies THEN 0 ELSE v[i - 1]
    BY <1>2, <1>3, <1>5, <1>8 DEF Fits, Null
  <2> HIDE DEF v
  <2> QED BY <1>4, <1>9, <2>1, <2>2, NamesInFunction
<1> QED BY <1>11, <1>12, <1>13, <1>14, <1>15, <1>16, <1>17, <1>18
        DEF ContextIsLexical, Loops, Switches, Tries, Linkages, Scopes, Parents

-----------------------------------------------------------------------------
(***************************************************************************)
(* The theorems.                                                           *)
(***************************************************************************)
\* No step takes a slip back.
LEMMA StepNotes ==
  ASSUME Next
  PROVE  Note
<1> USE DEF Stay, CallFrom, Call, Return, ReturnStatement, Abort
<1>1. ASSUME Externals \/ External \/ LeakFound \/ EndOfExternals \/ ExternalDeclaration
             \/ Linkage \/ Stray \/ LinkageOpening \/ EndLinkage
      PROVE  Note
  BY <1>1 DEF Externals, External, LeakFound, EndOfExternals, ExternalDeclaration,
    Linkage, Stray, LinkageOpening, EndLinkage
<1>2. ASSUME Specifier \/ EndOfSpecifiers \/ Declarator \/ InnerDeclarator \/ CloseDeclarator
             \/ DeclarationRest \/ ForDeclarationRest \/ NextDeclarator \/ NoFunction
             \/ SkippedBody \/ FunctionBody \/ EndOfFunction
      PROVE  Note
  BY <1>2 DEF Specifier, EndOfSpecifiers, Declarator, InnerDeclarator, CloseDeclarator,
    DeclarationRest, ForDeclarationRest, NextDeclarator, NoFunction,
    SkippedBody, FunctionBody, EndOfFunction
<1>3. ASSUME Primary \/ NoPrimary \/ ExtendedOperand \/ EndOfExtendedOperand
             \/ Parenthesis \/ Cast \/ EndOfCast \/ Parenthesized \/ EndOfParenthesized \/ Closed
             \/ CallOperator \/ Argument \/ NextArgument \/ EndOfArguments \/ Comma
             \/ EndOfExpression
      PROVE  Note
  BY <1>3 DEF Primary, NoPrimary, ExtendedOperand, EndOfExtendedOperand,
    Parenthesis, Cast, EndOfCast, Parenthesized, EndOfParenthesized, Closed,
    CallOperator, Argument, NextArgument, EndOfArguments, Comma, EndOfExpression
<1>4. ASSUME Keyword \/ Label \/ EmptyStatement \/ Wrapped \/ EndOfWrapped \/ Unexpected
             \/ MoreExtension \/ Extended \/ EndOfExtended
             \/ Brace \/ NoBrace \/ InCompound \/ AfterStatement \/ EndOfCompound \/ BrokenCompound
      PROVE  Note
  BY <1>4 DEF Keyword, Label, EmptyStatement, Wrapped, EndOfWrapped, Unexpected,
    MoreExtension, Extended, EndOfExtended, Brace, NoBrace, InCompound, AfterStatement,
    EndOfCompound, BrokenCompound, LeaveCompound
<1>5. ASSUME Opening \/ NoOpening \/ IfNoOpening \/ IfCondition \/ IfThen \/ IfElse \/ EndOfIf
             \/ WhileCondition \/ WhileBody \/ EndOfWhile
             \/ DoBody \/ DoWhile \/ DoOpening \/ DoCondition \/ DoClosing \/ DoSemicolon \/ EndOfDo
      PROVE  Note
  BY <1>5 DEF Opening, NoOpening, IfNoOpening, IfCondition, IfThen, IfElse, EndOfIf,
    WhileCondition, WhileBody, EndOfWhile, DoBody, DoWhile, DoOpening, DoCondition, DoClosing,
    DoSemicolon, EndOfDo, Invalid, LoopBody
<1>6. ASSUME ForOpening \/ ForExtension \/ ForFirst \/ ForDeclared \/ ForInitialised
             \/ ForInitialiser \/ ForSecond \/ ForCondition \/ ForSemicolon \/ ForThird
             \/ ForBody \/ EndOfFor \/ SwitchBody \/ EndOfSwitch
      PROVE  Note
  BY <1>6 DEF ForOpening, ForExtension, ForFirst, ForDeclared, ForInitialised,
    ForInitialiser, ForSecond, ForCondition, ForSemicolon, ForThird,
    ForBody, EndOfFor, SwitchBody, EndOfSwitch, BrokenFor, Invalid, LoopBody
<1>7. ASSUME CaseValue \/ CaseColon \/ LabelInner \/ EndOfLabel \/ Goto \/ NoGoto
             \/ ReturnValue \/ Semicolon \/ Try \/ Tried \/ Finally \/ Except \/ ExceptFilter
             \/ EndOfFilter \/ ExceptHandler \/ EndOfTry
      PROVE  Note
  BY <1>7 DEF CaseValue, CaseColon, LabelInner, EndOfLabel, Goto, NoGoto,
    ReturnValue, Semicolon, Try, Tried, Finally, Except, ExceptFilter,
    EndOfFilter, ExceptHandler, EndOfTry
<1> HIDE DEF Stay, CallFrom, Call, Return, ReturnStatement, Abort
<1> QED BY <1>1, <1>2, <1>3, <1>4, <1>5, <1>6, <1>7 DEF Next

LEMMA StepKeeps ==
  ASSUME Context, Next, slips' = {}
  PROVE  Kept
BY ExternalKeeps, DeclarationKeeps, ExpressionKeeps, StatementKeeps, CompoundKeeps, IfKeeps,
   LoopKeeps, ForKeeps, SwitchKeeps, JumpKeeps, TryKeeps DEF Next

LEMMA Begun ==
  ASSUME Init
  PROVE  Context /\ Anchored
<1>1. /\ globals \in Globals /\ globals.function = Null /\ ~ globals.gcc_extension
      /\ NoConstruct(globals) /\ FoundOK("outer", globals)
  BY DEF Init, Globals, Null, NoConstruct, FoundOK
<1>2. token_anchor_set \in [alphabet -> Int] /\ \A t \in alphabet : token_anchor_set[t] >= 0
  BY DEF Init
<1>3. "externals" \in Callees /\ "externals" \in FunctionNames /\ "start" \in Points
  BY DEF Callees, FunctionNames, Points
<1> DEFINE c == Activation("externals", globals, token_anchor_set)
<1>4. /\ c \in Frame /\ c.function = "externals" /\ c.at = "start"
      /\ c.found = globals /\ c.found_anchors = token_anchor_set
  BY <1>1, <1>2, <1>3 DEF Frame, Activation
<1>5. stack = << c >> /\ ret = "ok"
  BY DEF Init
<1>6. /\ Fits("externals", "start", globals, 1, globals)
      /\ Holds("externals", "start", token_anchor_set, token_anchor_set)
  BY <1>1, <1>2, <1>3, Begins
<1> HIDE DEF c
<1>7. stack \in Seq(Frame) /\ Me = 1 /\ stack[1] = c /\ stack # << >>
  BY <1>4, <1>5 DEF Me
<1>8. 1 .. Me = {1} /\ Left(1) = globals /\ LeftAnchors(1) = token_anchor_set
  BY <1>7 DEF Left, LeftAnchors
<1>9. Level("externals") = "outer"
  BY DEF Level
<1>10. Context
  BY <1>1, <1>2, <1>4, <1>6, <1>7, <1>8, <1>9 DEF Context
<1>11. Anchored
  BY <1>2, <1>4, <1>5, <1>6, <1>7, <1>8 DEF Anchored
<1> QED BY <1>10, <1>11

LEMMA Stutters ==
  ASSUME Context, UNCHANGED vars
  PROVE  Context' /\ (Anchored => Anchored')
<1>1. /\ alphabet' = alphabet /\ token' = token /\ left' = left /\ stack' = stack /\ ret' = ret
      /\ token_anchor_set' = token_anchor_set /\ globals' = globals /\ slips' = slips
  BY DEF vars
<1>2. /\ Me' = Me /\ Frame' = Frame
      /\ \A i : Left(i)' = Left(i) /\ LeftAnchors(i)' = LeftAnchors(i)
  BY <1>1 DEF Me, Frame, Left, LeftAnchors
<1>3. Context'
  BY <1>1, <1>2 DEF Context
<1>4. Anchored => Anchored'
  BY <1>1, <1>2 DEF Anchored, Holds
<1> QED BY <1>3, <1>4

\* Unless the input made a slip, the invariant holds, ...
IInv == slips = {} => Context

LEMMA Inductive ==
  ASSUME IInv, [Next]_vars
  PROVE  IInv'
<1>1. CASE Next
  <2>1. ASSUME slips' = {}  PROVE Context'
    <3>1. slips = {}
      BY <1>1, <2>1, StepNotes DEF Note
    <3> QED BY <1>1, <2>1, <3>1, StepKeeps DEF IInv, Kept
  <2> QED BY <2>1 DEF IInv
<1>2. CASE UNCHANGED vars
  BY <1>2, Stutters DEF IInv, vars
<1> QED BY <1>1, <1>2

\* ... and so does the one on anchors, as long as they can be counted.
AInv == slips = {} => Context /\ Anchored

LEMMA AnchorsInductive ==
  ASSUME AInv, Shallow, [Next]_vars
  PROVE  AInv'
<1>1. CASE Next
  <2>1. ASSUME slips' = {}  PROVE Context' /\ Anchored'
    <3>1. slips = {}
      BY <1>1, <2>1, StepNotes DEF Note
    <3> QED BY <1>1, <2>1, <3>1, StepKeeps DEF AInv, Kept
  <2> QED BY <2>1 DEF AInv
<1>2. CASE UNCHANGED vars
  BY <1>2, Stutters DEF AInv, vars
<1> QED BY <1>1, <1>2

LEMMA StepBalanced ==
  ASSUME AInv, Shallow, [Next]_vars, Len(stack') < Len(stack), slips' = {}
  PROVE  /\ token_anchor_set' = Top.found_anchors
         /\ [globals' EXCEPT !.jumps = Top.found.jumps] = Top.found
<1>1. CASE Next
  <2>1. slips = {}
    BY <1>1, StepNotes DEF Note
  <2>2. Context /\ Anchored
    BY <2>1 DEF AInv
  <2> QED BY <1>1, <2>2, StepKeeps DEF Kept, Returned
<1>2. CASE UNCHANGED vars
  <2>1. stack' = stack /\ slips = {}
    BY <1>2 DEF vars
  <2>2. Len(stack) \in Nat
    BY <2>1 DEF AInv, Context
  <2> QED BY <2>1, <2>2
<1> QED BY <1>1, <1>2

\* The globals always name the constructs around the token that is looked at:
\* break, continue, case, return, declarations and gotos act on the innermost
\* loop, switch, scope and function they are in, whatever the input, and
\* however deep it nests: parse_statement(), parse_external_declaration() and
\* the functions between them.
THEOREM Contexts == Spec => []ContextIsLexical
<1>1. Init => IInv
  BY Begun DEF IInv
<1>2. IInv /\ [Next]_vars => IInv'
  BY Inductive
<1>3. IInv => ContextIsLexical
  <2>1. slips # {} => ContextIsLexical
    BY DEF ContextIsLexical
  <2> QED BY <2>1, Lexical DEF IInv
<1> QED BY <1>1, <1>2, <1>3, PTL DEF Spec

\* No assertion on anchors and braces fails, and parse_externals() finds no
\* leak, as long as no token is expected 255 times over: rem_anchor_token()
\* always finds the token that the same function has added.
THEOREM NoAbort == Spec /\ []Shallow => []NotAborted
<1>1. Init => AInv
  BY Begun DEF AInv
<1>2. AInv /\ Shallow /\ [Next]_vars => AInv'
  BY AnchorsInductive
<1>3. AInv => NotAborted
  <2>1. ASSUME Anchored, Context  PROVE ~ Aborted
    <3>1. \A t \in alphabet : token_anchor_set[t] \in Int /\ token_anchor_set[t] >= 0
      BY <2>1 DEF Anchored, Context
    <3> QED BY <2>1, <3>1 DEF Anchored, Aborted
  <2> QED BY <2>1 DEF AInv, NotAborted
<1> QED BY <1>1, <1>2, <1>3, PTL DEF Spec

\* A parsing function returns with the anchor set and the globals it was
\* called with, whichever way it leaves.
THEOREM Balances == Spec /\ []Shallow => Balanced
<1>1. Init => AInv
  BY Begun DEF AInv
<1>2. AInv /\ Shallow /\ [Next]_vars => AInv'
  BY AnchorsInductive
<1>3. AInv /\ Shallow /\ [Next]_vars
        => [ Len(stack') < Len(stack) /\ slips' = {}
               => /\ token_anchor_set' = Top.found_anchors
                  /\ [globals' EXCEPT !.jumps = Top.found.jumps] = Top.found ]_vars
  BY StepBalanced
<1> QED BY <1>1, <1>2, <1>3, PTL DEF Spec, Balanced
=============================================================================
