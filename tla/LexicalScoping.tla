--------------------------- MODULE LexicalScoping ---------------------------
(***************************************************************************)
(* What the symbol table of the parser promises (C99 6.2.1 and 6.2.3; GNU  *)
(* local labels and nested functions): a name means the innermost          *)
(* declaration of it, and at the end of a scope every name means again     *)
(* what it meant at its beginning. Labels are the exception: a label       *)
(* belongs to the whole function, wherever in it the label is first used.  *)
(***************************************************************************)
EXTENDS Integers, Sequences, FiniteSets

CONSTANTS
  Symbols,     \* the identifiers
  Entities,    \* the declared entities
  None         \* what an undeclared name means

NameSpaces == {"normal", "tag", "label"}
Names      == Symbols \X NameSpaces
Meanings   == [Names -> Entities \cup {None}]

VARIABLES
  visible,     \* what each name means here
  outer        \* what each name means after each open scope, innermost
               \* first, and whether the scope is that of a function

Init ==
  /\ visible = [n \in Names |-> None]
  /\ outer = <<>>

\* Up to declarations of names in N, inner is env.
Declares(inner, env, N) ==
  \A n \in Names : inner[n] = env[n] \/ (n \in N /\ inner[n] \in Entities)

\* The number of scopes opened by the step; those of the rest stay.
Opened == Cardinality(DOMAIN outer') - Cardinality(DOMAIN outer)

\* A declaration in the current scope; that of an enum may declare an
\* enumerator as well.
Declarations ==
  { {n} : n \in Names } \cup { { <<s, "tag">>, <<m, "normal">> } : s, m \in Symbols }

Declare ==
  /\ Opened = 0 /\ UNCHANGED outer
  /\ \E N \in Declarations : Declares(visible', visible, N)

\* The first use of a label of the current function: the label is visible up
\* to the end of the function.
InFunction(i) == \A k \in 1 .. i : ~outer[k].function

UseLabel(s) ==
  /\ \E i \in DOMAIN outer : outer[i].function
  /\ Declares(visible', visible, {<<s, "label">>})
  /\ outer' = [i \in DOMAIN outer |->
                 IF InFunction(i)
                 THEN [outer[i] EXCEPT !.env[<<s, "label">>] = visible'[<<s, "label">>]]
                 ELSE outer[i]]

Enter(env, function) == << [env |-> env, function |-> function] >>

\* A block, or the head of an old-style function definition, which declares
\* the parameters.
Parameters == Symbols \X {"normal", "tag"}

Open ==
  /\ Opened = 1
  /\ outer' = Enter(visible, FALSE) \o outer
  /\ Declares(visible', visible, Parameters)

\* A namespace is declared in the scope around it.
OpenNamed ==
  /\ Opened = 1
  /\ outer' = Enter(visible', FALSE) \o outer
  /\ \E s \in Symbols : Declares(visible', visible, {<<s, "normal">>})

\* A function definition declares the function, unless it has been declared
\* here, and opens the scopes of its parameters and of its body. The head of
\* an old-style definition has been open before, or not.
Define(env, rest) ==
  /\ outer' = Enter(visible', FALSE) \o Enter(outer'[2].env, TRUE) \o rest
  /\ \E s \in Symbols : Declares(outer'[2].env, env, {<<s, "normal">>})
  /\ Declares(visible', outer'[2].env, Parameters)

Close ==
  /\ Opened = -1
  /\ visible' = Head(outer).env
  /\ outer' = Tail(outer)

\* The end of a function closes its body and its parameters.
CloseFunction ==
  /\ Opened = -2 /\ outer[2].function
  /\ visible' = outer[2].env
  /\ outer' = Tail(Tail(outer))

Next ==
  \/ Declare
  \/ Opened = 0 /\ \E s \in Symbols : UseLabel(s)
  \/ Open
  \/ OpenNamed
  \/ Opened = 2 /\ Define(visible, outer)
  \/ Opened = 1 /\ outer # <<>> /\ Define(Head(outer).env, Tail(outer))
  \/ Close
  \/ CloseFunction

vars == << visible, outer >>

Spec == Init /\ [][Next]_vars
=============================================================================
