----------------------------- MODULE SubObjects -----------------------------
(***************************************************************************)
(* Objects, the objects they consist of, and what an initializer of C99    *)
(* (6.7.8) gives each of these.                                            *)
(*                                                                         *)
(* A path is a sequence of positions, from 0: indices of arrays and        *)
(* members of structs and unions. The tokens of an initializer are braces, *)
(* commas, designators, "=" and two expressions: "i", a number, and "s", a *)
(* string.                                                                 *)
(***************************************************************************)
EXTENDS Integers, Sequences, SequencesExt

Unknown == -1   \* the size of an array whose initializer determines it

Scalar(kind) == [kind |-> kind, size |-> 0, of |-> << >>]
Array(n, element) == [kind |-> "array", size |-> n, of |-> << element >>]
Struct(members) == [kind |-> "struct", size |-> Len(members), of |-> members]
Union(members) == [kind |-> "union", size |-> Len(members), of |-> members]

IsScalar(type) == type.of = << >>
Part(type, i) == IF type.kind = "array" THEN type.of[1] ELSE type.of[i + 1]
Has(type, i) == i < type.size \/ (type.size = Unknown)
SubType(type, path) == FoldLeft(Part, type, path)
IsCharArray(type) == type.kind = "array" /\ type.of[1].kind = "char"

StringSize == 2
Values == {"i", "s"}

\* Expressions that may initialize an object of the type as a whole.
Accepts(type, v) ==
  IF v = "i" THEN type.kind \in {"int", "char"} ELSE type.kind = "pointer" \/ IsCharArray(type)

\* Designators: of members, which are named for their position, old ones of
\* GNU C, which need no "=", and of array elements.
Designators == [ d \in {".a", ".b", "a:", "b:", "[0]", "[1]", "[2]"} |->
                   CASE d \in {".a", "a:", "[0]"} -> 0 [] d \in {".b", "b:", "[1]"} -> 1 [] d = "[2]" -> 2 ]
OldDesignators == {"a:", "b:"}
Designates(d, type) ==
  /\ (d \in {"[0]", "[1]", "[2]"}) <=> type.kind = "array"
  /\ ~ IsScalar(type) /\ Has(type, Designators[d])

-----------------------------------------------------------------------------
(***************************************************************************)
(* The meaning of an initializer is found from left to right: for each     *)
(* list that is open, the object its braces are for and the next object in *)
(* it, and what has been initialized.                                      *)
(***************************************************************************)
Under(p, q) == IsPrefix(p, q)
Without(values, p) == [q \in { q \in DOMAIN values : ~ Under(p, q) } |-> values[q]]

Nowhere == << -1 >>

\* The object behind p, within the one at base.
Behind(type, base, p) ==
  LET ends == { k \in Len(base) + 1 .. Len(p) :
                  LET around == SubType(type, SubSeq(p, 1, k - 1))
                  IN around.kind # "union" /\ Has(around, p[k] + 1) }
      k == CHOOSE k \in ends : \A l \in ends : l <= k
  IN IF ends = {} THEN Nowhere ELSE Append(SubSeq(p, 1, k - 1), p[k] + 1)

\* The first object in the one at p that v may initialize, or a scalar.
Depth == 4
FirstFor(type, p, v) ==
  LET In(k) == p \o [j \in 1 .. k |-> 0]
      Fits(k) == LET t == SubType(type, In(k)) IN IsScalar(t) \/ Accepts(t, v)
      k == CHOOSE k \in 0 .. Depth : Fits(k) /\ \A l \in 0 .. k - 1 : ~ Fits(l)
  IN In(k)

\* What the expression at position n of the tokens gives the object at p.
Gives(type, p, v, n) ==
  LET t == SubType(type, p)
      chars == IF t.size = Unknown \/ StringSize < t.size THEN StringSize ELSE t.size
  IN IF v = "s" /\ IsCharArray(t)
     THEN [q \in { Append(p, i) : i \in 0 .. chars - 1 } |-> << n, Last(q) >>]
     ELSE [q \in {p} |-> << n, 0 >>]

\* Another value replaces those of the objects in its own, and those of the
\* other members of the unions around it.
Replaced(type, values, p) ==
  { q \in DOMAIN values :
      \/ Under(p, q)
      \/ \E k \in 1 .. Len(p) : /\ SubType(type, SubSeq(p, 1, k - 1)).kind = "union"
                                /\ Under(SubSeq(p, 1, k - 1), q) /\ q[k] # p[k] }
Give(type, values, p, given) ==
  [q \in (DOMAIN values \ Replaced(type, values, p)) \cup DOMAIN given |->
     IF q \in DOMAIN given THEN given[q] ELSE values[q]]

Illegal(state) == [state EXCEPT !.legal = FALSE]

\* In a list: the next object, and whether designators chose it.
Top(state) == Last(state.lists)
WithTop(state, list) == [state EXCEPT !.lists = Append(Front(@), list)]

ReadValue(type, state, v, n) ==
  LET top == Top(state)
      p == IF Len(state.lists) = 1 THEN << >> ELSE FirstFor(type, top.next, v)
  IN IF top.next = Nowhere \/ ~ Accepts(SubType(type, p), v) THEN Illegal(state)
     ELSE [ WithTop(state, [top EXCEPT !.next = IF top.base = p THEN Nowhere ELSE Behind(type, top.base, p),
                                       !.chosen = FALSE, !.empty = FALSE])
            EXCEPT !.values = Give(type, @, p, Gives(type, p, v, n)) ]

\* Braces around a string are for the array; else for its first element.
OpenBrace(type, state, next) ==
  LET p == Top(state).next
  IN IF p = Nowhere \/ (Len(state.lists) > 1 /\ Top(state).base = p) THEN Illegal(state)
     ELSE [ state EXCEPT
              !.lists = Append(@, [base |-> p, chosen |-> FALSE, empty |-> TRUE,
                                   next |-> IF IsScalar(SubType(type, p)) \/ (next = "s" /\ IsCharArray(SubType(type, p)))
                                            THEN p ELSE Append(p, 0)]),
              !.values = Give(type, @, p, [q \in {} |-> 0]) ]

CloseBrace(type, state) ==
  LET inner == Top(state)
      outer == Top([state EXCEPT !.lists = Front(@)])
  IN IF inner.empty THEN Illegal(state)
     ELSE WithTop([state EXCEPT !.lists = Front(@)],
                  [outer EXCEPT !.next = Behind(type, outer.base, inner.base), !.chosen = FALSE, !.empty = FALSE])

Designate(type, state, d) ==
  LET top == Top(state)
      around == IF top.chosen THEN top.next ELSE top.base
  IN IF ~ Designates(d, SubType(type, around)) THEN Illegal(state)
     ELSE WithTop(state, [top EXCEPT !.next = Append(around, Designators[d]), !.chosen = TRUE])

\* The tokens of an initializer, which is well-formed, for an object.
Meaning(type, tokens) ==
  LET Read(state, n) ==
        LET t == tokens[n] IN
        CASE ~ state.legal \/ t \in {",", "="} -> state
          [] state.legal /\ t \in Values -> ReadValue(type, state, t, n)
          [] state.legal /\ t = "{" -> OpenBrace(type, state, IF n < Len(tokens) THEN tokens[n + 1] ELSE t)
          [] state.legal /\ t = "}" -> CloseBrace(type, state)
          [] state.legal /\ t \in DOMAIN Designators -> Designate(type, state, t)
  IN FoldLeft(Read, [lists |-> << [base |-> << >>, next |-> << >>, chosen |-> FALSE, empty |-> TRUE] >>,
                     values |-> [q \in {} |-> 0], legal |-> TRUE],
              [n \in DOMAIN tokens |-> n])
=============================================================================
