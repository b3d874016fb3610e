------------------------- MODULE EntityScopesProofs -------------------------
(***************************************************************************)
(* The theorems about EntityScopes.  EntityScopesTables says what its      *)
(* operators do to a table; here each action is one of those changes, and  *)
(* the scopes that are open are what the two stacks say they are.          *)
(***************************************************************************)
EXTENDS EntityScopesTables

-----------------------------------------------------------------------------
(***************************************************************************)
(* The table after each of the actions.                                    *)
(***************************************************************************)
LEMMA TagIs ==
  ASSUME Good(table), NEW s \in Symbols, NEW kind \in {"struct", "enum"}, get_tag(s, kind) # Null
  PROVE  /\ get_tag(s, kind) \in DOMAIN table.entity
         /\ table.entity[get_tag(s, kind)].kind = kind
<1> DEFINE e == get_entity(table, s, "tag")
<1>1. /\ e # Null /\ table.entity[e].kind = kind /\ get_tag(s, kind) = e
  BY DEF get_tag
<1>2. Shape(table) /\ Chained(table)
  BY DEF Good, Table
<1>3. e \in DOMAIN table.entity
  BY <1>1, <1>2, MeaningNamed
<1> QED
  BY <1>1, <1>3

\* A struct gets a member.
LEMMA MemberAdded ==
  ASSUME NEW T, Good(T), NEW e \in DOMAIN T.entity, T.entity[e].kind = "struct",
         NEW symbol \in Symbols, NEW s
  PROVE  LET own == T.entity[e].own
             A   == append_entity(Allocate(T, "member", symbol, own), own, Fresh(T))
         IN Keeps(T, [A EXCEPT !.entity[e].complete = TRUE], s)
<1> DEFINE own == T.entity[e].own
           A == append_entity(Allocate(T, "member", symbol, own), own, Fresh(T))
           U == [A EXCEPT !.entity[e].complete = TRUE]
<1>1. T.entity[e].kind # "function" /\ T.entity[e].own # Null
  BY DEF Good, OwnsOK, Owners
<1>2. Keeps(T, A, s)
  BY <1>1, KeepsMember
<1> HIDE DEF A
<1>3. Good(A)
  BY <1>2 DEF Keeps, Larger
<1>4. Shape(A)
  BY <1>3 DEF Good, Table
<1>5. PICK parent : EntitySet(A, U, e, parent, TRUE, A.aborted)
  BY <1>4, CompleteIs
<1> HIDE DEF U
<1>6. Keeps(A, U, s)
  BY <1>3, <1>5, KeepsSet
<1>7. Keeps(T, U, s)
  BY <1>2, <1>6, KeepsTrans
<1> QED
  BY <1>7 DEF U, A

LEMMA SpecifierKeeps ==
  ASSUME Good(table), current_scope \in DOMAIN table.scope, NEW s \in Symbols, NEW how,
         CompoundSpecifier(s, how)
  PROVE  Keeps(table, table', current_scope)
<1> DEFINE known   == get_tag(s, "struct")
           shadows == known # Null /\ table.entity[known].parent_scope # current_scope
                                   /\ how \in {"define", "forward"}
           new     == known = Null \/ shadows
           e       == IF new THEN Fresh(table) ELSE known
           again   == ~new /\ table.entity[e].complete /\ how = "define"
           N       == Enlist(Allocate(table, "struct", s, current_scope), e, current_scope)
           Z       == [table EXCEPT !.scope[table.entity[e].own].entities = Null]
           T       == IF new THEN N ELSE IF again THEN Z ELSE table
           own     == T.entity[e].own
           A       == append_entity(Allocate(T, "member", s, own), own, Fresh(T))
<1>1. table' = IF how = "define" THEN [A EXCEPT !.entity[e].complete = TRUE] ELSE T
  BY DEF CompoundSpecifier
<1>a. current_scope \in Nat
  BY Lengths
<1>2. /\ Keeps(table, T, current_scope) /\ Good(T)
      /\ e \in DOMAIN T.entity /\ T.entity[e].kind = "struct"
  <2>1. CASE new
    <3>0. e = Fresh(table)
      BY <2>1
    <3>1. /\ Keeps(table, N, current_scope) /\ Fresh(table) \in DOMAIN N.entity
          /\ N.entity[Fresh(table)].kind = "struct"
      <4> DEFINE M == Enlist(Allocate(table, "struct", s, current_scope), Fresh(table), current_scope)
      <4>1. /\ Keeps(table, M, current_scope) /\ Fresh(table) \in DOMAIN M.entity
            /\ M.entity[Fresh(table)].kind = "struct"
        BY <1>a, KeepsEnlist DEF Kinds
      <4> HIDE DEF e
      <4>2. M = N
        BY <3>0
      <4> HIDE DEF M, N
      <4> QED
        BY <4>1, <4>2
    <3>2. T = N /\ e = Fresh(table)
      BY <2>1
    <3> HIDE DEF N, T, e
    <3>3. Good(N)
      BY <3>1 DEF Keeps, Larger
    <3> QED
      BY <3>1, <3>2, <3>3
  <2>2. CASE ~new
    <3>1. known # Null /\ e = known
      BY <2>2
    <3>2. known \in DOMAIN table.entity /\ table.entity[known].kind = "struct"
      BY <3>1, TagIs
    <3>3. table.entity[known].kind # "function" /\ table.entity[known].own # Null
      BY <3>2 DEF Good, OwnsOK, Owners
    <3>4. Keeps(table, Z, current_scope) /\ Z.entity = table.entity
      <4>1. e \in DOMAIN table.entity /\ table.entity[e].kind # "function" /\ table.entity[e].own # Null
        BY <3>1, <3>2, <3>3
      <4> HIDE DEF e
      <4> QED
        BY <4>1, KeepsEmptied
    <3>5. Keeps(table, table, current_scope)
      BY KeepsSelf
    <3>6. T = Z \/ T = table
      BY <2>2
    <3> HIDE DEF T, Z, known, e
    <3>7. Keeps(table, T, current_scope) /\ T.entity = table.entity
      BY <3>4, <3>5, <3>6
    <3>8. Good(T)
      BY <3>7 DEF Keeps, Larger
    <3> QED
      BY <3>1, <3>2, <3>7, <3>8
  <2> QED
    BY <2>1, <2>2
<1> HIDE DEF T, e
<1>3. Keeps(T, [A EXCEPT !.entity[e].complete = TRUE], current_scope)
  BY <1>2, MemberAdded
<1>4. Keeps(table, [A EXCEPT !.entity[e].complete = TRUE], current_scope)
  <2> DEFINE V == [A EXCEPT !.entity[e].complete = TRUE]
  <2>1. Keeps(T, V, current_scope)
    BY <1>3
  <2> HIDE DEF V
  <2>2. Keeps(table, V, current_scope)
    BY <1>2, <2>1, KeepsTrans
  <2> QED
    BY <2>2 DEF V
<1> QED
  BY <1>1, <1>2, <1>4

IsEnumerating(w, T, q, s) ==
  w = [i \in 0 .. Len(q) |->
         IF i = 0 THEN T
         ELSE record_entity(Allocate(w[i - 1], "enum_value", q[i], Null), s, Fresh(w[i - 1]))]

LEMMA EnumeratingExists ==
  ASSUME NEW T, NEW q, Len(q) \in Nat, NEW s
  PROVE  \E w : IsEnumerating(w, T, q, s)
<1> DEFINE n == Len(q)
           F(V, i) == record_entity(Allocate(V, "enum_value", q[i], Null), s, Fresh(V))
           Is(w, m) == w = [i \in 0 .. m |-> IF i = 0 THEN T ELSE F(w[i - 1], i)]
           S == { m \in Nat : \E w : Is(w, m) }
<1>0. ASSUME NEW w, Is(w, n) PROVE IsEnumerating(w, T, q, s)
  BY <1>0 DEF IsEnumerating
<1> HIDE DEF F
<1>1. 0 \in S
  <2>1. Is([i \in 0 .. 0 |-> T], 0)
    OBVIOUS
  <2> QED BY <2>1
<1>2. ASSUME NEW m \in Nat, m \in S PROVE m + 1 \in S
  <2>1. PICK w : Is(w, m)
    BY <1>2
  <2> DEFINE g == [i \in 0 .. m + 1 |-> IF i = m + 1 THEN F(w[m], m + 1) ELSE w[i]]
  <2>2. ASSUME NEW i \in 0 .. m + 1
        PROVE  g[i] = IF i = 0 THEN T ELSE F(g[i - 1], i)
    <3>1. CASE i = m + 1
      <4>1. i # 0 /\ i - 1 = m /\ m \in 0 .. m + 1 /\ m # m + 1
        BY <3>1
      <4>2. g[m] = w[m] /\ g[i] = F(w[m], m + 1)
        BY <4>1, <3>1
      <4> HIDE DEF g
      <4> QED BY <4>1, <4>2, <3>1
    <3>2. CASE i # m + 1
      <4>1. i \in 0 .. m /\ (i # 0 => i - 1 \in 0 .. m + 1 /\ i - 1 # m + 1)
        BY <3>2
      <4>2. w[i] = IF i = 0 THEN T ELSE F(w[i - 1], i)
        BY <4>1, <2>1
      <4>3. g[i] = w[i] /\ (i # 0 => g[i - 1] = w[i - 1])
        BY <4>1, <3>2
      <4> HIDE DEF g
      <4> QED BY <4>2, <4>3
    <3> QED BY <3>1, <3>2
  <2>3. g = [i \in 0 .. m + 1 |-> g[i]]
    OBVIOUS
  <2> HIDE DEF g
  <2>4. Is(g, m + 1)
    BY <2>2, <2>3
  <2> QED BY <2>4
<1>3. n \in S
  <2> HIDE DEF S
  <2> QED BY <1>1, <1>2, Induction
<1>4. PICK w : Is(w, n)
  BY <1>3
<1> QED BY <1>0, <1>4

\* One enumerator after the other is recorded.
LEMMA EnumeratingKeeps ==
  ASSUME NEW T, Good(T), NEW q \in Seq(Symbols), NEW s \in DOMAIN T.scope,
         NEW w, IsEnumerating(w, T, q, s)
  PROVE  Keeps(T, w[Len(q)], s)
<1> DEFINE n == Len(q)
           S == { i \in 0 .. n : Keeps(T, w[i], s) }
<1>3. n \in Nat /\ DOMAIN q = 1 .. n
  OBVIOUS
<1>4. 0 \in S
  <2>1. w[0] = T /\ 0 \in 0 .. n
    BY <1>3 DEF IsEnumerating
  <2> QED BY <2>1, KeepsSelf
<1>5. ASSUME NEW i \in 0 .. n, i \in S, i # n
      PROVE  i + 1 \in S
  <2>1. i \in Nat /\ i + 1 \in 0 .. n /\ i + 1 # 0 /\ i + 1 - 1 = i /\ i + 1 \in DOMAIN q
    <3>1. PICK m : m = n
      OBVIOUS
    <3>2. m \in Nat /\ i \in 0 .. m /\ i # m
      BY <3>1, <1>3, <1>5
    <3>3. i \in Nat /\ i + 1 \in 0 .. m /\ i + 1 # 0 /\ i + 1 - 1 = i /\ i + 1 \in 1 .. m
      BY ONLY <3>2
    <3> QED BY <3>1, <3>3, <1>3
  <2>2. PICK W : W = w[i]
    OBVIOUS
  <2>3. Keeps(T, W, s)
    BY <2>2, <1>5
  <2>4. w[i + 1] = record_entity(Allocate(W, "enum_value", q[i + 1], Null), s, Fresh(W))
    <3>1. w[i + 1] = IF i + 1 = 0 THEN T
                     ELSE record_entity(Allocate(w[i + 1 - 1], "enum_value", q[i + 1], Null),
                                        s, Fresh(w[i + 1 - 1]))
      BY <2>1 DEF IsEnumerating
    <3> QED BY <3>1, <2>1, <2>2
  <2>5. Keeps(T, w[i + 1], s)
    <3> DEFINE V == record_entity(Allocate(W, "enum_value", q[i + 1], Null), s, Fresh(W))
    <3>1. Good(W) /\ s \in DOMAIN W.scope
      BY <2>3 DEF Keeps, Larger
    <3>2. q[i + 1] \in Symbols /\ Null \in Nat /\ "enum_value" \in Kinds
      BY <2>1 DEF Null, Kinds
    <3>3. Keeps(W, V, s)
      BY <3>1, <3>2, KeepsRecord
    <3> HIDE DEF V
    <3>4. Keeps(T, V, s)
      BY <2>3, <3>3, KeepsTrans
    <3> QED BY <3>4, <2>4 DEF V
  <2> QED BY <2>1, <2>5
<1>6. \A i \in 0 .. n : i \in S
  <2> HIDE DEF S
  <2> QED BY <1>3, <1>4, <1>5, Upwards
<1>7. n \in S
  <2> HIDE DEF S
  <2> QED BY <1>3, <1>6
<1> QED BY <1>7

LEMMA EnumKeeps ==
  ASSUME Good(table), current_scope \in DOMAIN table.scope, "again" \notin dialect,
         NEW s \in Symbols, NEW enumerators \in Seq(Symbols), EnumSpecifier(s, enumerators)
  PROVE  Keeps(table, table', current_scope)
<1> DEFINE known == get_tag(s, "enum")
           new   == known = Null \/ table.entity[known].parent_scope # current_scope
           e     == IF new THEN Fresh(table) ELSE known
           T     == Enlist(IF new THEN Allocate(table, "enum", s, current_scope) ELSE table,
                           e, current_scope)
           N     == Enlist(Allocate(table, "enum", s, current_scope), Fresh(table), current_scope)
           M     == [T EXCEPT !.entity[e].complete = TRUE]
           w == CHOOSE with : with = [i \in 0 .. Len(enumerators) |->
                  IF i = 0 THEN M
                  ELSE record_entity(Allocate(with[i - 1], "enum_value", enumerators[i], Null),
                                     current_scope, Fresh(with[i - 1]))]
<1>1. table' = w[Len(enumerators)] /\ new
  BY DEF EnumSpecifier
<1>2. e = Fresh(table)
  BY <1>1
<1>3. T = N
  <2>1. T = Enlist(Allocate(table, "enum", s, current_scope), e, current_scope)
    BY <1>1
  <2> HIDE DEF e, new
  <2> QED BY <1>2, <2>1
<1>4. Keeps(table, M, current_scope)
  <2> DEFINE K == [N EXCEPT !.entity[e].complete = TRUE]
  <2>0. M = K
    <3> HIDE DEF T, N, e
    <3> QED BY <1>3
  <2>1. current_scope \in Nat
    BY Lengths
  <2>2. Keeps(table, N, current_scope)
    BY <2>1, KeepsEnlist DEF Kinds
  <2> HIDE DEF N, M, e
  <2>3. Good(N) /\ Shape(N)
    BY <2>2 DEF Keeps, Larger, Good, Table
  <2>4. PICK parent : EntitySet(N, K, e, parent, TRUE, N.aborted)
    BY <2>3, CompleteIs
  <2> HIDE DEF K
  <2>5. Keeps(N, K, current_scope)
    BY <2>3, <2>4, KeepsSet
  <2>6. Keeps(table, K, current_scope)
    BY <2>2, <2>5, KeepsTrans
  <2> QED BY <2>0, <2>6
<1> HIDE DEF M
<1>5. IsEnumerating(w, M, enumerators, current_scope)
  <2>1. \E g : IsEnumerating(g, M, enumerators, current_scope)
    <3>1. Len(enumerators) \in Nat
      OBVIOUS
    <3> QED BY <3>1, EnumeratingExists
  <2>2. w = CHOOSE g : IsEnumerating(g, M, enumerators, current_scope)
    BY DEF IsEnumerating
  <2> HIDE DEF w
  <2> QED BY <2>1, <2>2
<1> HIDE DEF w
<1>6. Good(M) /\ current_scope \in DOMAIN M.scope
  BY <1>4 DEF Keeps, Larger
<1>7. Keeps(M, w[Len(enumerators)], current_scope)
  BY <1>5, <1>6, EnumeratingKeeps
<1>8. Keeps(table, w[Len(enumerators)], current_scope)
  BY <1>4, <1>7, KeepsTrans
<1> QED BY <1>1, <1>8

AbortedPut(T, U, b) == U = [T EXCEPT !.aborted = b]

LEMMA LargerAborted ==
  ASSUME NEW T, Good(T), NEW b \in BOOLEAN, NEW U, AbortedPut(T, U, b)
  PROVE  /\ Larger(T, U) /\ Touched(T, U) /\ U.entity = T.entity /\ U.scope = T.scope
         /\ U.next = T.next /\ U.aborted = b
<1>1. Shape(T)
  BY DEF Good, Table
<1>2. /\ U.entity = T.entity /\ U.next = T.next /\ U.scope = T.scope /\ U.head = T.head
      /\ U.link = T.link /\ U.env = T.env /\ U.label = T.label /\ U.aborted = b
      /\ U = [entity |-> U.entity, next |-> U.next, scope |-> U.scope, head |-> U.head,
              link |-> U.link, env |-> U.env, label |-> U.label, aborted |-> U.aborted]
  BY <1>1 DEF AbortedPut, Shape
<1>3. Shape(U)
  BY <1>1, <1>2 DEF Shape
<1>4. Touched(T, U)
  BY <1>2, <1>3 DEF Touched, Symbol, Space
<1>5. Table(U) /\ Chained(U)
  BY <1>4, TouchedMeans DEF Good
<1>6. Good(U)
  BY <1>2, <1>5, OwnsSame
<1>7. Larger(T, U)
  BY <1>2, <1>6, LargerSame
<1> QED BY <1>2, <1>4, <1>7

LEMMA LabelLarger ==
  ASSUME Good(table), NEW s \in Symbols, current_function \in DOMAIN table.entity, get_label(s)
  PROVE  Larger(table, table')
<1> DEFINE e      == get_entity(table, s, "label")
           parent == table.entity[e].parent_scope
           own    == table.entity[current_function].own
           T      == Allocate(table, "label", s, own)
           b      == table.aborted \/ (/\ parent # current_scope
                                       /\ table.scope[parent].depth
                                            >= table.scope[current_scope].depth)
           X      == [table EXCEPT !.aborted = b]
           P      == stack_push(T, "label", Fresh(table))
<1>1. table' = X \/ table' = table \/ table' = P
  BY DEF get_label
<1>2. Larger(table, X)
  <2>1. b \in BOOLEAN
    OBVIOUS
  <2> HIDE DEF b
  <2>2. AbortedPut(table, X, b)
    BY DEF AbortedPut
  <2> HIDE DEF X
  <2> QED BY <2>1, <2>2, LargerAborted
<1>3. Larger(table, table)
  BY LargerSame
<1>4. Larger(table, P)
  <2>1. own \in Nat
    <3>1. table.entity[current_function] \in EntityType
      BY EntityFacts DEF Good, Table
    <3> QED BY <3>1 DEF EntityType
  <2>2. Larger(table, T) /\ FreshEntity(T, Fresh(table)) /\ Good(T)
    BY <2>1, LargerAllocate, FreshAllocated DEF Kinds
  <2> HIDE DEF T
  <2>3. Larger(T, P)
    BY <2>2, LargerStackPush
  <2> QED BY <2>2, <2>3, LargerTrans
<1> QED BY <1>1, <1>2, <1>3, <1>4

LEMMA LocalLabelLarger ==
  ASSUME Good(table), current_scope \in DOMAIN table.scope, NEW s \in Symbols, LocalLabel(s)
  PROVE  Larger(table, table')
<1> DEFINE T == Allocate(table, "local_label", s, current_scope)
           P == environment_push(T, Fresh(table))
<1>1. table' = P
  BY DEF LocalLabel
<1>2. current_scope \in Nat
  BY Lengths
<1>3. Larger(table, T) /\ FreshEntity(T, Fresh(table)) /\ Good(T)
  BY <1>2, LargerAllocate, FreshAllocated DEF Kinds
<1> HIDE DEF T
<1>4. Larger(T, P)
  BY <1>3, LargerStackPush
<1> QED BY <1>1, <1>3, <1>4, LargerTrans

\* A namespace is opened: own is its scope.
LEMMA NamespaceOpened ==
  ASSUME Good(table), current_scope \in DOMAIN table.scope, NEW s \in Symbols
  PROVE  LET T == Allocate(table, "namespace", s, current_scope)
             E == Enlist(T, Fresh(table), current_scope)
             own == T.entity[Fresh(table)].own
             U == scope_push(E, own, current_scope)
         IN /\ Larger(table, E) /\ Larger(E, U) /\ U.env = E.env /\ U.label = E.label
            /\ own \in DOMAIN U.scope
<1> DEFINE T == Allocate(table, "namespace", s, current_scope)
           E == Enlist(T, Fresh(table), current_scope)
           own == T.entity[Fresh(table)].own
           U == scope_push(E, own, current_scope)
<1>1. current_scope \in Nat
  BY Lengths
<1>2. Good(T) /\ FreshEntity(T, Fresh(table)) /\ Larger(table, T)
      /\ Allocated(table, T, "namespace", s, current_scope)
  BY <1>1, LargerAllocate, FreshAllocated DEF Kinds
<1>3. Larger(T, E) /\ Enlisted(T, E, Fresh(table), current_scope)
  <2>1. current_scope \in DOMAIN T.scope
    BY <1>2 DEF Larger
  <2> HIDE DEF T
  <2> QED BY <1>2, <2>1, LargerEnlist
<1>4. own = Len(table.scope) + 1
  BY <1>2 DEF Allocated, Owners
<1>5. own \in DOMAIN E.scope /\ current_scope \in DOMAIN E.scope
  <2>1. T.scope = Append(table.scope, NewScope)
    BY <1>2 DEF Allocated, Owners
  <2>2. own \in DOMAIN T.scope /\ current_scope \in DOMAIN T.scope
    <3>1. DOMAIN T.scope = 1 .. Len(table.scope) + 1
      BY <2>1
    <3> HIDE DEF T, own
    <3> QED BY <1>4, <3>1, Lengths
  <2> HIDE DEF T, E, own
  <2> QED BY <2>2, <1>3 DEF Larger
<1> HIDE DEF E, own
<1>6. Good(E)
  BY <1>3 DEF Larger
<1>7. ScopePushed(E, U, own, current_scope) /\ Good(U)
  BY <1>5, <1>6, GoodScopePush
<1> HIDE DEF U
<1>8. U.env = E.env /\ U.label = E.label /\ U.entity = E.entity
  BY <1>7 DEF ScopePushed, Touched
<1>9. DOMAIN U.scope = DOMAIN E.scope
  <2>1. Len(U.scope) = Len(E.scope)
    BY <1>7 DEF ScopePushed
  <2> QED BY <2>1, <1>6, <1>7, Lengths
<1>10. Larger(E, U)
  BY <1>6, <1>7, <1>8, <1>9, LargerSame
<1>11. Larger(table, E)
  <2> HIDE DEF T
  <2> QED BY <1>2, <1>3, LargerTrans
<1> QED BY <1>5, <1>8, <1>9, <1>10, <1>11 DEF U, E, own

-----------------------------------------------------------------------------
(***************************************************************************)
(* A function declarator, and what follows it.                             *)
(***************************************************************************)
LEMMA DeclaredLarger ==
  ASSUME Good(table), NEW s \in Symbols, NEW q \in Seq(Symbols)
  PROVE  LET T   == Declarator(s, q)
             own == Len(table.scope) + 1
             nd  == Fresh(table)
         IN /\ Larger(table, T) /\ T.env = table.env /\ T.label = table.label
            /\ nd \in DOMAIN T.entity /\ nd \in Nat /\ own \in DOMAIN T.scope /\ own \in Nat
            /\ own \notin DOMAIN table.scope
            /\ FreshEntity(T, nd) /\ T.entity[nd].kind = "function" /\ T.entity[nd].own = own
            /\ \E L \in Seq(DOMAIN T.entity) :
                 /\ ListPart(T, own, L)
                 /\ \A k \in DOMAIN L : Hidden(T, L[k]) /\ L[k] # nd
<1> DEFINE T   == Declarator(s, q)
           own == Len(table.scope) + 1
           nd  == Fresh(table)
           L   == NewParameters(table, Len(q))
<1>1. Declares(table, T, s, q, Len(q))
  BY DeclaratorIs
<1> HIDE DEF T
<1>2. Good(T) /\ T.env = table.env /\ T.label = table.label
  BY <1>1 DEF Declares
<1>3. Len(q) \in Nat /\ Len(table.entity) \in Nat /\ Len(table.scope) \in Nat
  BY Lengths
<1>4. /\ DOMAIN table.scope = 1 .. Len(table.scope) /\ DOMAIN table.entity = 1 .. Len(table.entity)
      /\ DOMAIN T.scope = 1 .. Len(T.scope) /\ DOMAIN T.entity = 1 .. Len(T.entity)
  BY <1>2, Lengths
<1>5. Len(T.entity) = Len(table.entity) + 1 + Len(q) /\ Len(T.scope) = Len(table.scope) + 1
  BY <1>1 DEF Declares, Fresh
<1>6. /\ DOMAIN table.scope \subseteq DOMAIN T.scope /\ DOMAIN table.entity \subseteq DOMAIN T.entity
      /\ own \in DOMAIN T.scope /\ own \in Nat /\ nd \in Nat /\ own \notin DOMAIN table.scope
  <2>1. PICK a, b, c, d, m : /\ a = Len(table.scope) /\ b = Len(T.scope) /\ c = Len(table.entity)
                             /\ d = Len(T.entity) /\ m = Len(q)
    OBVIOUS
  <2>2. b = a + 1 /\ d = c + 1 + m /\ a \in Nat /\ c \in Nat /\ m \in Nat
    BY <2>1, <1>3, <1>5
  <2>3. /\ 1 .. a \subseteq 1 .. b /\ 1 .. c \subseteq 1 .. d /\ a + 1 \in 1 .. b /\ a + 1 \in Nat
        /\ c + 1 \in Nat /\ a + 1 \notin 1 .. a
    BY ONLY <2>2
  <2> QED BY <2>1, <2>3, <1>4 DEF Fresh
<1>7. Larger(table, T)
  BY <1>2, <1>6, LargerSame
<1>8. FreshEntity(T, nd) /\ T.entity[nd].kind = "function" /\ T.entity[nd].own = own
  BY <1>1 DEF Declares
<1>9. nd \in DOMAIN T.entity
  BY <1>8 DEF FreshEntity, Hidden
<1>10. ListPart(T, own, L)
  BY <1>1 DEF Declares
<1>11. L \in Seq(DOMAIN T.entity)
  <2>1. Linked(T.scope[own].entities, T.next, L)
    BY <1>10 DEF ListPart
  <2> QED BY <1>2, <2>1, ListedIs DEF Good, Table
<1>12. ASSUME NEW k \in DOMAIN L PROVE Hidden(T, L[k]) /\ L[k] # nd
  <2>1. k \in 1 .. Len(q) /\ L[k] = Fresh(table) + k
    BY <1>3, NewParametersAre DEF Good, Table
  <2>2. Hidden(T, Fresh(table) + k)
    BY <1>1, <2>1 DEF Declares
  <2>3. Fresh(table) + k # Fresh(table)
    BY <1>3, <1>6, <2>1
  <2> QED BY <2>1, <2>2, <2>3
<1> QED BY <1>2, <1>6, <1>7, <1>8, <1>9, <1>10, <1>11, <1>12 DEF T

\* The scope of the parameters is opened.
LEMMA ScopeOpened ==
  ASSUME NEW T, Good(T), NEW own \in DOMAIN T.scope, NEW around \in DOMAIN T.scope,
         NEW L, ListPart(T, own, L)
  PROVE  LET S == scope_push(T, own, around)
         IN /\ Good(S) /\ Larger(T, S) /\ S.env = T.env /\ S.label = T.label /\ S.link = T.link
            /\ S.entity = T.entity /\ S.next = T.next /\ DOMAIN S.scope = DOMAIN T.scope
            /\ ListPart(S, own, L)
            /\ \A x : Hidden(T, x) => Hidden(S, x)
<1> DEFINE S == scope_push(T, own, around)
<1>1. ScopePushed(T, S, own, around) /\ Good(S)
  BY GoodScopePush
<1> HIDE DEF S
<1>2. /\ S.env = T.env /\ S.label = T.label /\ S.link = T.link /\ S.entity = T.entity
      /\ S.next = T.next /\ Touched(T, S) /\ Len(S.scope) = Len(T.scope)
  BY <1>1 DEF ScopePushed, Touched
<1>3. DOMAIN S.scope = DOMAIN T.scope
  BY <1>1, <1>2, Lengths
<1>4. \A x \in DOMAIN T.scope : /\ S.scope[x].last_entity = T.scope[x].last_entity
                                /\ S.scope[x].entities = T.scope[x].entities
  BY <1>1 DEF ScopePushed
<1>5. Larger(T, S)
  BY <1>1, <1>2, <1>3, LargerSame
<1>6. Shape(T) /\ Shape(S) /\ Table(T) /\ Table(S) /\ Chained(T)
  BY <1>1 DEF Good, Table
<1>7. ListPart(S, own, L)
  BY <1>2, <1>3, <1>4, <1>6, ListKept
<1>8. Alike(T, S, {})
  BY <1>2, <1>6, TouchedMeans
<1>9. \A x : Hidden(T, x) => Hidden(S, x)
  BY <1>2, <1>6, <1>8, HiddenAlike
<1> QED BY <1>1, <1>2, <1>3, <1>5, <1>7, <1>9 DEF S

LEMMA HeadOpened ==
  ASSUME Good(table), current_scope \in DOMAIN table.scope,
         NEW s \in Symbols, NEW q \in Seq(Symbols)
  PROVE  LET T   == Declarator(s, q)
             own == Len(table.scope) + 1
             nd  == Fresh(table)
             U   == PushParameters(scope_push(T, own, current_scope), nd, Null)
         IN Larger(T, U) /\ \E L : HeadList(U, Len(T.env), own, nd, L)
<1> DEFINE T   == Declarator(s, q)
           own == Len(table.scope) + 1
           nd  == Fresh(table)
           S   == scope_push(T, own, current_scope)
           U   == PushParameters(S, nd, Null)
<1>1. /\ Larger(table, T) /\ nd \in DOMAIN T.entity /\ own \in DOMAIN T.scope
      /\ FreshEntity(T, nd) /\ T.entity[nd].kind = "function" /\ T.entity[nd].own = own
      /\ \E L \in Seq(DOMAIN T.entity) :
           /\ ListPart(T, own, L)
           /\ \A k \in DOMAIN L : Hidden(T, L[k]) /\ L[k] # nd
  BY DeclaredLarger
<1> HIDE DEF T, own, nd
<1>2. PICK L \in Seq(DOMAIN T.entity) :
           /\ ListPart(T, own, L)
           /\ \A k \in DOMAIN L : Hidden(T, L[k]) /\ L[k] # nd
  BY <1>1
<1>3. Good(T) /\ current_scope \in DOMAIN T.scope
  BY <1>1 DEF Larger
<1>4. /\ Good(S) /\ Larger(T, S) /\ S.env = T.env /\ S.label = T.label /\ S.link = T.link
      /\ S.entity = T.entity /\ S.next = T.next /\ DOMAIN S.scope = DOMAIN T.scope
      /\ ListPart(S, own, L)
      /\ \A x : Hidden(T, x) => Hidden(S, x)
  BY <1>1, <1>2, <1>3, ScopeOpened
<1> HIDE DEF S
<1>5. Hidden(S, nd) /\ \A k \in DOMAIN L : Hidden(S, L[k]) /\ L[k] # nd
  BY <1>1, <1>2, <1>4 DEF FreshEntity
<1>6. Ready(S, L, 0)
  BY <1>5 DEF Ready, Hidden
<1>7. Linked(S.scope[S.entity[nd].own].entities, S.next, L)
  BY <1>1, <1>4 DEF ListPart
<1>8. PICK w : ParametersPushed(S, U, w, L, own, Null)
  BY <1>1, <1>4, <1>6, <1>7, PushParametersAre DEF Good
<1> HIDE DEF U
<1>9. HeadList(U, Len(S.env), own, nd, L)
  BY <1>1, <1>4, <1>5, <1>8, HeadPushed
<1>10. Len(L) \in Nat /\ w[Len(L)] = U
  BY <1>8 DEF ParametersPushed
<1>11. Good(U) /\ SameTable(S, U) /\ Len(U.env) = Len(S.env) + Len(L)
  <2>1. \A i \in 0 .. Len(L) : /\ Good(w[i]) /\ SameTable(S, w[i])
                                /\ Len(w[i].env) = Len(S.env) + i
    <3>1. Good(S) /\ Len(L) \in Nat /\ ParametersPushed(S, U, w, L, own, Null)
      BY <1>4, <1>8, <1>10
    <3> HIDE DEF own
    <3> QED BY ONLY <3>1, GoodParametersPushed
  <2>2. PICK n : n = Len(L)
    OBVIOUS
  <2>3. n \in 0 .. n
    BY <1>10, <2>2
  <2>4. Good(w[n]) /\ SameTable(S, w[n]) /\ Len(w[n].env) = Len(S.env) + n
    BY <2>1, <2>2, <2>3
  <2> QED BY <2>2, <2>4, <1>10
<1>12. Larger(S, U)
  <2>1. Len(S.env) <= Len(U.env) /\ Len(S.label) <= Len(U.label)
    BY <1>4, <1>10, <1>11, Lengths DEF SameTable
  <2> QED BY <2>1, <1>11 DEF Larger, SameTable
<1>13. Larger(T, U)
  BY <1>3, <1>4, <1>12, LargerTrans
<1> QED BY <1>4, <1>9, <1>13 DEF U, S, T, own, nd

-----------------------------------------------------------------------------
(***************************************************************************)
(* The constructs that are open.                                           *)
(***************************************************************************)
OpenType == [what : {"block", "function", "kr", "namespace"}, scope : Nat, old_scope : Nat,
             top : Nat, label_top : Nat, old_function : Nat, declared : Nat]

\* What a construct that is opened over the table T says, if its entries go
\* up to the table U.
Fits(c, T, U) ==
  /\ c \in OpenType
  /\ Len(T.env) <= c.top /\ c.top <= Len(U.env)
  /\ Len(T.label) <= c.label_top /\ c.label_top <= Len(U.label)
  /\ c.old_scope \in DOMAIN U.scope

LEMMA ConstructIs ==
  ASSUME NEW what \in {"block", "function", "kr", "namespace"}, NEW scope \in Nat,
         NEW T, Good(T), current_scope \in Nat, current_function \in Nat
  PROVE  /\ Construct(what, scope, T) \in OpenType
         /\ Construct(what, scope, T).what = what
         /\ Construct(what, scope, T).scope = scope
         /\ Construct(what, scope, T).old_scope = current_scope
         /\ Construct(what, scope, T).top = Len(T.env)
         /\ Construct(what, scope, T).label_top = Len(T.label)
         /\ Construct(what, scope, T).old_function = current_function
         /\ Construct(what, scope, T).declared = Null
  BY Lengths DEF Construct, OpenType, Null

\* A construct but for one field.
LEMMA OpenedAs ==
  ASSUME NEW c \in OpenType, NEW n \in Nat
  PROVE  /\ [c EXCEPT !.old_scope = n] \in OpenType
         /\ [c EXCEPT !.old_scope = n].what = c.what
         /\ [c EXCEPT !.old_scope = n].scope = c.scope
         /\ [c EXCEPT !.old_scope = n].old_scope = n
         /\ [c EXCEPT !.old_scope = n].top = c.top
         /\ [c EXCEPT !.old_scope = n].label_top = c.label_top
         /\ [c EXCEPT !.old_scope = n].old_function = c.old_function
         /\ [c EXCEPT !.old_scope = n].declared = c.declared
         /\ [c EXCEPT !.declared = n] \in OpenType
         /\ [c EXCEPT !.declared = n].what = c.what
         /\ [c EXCEPT !.declared = n].scope = c.scope
         /\ [c EXCEPT !.declared = n].old_scope = c.old_scope
         /\ [c EXCEPT !.declared = n].top = c.top
         /\ [c EXCEPT !.declared = n].label_top = c.label_top
         /\ [c EXCEPT !.declared = n].old_function = c.old_function
         /\ [c EXCEPT !.declared = n].declared = n
  BY DEF OpenType

\* A function that has its body already leaves the constructs alone; the body
\* of another one is opened.
Redefined(T, U, s, rest, stk, cs, cf) ==
  Larger(T, U) /\ cs = s /\ stk = rest /\ cf = current_function

BodyOpened(T, U, s, rest, stk, cs, cf) ==
  /\ Larger(T, U) /\ cf \in DOMAIN T.entity /\ cs \in DOMAIN U.scope
  /\ \E b, c \in OpenType :
       /\ stk = << b, c >> \o rest
       /\ b.what = "block" /\ c.what = "function"
       /\ b.old_function = current_function /\ c.old_function = current_function
       /\ c.old_scope = s /\ b.old_scope \in DOMAIN U.scope
       /\ Len(T.env) <= c.top /\ c.top <= b.top /\ b.top <= Len(U.env)
       /\ c.label_top = Len(T.label) /\ b.label_top = Len(T.label) /\ Len(U.label) = Len(T.label)

LEMMA Defined ==
  ASSUME NEW T, Good(T), NEW nd \in DOMAIN T.entity, T.entity[nd].kind = "function",
         T.link[nd] = Null, NEW s \in DOMAIN T.scope, T.entity[nd].own # s,
         NEW L, ListPart(T, T.entity[nd].own, L), Ready(T, L, 0),
         NEW rest, DefineFunction(T, nd, s, rest),
         current_function \in Nat, current_scope \in Nat
  PROVE  \/ Redefined(T, table', s, rest, open', current_scope', current_function')
         \/ BodyOpened(T, table', s, rest, open', current_scope', current_function')
<1> DEFINE f   == Recorded(T, s, nd)
           R   == record_entity(T, s, nd)
           own == R.entity[f].own
           C   == [R EXCEPT !.scope[own] = R.scope[R.entity[nd].own]]
           S   == scope_push(C, own, s)
           P   == PushParameters(S, f, R.entity[nd].own)
           body == Len(P.scope) + 1
           B   == scope_push([P EXCEPT !.scope = Append(@, NewScope)], body, own)
           b   == [Construct("block", body, B) EXCEPT !.old_scope = own]
           c   == [Construct("function", own, R) EXCEPT !.old_scope = s]
<1>1. IF R.entity[f].complete
      THEN /\ table' = stack_pop_to(P, "env", Len(R.env))
           /\ current_scope' = s /\ open' = rest /\ UNCHANGED current_function
      ELSE /\ table' = B /\ current_function' = f /\ current_scope' = body
           /\ open' = << b, c >> \o rest
  BY DEF DefineFunction
<1>2. /\ f \in DOMAIN T.entity /\ own \in DOMAIN T.scope /\ Recording(T, R)
      /\ Good(S) /\ Good(P) /\ SameTable(S, P) /\ Len(P.env) = Len(R.env) + Len(L)
      /\ S.label = R.label /\ DOMAIN P.scope = DOMAIN T.scope
      /\ DOMAIN P.entity = DOMAIN T.entity
      /\ Good(B) /\ Touched(P, B) /\ DOMAIN P.scope \subseteq DOMAIN B.scope
      /\ body \in DOMAIN B.scope
  <2>1. /\ f \in DOMAIN T.entity /\ own \in DOMAIN T.scope /\ Recording(T, R)
        /\ Good(S) /\ Good(P) /\ SameTable(S, P) /\ Len(P.env) = Len(R.env) + Len(L)
        /\ S.label = R.label /\ DOMAIN P.scope = DOMAIN T.scope
        /\ DOMAIN P.entity = DOMAIN T.entity
        /\ Good(B) /\ Touched(P, B) /\ DOMAIN P.scope \subseteq DOMAIN B.scope
        /\ Len(P.scope) + 1 \in DOMAIN B.scope
        /\ \E w : ParametersPushed(S, P, w, L, own, R.entity[nd].own)
    BY DefineIs
  <2> HIDE DEF f, R, own, C, S, P, B
  <2> QED BY <2>1
<1> HIDE DEF f, R, own, C, S, P, body, B
<1>3. Len(L) \in Nat
  <2>1. Linked(T.scope[T.entity[nd].own].entities, T.next, L)
    BY DEF ListPart
  <2> QED BY <2>1, ListedIs DEF Good, Table
<1>4. /\ Good(R) /\ R.label = T.label /\ Len(R.env) \in {Len(T.env), Len(T.env) + 1}
      /\ P.label = T.label
  BY <1>2 DEF Recording, SameTable
<1>5. Len(T.env) \in Nat /\ Len(R.env) \in Nat /\ Len(T.label) \in Nat /\ Len(P.env) \in Nat
      /\ Len(P.label) = Len(T.label)
      /\ Len(T.env) <= Len(R.env) /\ Len(R.env) <= Len(P.env)
  <2>1. Len(T.env) \in Nat /\ Len(T.label) \in Nat
    BY Lengths
  <2>2. Len(R.env) \in Nat
    BY <1>4, Lengths
  <2>3. Len(P.env) \in Nat
    BY <1>2, Lengths
  <2>4. Len(P.env) = Len(R.env) + Len(L) /\ Len(L) \in Nat /\ P.label = T.label
    BY <1>2, <1>3, <1>4
  <2>5. Len(R.env) \in {Len(T.env), Len(T.env) + 1}
    BY <1>4
  <2> QED BY ONLY <2>1, <2>2, <2>3, <2>4, <2>5
<1>6. own \in Nat /\ s \in Nat /\ body \in Nat
  <2>1. own \in Nat /\ s \in Nat
    BY <1>2, Lengths
  <2>2. body \in Nat
    BY <1>2, Lengths
  <2> QED BY <2>1, <2>2
<1>7. CASE R.entity[f].complete
  <2> DEFINE U == stack_pop_to(P, "env", Len(R.env))
  <2>1. Len(R.env) \in 0 .. Len(StackOf(P, "env"))
    BY <1>5 DEF StackOf
  <2>2. Good(U) /\ U.entity = P.entity /\ U.scope = P.scope /\ Len(U.env) = Len(R.env)
        /\ Len(U.label) = Len(P.label)
    BY <1>2, <2>1, GoodPopTo
  <2>3. table' = U /\ current_scope' = s /\ open' = rest /\ current_function' = current_function
    BY <1>1, <1>7
  <2> HIDE DEF U
  <2>4. Larger(T, U)
    BY <1>2, <1>5, <2>2 DEF Larger
  <2> QED BY <2>3, <2>4 DEF Redefined
<1>8. CASE ~R.entity[f].complete
  <2>1. /\ table' = B /\ current_function' = f /\ current_scope' = body
        /\ open' = << b, c >> \o rest
    BY <1>1, <1>8
  <2>2. B.env = P.env /\ B.label = P.label /\ Len(B.entity) = Len(P.entity)
    BY <1>2 DEF Touched
  <2>3. DOMAIN B.entity = DOMAIN P.entity
    BY <1>2, <2>2, Lengths
  <2>4. Larger(T, B)
    BY <1>2, <1>5, <2>2, <2>3 DEF Larger
  <2>5. /\ b \in OpenType /\ b.what = "block" /\ b.old_scope = own /\ b.top = Len(B.env)
        /\ b.label_top = Len(B.label) /\ b.old_function = current_function
    <3> DEFINE d == Construct("block", body, B)
    <3>1. /\ d \in OpenType /\ d.what = "block" /\ d.top = Len(B.env)
          /\ d.label_top = Len(B.label) /\ d.old_function = current_function
      BY <1>2, <1>6, ConstructIs
    <3> HIDE DEF d
    <3> QED BY <1>6, <3>1, OpenedAs DEF d
  <2>6. /\ c \in OpenType /\ c.what = "function" /\ c.old_scope = s /\ c.top = Len(R.env)
        /\ c.label_top = Len(R.label) /\ c.old_function = current_function
    <3> DEFINE d == Construct("function", own, R)
    <3>1. /\ d \in OpenType /\ d.what = "function" /\ d.top = Len(R.env)
          /\ d.label_top = Len(R.label) /\ d.old_function = current_function
      BY <1>4, <1>6, ConstructIs
    <3> HIDE DEF d
    <3> QED BY <1>6, <3>1, OpenedAs DEF d
  <2> HIDE DEF b, c
  <2>7. own \in DOMAIN B.scope
    BY <1>2
  <2>8. /\ Len(T.env) <= c.top /\ c.top <= b.top /\ b.top <= Len(B.env)
        /\ c.label_top = Len(T.label) /\ b.label_top = Len(T.label) /\ Len(B.label) = Len(T.label)
    BY <1>4, <1>5, <2>2, <2>5, <2>6
  <2>9. BodyOpened(T, B, s, rest, << b, c >> \o rest, body, f)
    BY <1>2, <2>4, <2>5, <2>6, <2>7, <2>8 DEF BodyOpened
  <2> QED BY <2>1, <2>9
<1> QED BY <1>7, <1>8

\* The constructs that are open, innermost first: what they pop is on the
\* stacks, those inside before those around.
Nested(T, stk) ==
  /\ stk \in Seq(OpenType)
  /\ \A k \in DOMAIN stk : /\ stk[k].top <= Len(T.env) /\ stk[k].label_top <= Len(T.label)
                           /\ stk[k].old_scope \in DOMAIN T.scope
                           /\ stk[k].old_function \in {Null} \cup DOMAIN T.entity
  /\ \A k, l \in DOMAIN stk : k < l => /\ stk[l].top <= stk[k].top
                                       /\ stk[l].label_top <= stk[k].label_top

LEMMA NestedLarger ==
  ASSUME NEW T, Good(T), NEW U, Larger(T, U), NEW stk, Nested(T, stk)
  PROVE  Nested(U, stk)
<1>1. /\ Len(T.env) \in Nat /\ Len(U.env) \in Nat /\ Len(T.label) \in Nat /\ Len(U.label) \in Nat
      /\ Len(T.env) <= Len(U.env) /\ Len(T.label) <= Len(U.label)
      /\ DOMAIN T.scope \subseteq DOMAIN U.scope /\ DOMAIN T.entity \subseteq DOMAIN U.entity
  BY Lengths DEF Larger
<1>2. ASSUME NEW k \in DOMAIN stk
      PROVE  /\ stk[k].top <= Len(U.env) /\ stk[k].label_top <= Len(U.label)
             /\ stk[k].old_scope \in DOMAIN U.scope
             /\ stk[k].old_function \in {Null} \cup DOMAIN U.entity
  <2>1. /\ stk[k].top <= Len(T.env) /\ stk[k].label_top <= Len(T.label)
        /\ stk[k].old_scope \in DOMAIN T.scope
        /\ stk[k].old_function \in {Null} \cup DOMAIN T.entity
    BY DEF Nested
  <2>2. stk[k].top \in Nat /\ stk[k].label_top \in Nat
    <3>1. stk \in Seq(OpenType)
      BY DEF Nested
    <3>2. stk[k] \in OpenType
      BY <3>1
    <3> QED BY <3>2 DEF OpenType
  <2>3. stk[k].top <= Len(U.env) /\ stk[k].label_top <= Len(U.label)
    BY <1>1, <2>1, <2>2
  <2> QED BY <1>1, <2>1, <2>3
<1> QED BY <1>2 DEF Nested

\* A sequence with a new first element.
LEMMA Prepended ==
  ASSUME NEW S, NEW c \in S, NEW q \in Seq(S)
  PROVE  /\ << c >> \o q \in Seq(S) /\ Len(<< c >> \o q) = Len(q) + 1
         /\ DOMAIN (<< c >> \o q) = 1 .. Len(q) + 1
         /\ (<< c >> \o q)[1] = c
         /\ \A k \in 1 .. Len(q) + 1 : k # 1 => /\ k - 1 \in DOMAIN q
                                               /\ (<< c >> \o q)[k] = q[k - 1]
<1>1. << c >> \o q \in Seq(S) /\ Len(<< c >> \o q) = Len(q) + 1 /\ Len(q) \in Nat
  OBVIOUS
<1>2. DOMAIN (<< c >> \o q) = 1 .. Len(q) + 1 /\ (<< c >> \o q)[1] = c
  BY <1>1
<1>3. ASSUME NEW k \in 1 .. Len(q) + 1, k # 1
      PROVE  k - 1 \in DOMAIN q /\ (<< c >> \o q)[k] = q[k - 1]
  <2>1. k - 1 \in 1 .. Len(q) /\ k # 1 /\ k \in 1 .. Len(q) + 1
    BY <1>1, <1>3
  <2>2. (<< c >> \o q)[k] = q[k - 1]
    BY <1>1, <2>1
  <2> QED BY <2>1, <2>2
<1> QED BY <1>1, <1>2, <1>3

\* A construct is opened.
LEMMA NestedOpened ==
  ASSUME NEW T, Good(T), NEW U, Larger(T, U), NEW stk, Nested(T, stk),
         NEW c \in OpenType, Len(T.env) <= c.top, c.top <= Len(U.env),
         Len(T.label) <= c.label_top, c.label_top <= Len(U.label),
         c.old_scope \in DOMAIN U.scope, c.old_function \in {Null} \cup DOMAIN U.entity
  PROVE  Nested(U, << c >> \o stk)
<1> DEFINE new == << c >> \o stk
<1>1. stk \in Seq(OpenType) /\ Nested(U, stk)
  BY NestedLarger DEF Nested
<1>2. /\ new \in Seq(OpenType) /\ DOMAIN new = 1 .. Len(stk) + 1 /\ new[1] = c
      /\ \A k \in 1 .. Len(stk) + 1 : k # 1 => k - 1 \in DOMAIN stk /\ new[k] = stk[k - 1]
  BY <1>1, Prepended
<1> HIDE DEF new
<1>3. ASSUME NEW k \in DOMAIN new
      PROVE  /\ new[k].top <= Len(U.env) /\ new[k].label_top <= Len(U.label)
             /\ new[k].old_scope \in DOMAIN U.scope
             /\ new[k].old_function \in {Null} \cup DOMAIN U.entity
  <2>1. CASE k = 1
    BY <1>2, <2>1
  <2>2. CASE k # 1
    <3>1. k - 1 \in DOMAIN stk /\ new[k] = stk[k - 1]
      BY <1>2, <2>2
    <3>2. PICK j : j = k - 1
      OBVIOUS
    <3>3. j \in DOMAIN stk /\ new[k] = stk[j]
      BY <3>1, <3>2
    <3> QED BY <1>1, <3>3 DEF Nested
  <2> QED BY <2>1, <2>2
<1>4. ASSUME NEW k \in DOMAIN new, NEW l \in DOMAIN new, k < l
      PROVE  new[l].top <= new[k].top /\ new[l].label_top <= new[k].label_top
  <2>0. k \in Nat /\ l \in Nat /\ l # 1
    <3>1. Len(stk) \in Nat
      BY <1>1
    <3> QED BY <1>2, <1>4, <3>1
  <2>1. l - 1 \in DOMAIN stk /\ new[l] = stk[l - 1]
    BY <1>2, <2>0
  <2>2. PICK j : j = l - 1
    OBVIOUS
  <2>3. j \in DOMAIN stk /\ new[l] = stk[j]
    BY <2>1, <2>2
  <2>4. CASE k = 1
    <3>1. stk[j] \in OpenType
      BY <1>1, <2>3
    <3>2. stk[j].top \in Nat /\ stk[j].label_top \in Nat /\ c.top \in Nat /\ c.label_top \in Nat
      BY <3>1 DEF OpenType
    <3>3. stk[j].top <= Len(T.env) /\ stk[j].label_top <= Len(T.label)
      BY <2>3 DEF Nested
    <3>4. Len(T.env) \in Nat /\ Len(T.label) \in Nat
      BY Lengths
    <3> QED BY <1>2, <2>3, <2>4, <3>2, <3>3, <3>4
  <2>5. CASE k # 1
    <3>1. k - 1 \in DOMAIN stk /\ new[k] = stk[k - 1]
      BY <1>2, <2>5
    <3>2. PICK i : i = k - 1
      OBVIOUS
    <3>3. i \in DOMAIN stk /\ new[k] = stk[i] /\ i < j
      BY <1>4, <2>0, <2>2, <3>1, <3>2
    <3> QED BY <1>1, <2>3, <3>3 DEF Nested
  <2> QED BY <2>4, <2>5
<1>5. Nested(U, new)
  BY <1>2, <1>3, <1>4 DEF Nested
<1> QED BY <1>5 DEF new

LEMMA PrependTwo ==
  ASSUME NEW S, NEW b \in S, NEW c \in S, NEW q \in Seq(S)
  PROVE  << b, c >> \o q = << b >> \o (<< c >> \o q)
<1> DEFINE u == << b, c >> \o q
           v == << c >> \o q
           w == << b >> \o v
<1>1. /\ v \in Seq(S) /\ Len(v) = Len(q) + 1 /\ v[1] = c
      /\ \A k \in 1 .. Len(q) + 1 : k # 1 => v[k] = q[k - 1]
  BY Prepended
<1> HIDE DEF v
<1>2. /\ w \in Seq(S) /\ Len(w) = Len(v) + 1 /\ w[1] = b
      /\ \A k \in 1 .. Len(v) + 1 : k # 1 => w[k] = v[k - 1]
  BY <1>1, Prepended
<1> HIDE DEF w
<1>3. Len(q) \in Nat
  OBVIOUS
<1>4. u \in Seq(S) /\ Len(u) = Len(q) + 2
  BY <1>3
<1>5. ASSUME NEW k \in 1 .. Len(q) + 2
      PROVE  u[k] = IF k <= 2 THEN << b, c >>[k] ELSE q[k - 2]
  BY <1>3, <1>5
<1> HIDE DEF u
<1>6. ASSUME NEW k \in 1 .. Len(q) + 2
      PROVE  u[k] = w[k]
  <2>1. CASE k = 1
    BY <1>2, <1>5, <2>1
  <2>2. CASE k # 1
    <3>1. PICK j : j = k - 1
      OBVIOUS
    <3>2. j \in 1 .. Len(q) + 1 /\ k - 2 = j - 1
      BY <1>3, <2>2, <3>1
    <3>3. w[k] = v[j]
      BY <1>1, <1>2, <1>3, <2>2, <3>1
    <3>4. CASE j = 1
      <4>1. k = 2
        BY <1>3, <3>1, <3>4
      <4>2. u[2] = c
        BY <1>3, <1>5, <4>1
      <4> QED BY <1>1, <3>3, <3>4, <4>1, <4>2
    <3>5. CASE j # 1
      <4>1. v[j] = q[j - 1]
        BY <1>1, <3>2, <3>5
      <4>2. ~(k <= 2)
        BY <1>3, <2>2, <3>1, <3>5
      <4>3. u[k] = q[k - 2]
        BY <1>5, <4>2
      <4> QED BY <3>2, <3>3, <4>1, <4>3
    <3> QED BY <3>4, <3>5
  <2> QED BY <2>1, <2>2
<1>7. Len(u) = Len(w) /\ DOMAIN u = 1 .. Len(q) + 2 /\ DOMAIN w = 1 .. Len(q) + 2
  BY <1>1, <1>2, <1>3, <1>4
<1>8. u = w
  <2>1. \A k \in DOMAIN u : u[k] = w[k]
    BY <1>6, <1>7
  <2>2. u \in Seq(S) /\ w \in Seq(S) /\ Len(u) = Len(w) /\ DOMAIN u = DOMAIN w
    BY <1>2, <1>4, <1>7
  <2> QED BY ONLY <2>1, <2>2
<1> QED BY <1>8 DEF u, v, w

LEMMA TailIs ==
  ASSUME NEW S, NEW q \in Seq(S), q # <<>>
  PROVE  /\ Tail(q) \in Seq(S) /\ Len(q) \in Nat /\ Len(q) # 0 /\ DOMAIN q = 1 .. Len(q)
         /\ 1 \in DOMAIN q /\ Head(q) = q[1] /\ q[1] \in S
         /\ Len(Tail(q)) = Len(q) - 1 /\ DOMAIN Tail(q) = 1 .. Len(q) - 1
         /\ \A k \in DOMAIN Tail(q) : /\ k \in Nat /\ k + 1 \in DOMAIN q
                                      /\ Tail(q)[k] = q[k + 1]
<1>1. Tail(q) \in Seq(S) /\ Len(q) \in Nat /\ Len(q) # 0 /\ DOMAIN q = 1 .. Len(q)
      /\ Head(q) = q[1]
  OBVIOUS
<1>2. Len(Tail(q)) = Len(q) - 1
  OBVIOUS
<1>3. DOMAIN Tail(q) = 1 .. Len(q) - 1
  BY <1>1, <1>2
<1>4. ASSUME NEW k \in DOMAIN Tail(q)
      PROVE  k \in Nat /\ k + 1 \in DOMAIN q /\ Tail(q)[k] = q[k + 1]
  BY <1>1, <1>3
<1>5. 1 \in DOMAIN q
  BY <1>1
<1> QED BY <1>1, <1>2, <1>3, <1>4, <1>5

\* The innermost construct is closed.
LEMMA NestedClosed ==
  ASSUME NEW T, NEW stk, Nested(T, stk), stk # <<>>, NEW U, Good(U), Good(T),
         stk[1].top <= Len(U.env), stk[1].label_top <= Len(U.label),
         DOMAIN T.scope \subseteq DOMAIN U.scope, DOMAIN T.entity \subseteq DOMAIN U.entity
  PROVE  Nested(U, Tail(stk))
<1> DEFINE new == Tail(stk)
<1>0. stk \in Seq(OpenType)
  BY DEF Nested
<1>1. /\ new \in Seq(OpenType) /\ 1 \in DOMAIN stk /\ stk[1] \in OpenType
      /\ \A k \in DOMAIN new : k \in Nat /\ k + 1 \in DOMAIN stk /\ new[k] = stk[k + 1]
      /\ DOMAIN new = 1 .. Len(stk) - 1 /\ Len(stk) \in Nat
  BY <1>0, TailIs
<1>2. Len(U.env) \in Nat /\ Len(U.label) \in Nat
  BY Lengths
<1> HIDE DEF new
<1>3. ASSUME NEW k \in DOMAIN new
      PROVE  /\ new[k].top <= Len(U.env) /\ new[k].label_top <= Len(U.label)
             /\ new[k].old_scope \in DOMAIN U.scope
             /\ new[k].old_function \in {Null} \cup DOMAIN U.entity
  <2>1. PICK j : j = k + 1
    OBVIOUS
  <2>2. j \in DOMAIN stk /\ new[k] = stk[j] /\ 1 < j
    BY <1>1, <2>1
  <2>3. stk[j] \in OpenType
    BY <1>0, <2>2
  <2>4. /\ stk[j].top <= stk[1].top /\ stk[j].label_top <= stk[1].label_top
        /\ stk[j].old_scope \in DOMAIN T.scope
        /\ stk[j].old_function \in {Null} \cup DOMAIN T.entity
    BY <1>1, <2>2 DEF Nested
  <2>5. /\ stk[j].top \in Nat /\ stk[j].label_top \in Nat
        /\ stk[1].top \in Nat /\ stk[1].label_top \in Nat
    BY <1>1, <2>3 DEF OpenType
  <2>6. stk[j].top <= Len(U.env) /\ stk[j].label_top <= Len(U.label)
    BY <1>2, <2>4, <2>5
  <2> QED BY <2>2, <2>4, <2>6
<1>4. ASSUME NEW k \in DOMAIN new, NEW l \in DOMAIN new, k < l
      PROVE  new[l].top <= new[k].top /\ new[l].label_top <= new[k].label_top
  <2>1. PICK i, j : i = k + 1 /\ j = l + 1
    OBVIOUS
  <2>2. i \in DOMAIN stk /\ j \in DOMAIN stk /\ new[k] = stk[i] /\ new[l] = stk[j]
    BY <1>1, <2>1
  <2>3. i < j
    BY <1>1, <1>4, <2>1
  <2> QED BY <2>2, <2>3 DEF Nested
<1>5. Nested(U, new)
  BY <1>1, <1>3, <1>4 DEF Nested
<1> QED BY <1>5 DEF new

\* Inside a function there is a current function; a head of an old-style
\* definition is innermost, and the current scope is that of its parameters.
Functions(stk, cf) ==
  /\ \A k \in DOMAIN stk : stk[k].what \in {"block", "function"} => cf # Null
  /\ \A k, l \in DOMAIN stk :
       k < l /\ stk[k].what = "function" /\ stk[l].what \in {"block", "function"}
         => stk[k].old_function # Null

NoHead(stk) == \A k \in DOMAIN stk : stk[k].what # "kr"

Headed(T, stk, cs) ==
  /\ \A k \in DOMAIN stk : k # 1 => stk[k].what # "kr"
  /\ \A k \in DOMAIN stk : stk[k].what = "kr" =>
       /\ stk[k].old_scope # cs
       /\ \E L : HeadList(T, stk[k].top, cs, stk[k].declared, L)

Inv(T, cs, cf, stk) ==
  /\ Good(T) /\ cs \in DOMAIN T.scope /\ cf \in {Null} \cup DOMAIN T.entity
  /\ Nested(T, stk) /\ Functions(stk, cf) /\ Headed(T, stk, cs)

LEMMA InvStay ==
  ASSUME NEW T, NEW cs, NEW cf, NEW stk, Inv(T, cs, cf, stk), NEW U, Larger(T, U),
         NoHead(stk) \/ Keeps(T, U, cs)
  PROVE  Inv(U, cs, cf, stk)
<1>1. Good(T) /\ cs \in DOMAIN T.scope /\ cf \in {Null} \cup DOMAIN T.entity
      /\ Nested(T, stk) /\ Functions(stk, cf) /\ Headed(T, stk, cs)
  BY DEF Inv
<1>2. Good(U) /\ cs \in DOMAIN U.scope /\ cf \in {Null} \cup DOMAIN U.entity
  BY <1>1 DEF Larger
<1>3. Nested(U, stk)
  BY <1>1, NestedLarger
<1>4. Headed(U, stk, cs)
  <2>1. CASE NoHead(stk)
    BY <2>1 DEF NoHead, Headed
  <2>2. CASE Keeps(T, U, cs)
    <3>1. ASSUME NEW k \in DOMAIN stk, stk[k].what = "kr"
          PROVE  \E L : HeadList(U, stk[k].top, cs, stk[k].declared, L)
      <4>1. PICK L : HeadList(T, stk[k].top, cs, stk[k].declared, L)
        BY <1>1, <3>1 DEF Headed
      <4> QED BY <2>2, <4>1 DEF Keeps
    <3> QED BY <1>1, <3>1 DEF Headed
  <2> QED BY <2>1, <2>2
<1> QED BY <1>1, <1>2, <1>3, <1>4 DEF Inv

\* The functions and heads around a new construct.
LEMMA PrependedFunctions ==
  ASSUME NEW stk \in Seq(OpenType), NEW cf, NEW c \in OpenType, NEW old, Functions(stk, old),
         c.what \in {"block", "function"} => cf # Null,
         c.what = "function" => c.old_function = old,
         c.what # "function" => cf = old,
         old # Null => cf # Null
  PROVE  Functions(<< c >> \o stk, cf)
<1> DEFINE new == << c >> \o stk
<1>1. /\ DOMAIN new = 1 .. Len(stk) + 1 /\ new[1] = c
      /\ \A k \in 1 .. Len(stk) + 1 : k # 1 => k - 1 \in DOMAIN stk /\ new[k] = stk[k - 1]
  BY Prepended
<1>0. Len(stk) \in Nat
  OBVIOUS
<1> HIDE DEF new
<1>2. ASSUME NEW k \in DOMAIN new, k # 1
      PROVE  \E j \in DOMAIN stk : new[k] = stk[j] /\ j = k - 1
  BY <1>1, <1>2
<1>3. ASSUME NEW k \in DOMAIN new, new[k].what \in {"block", "function"}
      PROVE  cf # Null
  <2>1. CASE k = 1
    BY <1>1, <1>3, <2>1
  <2>2. CASE k # 1
    <3>1. PICK j \in DOMAIN stk : new[k] = stk[j]
      BY <1>2, <2>2
    <3> QED BY <1>3, <3>1 DEF Functions
  <2> QED BY <2>1, <2>2
<1>4. ASSUME NEW k \in DOMAIN new, NEW l \in DOMAIN new, k < l, new[k].what = "function",
             new[l].what \in {"block", "function"}
      PROVE  new[k].old_function # Null
  <2>1. k \in Nat /\ l \in Nat /\ l # 1
    BY <1>0, <1>1, <1>4
  <2>2. PICK j \in DOMAIN stk : new[l] = stk[j] /\ j = l - 1
    BY <1>2, <2>1
  <2>3. CASE k = 1
    <3>1. old # Null
      BY <1>4, <2>2 DEF Functions
    <3> QED BY <1>1, <1>4, <2>3, <3>1
  <2>4. CASE k # 1
    <3>1. PICK i \in DOMAIN stk : new[k] = stk[i] /\ i = k - 1
      BY <1>2, <2>4
    <3>2. i < j
      BY <1>4, <2>1, <2>2, <3>1
    <3> QED BY <1>4, <2>2, <3>1, <3>2 DEF Functions
  <2> QED BY <2>3, <2>4
<1>5. Functions(new, cf)
  BY <1>3, <1>4 DEF Functions
<1> QED BY <1>5 DEF new

LEMMA PrependedHeaded ==
  ASSUME NEW stk \in Seq(OpenType), NoHead(stk), NEW c \in OpenType, NEW T, NEW cs,
         c.what = "kr" => /\ c.old_scope # cs
                          /\ \E L : HeadList(T, c.top, cs, c.declared, L)
  PROVE  Headed(T, << c >> \o stk, cs) /\ (c.what # "kr" => NoHead(<< c >> \o stk))
<1> DEFINE new == << c >> \o stk
<1>1. /\ DOMAIN new = 1 .. Len(stk) + 1 /\ new[1] = c
      /\ \A k \in 1 .. Len(stk) + 1 : k # 1 => k - 1 \in DOMAIN stk /\ new[k] = stk[k - 1]
  BY Prepended
<1> HIDE DEF new
<1>2. ASSUME NEW k \in DOMAIN new, k # 1
      PROVE  new[k].what # "kr"
  <2>1. PICK j : j = k - 1
    OBVIOUS
  <2>2. j \in DOMAIN stk /\ new[k] = stk[j]
    BY <1>1, <1>2, <2>1
  <2> QED BY <2>2 DEF NoHead
<1>3. Headed(T, new, cs) /\ (c.what # "kr" => NoHead(new))
  BY <1>1, <1>2 DEF Headed, NoHead
<1> QED BY <1>3 DEF new

\* A block, a namespace or a head is opened.
LEMMA InvOpen ==
  ASSUME NEW T, NEW cs, NEW cf, NEW stk, Inv(T, cs, cf, stk), NoHead(stk), NEW U, Larger(T, U),
         NEW c \in OpenType, c.what # "function", c.what = "block" => cf # Null,
         Len(T.env) <= c.top, c.top <= Len(U.env),
         Len(T.label) <= c.label_top, c.label_top <= Len(U.label),
         c.old_scope = cs, c.old_function = cf, NEW s \in DOMAIN U.scope,
         c.what = "kr" => /\ cs # s
                          /\ \E L : HeadList(U, c.top, s, c.declared, L)
  PROVE  Inv(U, s, cf, << c >> \o stk)
<1>1. Good(T) /\ cs \in DOMAIN T.scope /\ cf \in {Null} \cup DOMAIN T.entity
      /\ Nested(T, stk) /\ Functions(stk, cf)
  BY DEF Inv
<1>2. stk \in Seq(OpenType)
  BY <1>1 DEF Nested
<1>3. Good(U) /\ cs \in DOMAIN U.scope /\ cf \in {Null} \cup DOMAIN U.entity
  BY <1>1 DEF Larger
<1>4. Nested(U, << c >> \o stk)
  BY <1>1, <1>3, NestedOpened
<1>5. Functions(<< c >> \o stk, cf)
  BY <1>1, <1>2, PrependedFunctions
<1>6. Headed(U, << c >> \o stk, s)
  BY <1>2, PrependedHeaded
<1> QED BY <1>3, <1>4, <1>5, <1>6 DEF Inv

\* The construct that is innermost is closed, but for a body.
LEMMA InvClose ==
  ASSUME NEW T, NEW cs, NEW cf, NEW stk, Inv(T, cs, cf, stk), stk # <<>>,
         NEW U, Good(U), stk[1].top <= Len(U.env), stk[1].label_top <= Len(U.label),
         DOMAIN T.scope \subseteq DOMAIN U.scope, DOMAIN T.entity \subseteq DOMAIN U.entity
  PROVE  /\ Inv(U, stk[1].old_scope, cf, Tail(stk)) /\ NoHead(Tail(stk))
<1> DEFINE new == Tail(stk)
<1>1. Good(T) /\ cf \in {Null} \cup DOMAIN T.entity
      /\ Nested(T, stk) /\ Functions(stk, cf) /\ Headed(T, stk, cs)
  BY DEF Inv
<1>2. stk \in Seq(OpenType)
  BY <1>1 DEF Nested
<1>3. /\ 1 \in DOMAIN stk
      /\ \A k \in DOMAIN new : k \in Nat /\ k + 1 \in DOMAIN stk /\ new[k] = stk[k + 1]
  BY <1>2, TailIs
<1>4. stk[1].old_scope \in DOMAIN U.scope
  BY <1>1, <1>3 DEF Nested
<1>5. Nested(U, new)
  BY <1>1, NestedClosed
<1> HIDE DEF new
<1>6. ASSUME NEW k \in DOMAIN new
      PROVE  \E j \in DOMAIN stk : new[k] = stk[j] /\ j = k + 1 /\ j # 1
  <2>1. k \in 1 .. Len(stk) - 1 /\ Len(stk) \in Nat
    BY <1>2, TailIs DEF new
  <2>2. PICK j : j = k + 1
    OBVIOUS
  <2>3. j # 1
    BY <2>1, <2>2
  <2>4. j \in DOMAIN stk /\ new[k] = stk[j]
    BY <1>3, <2>2
  <2> QED BY <2>2, <2>3, <2>4
<1>7. NoHead(new)
  <2>1. ASSUME NEW k \in DOMAIN new PROVE new[k].what # "kr"
    <3>1. PICK j \in DOMAIN stk : new[k] = stk[j] /\ j # 1
      BY <1>6
    <3> QED BY <1>1, <3>1 DEF Headed
  <2> QED BY <2>1 DEF NoHead
<1>8. Headed(U, new, stk[1].old_scope)
  BY <1>7 DEF NoHead, Headed
<1>9. Functions(new, cf)
  <2>1. ASSUME NEW k \in DOMAIN new, new[k].what \in {"block", "function"} PROVE cf # Null
    <3>1. PICK j \in DOMAIN stk : new[k] = stk[j]
      BY <1>6
    <3> QED BY <1>1, <2>1, <3>1 DEF Functions
  <2>2. ASSUME NEW k \in DOMAIN new, NEW l \in DOMAIN new, k < l, new[k].what = "function",
               new[l].what \in {"block", "function"}
        PROVE  new[k].old_function # Null
    <3>1. PICK i \in DOMAIN stk : new[k] = stk[i] /\ i = k + 1
      BY <1>6
    <3>2. PICK j \in DOMAIN stk : new[l] = stk[j] /\ j = l + 1
      BY <1>6
    <3>3. i < j
      BY <1>3, <2>2, <3>1, <3>2
    <3> QED BY <1>1, <2>2, <3>1, <3>2, <3>3 DEF Functions
  <2> QED BY <2>1, <2>2 DEF Functions
<1>10. cf \in {Null} \cup DOMAIN U.entity
  BY <1>1
<1> QED BY <1>4, <1>5, <1>7, <1>8, <1>9, <1>10 DEF Inv, new

\* The body of a function and the function are closed.
LEMMA InvReturn ==
  ASSUME NEW T, NEW cs, NEW cf, NEW stk, Inv(T, cs, cf, stk), Len(stk) >= 2,
         stk[2].what = "function",
         NEW U, Good(U), stk[2].top <= Len(U.env), stk[2].label_top <= Len(U.label),
         DOMAIN T.scope \subseteq DOMAIN U.scope, DOMAIN T.entity \subseteq DOMAIN U.entity
  PROVE  Inv(U, stk[2].old_scope, stk[2].old_function, Tail(Tail(stk)))
<1> DEFINE one == Tail(stk)
<1>1. Good(T) /\ Nested(T, stk) /\ Functions(stk, cf)
  BY DEF Inv
<1>2. stk \in Seq(OpenType) /\ stk # <<>>
  BY <1>1 DEF Nested
<1>3. /\ 1 \in DOMAIN stk /\ Len(stk) \in Nat /\ DOMAIN one = 1 .. Len(stk) - 1
      /\ one \in Seq(OpenType) /\ Len(one) = Len(stk) - 1
      /\ \A k \in DOMAIN one : k \in Nat /\ k + 1 \in DOMAIN stk /\ one[k] = stk[k + 1]
      /\ DOMAIN stk = 1 .. Len(stk)
  BY <1>2, TailIs
<1>4. /\ stk[1].top <= Len(T.env) /\ stk[1].label_top <= Len(T.label)
      /\ 2 \in DOMAIN stk
  BY <1>1, <1>3 DEF Nested
<1>5. Inv(T, stk[1].old_scope, cf, one) /\ NoHead(one)
  <2> HIDE DEF one
  <2> QED BY <1>1, <1>2, <1>4, InvClose DEF one
<1>6. one # <<>> /\ 1 \in DOMAIN one /\ one[1] = stk[2]
  <2>1. 1 \in DOMAIN one
    BY <1>3
  <2> HIDE DEF one
  <2>2. one[1] = stk[1 + 1]
    BY <1>3, <2>1
  <2>3. Len(one) # 0
    BY <1>3
  <2> QED BY <2>1, <2>2, <2>3
<1> HIDE DEF one
<1>7. Inv(U, stk[2].old_scope, cf, Tail(one)) /\ NoHead(Tail(one))
  BY <1>5, <1>6, InvClose
<1>8. Functions(Tail(one), stk[2].old_function)
  <2> DEFINE new == Tail(one)
  <2>1. \A k \in DOMAIN new : k \in Nat /\ k + 1 \in DOMAIN one /\ new[k] = one[k + 1]
    BY <1>3, <1>6, TailIs
  <2>2. Functions(new, cf) /\ Functions(one, cf)
    BY <1>5, <1>7 DEF Inv
  <2> HIDE DEF new
  <2>3. ASSUME NEW k \in DOMAIN new, new[k].what \in {"block", "function"}
        PROVE  stk[2].old_function # Null
    <3>1. PICK j : j = k + 1
      OBVIOUS
    <3>2. j \in DOMAIN one /\ new[k] = one[j] /\ 1 < j
      <4>1. j \in DOMAIN one /\ new[k] = one[j]
        BY <2>1, <2>3, <3>1
      <4>2. k \in 1 .. Len(one) - 1 /\ Len(one) \in Nat
        BY <1>3, <1>6, <2>3, TailIs DEF new
      <4>3. 1 < j
        BY <3>1, <4>2
      <4> QED BY <4>1, <4>3
    <3> QED BY <1>6, <2>2, <2>3, <3>2 DEF Functions
  <2>4. Functions(new, stk[2].old_function)
    BY <2>2, <2>3 DEF Functions
  <2> QED BY <2>4 DEF new
<1>9. stk[2].old_function \in {Null} \cup DOMAIN U.entity
  BY <1>1, <1>4 DEF Nested
<1>10. Inv(U, stk[2].old_scope, stk[2].old_function, Tail(one))
  BY <1>7, <1>8, <1>9 DEF Inv
<1> QED BY <1>10 DEF one

\* The body of a function is opened.
LEMMA InvBody ==
  ASSUME NEW T, Good(T), NEW rest, Nested(T, rest), Functions(rest, current_function),
         NoHead(rest), current_function \in {Null} \cup DOMAIN T.entity,
         NEW s \in DOMAIN T.scope,
         NEW U, NEW stk, NEW cs, NEW cf, BodyOpened(T, U, s, rest, stk, cs, cf)
  PROVE  Inv(U, cs, cf, stk)
<1>1. Larger(T, U) /\ cf \in DOMAIN T.entity /\ cs \in DOMAIN U.scope
  BY DEF BodyOpened
<1>2. PICK b, c \in OpenType :
       /\ stk = << b, c >> \o rest
       /\ b.what = "block" /\ c.what = "function"
       /\ b.old_function = current_function /\ c.old_function = current_function
       /\ c.old_scope = s /\ b.old_scope \in DOMAIN U.scope
       /\ Len(T.env) <= c.top /\ c.top <= b.top /\ b.top <= Len(U.env)
       /\ c.label_top = Len(T.label) /\ b.label_top = Len(T.label) /\ Len(U.label) = Len(T.label)
  BY DEF BodyOpened
<1>3. rest \in Seq(OpenType)
  BY DEF Nested
<1>4. stk = << b >> \o (<< c >> \o rest)
  <2>1. << b, c >> \o rest = << b >> \o (<< c >> \o rest)
    BY <1>3, PrependTwo
  <2>2. stk = << b, c >> \o rest
    BY <1>2
  <2> QED BY ONLY <2>1, <2>2
<1>5. /\ cf # Null /\ Good(U) /\ s \in DOMAIN U.scope /\ cf \in DOMAIN U.entity
      /\ current_function \in {Null} \cup DOMAIN U.entity
  <2>1. Shape(T)
    BY DEF Good, Table
  <2> QED BY <1>1, <2>1, EntityFacts DEF Larger
<1>6. /\ Len(T.env) \in Nat /\ Len(U.env) \in Nat /\ Len(T.label) \in Nat /\ Len(U.label) \in Nat
      /\ b.top \in Nat /\ c.top \in Nat
  BY <1>2, <1>5, Lengths DEF OpenType
<1> DEFINE mid == << c >> \o rest
<1>7. Functions(mid, cf) /\ NoHead(mid) /\ mid \in Seq(OpenType)
  <2>1. Functions(mid, cf)
    BY <1>2, <1>3, <1>5, PrependedFunctions
  <2>2. c.what # "kr"
    BY <1>2
  <2>3. NoHead(mid)
    BY <1>2, <1>3, <2>2, PrependedHeaded
  <2> QED BY <1>3, <2>1, <2>3
<1>8. Nested(U, mid)
  <2>1. /\ Len(T.env) <= c.top /\ c.top <= Len(U.env)
        /\ Len(T.label) <= c.label_top /\ c.label_top <= Len(U.label)
        /\ c.old_scope \in DOMAIN U.scope /\ c.old_function \in {Null} \cup DOMAIN U.entity
    BY <1>2, <1>5, <1>6
  <2> QED BY <1>1, <2>1, NestedOpened
<1> HIDE DEF mid
<1>9. Functions(<< b >> \o mid, cf)
  <2>1. b.what = "block"
    BY <1>2
  <2> QED BY <1>5, <1>7, <2>1, PrependedFunctions
<1>10. Headed(U, << b >> \o mid, cs)
  <2>1. b.what # "kr"
    BY <1>2
  <2> QED BY <1>7, <2>1, PrependedHeaded
<1>11. Nested(U, << b >> \o mid)
  <2> DEFINE new == << b >> \o mid
  <2>1. /\ new \in Seq(OpenType) /\ DOMAIN new = 1 .. Len(mid) + 1 /\ new[1] = b
        /\ \A k \in 1 .. Len(mid) + 1 : k # 1 => k - 1 \in DOMAIN mid /\ new[k] = mid[k - 1]
    BY <1>7, Prepended
  <2>2. mid[1] = c /\ DOMAIN mid = 1 .. Len(rest) + 1 /\ Len(rest) \in Nat /\ 1 \in DOMAIN mid
        /\ Len(mid) \in Nat
    <3>1. mid[1] = c /\ DOMAIN mid = 1 .. Len(rest) + 1
      BY <1>3, Prepended DEF mid
    <3> QED BY <1>3, <1>7, <3>1
  <2> HIDE DEF new
  <2>3. ASSUME NEW k \in DOMAIN new
        PROVE  /\ new[k].top <= Len(U.env) /\ new[k].label_top <= Len(U.label)
               /\ new[k].old_scope \in DOMAIN U.scope
               /\ new[k].old_function \in {Null} \cup DOMAIN U.entity
    <3>1. CASE k = 1
      BY <1>2, <1>5, <1>6, <2>1, <3>1
    <3>2. CASE k # 1
      <4>1. PICK j : j = k - 1
        OBVIOUS
      <4>2. j \in DOMAIN mid /\ new[k] = mid[j]
        BY <2>1, <3>2, <4>1
      <4> QED BY <1>8, <4>2 DEF Nested
    <3> QED BY <3>1, <3>2
  <2>4. ASSUME NEW k \in DOMAIN new, NEW l \in DOMAIN new, k < l
        PROVE  new[l].top <= new[k].top /\ new[l].label_top <= new[k].label_top
    <3>0. k \in Nat /\ l \in Nat /\ l # 1
      BY <2>1, <2>2, <2>4
    <3>1. PICK j : j = l - 1
      OBVIOUS
    <3>2. j \in DOMAIN mid /\ new[l] = mid[j] /\ j \in Nat
      BY <2>1, <2>2, <3>0, <3>1
    <3>3. CASE k = 1
      <4>1. mid[j].top <= c.top /\ mid[j].label_top <= c.label_top
        <5>1. CASE j = 1
          <6>1. c.label_top \in Nat
            BY <1>2 DEF OpenType
          <6> QED BY <1>6, <2>2, <5>1, <6>1
        <5>2. CASE j # 1
          <6>1. 1 < j
            BY <2>2, <3>2, <5>2
          <6> QED BY <1>8, <2>2, <3>2, <6>1 DEF Nested
        <5> QED BY <5>1, <5>2
      <4>2. mid[j].top \in Nat
        <5>1. mid[j] \in OpenType
          BY <1>7, <3>2
        <5> QED BY <5>1 DEF OpenType
      <4>3. mid[j].top <= b.top /\ c.label_top = b.label_top
        BY <1>2, <1>6, <4>1, <4>2
      <4> QED BY <2>1, <3>2, <3>3, <4>1, <4>3
    <3>4. CASE k # 1
      <4>1. PICK i : i = k - 1
        OBVIOUS
      <4>2. i \in DOMAIN mid /\ new[k] = mid[i] /\ i < j
        BY <2>1, <2>4, <3>0, <3>1, <3>4, <4>1
      <4> QED BY <1>8, <3>2, <4>2 DEF Nested
    <3> QED BY <3>3, <3>4
  <2>5. Nested(U, new)
    BY <2>1, <2>3, <2>4 DEF Nested
  <2> QED BY <2>5 DEF new
<1> QED BY <1>1, <1>4, <1>5, <1>9, <1>10, <1>11 DEF Inv, mid

-----------------------------------------------------------------------------
(***************************************************************************)
(* The invariant, and the steps that keep it.                              *)
(***************************************************************************)
\* Statement expressions in the head of an old-style definition and second
\* definitions of enums and namespaces are not in the input.
Covered == dialect \cap {"stmtexpr", "again"} = {}

ScopeInv == Inv(table, current_scope, current_function, open)

LEMMA OutsideHead ==
  ASSUME ScopeInv, ~InHead
  PROVE  NoHead(open)
<1>1. open \in Seq(OpenType) /\ Headed(table, open, current_scope)
  BY DEF ScopeInv, Inv, Nested
<1>2. ASSUME NEW k \in DOMAIN open, open[k].what = "kr" PROVE FALSE
  <2>1. k = 1
    BY <1>1, <1>2 DEF Headed
  <2>2. open # <<>>
    BY <1>1, <1>2
  <2>3. Head(open) = open[1]
    BY <1>1, <2>2, TailIs
  <2> QED BY <1>2, <2>1, <2>2, <2>3 DEF InHead, Innermost
<1> QED BY <1>2 DEF NoHead

LEMMA InvTypes ==
  ASSUME ScopeInv
  PROVE  /\ Good(table) /\ Shape(table) /\ current_scope \in DOMAIN table.scope /\ current_scope \in Nat
         /\ current_function \in {Null} \cup DOMAIN table.entity /\ current_function \in Nat
         /\ Nested(table, open) /\ Functions(open, current_function) /\ open \in Seq(OpenType)
<1>1. /\ Good(table) /\ current_scope \in DOMAIN table.scope
      /\ current_function \in {Null} \cup DOMAIN table.entity
      /\ Nested(table, open) /\ Functions(open, current_function)
  BY DEF ScopeInv, Inv
<1>2. current_scope \in Nat /\ Shape(table) /\ current_function \in Nat
  BY <1>1, Lengths DEF Null
<1> QED BY <1>1, <1>2 DEF Nested

LEMMA InitInv ==
  ASSUME Init
  PROVE  ScopeInv
<1> DEFINE T == table
<1>1. T = [ entity |-> <<>>, next |-> <<>>, scope |-> << NewScope >>,
            head |-> [s \in Symbols |-> Null], link |-> <<>>,
            env |-> <<>>, label |-> <<>>, aborted |-> FALSE ]
      /\ current_scope = File /\ current_function = Null /\ open = <<>>
  BY DEF Init
<1> HIDE DEF T
<1>2. /\ T.entity = <<>> /\ T.next = <<>> /\ T.scope = << NewScope >>
      /\ T.head = [s \in Symbols |-> Null] /\ T.link = <<>> /\ T.env = <<>> /\ T.label = <<>>
      /\ T.aborted = FALSE
      /\ T = [entity |-> T.entity, next |-> T.next, scope |-> T.scope, head |-> T.head,
              link |-> T.link, env |-> T.env, label |-> T.label, aborted |-> T.aborted]
  BY <1>1
<1>3. NewScope \in ScopeType /\ NewScope.last_entity = 0
  BY DEF NewScope, ScopeType, Null
<1>4. T.scope \in Seq(ScopeType) /\ DOMAIN T.scope = {1} /\ T.scope[1] = NewScope
      /\ Len(T.scope) = 1
  BY <1>2, <1>3
<1>5. T.head \in [Symbols -> Nat]
  BY <1>2 DEF Null
<1>6. Shape(T)
  <2>1. T.entity \in Seq(EntityType) /\ T.next \in Seq(Nat) /\ T.link \in Seq(Nat)
        /\ T.env \in Seq(EntryType) /\ T.label \in Seq(EntryType)
    <3>1. \A S : <<>> \in Seq(S)
      OBVIOUS
    <3> QED BY ONLY <1>2, <3>1
  <2>2. Len(T.next) = Len(T.entity) /\ Len(T.link) = Len(T.entity) /\ T.aborted \in BOOLEAN
    BY <1>2
  <2> QED BY <1>2, <1>4, <1>5, <2>1, <2>2 DEF Shape
<1>7. Table(T)
  BY <1>2, <1>6 DEF Table
<1>8. Chained(T)
  <2>1. ASSUME NEW s \in Symbols PROVE IsChain(T, s, <<>>)
    BY <1>2 DEF IsChain, Linked
  <2> QED BY <2>1 DEF Chained
<1>9. OwnsOK(T)
  BY <1>2, <1>3, <1>4 DEF OwnsOK, File
<1>10. Good(T)
  BY <1>7, <1>8, <1>9 DEF Good
<1>11. Nested(T, <<>>) /\ Functions(<<>>, Null) /\ Headed(T, <<>>, File)
  BY DEF Nested, Functions, Headed
<1>12. Inv(T, File, Null, <<>>)
  BY <1>4, <1>10, <1>11 DEF Inv, File
<1> QED BY <1>1, <1>12 DEF ScopeInv, T

\* Declarations.
LEMMA InvDeclared ==
  ASSUME ScopeInv, Larger(table, table'), ~InHead \/ Keeps(table, table', current_scope),
         UNCHANGED << current_scope, current_function, open >>
  PROVE  ScopeInv'
<1>1. NoHead(open) \/ Keeps(table, table', current_scope)
  BY OutsideHead
<1>2. Inv(table, current_scope, current_function, open)
  BY DEF ScopeInv
<1>3. Inv(table', current_scope, current_function, open)
  BY <1>1, <1>2, InvStay
<1>4. current_scope' = current_scope /\ current_function' = current_function /\ open' = open
  OBVIOUS
<1> QED BY <1>3, <1>4 DEF ScopeInv

LEMMA InvRecord ==
  ASSUME ScopeInv, NEW kind \in Kinds, NEW s \in Symbols,
         table' = record_entity(Allocate(table, kind, s, Null), current_scope, Fresh(table)),
         UNCHANGED << current_scope, current_function, open >>
  PROVE  ScopeInv'
<1>1. Good(table) /\ current_scope \in DOMAIN table.scope
  BY InvTypes
<1> DEFINE U == record_entity(Allocate(table, kind, s, Null), current_scope, Fresh(table))
<1>2. Null \in Nat
  BY DEF Null
<1>3. Keeps(table, U, current_scope)
  BY <1>1, <1>2, KeepsRecord
<1> HIDE DEF U
<1>4. Keeps(table, table', current_scope)
  BY <1>3 DEF U
<1>5. Larger(table, table')
  BY <1>4 DEF Keeps
<1> QED BY <1>4, <1>5, InvDeclared

LEMMA InvDeclare ==
  ASSUME ScopeInv, NEW s \in Symbols, NEW kind \in {"variable", "typedef", "function"},
         Declare(s, kind)
  PROVE  ScopeInv'
  BY InvRecord DEF Declare, Kinds

LEMMA InvDeclareParameter ==
  ASSUME ScopeInv, NEW s \in Symbols, DeclareParameter(s)
  PROVE  ScopeInv'
  BY InvRecord DEF DeclareParameter, Kinds

LEMMA InvSpecifier ==
  ASSUME ScopeInv, NEW s \in Symbols, NEW how, CompoundSpecifier(s, how)
  PROVE  ScopeInv'
<1>1. Keeps(table, table', current_scope)
  BY InvTypes, SpecifierKeeps
<1>2. Larger(table, table')
  BY <1>1 DEF Keeps
<1>3. UNCHANGED << current_scope, current_function, open >>
  BY DEF CompoundSpecifier
<1> QED BY <1>1, <1>2, <1>3, InvDeclared

LEMMA InvEnum ==
  ASSUME ScopeInv, Covered, NEW s \in Symbols, NEW v \in Seq(Symbols), EnumSpecifier(s, v)
  PROVE  ScopeInv'
<1>0. "again" \notin dialect
  BY DEF Covered
<1>1. Keeps(table, table', current_scope)
  BY <1>0, InvTypes, EnumKeeps
<1>2. Larger(table, table')
  BY <1>1 DEF Keeps
<1>3. UNCHANGED << current_scope, current_function, open >>
  BY DEF EnumSpecifier
<1> QED BY <1>1, <1>2, <1>3, InvDeclared

\* A block is innermost: there is a current function.
LEMMA InBlock ==
  ASSUME ScopeInv, Innermost("block")
  PROVE  ~InHead /\ current_function # Null /\ current_function \in DOMAIN table.entity
<1>1. open \in Seq(OpenType) /\ Functions(open, current_function)
      /\ current_function \in {Null} \cup DOMAIN table.entity
  BY InvTypes
<1>2. open # <<>> /\ Head(open).what = "block"
  BY DEF Innermost
<1>3. 1 \in DOMAIN open /\ open[1].what = "block"
  BY <1>1, <1>2, TailIs
<1>4. current_function # Null
  BY <1>1, <1>3 DEF Functions
<1> QED BY <1>1, <1>2, <1>4 DEF InHead, Innermost

LEMMA InvUseLabel ==
  ASSUME ScopeInv, NEW s \in Symbols, UseLabel(s)
  PROVE  ScopeInv'
<1>1. get_label(s) /\ Innermost("block") /\ UNCHANGED << current_scope, current_function, open >>
  BY DEF UseLabel
<1>2. ~InHead /\ current_function \in DOMAIN table.entity
  BY <1>1, InBlock
<1>3. Larger(table, table')
  BY <1>1, <1>2, InvTypes, LabelLarger
<1> QED BY <1>1, <1>2, <1>3, InvDeclared

LEMMA InvLocalLabel ==
  ASSUME ScopeInv, NEW s \in Symbols, LocalLabel(s)
  PROVE  ScopeInv'
<1>1. Innermost("block") /\ UNCHANGED << current_scope, current_function, open >>
  BY DEF LocalLabel
<1>2. ~InHead
  BY <1>1, InBlock
<1>3. Larger(table, table')
  BY InvTypes, LocalLabelLarger
<1> QED BY <1>1, <1>2, <1>3, InvDeclared

LEMMA InvOpenBlock ==
  ASSUME ScopeInv, Covered, OpenBlock
  PROVE  ScopeInv'
<1> DEFINE s == Len(table.scope) + 1
           U == scope_push([table EXCEPT !.scope = Append(@, NewScope)], s, current_scope)
           c == Construct("block", s, table)
<1>1. /\ current_function # Null /\ ~InHead /\ table' = U /\ open' = << c >> \o open
      /\ current_scope' = s /\ current_function' = current_function
  BY DEF OpenBlock, Covered
<1>2. /\ Good(table) /\ current_scope \in DOMAIN table.scope /\ current_scope \in Nat
      /\ current_function \in Nat /\ Inv(table, current_scope, current_function, open)
  BY InvTypes DEF ScopeInv
<1>3. /\ Good(U) /\ Touched(table, U) /\ U.entity = table.entity
      /\ s \in DOMAIN U.scope /\ DOMAIN table.scope \subseteq DOMAIN U.scope
  BY <1>2, GoodNewScope
<1>4. s \in Nat
  BY <1>2, Lengths
<1>5. /\ c \in OpenType /\ c.what = "block" /\ c.old_scope = current_scope
      /\ c.top = Len(table.env) /\ c.label_top = Len(table.label)
      /\ c.old_function = current_function
  BY <1>2, <1>4, ConstructIs
<1> HIDE DEF U, c, s
<1>6. U.env = table.env /\ U.label = table.label
  BY <1>3 DEF Touched
<1>7. Larger(table, U)
  BY <1>2, <1>3, <1>6, LargerSame
<1>8. Len(table.env) \in Nat /\ Len(table.label) \in Nat
  BY <1>2, Lengths
<1>9. NoHead(open)
  BY <1>1, OutsideHead
<1>10. /\ Len(table.env) <= c.top /\ c.top <= Len(U.env)
       /\ Len(table.label) <= c.label_top /\ c.label_top <= Len(U.label)
  BY <1>5, <1>6, <1>8
<1>11. c.what # "function" /\ c.what # "kr"
  BY <1>5
<1>12. Inv(U, s, current_function, << c >> \o open)
  BY <1>1, <1>2, <1>3, <1>5, <1>7, <1>9, <1>10, <1>11, InvOpen
<1> QED BY <1>1, <1>12 DEF ScopeInv

\* The constructs that only put back what was pushed in them.
LEMMA InvPopped ==
  ASSUME ScopeInv, open # <<>>,
         table' = stack_pop_to(table, "env", Head(open).top),
         current_scope' = Head(open).old_scope, open' = Tail(open), UNCHANGED current_function
  PROVE  ScopeInv'
<1> DEFINE U == stack_pop_to(table, "env", open[1].top)
<1>1. /\ Good(table) /\ Nested(table, open) /\ open \in Seq(OpenType)
      /\ Inv(table, current_scope, current_function, open)
  BY InvTypes DEF ScopeInv
<1>2. Head(open) = open[1] /\ 1 \in DOMAIN open /\ open[1] \in OpenType
  BY <1>1, TailIs
<1>3. /\ open[1].top \in Nat /\ open[1].label_top \in Nat
      /\ open[1].top <= Len(table.env) /\ open[1].label_top <= Len(table.label)
  BY <1>1, <1>2 DEF Nested, OpenType
<1>4. Len(table.env) \in Nat /\ Len(table.label) \in Nat
  BY <1>1, Lengths
<1>5. open[1].top \in 0 .. Len(StackOf(table, "env"))
  BY <1>3, <1>4 DEF StackOf
<1>6. /\ Good(U) /\ U.entity = table.entity /\ U.scope = table.scope
      /\ Len(U.env) = open[1].top /\ Len(U.label) = Len(table.label)
  BY <1>1, <1>5, GoodPopTo
<1> HIDE DEF U
<1>7. open[1].top <= Len(U.env) /\ open[1].label_top <= Len(U.label)
      /\ DOMAIN table.scope \subseteq DOMAIN U.scope /\ DOMAIN table.entity \subseteq DOMAIN U.entity
  BY <1>3, <1>6
<1>8. Inv(U, open[1].old_scope, current_function, Tail(open))
  BY <1>1, <1>6, <1>7, InvClose
<1>9. table' = U /\ current_scope' = open[1].old_scope /\ open' = Tail(open)
      /\ current_function' = current_function
  BY <1>2 DEF U
<1> QED BY <1>8, <1>9 DEF ScopeInv

LEMMA InvCloseBlock ==
  ASSUME ScopeInv, CloseBlock
  PROVE  ScopeInv'
  BY InvPopped DEF CloseBlock, Innermost

LEMMA InvCloseNamespace ==
  ASSUME ScopeInv, CloseNamespace
  PROVE  ScopeInv'
  BY InvPopped DEF CloseNamespace, Innermost

LEMMA InvAbandonHead ==
  ASSUME ScopeInv, AbandonHead
  PROVE  ScopeInv'
  BY InvPopped DEF AbandonHead, InHead, Innermost

LEMMA InvOpenNamespace ==
  ASSUME ScopeInv, Covered, NEW x \in Symbols, OpenNamespace(x)
  PROVE  ScopeInv'
<1> DEFINE e   == get_entity(table, x, "normal")
           new == e = Null \/ /\ table.entity[e].kind # "namespace"
                              /\ table.entity[e].parent_scope = current_scope
           T   == Allocate(table, "namespace", x, current_scope)
           E   == Enlist(T, Fresh(table), current_scope)
           own == T.entity[Fresh(table)].own
           U   == scope_push(E, own, current_scope)
           c   == Construct("namespace", own, E)
<1>1. new /\ (open # <<>> => Innermost("namespace"))
  BY DEF OpenNamespace, Covered
<1>2. /\ table' = U /\ open' = << c >> \o open /\ current_scope' = own
      /\ current_function' = current_function
  BY <1>1 DEF OpenNamespace
<1>3. ~InHead
  BY <1>1 DEF InHead, Innermost
<1>4. /\ Good(table) /\ current_scope \in DOMAIN table.scope /\ current_scope \in Nat
      /\ current_function \in Nat /\ Inv(table, current_scope, current_function, open)
  BY InvTypes DEF ScopeInv
<1>5. /\ Larger(table, E) /\ Larger(E, U) /\ U.env = E.env /\ U.label = E.label
      /\ own \in DOMAIN U.scope
  BY <1>4, NamespaceOpened
<1> HIDE DEF new, e, own, E, T
<1>6. Good(E) /\ Good(U)
  BY <1>5 DEF Larger
<1>7. own \in Nat
  <2> HIDE DEF U
  <2> QED BY <1>5, <1>6, Lengths
<1>8. /\ c \in OpenType /\ c.what = "namespace" /\ c.old_scope = current_scope
      /\ c.top = Len(E.env) /\ c.label_top = Len(E.label)
      /\ c.old_function = current_function
  BY <1>4, <1>6, <1>7, ConstructIs
<1> HIDE DEF U, c
<1>9. Larger(table, U)
  BY <1>4, <1>5, LargerTrans
<1>10. /\ Len(table.env) \in Nat /\ Len(E.env) \in Nat /\ Len(table.label) \in Nat
       /\ Len(E.label) \in Nat /\ Len(table.env) <= Len(E.env) /\ Len(table.label) <= Len(E.label)
  BY <1>4, <1>5, <1>6, Lengths DEF Larger
<1>11. /\ Len(table.env) <= c.top /\ c.top <= Len(U.env)
       /\ Len(table.label) <= c.label_top /\ c.label_top <= Len(U.label)
  BY <1>5, <1>8, <1>10
<1>12. NoHead(open)
  BY <1>3, OutsideHead
<1>13. c.what # "function" /\ c.what # "kr" /\ c.what # "block"
  BY <1>8
<1>14. Inv(U, own, current_function, << c >> \o open)
  BY <1>4, <1>5, <1>8, <1>9, <1>11, <1>12, <1>13, InvOpen
<1> QED BY <1>2, <1>14 DEF ScopeInv

\* The declarator of a function can only stand outside of a head.
LEMMA DefineOutside ==
  ASSUME ScopeInv, MayDefine
  PROVE  NoHead(open)
<1>1. ~InHead
  BY DEF MayDefine, InHead, Innermost
<1> QED BY <1>1, OutsideHead

LEMMA InvOpenHead ==
  ASSUME ScopeInv, NEW x \in Symbols, NEW q \in Seq(Symbols), OpenHead(x, q)
  PROVE  ScopeInv'
<1> DEFINE T   == Declarator(x, q)
           own == Len(table.scope) + 1
           nd  == Fresh(table)
           U   == PushParameters(scope_push(T, own, current_scope), nd, Null)
           d   == Construct("kr", own, T)
           c   == [d EXCEPT !.declared = nd]
<1>1. /\ MayDefine /\ table' = U /\ open' = << c >> \o open /\ current_scope' = own
      /\ current_function' = current_function
  BY DEF OpenHead
<1>2. /\ Good(table) /\ current_scope \in DOMAIN table.scope /\ current_scope \in Nat
      /\ current_function \in Nat /\ Inv(table, current_scope, current_function, open)
  BY InvTypes DEF ScopeInv
<1>3. Larger(T, U) /\ \E L : HeadList(U, Len(T.env), own, nd, L)
  BY <1>2, HeadOpened
<1>4. /\ Larger(table, T) /\ T.env = table.env /\ T.label = table.label
      /\ nd \in Nat /\ own \in DOMAIN T.scope /\ own \in Nat
      /\ own \notin DOMAIN table.scope
  BY <1>2, DeclaredLarger
<1> HIDE DEF T, U, own, nd
<1>5. Good(T) /\ own \in DOMAIN U.scope
  BY <1>3, <1>4 DEF Larger
<1>6. /\ d \in OpenType /\ d.what = "kr" /\ d.old_scope = current_scope /\ d.top = Len(T.env)
      /\ d.label_top = Len(T.label) /\ d.old_function = current_function
  BY <1>2, <1>4, <1>5, ConstructIs
<1> HIDE DEF d
<1>7. /\ c \in OpenType /\ c.what = "kr" /\ c.old_scope = current_scope /\ c.top = Len(T.env)
      /\ c.label_top = Len(T.label) /\ c.old_function = current_function /\ c.declared = nd
  BY <1>4, <1>6, OpenedAs
<1> HIDE DEF c
<1>8. Larger(table, U)
  BY <1>2, <1>3, <1>4, LargerTrans
<1>9. /\ Len(table.env) \in Nat /\ Len(U.env) \in Nat /\ Len(table.label) \in Nat
      /\ Len(table.env) <= Len(U.env) /\ Len(table.label) <= Len(U.label) /\ Len(U.label) \in Nat
  BY <1>2, <1>8, Lengths DEF Larger
<1>10. /\ Len(table.env) <= c.top /\ c.top <= Len(U.env)
       /\ Len(table.label) <= c.label_top /\ c.label_top <= Len(U.label)
  BY <1>4, <1>7, <1>9
<1>11. NoHead(open)
  BY <1>1, DefineOutside
<1>12. c.what # "function" /\ c.what # "block"
  BY <1>7
<1>13. current_scope # own /\ \E L : HeadList(U, c.top, own, c.declared, L)
  BY <1>2, <1>3, <1>4, <1>7
<1>14. Inv(U, own, current_function, << c >> \o open)
  BY <1>2, <1>5, <1>7, <1>8, <1>10, <1>11, <1>12, <1>13, InvOpen
<1> QED BY <1>1, <1>14 DEF ScopeInv

LEMMA InvDefined ==
  ASSUME NEW T, NEW s, NEW rest, Inv(T, s, current_function, rest), NoHead(rest),
         \/ Redefined(T, table', s, rest, open', current_scope', current_function')
         \/ BodyOpened(T, table', s, rest, open', current_scope', current_function')
  PROVE  ScopeInv'
<1>1. /\ Good(T) /\ s \in DOMAIN T.scope /\ current_function \in {Null} \cup DOMAIN T.entity
      /\ Nested(T, rest) /\ Functions(rest, current_function)
  BY DEF Inv
<1>2. PICK U, stk, cs, cf : U = table' /\ stk = open' /\ cs = current_scope' /\ cf = current_function'
  OBVIOUS
<1>3. CASE Redefined(T, U, s, rest, stk, cs, cf)
  <2>1. Larger(T, U) /\ cs = s /\ stk = rest /\ cf = current_function
    BY <1>3 DEF Redefined
  <2>2. Inv(U, s, current_function, rest)
    BY <2>1, InvStay
  <2> QED BY <1>2, <2>1, <2>2 DEF ScopeInv
<1>4. CASE BodyOpened(T, U, s, rest, stk, cs, cf)
  <2>1. Inv(U, cs, cf, stk)
    BY <1>1, <1>4, InvBody
  <2> QED BY <1>2, <2>1 DEF ScopeInv
<1> QED BY <1>2, <1>3, <1>4

LEMMA InvDefine ==
  ASSUME ScopeInv, NEW x \in Symbols, NEW q \in Seq(Symbols), Define(x, q)
  PROVE  ScopeInv'
<1> DEFINE T   == Declarator(x, q)
           own == Len(table.scope) + 1
           nd  == Fresh(table)
<1>1. MayDefine /\ DefineFunction(T, nd, current_scope, open)
  BY DEF Define
<1>2. /\ Good(table) /\ current_scope \in DOMAIN table.scope /\ current_scope \in Nat
      /\ current_function \in Nat /\ Inv(table, current_scope, current_function, open)
  BY InvTypes DEF ScopeInv
<1>3. /\ Larger(table, T) /\ nd \in DOMAIN T.entity
      /\ own \notin DOMAIN table.scope
      /\ FreshEntity(T, nd) /\ T.entity[nd].kind = "function" /\ T.entity[nd].own = own
      /\ \E L \in Seq(DOMAIN T.entity) :
           /\ ListPart(T, own, L)
           /\ \A k \in DOMAIN L : Hidden(T, L[k]) /\ L[k] # nd
  BY <1>2, DeclaredLarger
<1> HIDE DEF T, own, nd
<1>4. PICK L \in Seq(DOMAIN T.entity) :
           /\ ListPart(T, own, L)
           /\ \A k \in DOMAIN L : Hidden(T, L[k]) /\ L[k] # nd
  BY <1>3
<1>5. Good(T) /\ current_scope \in DOMAIN T.scope
  BY <1>2, <1>3 DEF Larger
<1>6. T.link[nd] = Null /\ Ready(T, L, 0)
  BY <1>3, <1>4 DEF FreshEntity, Hidden, Ready
<1>7. T.entity[nd].own # current_scope /\ ListPart(T, T.entity[nd].own, L)
  BY <1>2, <1>3, <1>4
<1>8. \/ Redefined(T, table', current_scope, open, open', current_scope', current_function')
      \/ BodyOpened(T, table', current_scope, open, open', current_scope', current_function')
  BY <1>1, <1>2, <1>3, <1>5, <1>6, <1>7, Defined
<1>9. NoHead(open)
  BY <1>1, DefineOutside
<1>10. Inv(T, current_scope, current_function, open)
  BY <1>2, <1>3, <1>9, InvStay
<1> QED BY <1>8, <1>9, <1>10, InvDefined

LEMMA InvDefineAfterHead ==
  ASSUME ScopeInv, DefineAfterHead
  PROVE  ScopeInv'
<1> DEFINE T == stack_pop_to(table, "env", open[1].top)
           nd == open[1].declared
           s  == open[1].old_scope
<1>1. /\ Good(table) /\ Nested(table, open) /\ open \in Seq(OpenType) /\ current_scope \in Nat
      /\ current_function \in Nat /\ Inv(table, current_scope, current_function, open)
  BY InvTypes DEF ScopeInv
<1>2. open # <<>> /\ Head(open).what = "kr"
  BY DEF DefineAfterHead, InHead, Innermost
<1>3. Head(open) = open[1] /\ 1 \in DOMAIN open /\ open[1] \in OpenType
  BY <1>1, <1>2, TailIs
<1>4. DefineFunction(T, nd, s, Tail(open))
  BY <1>3 DEF DefineAfterHead
<1>5. /\ open[1].top \in Nat /\ open[1].label_top \in Nat
      /\ open[1].top <= Len(table.env) /\ open[1].label_top <= Len(table.label)
  BY <1>1, <1>3 DEF Nested, OpenType
<1>6. Len(table.env) \in Nat /\ Len(table.label) \in Nat
  BY <1>1, Lengths
<1>7. open[1].top \in 0 .. Len(StackOf(table, "env")) /\ open[1].top \in 0 .. Len(table.env)
  BY <1>5, <1>6 DEF StackOf
<1>8. /\ Good(T) /\ T.entity = table.entity /\ T.scope = table.scope /\ T.next = table.next
      /\ Len(T.env) = open[1].top /\ Len(T.label) = Len(table.label)
  BY <1>1, <1>7, GoodPopTo
<1>9. s # current_scope /\ \E L : HeadList(table, open[1].top, current_scope, nd, L)
  BY <1>1, <1>2, <1>3 DEF Inv, Headed
<1>10. PICK L : HeadList(table, open[1].top, current_scope, nd, L)
  BY <1>9
<1>11. Ready(T, L, 0) /\ Hidden(table, nd) /\ ListPart(table, current_scope, L)
       /\ table.entity[nd].kind = "function" /\ table.entity[nd].own = current_scope
  BY <1>10 DEF HeadList, EnvPart
<1>12. Hidden(T, nd)
  BY <1>1, <1>7, <1>11, HiddenPop DEF Good
<1> HIDE DEF T, nd, s
<1>13. ListPart(T, current_scope, L)
  BY <1>8, <1>11 DEF ListPart
<1>14. /\ open[1].top <= Len(T.env) /\ open[1].label_top <= Len(T.label)
       /\ DOMAIN table.scope \subseteq DOMAIN T.scope /\ DOMAIN table.entity \subseteq DOMAIN T.entity
  BY <1>5, <1>8
<1>15. Inv(T, s, current_function, Tail(open)) /\ NoHead(Tail(open))
  BY <1>1, <1>2, <1>8, <1>14, InvClose DEF s
<1>16. s \in DOMAIN T.scope
  BY <1>15 DEF Inv
<1>17. nd \in DOMAIN T.entity /\ T.link[nd] = Null
  BY <1>12 DEF Hidden
<1>18. T.entity[nd].kind = "function" /\ T.entity[nd].own # s /\ ListPart(T, T.entity[nd].own, L)
  BY <1>8, <1>9, <1>11, <1>13
<1>19. \/ Redefined(T, table', s, Tail(open), open', current_scope', current_function')
       \/ BodyOpened(T, table', s, Tail(open), open', current_scope', current_function')
  BY <1>1, <1>4, <1>8, <1>11, <1>16, <1>17, <1>18, Defined
<1> QED BY <1>15, <1>19, InvDefined

LEMMA InvCloseFunction ==
  ASSUME ScopeInv, CloseFunction
  PROVE  ScopeInv'
<1> DEFINE A == stack_pop_to(table, "env", open[1].top)
           B == stack_pop_to(A, "label", open[2].label_top)
           C == stack_pop_to(B, "env", open[2].top)
           U == [C EXCEPT !.entity[current_function].complete = TRUE]
<1>1. /\ Good(table) /\ Nested(table, open) /\ open \in Seq(OpenType)
      /\ Inv(table, current_scope, current_function, open)
  BY InvTypes DEF ScopeInv
<1>2. /\ Len(open) >= 2 /\ open[2].what = "function"
      /\ table' = U /\ current_function' = open[2].old_function
      /\ current_scope' = open[2].old_scope /\ open' = Tail(Tail(open))
  BY DEF CloseFunction, InBody
<1>3. 1 \in DOMAIN open /\ 2 \in DOMAIN open /\ open[1] \in OpenType /\ open[2] \in OpenType
  BY <1>1, <1>2
<1>4. /\ open[1].top \in Nat /\ open[2].top \in Nat /\ open[2].label_top \in Nat
      /\ open[1].top <= Len(table.env) /\ open[2].top <= open[1].top
      /\ open[2].label_top <= Len(table.label)
  <2>1. open[1].top \in Nat /\ open[2].top \in Nat /\ open[2].label_top \in Nat
    BY <1>3 DEF OpenType
  <2>2. open[1].top <= Len(table.env) /\ open[2].label_top <= Len(table.label)
    BY <1>1, <1>3 DEF Nested
  <2>3. \A k, l \in DOMAIN open : k < l => open[l].top <= open[k].top
    BY <1>1 DEF Nested
  <2>4. 1 < 2
    OBVIOUS
  <2>5. open[2].top <= open[1].top
    BY <1>3, <2>3, <2>4
  <2> QED BY <2>1, <2>2, <2>5
<1>5. Len(table.env) \in Nat /\ Len(table.label) \in Nat
  BY <1>1, Lengths
<1>6. /\ Good(A) /\ A.entity = table.entity /\ A.scope = table.scope
      /\ Len(A.env) = open[1].top /\ Len(A.label) = Len(table.label)
  <2>1. open[1].top \in 0 .. Len(StackOf(table, "env"))
    BY <1>4, <1>5 DEF StackOf
  <2> QED BY <1>1, <2>1, GoodPopTo
<1> HIDE DEF A
<1>7. /\ Good(B) /\ B.entity = A.entity /\ B.scope = A.scope
      /\ Len(B.env) = Len(A.env) /\ Len(B.label) = open[2].label_top
  <2>1. open[2].label_top \in 0 .. Len(StackOf(A, "label"))
    BY <1>4, <1>5, <1>6 DEF StackOf
  <2> QED BY <1>6, <2>1, GoodPopTo
<1> HIDE DEF B
<1>8. /\ Good(C) /\ C.entity = B.entity /\ C.scope = B.scope
      /\ Len(C.env) = open[2].top /\ Len(C.label) = Len(B.label)
  <2>1. open[2].top \in 0 .. Len(StackOf(B, "env"))
    BY <1>4, <1>5, <1>6, <1>7 DEF StackOf
  <2> QED BY <1>7, <2>1, GoodPopTo
<1> HIDE DEF C
<1>9. Shape(C)
  BY <1>8 DEF Good, Table
<1>10. PICK parent : EntitySet(C, U, current_function, parent, TRUE, C.aborted)
  BY <1>9, CompleteIs
<1> HIDE DEF U
<1>11. Good(U) /\ U.env = C.env /\ U.label = C.label /\ U.scope = C.scope
       /\ DOMAIN U.entity = DOMAIN C.entity
  <2>1. Good(U)
    BY <1>8, <1>10, GoodEntitySet
  <2>2. Touched(C, U) /\ U.scope = C.scope /\ DOMAIN U.entity = DOMAIN C.entity
    BY <1>10 DEF EntitySet
  <2>3. U.env = C.env /\ U.label = C.label
    BY <2>2 DEF Touched
  <2> QED BY <2>1, <2>2, <2>3
<1>12. /\ open[2].top <= Len(U.env) /\ open[2].label_top <= Len(U.label)
       /\ DOMAIN table.scope \subseteq DOMAIN U.scope /\ DOMAIN table.entity \subseteq DOMAIN U.entity
  BY <1>4, <1>6, <1>7, <1>8, <1>11
<1>13. Inv(U, open[2].old_scope, open[2].old_function, Tail(Tail(open)))
  BY <1>1, <1>2, <1>11, <1>12, InvReturn
<1> QED BY <1>2, <1>13 DEF ScopeInv

LEMMA ParametersAreSequences ==
  \A p \in ParameterLists : p \in Seq(Symbols)
<1>1. ASSUME NEW n \in 0 .. MaxParameters, NEW p \in [1 .. n -> Symbols]
      PROVE  p \in Seq(Symbols)
  <2>1. n \in Nat
    BY EntityScopesAssumption
  <2> QED BY <2>1
<1> QED BY <1>1 DEF ParameterLists

LEMMA StepInv ==
  ASSUME ScopeInv, Covered, Step
  PROVE  ScopeInv'
<1>1. ASSUME NEW s \in Symbols, NEW kind \in {"variable", "typedef", "function"}, Declare(s, kind)
      PROVE  ScopeInv'
  BY <1>1, InvDeclare
<1>2. ASSUME NEW s \in Symbols, NEW how, CompoundSpecifier(s, how)
      PROVE  ScopeInv'
  BY <1>2, InvSpecifier
<1>3. ASSUME NEW s \in Symbols, NEW v \in {<<>>} \cup { <<n>> : n \in Symbols }, EnumSpecifier(s, v)
      PROVE  ScopeInv'
  <2>1. CASE v = <<>>
    <3>1. v \in Seq(Symbols)
      <4>1. <<>> \in Seq(Symbols)
        OBVIOUS
      <4> QED BY ONLY <2>1, <4>1
    <3> QED BY <1>3, <3>1, InvEnum
  <2>2. CASE v \in { <<n>> : n \in Symbols }
    <3>1. PICK n \in Symbols : v = <<n>>
      BY <2>2
    <3>2. v \in Seq(Symbols)
      BY <3>1
    <3> QED BY <1>3, <3>2, InvEnum
  <2> QED BY <2>1, <2>2
<1>4. ASSUME NEW s \in Symbols, NEW p \in ParameterLists, Define(s, p)
      PROVE  ScopeInv'
  BY <1>4, ParametersAreSequences, InvDefine
<1>5. ASSUME NEW s \in Symbols, NEW p \in ParameterLists, OpenHead(s, p)
      PROVE  ScopeInv'
  BY <1>5, ParametersAreSequences, InvOpenHead
<1>6. ASSUME NEW s \in Symbols,
             DeclareParameter(s) \/ UseLabel(s) \/ LocalLabel(s) \/ OpenNamespace(s)
      PROVE  ScopeInv'
  BY <1>6, InvDeclareParameter, InvUseLabel, InvLocalLabel, InvOpenNamespace
<1>7. ASSUME OpenBlock \/ CloseBlock \/ AbandonHead \/ DefineAfterHead \/ CloseFunction
               \/ CloseNamespace
      PROVE  ScopeInv'
  BY <1>7, InvOpenBlock, InvCloseBlock, InvAbandonHead, InvDefineAfterHead, InvCloseFunction,
     InvCloseNamespace
<1> QED BY <1>1, <1>2, <1>3, <1>4, <1>5, <1>6, <1>7 DEF Step

\* In a table of the invariant the lists are as ChainsOK says.
LEMMA ChainsFollow ==
  ASSUME ScopeInv
  PROVE  ChainsOK
<1>1. Shape(table) /\ Chained(table)
  BY InvTypes DEF Good
<1>2. ASSUME NEW s \in Symbols
      PROVE  /\ Ends(table.head[s], table.link)
             /\ LET C == Chain(table, s)
                IN /\ \A k \in DOMAIN C : table.entity[C[k]].symbol = s
                   /\ \A j, k \in DOMAIN C :
                        NameSpaceOf[table.entity[C[j]].kind] = NameSpaceOf[table.entity[C[k]].kind]
                          => j = k
  <2>1. PICK C : IsChain(table, s, C)
    BY <1>1 DEF Chained
  <2>2. Chain(table, s) = C /\ Len(C) \in Nat /\ Len(C) <= Len(table.link)
    BY <1>1, <2>1, ChainIs
  <2>3. Linked(table.head[s], table.link, C)
    BY <2>1 DEF IsChain
  <2>4. table.link \in Seq(Nat) /\ Len(table.link) \in Nat
    BY <1>1 DEF Shape
  <2>5. Elements(table.head[s], table.link, Len(table.link) + 1) = C
    <3>1. PICK n : n = Len(table.link) + 1
      OBVIOUS
    <3>2. n \in Nat /\ Len(C) <= n
      BY <2>2, <2>4, <3>1
    <3>3. Elements(table.head[s], table.link, n) = C
      BY <2>3, <2>4, <3>2, ElementsAre
    <3> QED BY <3>1, <3>3
  <2>6. Ends(table.head[s], table.link)
    BY <2>2, <2>5 DEF Ends
  <2>7. /\ \A k \in DOMAIN C : table.entity[C[k]].symbol = s
        /\ \A j, k \in DOMAIN C :
             NameSpaceOf[table.entity[C[j]].kind] = NameSpaceOf[table.entity[C[k]].kind] => j = k
    BY <2>1 DEF IsChain, Symbol, Space
  <2> QED BY <2>2, <2>6, <2>7
<1> QED BY <1>2 DEF ChainsOK

\* Whatever is declared, opened and closed, and in whatever order the two
\* stacks are popped, the list of a symbol ends and has at most one entity of
\* each name space: stack_push(), stack_pop_to() and get_entity() of
\* src/parser.c find what they look for.
THEOREM ChainsCorrect == Spec => [](Covered => ChainsOK)
<1>1. Init => (Covered => ScopeInv)
  BY InitInv
<1>2. (Covered => ScopeInv) /\ [Next]_vars => (Covered => ScopeInv)'
  <2> SUFFICES ASSUME Covered => ScopeInv, [Next]_vars, Covered'
               PROVE  ScopeInv'
    OBVIOUS
  <2>1. CASE Next
    <3>1. Covered
      BY <2>1 DEF Next, Covered
    <3> QED BY <2>1, <3>1, StepInv DEF Next
  <2>2. CASE UNCHANGED vars
    <3>1. Covered /\ UNCHANGED << table, current_scope, current_function, open >>
      BY <2>2 DEF vars, Covered
    <3> QED BY <3>1 DEF ScopeInv
  <2> QED BY <2>1, <2>2
<1>3. (Covered => ScopeInv) => (Covered => ChainsOK)
  BY ChainsFollow
<1> QED BY <1>1, <1>2, <1>3, PTL DEF Spec
=============================================================================
