------------------------- MODULE EntityScopesTables -------------------------
(***************************************************************************)
(* What EntityScopes does to a symbol table: the inductive invariant of    *)
(* the table alone (Good: the chains of the symbols, the stacks and the    *)
(* lists of the scopes agree), how its operators read it, and that pushing,*)
(* popping, declaring and redefining keep it.  EntityScopesProofs applies  *)
(* these lemmas to the actions.                                            *)
(***************************************************************************)
EXTENDS EntityScopes, FiniteSetTheorems, SequenceTheorems, TLAPS

-----------------------------------------------------------------------------
(***************************************************************************)
(* Induction, for what is said of a number by its being in a set. If n were *)
(* the one that is missing, adding one would map the members of S up to n   *)
(* into those but 0, which are fewer.                                      *)
(***************************************************************************)
LEMMA Induction ==
  ASSUME NEW S, 0 \in S, \A n \in Nat : n \in S => n + 1 \in S
  PROVE  \A n \in Nat : n \in S
<1> SUFFICES ASSUME NEW n \in Nat, n \notin S PROVE FALSE
    OBVIOUS
<1> DEFINE A == S \cap (0 .. n)
           B == A \ {0}
           f == [k \in A |-> k + 1]
<1>1. IsFiniteSet(A) /\ 0 \in A
    <2>1. IsFiniteSet(0 .. n)
        BY FS_Interval
    <2> QED BY <2>1, FS_Subset
<1>2. IsFiniteSet(B) /\ Cardinality(B) = Cardinality(A) - 1
    <2> HIDE DEF A
    <2> QED BY <1>1, FS_RemoveElement
<1>3. f \in Injection(A, B)
    <2>1. ASSUME NEW k \in A PROVE k + 1 \in B
        OBVIOUS
    <2>2. \A a, b \in A : f[a] = f[b] => a = b
        OBVIOUS
    <2> QED BY <2>1, <2>2 DEF Injection, IsInjective
<1>4. Cardinality(A) <= Cardinality(B)
    <2> HIDE DEF A, B, f
    <2> QED BY <1>1, <1>2, <1>3, FS_Injection
<1>5. Cardinality(A) \in Nat
    <2> HIDE DEF A
    <2> QED BY <1>1, FS_CardinalityType
<1> QED BY <1>2, <1>4, <1>5

-----------------------------------------------------------------------------
(***************************************************************************)
(* Linked lists.                                                           *)
(***************************************************************************)
\* The list that starts at first and is linked by link is C.
Linked(first, link, C) ==
  /\ C \in Seq(DOMAIN link)
  /\ first = IF C = <<>> THEN Null ELSE C[1]
  /\ \A k \in DOMAIN C : link[C[k]] = IF k = Len(C) THEN Null ELSE C[k + 1]
  /\ \A j, k \in DOMAIN C : C[j] = C[k] => j = k

\* What follows each entity, and the entity k steps from the first.
Follow(link) == [e \in 0 .. Len(link) |-> IF e = Null THEN Null ELSE link[e]]
IsWalk(f, first, follow, n) ==
  f = [k \in 0 .. n |-> IF k = 0 THEN first ELSE follow[f[k - 1]]]

\* A walk exists, whatever function is followed.
LEMMA WalkExists ==
  ASSUME NEW first, NEW follow, NEW n \in Nat
  PROVE  \E f : IsWalk(f, first, follow, n)
<1> DEFINE S == { m \in Nat : \E f : IsWalk(f, first, follow, m) }
<1>1. 0 \in S
    <2>1. IsWalk([k \in 0 .. 0 |-> first], first, follow, 0)
        BY DEF IsWalk
    <2> QED BY <2>1
<1>2. ASSUME NEW m \in Nat, m \in S PROVE m + 1 \in S
    <2>1. PICK f : IsWalk(f, first, follow, m)
        BY <1>2
    <2> DEFINE g == [k \in 0 .. m + 1 |-> IF k = m + 1 THEN follow[f[m]] ELSE f[k]]
    <2>2. IsWalk(g, first, follow, m + 1)
        <3>1. ASSUME NEW k \in 0 .. m + 1
              PROVE  g[k] = IF k = 0 THEN first ELSE follow[g[k - 1]]
            <4>1. CASE k = m + 1
                BY <4>1
            <4>2. CASE k # m + 1
                <5>1. k \in 0 .. m /\ (k # 0 => k - 1 \in 0 .. m /\ k - 1 # m + 1)
                    BY <4>2
                <5>2. f[k] = IF k = 0 THEN first ELSE follow[f[k - 1]]
                    BY <5>1, <2>1 DEF IsWalk
                <5>3. g[k] = f[k] /\ (k # 0 => g[k - 1] = f[k - 1])
                    BY <5>1
                <5> QED BY <5>2, <5>3
            <4> QED BY <4>1, <4>2
        <3> HIDE DEF g
        <3>2. g = [k \in 0 .. m + 1 |-> g[k]]
            BY DEF g
        <3>3. g = [k \in 0 .. m + 1 |-> IF k = 0 THEN first ELSE follow[g[k - 1]]]
            BY <3>1, <3>2
        <3> QED BY <3>3 DEF IsWalk
    <2> QED BY <2>2
<1>3. n \in S
    <2> HIDE DEF S
    <2> QED BY <1>1, <1>2, Induction
<1> QED BY <1>3

LEMMA IntervalSize ==
  ASSUME NEW n \in Nat
  PROVE  /\ IsFiniteSet(1 .. n) /\ Cardinality(1 .. n) = n
         /\ Cardinality(0 .. n - 1) = n
<1>1. PICK m \in Int : m = n - 1
    OBVIOUS
<1>2. IsFiniteSet(1 .. n) /\ Cardinality(1 .. n) = IF 1 > n THEN 0 ELSE n - 1 + 1
    BY FS_Interval
<1>3. Cardinality(0 .. m) = IF 0 > m THEN 0 ELSE m - 0 + 1
    BY FS_Interval
<1> QED BY <1>1, <1>2, <1>3

\* Elements() computes a list that is not longer than it is asked for.
LEMMA ElementsAre ==
  ASSUME NEW first, NEW link \in Seq(Nat), NEW C, Linked(first, link, C),
         NEW n \in Nat, Len(C) <= n
  PROVE  Elements(first, link, n) = C
<1> DEFINE follow == Follow(link)
           at == CHOOSE f : f = [k \in 0 .. n |-> IF k = 0 THEN first ELSE follow[f[k - 1]]]
           all == [k \in 1 .. n |-> at[k - 1]]
           some == { k \in 0 .. n - 1 : at[k] # Null }
<1>1. Elements(first, link, n) = SubSeq(all, 1, Cardinality(some))
    BY DEF Elements, Follow
<1>2. at = [k \in 0 .. n |-> IF k = 0 THEN first ELSE follow[at[k - 1]]]
    <2>1. \E f : IsWalk(f, first, follow, n)
        BY WalkExists
    <2> QED BY <2>1 DEF IsWalk
<1>c. C \in Seq(DOMAIN link) /\ Len(C) \in Nat
    BY DEF Linked
<1> HIDE DEF at
<1>3. \A k \in 0 .. n : at[k] = IF k < Len(C) THEN C[k + 1] ELSE Null
    <2> DEFINE S == { m \in Nat : m <= n => at[m] = IF m < Len(C) THEN C[m + 1] ELSE Null }
    <2>1. 0 \in S
        <3>1. at[0] = first
            BY <1>2
        <3> QED BY <3>1, <1>c DEF Linked
    <2>2. ASSUME NEW m \in Nat, m \in S PROVE m + 1 \in S
        <3> SUFFICES ASSUME m + 1 <= n
                     PROVE  at[m + 1] = IF m + 1 < Len(C) THEN C[m + 2] ELSE Null
            OBVIOUS
        <3>1. at[m + 1] = follow[at[m]]
            BY <1>2
        <3>2. at[m] = IF m < Len(C) THEN C[m + 1] ELSE Null
            BY <2>2
        <3>3. CASE m < Len(C)
            <4>1. m + 1 \in DOMAIN C /\ C[m + 1] \in 1 .. Len(link)
                BY <3>3, <1>c
            <4>2. follow[C[m + 1]] = link[C[m + 1]]
                BY <4>1 DEF Follow, Null
            <4>3. link[C[m + 1]] = IF m + 1 = Len(C) THEN Null ELSE C[m + 2]
                <5>1. PICK i : i = m + 1
                    OBVIOUS
                <5>2. link[C[i]] = IF i = Len(C) THEN Null ELSE C[i + 1]
                    <6>1. \A k \in DOMAIN C : link[C[k]] = IF k = Len(C) THEN Null ELSE C[k + 1]
                        BY DEF Linked
                    <6> QED BY <6>1, <5>1, <4>1
                <5>3. i + 1 = m + 2
                    BY <5>1, <2>2
                <5> QED BY <5>1, <5>2, <5>3
            <4> QED BY <3>1, <3>2, <3>3, <4>2, <4>3, <1>c
        <3>4. CASE ~(m < Len(C))
            <4>1. follow[Null] = Null
                BY DEF Follow, Null
            <4> QED BY <3>1, <3>2, <3>4, <4>1, <1>c
        <3> QED BY <3>3, <3>4
    <2>3. \A m \in Nat : m \in S
        <3> HIDE DEF S
        <3> QED BY <2>1, <2>2, Induction
    <2> QED BY <2>3
<1>4. some = 0 .. Len(C) - 1
    <2>1. ASSUME NEW k \in 0 .. n - 1 PROVE at[k] # Null <=> k < Len(C)
        <3>1. at[k] = IF k < Len(C) THEN C[k + 1] ELSE Null
            BY <1>3
        <3>2. k < Len(C) => C[k + 1] \in 1 .. Len(link)
            BY <1>c
        <3> QED BY <3>1, <3>2 DEF Null
    <2>2. 0 .. Len(C) - 1 \subseteq 0 .. n - 1
        BY <1>c
    <2> QED BY <2>1, <2>2, <1>c
<1>5. Cardinality(some) = Len(C)
    <2> HIDE DEF some
    <2> QED BY <1>4, <1>c, IntervalSize
<1>6. SubSeq(all, 1, Len(C)) = C
    <2>1. all \in Seq({at[k] : k \in 0 .. n}) /\ Len(all) = n
        OBVIOUS
    <2>2. SubSeq(all, 1, Len(C)) = [i \in 1 .. Len(C) |-> all[i]]
        BY <2>1, <1>c
    <2>3. ASSUME NEW i \in 1 .. Len(C) PROVE all[i] = C[i]
        BY <1>3, <1>c
    <2>4. C = [i \in 1 .. Len(C) |-> C[i]]
        BY <1>c
    <2> QED BY <2>2, <2>3, <2>4
<1> QED BY <1>1, <1>5, <1>6

\* No entity is on a list twice, so a list has no more elements than there
\* are entities.
LEMMA LinkedIsShort ==
  ASSUME NEW first, NEW link \in Seq(Nat), NEW C, Linked(first, link, C)
  PROVE  Len(C) <= Len(link)
<1>1. C \in [1 .. Len(C) -> 1 .. Len(link)] /\ Len(C) \in Nat /\ Len(link) \in Nat
    BY DEF Linked
<1>2. C \in Injection(1 .. Len(C), 1 .. Len(link))
    BY <1>1 DEF Linked, Injection, IsInjective
<1>3. /\ IsFiniteSet(1 .. Len(link))
      /\ Cardinality(1 .. Len(link)) = Len(link)
      /\ Cardinality(1 .. Len(C)) = Len(C)
    BY <1>1, IntervalSize
<1>4. Cardinality(1 .. Len(C)) <= Cardinality(1 .. Len(link))
    BY <1>2, <1>3, FS_Injection
<1> QED BY <1>3, <1>4

-----------------------------------------------------------------------------
(***************************************************************************)
(* Tables, and the lists of the symbols in them.                           *)
(***************************************************************************)
Kinds == { "variable", "typedef", "enum_value", "parameter", "function", "namespace",
           "member", "struct", "enum", "label", "local_label" }

EntityType == [kind : Kinds, symbol : Symbols, parent_scope : Nat, own : Nat, complete : BOOLEAN]
ScopeType  == [entities : Nat, last_entity : Nat, depth : Nat]
EntryType  == [symbol : Symbols, old_entity : Nat, namespc : NameSpaces]

Symbol(T, e) == T.entity[e].symbol
Space(T, e)  == NameSpaceOf[T.entity[e].kind]

\* An entry of a stack remembers an entity of its name, or none.
EntryOK(T, entry) ==
  entry.old_entity # Null =>
    /\ entry.old_entity \in DOMAIN T.entity
    /\ Symbol(T, entry.old_entity) = entry.symbol
    /\ Space(T, entry.old_entity) = entry.namespc

Shape(T) ==
  /\ T = [entity |-> T.entity, next |-> T.next, scope |-> T.scope, head |-> T.head,
          link |-> T.link, env |-> T.env, label |-> T.label, aborted |-> T.aborted]
  /\ T.entity \in Seq(EntityType) /\ T.next \in Seq(Nat) /\ T.link \in Seq(Nat)
  /\ T.scope \in Seq(ScopeType) /\ T.head \in [Symbols -> Nat]
  /\ T.env \in Seq(EntryType) /\ T.label \in Seq(EntryType) /\ T.aborted \in BOOLEAN
  /\ Len(T.next) = Len(T.entity) /\ Len(T.link) = Len(T.entity)

Table(T) ==
  /\ Shape(T)
  /\ \A i \in DOMAIN T.env : EntryOK(T, T.env[i])
  /\ \A i \in DOMAIN T.label : EntryOK(T, T.label[i])

\* C is the list of symbol s.
IsChain(T, s, C) ==
  /\ Linked(T.head[s], T.link, C)
  /\ \A k \in DOMAIN C : Symbol(T, C[k]) = s
  /\ \A j, k \in DOMAIN C : Space(T, C[j]) = Space(T, C[k]) => j = k

Chained(T) == \A s \in Symbols : \E C : IsChain(T, s, C)

LEMMA SpacesOfKinds == \A kind \in Kinds : NameSpaceOf[kind] \in NameSpaces
BY DEF Kinds, NameSpaceOf, NameSpaces

LEMMA EntityFacts ==
  ASSUME NEW T, Shape(T), NEW e \in DOMAIN T.entity
  PROVE  /\ e \in Nat /\ e # Null /\ e <= Len(T.entity)
         /\ e \in DOMAIN T.link /\ e \in DOMAIN T.next
         /\ T.entity[e] \in EntityType /\ T.link[e] \in Nat
         /\ Symbol(T, e) \in Symbols /\ Space(T, e) \in NameSpaces
<1>1. e \in Nat /\ T.entity[e] \in EntityType
    BY DEF Shape
<1>2. /\ DOMAIN T.entity = 1 .. Len(T.entity) /\ Len(T.entity) \in Nat
      /\ DOMAIN T.link = 1 .. Len(T.entity) /\ DOMAIN T.next = 1 .. Len(T.entity)
    BY DEF Shape
<1>3. T.link[e] \in Nat
    BY <1>2 DEF Shape
<1>4. Symbol(T, e) \in Symbols /\ Space(T, e) \in NameSpaces
    BY <1>1, SpacesOfKinds DEF EntityType, Symbol, Space
<1> QED BY <1>1, <1>2, <1>3, <1>4 DEF Null

LEMMA ChainIs ==
  ASSUME NEW T, Shape(T), NEW s \in Symbols, NEW C, IsChain(T, s, C)
  PROVE  /\ Chain(T, s) = C
         /\ C \in Seq(DOMAIN T.entity) /\ Len(C) \in Nat /\ Len(C) <= Len(T.link)
<1>1. T.link \in Seq(Nat) /\ Len(T.link) \in Nat /\ DOMAIN T.link = DOMAIN T.entity
    BY DEF Shape
<1>2. Linked(T.head[s], T.link, C)
    BY DEF IsChain
<1>3. Len(C) <= Len(T.link)
    BY <1>1, <1>2, LinkedIsShort
<1>4. Chain(T, s) = C
    <2> DEFINE first == T.head[s]
               link == T.link
               n == Len(T.link)
    <2>1. link \in Seq(Nat) /\ n \in Nat /\ Linked(first, link, C) /\ Len(C) <= n
        BY <1>1, <1>2, <1>3
    <2>2. Chain(T, s) = Elements(first, link, n)
        BY DEF Chain
    <2> HIDE DEF first, link, n
    <2> QED BY <2>1, <2>2, ElementsAre
<1> QED BY <1>1, <1>2, <1>3, <1>4 DEF Linked

LEMMA ChainElements ==
  ASSUME NEW T, Shape(T), NEW s \in Symbols, NEW C, IsChain(T, s, C)
  PROVE  \A k \in DOMAIN C : C[k] \in DOMAIN T.entity /\ C[k] # Null /\ C[k] \in Nat
<1>1. C \in Seq(DOMAIN T.entity)
    BY ChainIs
<1> QED BY <1>1, EntityFacts

\* get_entity() goes along the list up to the entity of the name space.
LEMMA Lookup ==
  ASSUME NEW T, Shape(T), NEW s \in Symbols, NEW C, IsChain(T, s, C), NEW namespc
  PROVE  /\ \A k \in DOMAIN C : Space(T, C[k]) = namespc => get_entity(T, s, namespc) = C[k]
         /\ (\A k \in DOMAIN C : Space(T, C[k]) # namespc) => get_entity(T, s, namespc) = Null
<1> DEFINE n == Len(T.link)
           follow == [e \in 0 .. n |->
                        IF e = Null THEN Null
                        ELSE IF NameSpaceOf[T.entity[e].kind] = namespc THEN e ELSE T.link[e]]
           at == CHOOSE f : f = [k \in 0 .. n |-> IF k = 0 THEN T.head[s] ELSE follow[f[k - 1]]]
<1>1. get_entity(T, s, namespc) = at[n]
    BY DEF get_entity
<1>n. n \in Nat /\ C \in Seq(1 .. n) /\ Len(C) \in Nat /\ Len(C) <= n
    <2>1. n \in Nat /\ DOMAIN T.entity = 1 .. n
        BY DEF Shape
    <2>2. C \in Seq(DOMAIN T.entity) /\ Len(C) \in Nat /\ Len(C) <= n
        BY ChainIs
    <2> QED BY <2>1, <2>2
<1>2. at = [k \in 0 .. n |-> IF k = 0 THEN T.head[s] ELSE follow[at[k - 1]]]
    <2> DEFINE first == T.head[s]
    <2> HIDE DEF n, follow, first
    <2>1. \E f : IsWalk(f, first, follow, n)
        BY <1>n, WalkExists
    <2> QED BY <2>1 DEF IsWalk, first
<1> HIDE DEF at
<1>3. at[0] = T.head[s] /\ \A k \in Nat : k + 1 <= n => at[k + 1] = follow[at[k]]
    <2> HIDE DEF n, follow
    <2> QED BY <1>2, <1>n
<1>4. follow[Null] = Null /\ \A e \in 1 .. n : follow[e] = IF Space(T, e) = namespc THEN e ELSE T.link[e]
    BY <1>n DEF Null, Space
<1>5. /\ T.head[s] = IF Len(C) = 0 THEN Null ELSE C[1]
      /\ \A k \in 1 .. Len(C) : T.link[C[k]] = IF k = Len(C) THEN Null ELSE C[k + 1]
    <2>1. C = <<>> <=> Len(C) = 0
        BY <1>n
    <2>2. DOMAIN C = 1 .. Len(C)
        BY <1>n
    <2> QED BY <2>1, <2>2 DEF IsChain, Linked
<1> HIDE DEF n, follow
<1>6. ASSUME NEW j \in 1 .. Len(C), Space(T, C[j]) = namespc
      PROVE  at[n] = C[j]
    <2>1. \A k \in 1 .. Len(C) : k # j => Space(T, C[k]) # namespc
        BY <1>6, <1>n DEF IsChain
    <2> DEFINE S == { k \in Nat : k <= n => at[k] = IF k + 1 < j THEN C[k + 1] ELSE C[j] }
    <2>2. 0 \in S
        BY <1>3, <1>5, <1>n, <1>6
    <2>3. ASSUME NEW k \in Nat, k \in S PROVE k + 1 \in S
        <3> SUFFICES ASSUME k + 1 <= n
                     PROVE  at[k + 1] = IF k + 2 < j THEN C[k + 2] ELSE C[j]
            OBVIOUS
        <3>1. at[k + 1] = follow[at[k]] /\ at[k] = IF k + 1 < j THEN C[k + 1] ELSE C[j]
            BY <1>3, <1>n, <2>3
        <3>2. CASE k + 1 < j
            <4>1. k + 1 \in 1 .. Len(C) /\ k + 1 # j /\ C[k + 1] \in 1 .. n /\ k + 1 # Len(C)
                BY <3>2, <1>n
            <4>2. at[k + 1] = C[k + 2]
                BY <3>1, <3>2, <4>1, <2>1, <1>4, <1>5
            <4>3. k + 2 < j \/ k + 2 = j
                BY <3>2
            <4> QED BY <4>2, <4>3
        <3>3. CASE ~(k + 1 < j)
            <4>1. C[j] \in 1 .. n
                BY <1>n
            <4>2. at[k + 1] = C[j]
                BY <3>1, <3>3, <4>1, <1>4, <1>6
            <4> QED BY <4>2, <3>3
        <3> QED BY <3>2, <3>3
    <2>4. n \in S
        <3> HIDE DEF S
        <3> QED BY <2>2, <2>3, <1>n, Induction
    <2> QED BY <2>4, <1>n
<1>7. ASSUME \A k \in 1 .. Len(C) : Space(T, C[k]) # namespc
      PROVE  at[n] = Null
    <2> DEFINE S == { k \in Nat : k <= n => at[k] = IF k < Len(C) THEN C[k + 1] ELSE Null }
    <2>2. 0 \in S
        BY <1>3, <1>5, <1>n
    <2>3. ASSUME NEW k \in Nat, k \in S PROVE k + 1 \in S
        <3> SUFFICES ASSUME k + 1 <= n
                     PROVE  at[k + 1] = IF k + 1 < Len(C) THEN C[k + 2] ELSE Null
            OBVIOUS
        <3>1. at[k + 1] = follow[at[k]] /\ at[k] = IF k < Len(C) THEN C[k + 1] ELSE Null
            BY <1>3, <1>n, <2>3
        <3>2. CASE k < Len(C)
            <4>1. k + 1 \in 1 .. Len(C) /\ C[k + 1] \in 1 .. n
                BY <3>2, <1>n
            <4>2. at[k + 1] = T.link[C[k + 1]]
                BY <3>1, <3>2, <4>1, <1>7, <1>4
            <4> QED BY <4>2, <4>1, <1>5
        <3>3. CASE ~(k < Len(C))
            BY <3>1, <3>3, <1>4
        <3> QED BY <3>2, <3>3
    <2>4. n \in S
        <3> HIDE DEF S
        <3> QED BY <2>2, <2>3, <1>n, Induction
    <2> QED BY <2>4, <1>n
<1>8. DOMAIN C = 1 .. Len(C)
    BY <1>n
<1> QED BY <1>1, <1>6, <1>7, <1>8

LEMMA PlaceIs ==
  ASSUME NEW T, Shape(T), NEW s \in Symbols, NEW C, IsChain(T, s, C), NEW namespc
  PROVE  /\ \A k \in DOMAIN C : Space(T, C[k]) = namespc => Place(T, s, namespc) = k
         /\ (\A k \in DOMAIN C : Space(T, C[k]) # namespc) => Place(T, s, namespc) = 0
<1> DEFINE I == { i \in 1 .. Len(C) : NameSpaceOf[T.entity[C[i]].kind] = namespc }
<1>1. Place(T, s, namespc) = IF I # {} THEN Min(I) ELSE 0
    BY ChainIs DEF Place, SelectInSeq
<1>2. DOMAIN C = 1 .. Len(C) /\ Len(C) \in Nat
    BY ChainIs
<1>3. ASSUME NEW k \in DOMAIN C, Space(T, C[k]) = namespc
      PROVE  Place(T, s, namespc) = k
    <2>1. I = {k}
        BY <1>2, <1>3 DEF IsChain, Space
    <2>2. Min(I) = k
        BY <2>1, <1>2 DEF Min
    <2> QED BY <1>1, <2>1, <2>2
<1>4. (\A k \in DOMAIN C : Space(T, C[k]) # namespc) => I = {}
    BY <1>2 DEF Space
<1> QED BY <1>1, <1>3, <1>4

\* A list stays what it is when the pointers along it do.
LEMMA ChainKept ==
  ASSUME NEW T, Shape(T), NEW U, Shape(U), Len(T.entity) <= Len(U.entity),
         NEW s \in Symbols, NEW C, IsChain(T, s, C), U.head[s] = T.head[s],
         \A k \in DOMAIN C : /\ U.link[C[k]] = T.link[C[k]]
                             /\ Symbol(U, C[k]) = Symbol(T, C[k])
                             /\ Space(U, C[k]) = Space(T, C[k])
  PROVE  IsChain(U, s, C)
<1>1. C \in Seq(DOMAIN T.entity)
    BY ChainIs
<1>2. DOMAIN T.entity \subseteq DOMAIN U.link
    BY DEF Shape
<1>3. C \in Seq(DOMAIN U.link)
    BY <1>1, <1>2
<1> QED BY <1>3 DEF IsChain, Linked

\* What the name << s, namespc >> means, if not nothing, has this name and is
\* on the list of s.
LEMMA Meaning ==
  ASSUME NEW T, Shape(T), NEW s \in Symbols, NEW C, IsChain(T, s, C), NEW namespc,
         get_entity(T, s, namespc) # Null
  PROVE  \E k \in DOMAIN C : /\ C[k] = get_entity(T, s, namespc)
                             /\ Space(T, C[k]) = namespc
                             /\ Place(T, s, namespc) = k
BY Lookup, PlaceIs

LEMMA MeaningNamed ==
  ASSUME NEW T, Shape(T), Chained(T), NEW s \in Symbols, NEW namespc,
         get_entity(T, s, namespc) # Null
  PROVE  /\ get_entity(T, s, namespc) \in DOMAIN T.entity
         /\ Symbol(T, get_entity(T, s, namespc)) = s
         /\ Space(T, get_entity(T, s, namespc)) = namespc
<1>1. PICK C : IsChain(T, s, C)
    BY DEF Chained
<1>2. PICK k \in DOMAIN C : C[k] = get_entity(T, s, namespc) /\ Space(T, C[k]) = namespc
    BY <1>1, Meaning
<1>3. C \in Seq(DOMAIN T.entity)
    BY <1>1, ChainIs
<1> QED BY <1>1, <1>2, <1>3 DEF IsChain

LEMMA MeaningType ==
  ASSUME NEW T, Shape(T), Chained(T), NEW s \in Symbols, NEW namespc
  PROVE  get_entity(T, s, namespc) \in Nat
<1>1. CASE get_entity(T, s, namespc) = Null
    BY <1>1 DEF Null
<1>2. CASE get_entity(T, s, namespc) # Null
    BY <1>2, MeaningNamed DEF Shape
<1> QED BY <1>1, <1>2

LEMMA SeqExcept ==
  ASSUME NEW f \in Seq(Nat), NEW e \in Nat, NEW x
  PROVE  [f EXCEPT ![x] = e] \in Seq(Nat) /\ DOMAIN [f EXCEPT ![x] = e] = DOMAIN f
<1>1. f \in [1 .. Len(f) -> Nat] /\ Len(f) \in Nat
    OBVIOUS
<1>2. [f EXCEPT ![x] = e] \in [1 .. Len(f) -> Nat]
    BY <1>1
<1> QED BY <1>1, <1>2

Entry(T, e) ==
  [symbol |-> Symbol(T, e), old_entity |-> get_entity(T, Symbol(T, e), Space(T, e)),
   namespc |-> Space(T, e)]

\* The fields that pushing does not change, and the entry it leaves.
LEMMA PushFields ==
  ASSUME NEW T, Table(T), Chained(T), NEW e \in DOMAIN T.entity,
         NEW which \in {"env", "label"}
  PROVE  LET U == stack_push(T, which, e)
         IN /\ Table(U)
            /\ U.entity = T.entity /\ U.next = T.next /\ U.scope = T.scope
            /\ U.aborted = T.aborted
            /\ U.env = IF which = "env" THEN Append(T.env, Entry(T, e)) ELSE T.env
            /\ U.label = IF which = "env" THEN T.label ELSE Append(T.label, Entry(T, e))
            /\ DOMAIN U.link = DOMAIN T.link
<1> DEFINE U == stack_push(T, which, e)
           s == Symbol(T, e)
           namespc == Space(T, e)
           old == get_entity(T, s, namespc)
           place == IF old = Null THEN Len(Chain(T, s)) + 1 ELSE Place(T, s, namespc)
           L == IF old = Null THEN T ELSE [T EXCEPT !.link[e] = T.link[old]]
           M == Anchored(L, s, place, e)
<1>1. U = [M EXCEPT ![which] = Append(@, Entry(T, e))]
    BY DEF stack_push, Symbol, Space, Entry
<1>2. T.entity[e] \in EntityType /\ e \in Nat /\ s \in Symbols /\ namespc \in NameSpaces
    BY EntityFacts DEF Table
<1>3. /\ old \in Nat
      /\ old # Null => old \in DOMAIN T.entity /\ Symbol(T, old) = s /\ Space(T, old) = namespc
    BY <1>2, MeaningType, MeaningNamed DEF Table
<1>4. /\ L = [T EXCEPT !.link = L.link] /\ L.link \in Seq(Nat) /\ DOMAIN L.link = DOMAIN T.link
    <2>1. CASE old = Null
        BY <2>1 DEF Table, Shape
    <2>2. CASE old # Null
        <3>1. T.link[old] \in Nat
            BY <2>2, <1>3 DEF Table, Shape
        <3> QED BY <2>2, <3>1 DEF Table, Shape
    <2> QED BY <2>1, <2>2
<1> HIDE DEF L, place
<1>5. /\ M = [T EXCEPT !.link = M.link, !.head = M.head]
      /\ M.link \in Seq(Nat) /\ DOMAIN M.link = DOMAIN T.link
      /\ M.head \in [Symbols -> Nat]
    <2>1. CASE place = 1
        <3>1. M = [L EXCEPT !.head[s] = e]
            BY <2>1 DEF Anchored
        <3>2. M.link = L.link /\ M.head = [T.head EXCEPT ![s] = e]
            BY <3>1, <1>4 DEF Table, Shape
        <3>3. M.head \in [Symbols -> Nat]
            BY <3>2, <1>2 DEF Table, Shape
        <3>4. M = [T EXCEPT !.link = M.link, !.head = M.head]
            BY <3>1, <3>2, <1>4 DEF Table, Shape
        <3> QED BY <3>2, <3>3, <3>4, <1>4
    <2>2. CASE place # 1
        <3>1. PICK x : x = Chain(L, s)[place - 1]
            OBVIOUS
        <3>2. M = [L EXCEPT !.link[x] = e]
            BY <2>2, <3>1 DEF Anchored
        <3>3. M.link = [L.link EXCEPT ![x] = e] /\ M.head = T.head
            BY <3>2, <1>4 DEF Table, Shape
        <3>4. M.link \in Seq(Nat) /\ DOMAIN M.link = DOMAIN T.link
            BY <3>3, <1>4, <1>2, SeqExcept
        <3> QED BY <3>2, <3>3, <3>4, <1>4 DEF Table, Shape
    <2> QED BY <2>1, <2>2
<1> HIDE DEF M
<1>6. Entry(T, e) \in EntryType /\ EntryOK(T, Entry(T, e))
    BY <1>2, <1>3 DEF Entry, EntryType, EntryOK
<1>7. /\ U.entity = T.entity /\ U.next = T.next /\ U.scope = T.scope
      /\ U.aborted = T.aborted /\ U.link = M.link /\ U.head = M.head
      /\ U.env = IF which = "env" THEN Append(T.env, Entry(T, e)) ELSE T.env
      /\ U.label = IF which = "env" THEN T.label ELSE Append(T.label, Entry(T, e))
      /\ U = [entity |-> U.entity, next |-> U.next, scope |-> U.scope, head |-> U.head,
              link |-> U.link, env |-> U.env, label |-> U.label, aborted |-> U.aborted]
    <2> HIDE DEF U, s, namespc, old
    <2>1. CASE which = "env"
        BY <2>1, <1>1, <1>5 DEF Table, Shape
    <2>2. CASE which = "label"
        BY <2>2, <1>1, <1>5 DEF Table, Shape
    <2> QED BY <2>1, <2>2
<1> HIDE DEF U, s, namespc, old
<1>8. Shape(U)
    BY <1>7, <1>5, <1>6 DEF Table, Shape
<1>9. \A x : EntryOK(U, x) <=> EntryOK(T, x)
    BY <1>7 DEF EntryOK, Symbol, Space
<1>10. Table(U)
    <2>1. ASSUME NEW i \in DOMAIN U.env PROVE EntryOK(U, U.env[i])
        <3>1. (i \in DOMAIN T.env /\ U.env[i] = T.env[i]) \/ U.env[i] = Entry(T, e)
            BY <1>7 DEF Table, Shape
        <3> QED BY <3>1, <1>6, <1>9 DEF Table
    <2>2. ASSUME NEW i \in DOMAIN U.label PROVE EntryOK(U, U.label[i])
        <3>1. (i \in DOMAIN T.label /\ U.label[i] = T.label[i]) \/ U.label[i] = Entry(T, e)
            BY <1>7 DEF Table, Shape
        <3> QED BY <3>1, <1>6, <1>9 DEF Table
    <2> QED BY <1>8, <2>1, <2>2 DEF Table
<1> QED BY <1>7, <1>10, <1>5 DEF U

\* Where the pointers are changed when e is pushed.
Relinked(T, U, e, C) ==
  LET s   == Symbol(T, e)
      old == get_entity(T, s, Space(T, e))
  IN /\ \A r \in Symbols : r # s => U.head[r] = T.head[r]
     /\ old = Null =>
          /\ U.head[s] = IF C = <<>> THEN e ELSE T.head[s]
          /\ \A x \in DOMAIN T.link :
               U.link[x] = IF C # <<>> /\ x = C[Len(C)] THEN e ELSE T.link[x]
     /\ \A k \in DOMAIN C : Space(T, C[k]) = Space(T, e) =>
          /\ old = C[k]
          /\ U.head[s] = IF k = 1 THEN e ELSE T.head[s]
          /\ \A x \in DOMAIN T.link :
               U.link[x] = IF k # 1 /\ x = C[k - 1] THEN e
                           ELSE IF x = e THEN T.link[old] ELSE T.link[x]

LEMMA PushPointers ==
  ASSUME NEW T, Table(T), Chained(T), NEW e \in DOMAIN T.entity,
         NEW which \in {"env", "label"}, NEW C, IsChain(T, Symbol(T, e), C)
  PROVE  Relinked(T, stack_push(T, which, e), e, C)
<1> DEFINE U == stack_push(T, which, e)
           s == Symbol(T, e)
           namespc == Space(T, e)
           old == get_entity(T, s, namespc)
           place == IF old = Null THEN Len(Chain(T, s)) + 1 ELSE Place(T, s, namespc)
           L == IF old = Null THEN T ELSE [T EXCEPT !.link[e] = T.link[old]]
           M == Anchored(L, s, place, e)
<1>1. U = [M EXCEPT ![which] = Append(@, Entry(T, e))]
    BY DEF stack_push, Symbol, Space, Entry
<1>2. T.entity[e] \in EntityType /\ e \in Nat /\ s \in Symbols
    BY EntityFacts DEF Table
<1>3. C \in Seq(DOMAIN T.entity) /\ Len(C) \in Nat /\ Len(C) <= Len(T.link) /\ Chain(T, s) = C
    BY <1>2, ChainIs DEF Table
<1>u. Shape(T) /\ (which = "env" \/ which = "label")
    BY DEF Table
<1>4. U.head = M.head /\ U.link = M.link
    <2> HIDE DEF M, U
    <2>1. CASE which = "env"
        <3>1. U = [M EXCEPT !["env"] = Append(@, Entry(T, e))]
            BY <2>1, <1>1
        <3> QED BY <3>1
    <2>2. CASE which = "label"
        <3>1. U = [M EXCEPT !["label"] = Append(@, Entry(T, e))]
            BY <2>2, <1>1
        <3> QED BY <3>1
    <2> QED BY <2>1, <2>2, <1>u
<1>5. ASSUME old = Null
      PROVE  IF C = <<>> THEN U.head = [T.head EXCEPT ![s] = e] /\ U.link = T.link
                         ELSE U.head = T.head /\ U.link = [T.link EXCEPT ![C[Len(C)]] = e]
    <2>1. L = T /\ place = Len(C) + 1
        BY <1>5, <1>3
    <2>2. \A k \in DOMAIN C : Space(T, C[k]) # namespc
        <3>1. \A k \in DOMAIN C : C[k] # Null
            BY <1>2, <1>u, ChainElements
        <3> QED BY <3>1, <1>2, <1>5, Lookup DEF Table
    <2>3. CASE C = <<>>
        <3>1. M = [T EXCEPT !.head[s] = e]
            BY <2>1, <2>3 DEF Anchored
        <3> QED BY <3>1, <2>2, <2>3, <1>4, <1>5, <1>u DEF Shape
    <2>4. CASE C # <<>>
        <3>1. place # 1 /\ place - 1 = Len(C)
            BY <2>4, <2>1, <1>3
        <3> HIDE DEF place
        <3>2. Chain(L, s)[place - 1] = C[Len(C)]
            BY <3>1, <2>1, <1>3
        <3>3. M = [T EXCEPT !.link[C[Len(C)]] = e]
            BY <2>1, <3>1, <3>2 DEF Anchored
        <3> QED BY <3>3, <2>2, <2>4, <1>4, <1>5, <1>u DEF Shape
    <2> QED BY <2>3, <2>4
<1>6. ASSUME NEW k \in DOMAIN C, Space(T, C[k]) = namespc
      PROVE  /\ old = C[k]
             /\ IF k = 1
                THEN U.head = [T.head EXCEPT ![s] = e] /\ U.link = [T.link EXCEPT ![e] = T.link[old]]
                ELSE /\ U.head = T.head
                     /\ U.link = [T.link EXCEPT ![e] = T.link[old], ![C[k - 1]] = e]
    <2>1. old = C[k] /\ Place(T, s, namespc) = k
        BY <1>6, <1>2, <1>u, Lookup, PlaceIs
    <2>2. C[k] # Null /\ C[k] \in DOMAIN T.entity
        BY <1>2, <1>u, ChainElements
    <2>3. place = k /\ L = [T EXCEPT !.link[e] = T.link[old]]
        BY <2>1, <2>2
    <2> HIDE DEF place, L
    <2>4. L.head = T.head /\ L.entity = T.entity /\ L.link = [T.link EXCEPT ![e] = T.link[old]]
        BY <2>3, <1>u DEF Shape
    <2>5. T.link[old] \in Nat
        BY <2>1, <2>2, <1>u DEF Shape
    <2>6. L.link \in Seq(Nat) /\ DOMAIN L.link = DOMAIN T.link
        BY <2>4, <2>5, <1>u, SeqExcept DEF Shape
    <2>7. Shape(L)
        <3>1. L = [T EXCEPT !.link = L.link]
            BY <2>3, <2>4, <1>u DEF Shape
        <3>2. /\ L.next = T.next /\ L.scope = T.scope /\ L.env = T.env /\ L.label = T.label
              /\ L.aborted = T.aborted
            BY <3>1, <1>u DEF Shape
        <3>3. L = [entity |-> L.entity, next |-> L.next, scope |-> L.scope, head |-> L.head,
                   link |-> L.link, env |-> L.env, label |-> L.label, aborted |-> L.aborted]
            BY <3>1, <1>u DEF Shape
        <3>4. Len(L.link) = Len(T.link)
            BY <2>6, <1>u DEF Shape
        <3> QED BY <3>2, <3>3, <3>4, <2>4, <2>6, <1>u DEF Shape
    <2>8. IsChain(L, s, C)
        <3>1. ASSUME NEW j \in DOMAIN C PROVE L.link[C[j]] = T.link[C[j]]
            <4>1. CASE C[j] = e
                <5>1. j = k
                    BY <4>1, <1>6 DEF IsChain
                <5> QED BY <5>1, <4>1, <2>1, <2>4, <1>u DEF Shape
            <4>2. CASE C[j] # e
                BY <4>2, <2>4
            <4> QED BY <4>1, <4>2
        <3>2. \A x : Symbol(L, x) = Symbol(T, x) /\ Space(L, x) = Space(T, x)
            BY <2>4 DEF Symbol, Space
        <3>3. Len(T.entity) <= Len(L.entity)
            BY <2>4, <1>u DEF Shape
        <3>4. /\ Shape(T) /\ Shape(L) /\ s \in Symbols /\ IsChain(T, s, C) /\ L.head[s] = T.head[s]
              /\ Len(T.entity) <= Len(L.entity)
              /\ \A j \in DOMAIN C : /\ L.link[C[j]] = T.link[C[j]]
                                    /\ Symbol(L, C[j]) = Symbol(T, C[j])
                                    /\ Space(L, C[j]) = Space(T, C[j])
            BY <3>1, <3>2, <3>3, <2>4, <2>7, <1>u, <1>2
        <3> QED BY ONLY <3>4, ChainKept
    <2>9. Chain(L, s) = C
        BY <2>7, <2>8, <1>2, ChainIs
    <2>10. CASE k = 1
        <3>1. M = [L EXCEPT !.head[s] = e]
            BY <2>10, <2>3 DEF Anchored
        <3>2. M.head = [L.head EXCEPT ![s] = e] /\ M.link = L.link
            BY <3>1, <2>7 DEF Shape
        <3> QED BY <3>2, <2>4, <2>1, <2>10, <1>4
    <2>11. CASE k # 1
        <3>1. M = [L EXCEPT !.link[C[k - 1]] = e]
            BY <2>11, <2>3, <2>9 DEF Anchored
        <3>2. M.head = L.head /\ M.link = [L.link EXCEPT ![C[k - 1]] = e]
            BY <3>1, <2>7 DEF Shape
        <3> QED BY <3>2, <2>4, <2>1, <2>11, <1>4
    <2> QED BY <2>10, <2>11
<1>h. DOMAIN T.head = Symbols /\ s \in Symbols
    BY <1>2, <1>u DEF Shape
<1> HIDE DEF U, s, old, namespc
<1>7. ASSUME old = Null
      PROVE  /\ \A r \in Symbols : r # s => U.head[r] = T.head[r]
             /\ U.head[s] = IF C = <<>> THEN e ELSE T.head[s]
             /\ \A x \in DOMAIN T.link :
                  U.link[x] = IF C # <<>> /\ x = C[Len(C)] THEN e ELSE T.link[x]
    <2>1. CASE C = <<>>
        BY <2>1, <1>7, <1>5, <1>h
    <2>2. CASE C # <<>>
        BY <2>2, <1>7, <1>5, <1>h
    <2> QED BY <2>1, <2>2
<1>8. ASSUME NEW k \in DOMAIN C, Space(T, C[k]) = namespc
      PROVE  /\ \A r \in Symbols : r # s => U.head[r] = T.head[r]
             /\ old = C[k]
             /\ U.head[s] = IF k = 1 THEN e ELSE T.head[s]
             /\ \A x \in DOMAIN T.link :
                  U.link[x] = IF k # 1 /\ x = C[k - 1] THEN e
                              ELSE IF x = e THEN T.link[old] ELSE T.link[x]
    <2>1. CASE k = 1
        BY <2>1, <1>8, <1>6, <1>h
    <2>2. CASE k # 1
        BY <2>2, <1>8, <1>6, <1>h
    <2> QED BY <2>1, <2>2
<1>9. old = Null \/ \E k \in DOMAIN C : Space(T, C[k]) = namespc
    BY <1>h, Lookup DEF Table, old, s, namespc
<1>10. \A r \in Symbols : r # s => U.head[r] = T.head[r]
    BY <1>7, <1>8, <1>9
<1> QED BY <1>7, <1>8, <1>10 DEF Relinked, U, s, old, namespc

\* The list of the symbol after e has been pushed onto it.
LEMMA PushedList ==
  ASSUME NEW T, Table(T), Chained(T), NEW e \in DOMAIN T.entity,
         NEW which \in {"env", "label"}, NEW C, IsChain(T, Symbol(T, e), C),
         get_entity(T, Symbol(T, e), Space(T, e)) = Null => T.link[e] = Null
  PROVE  LET U == stack_push(T, which, e)
         IN /\ (\A k \in DOMAIN C : Space(T, C[k]) # Space(T, e))
                 => IsChain(U, Symbol(T, e), Append(C, e))
            /\ \A k \in DOMAIN C : Space(T, C[k]) = Space(T, e)
                 => IsChain(U, Symbol(T, e), [C EXCEPT ![k] = e])
<1> DEFINE U == stack_push(T, which, e)
           s == Symbol(T, e)
           namespc == Space(T, e)
           old == get_entity(T, s, namespc)
<1>1. Shape(T) /\ s \in Symbols /\ e \in Nat /\ e # Null /\ e \in DOMAIN T.link
    BY EntityFacts DEF Table
<1>2. C \in Seq(DOMAIN T.entity) /\ Len(C) \in Nat /\ DOMAIN C = 1 .. Len(C)
    BY <1>1, ChainIs
<1>3. /\ Table(U) /\ Shape(U) /\ U.entity = T.entity /\ DOMAIN U.link = DOMAIN T.link
      /\ DOMAIN T.link = DOMAIN T.entity
    <2>1. Table(U) /\ U.entity = T.entity /\ DOMAIN U.link = DOMAIN T.link
        BY PushFields
    <2>2. DOMAIN T.link = DOMAIN T.entity
        BY <1>1 DEF Shape
    <2> QED BY <2>1, <2>2 DEF Table
<1>4. \A x : Symbol(U, x) = Symbol(T, x) /\ Space(U, x) = Space(T, x)
    BY <1>3 DEF Symbol, Space
<1>5. /\ T.head[s] = IF Len(C) = 0 THEN Null ELSE C[1]
      /\ \A k \in 1 .. Len(C) : T.link[C[k]] = IF k = Len(C) THEN Null ELSE C[k + 1]
      /\ \A k \in 1 .. Len(C) : Symbol(T, C[k]) = s /\ C[k] \in DOMAIN T.link
      /\ \A j, k \in 1 .. Len(C) : C[j] = C[k] => j = k
      /\ \A j, k \in 1 .. Len(C) : Space(T, C[j]) = Space(T, C[k]) => j = k
    <2>1. /\ Linked(T.head[s], T.link, C)
          /\ \A k \in DOMAIN C : Symbol(T, C[k]) = s
          /\ \A j, k \in DOMAIN C : Space(T, C[j]) = Space(T, C[k]) => j = k
        BY DEF IsChain
    <2>2. /\ T.head[s] = IF C = <<>> THEN Null ELSE C[1]
          /\ \A k \in DOMAIN C : T.link[C[k]] = IF k = Len(C) THEN Null ELSE C[k + 1]
          /\ \A j, k \in DOMAIN C : C[j] = C[k] => j = k
        BY <2>1 DEF Linked
    <2>3. \A k \in DOMAIN C : C[k] \in DOMAIN T.link
        BY <1>2, <1>3
    <2>4. C = <<>> <=> Len(C) = 0
        BY <1>2
    <2> QED BY <2>1, <2>2, <2>3, <2>4, <1>2
<1>p. /\ old = Null =>
           /\ U.head[s] = IF C = <<>> THEN e ELSE T.head[s]
           /\ \A x \in DOMAIN T.link :
                U.link[x] = IF C # <<>> /\ x = C[Len(C)] THEN e ELSE T.link[x]
      /\ \A k \in DOMAIN C : Space(T, C[k]) = namespc =>
           /\ old = C[k]
           /\ U.head[s] = IF k = 1 THEN e ELSE T.head[s]
           /\ \A x \in DOMAIN T.link :
                U.link[x] = IF k # 1 /\ x = C[k - 1] THEN e
                            ELSE IF x = e THEN T.link[old] ELSE T.link[x]
    BY PushPointers DEF Relinked
<1>l. C = <<>> <=> Len(C) = 0
    BY <1>2
<1>h. DOMAIN T.head = Symbols /\ T.link \in Seq(Nat)
    BY <1>1 DEF Shape
<1>6. ASSUME \A k \in DOMAIN C : Space(T, C[k]) # namespc
      PROVE  IsChain(U, s, Append(C, e))
    <2>1. old = Null
        BY <1>1, <1>6, Lookup
    <2>2. /\ U.head[s] = IF C = <<>> THEN e ELSE T.head[s]
          /\ \A x \in DOMAIN T.link :
               U.link[x] = IF C # <<>> /\ x = C[Len(C)] THEN e ELSE T.link[x]
        BY <2>1, <1>p
    <2> DEFINE D == Append(C, e)
    <2>d. DOMAIN U.link = DOMAIN T.entity /\ e \in DOMAIN T.entity
        BY <1>3
    <2>3. /\ D \in Seq(DOMAIN T.entity) /\ Len(D) = Len(C) + 1 /\ DOMAIN D = 1 .. Len(C) + 1
          /\ \A k \in 1 .. Len(C) : D[k] = C[k]
          /\ D[Len(C) + 1] = e /\ D # <<>>
        BY <1>2
    <2> HIDE DEF D, U
    <2>4. \A k \in 1 .. Len(C) : C[k] # e
        BY <1>6, <1>2
    <2>5. U.head[s] = D[1]
        <3>1. CASE C = <<>>
            BY <3>1, <2>2, <2>3, <1>1, <1>2, <1>h
        <3>2. CASE C # <<>>
            <4>1. 1 \in 1 .. Len(C)
                BY <3>2, <1>2, <1>l
            <4>2. D[1] = C[1] /\ T.head[s] = C[1]
                BY <4>1, <2>3, <1>5
            <4> QED BY <4>2, <3>2, <2>2
        <3> QED BY <3>1, <3>2
    <2>6. ASSUME NEW k \in DOMAIN D
          PROVE  U.link[D[k]] = IF k = Len(D) THEN Null ELSE D[k + 1]
        <3>1. CASE k = Len(C) + 1
            <4>1. U.link[e] = T.link[e]
                <5>1. C # <<>> => C[Len(C)] # e
                    BY <2>4, <1>2
                <5> QED BY <5>1, <2>2, <1>1
            <4> QED BY <4>1, <3>1, <2>1, <2>3
        <3>2. CASE k \in 1 .. Len(C)
            <4>1. C # <<>> /\ Len(C) \in 1 .. Len(C)
                BY <3>2, <1>2
            <4>2. CASE k = Len(C)
                BY <4>1, <4>2, <3>2, <2>2, <2>3, <1>2, <1>5
            <4>3. CASE k # Len(C)
                <5>1. C[k] # C[Len(C)] /\ k + 1 \in 1 .. Len(C)
                    <6>1. Len(C) \in 1 .. Len(C) /\ k + 1 \in 1 .. Len(C)
                        BY <4>3, <3>2, <1>2
                    <6> QED BY <6>1, <4>3, <3>2, <1>5
                <5>2. U.link[C[k]] = T.link[C[k]]
                    BY <2>2, <5>1, <3>2, <1>5
                <5> QED BY <5>1, <5>2, <4>3, <3>2, <2>3, <1>5
            <4> QED BY <4>2, <4>3
        <3> QED BY <3>1, <3>2, <2>3, <1>2
    <2>e. \A k \in DOMAIN D : k \in 1 .. Len(C) \/ k = Len(C) + 1
        BY <2>3, <1>2
    <2>7. \A j, k \in DOMAIN D : D[j] = D[k] => j = k
        BY <2>3, <2>4, <2>e, <1>5
    <2>8. Linked(U.head[s], U.link, D)
        BY <2>3, <2>d, <2>5, <2>6, <2>7 DEF Linked
    <2>f. \A k \in DOMAIN D : Symbol(T, D[k]) = s
        BY <2>3, <2>e, <1>5
    <2>9. \A k \in DOMAIN D : Symbol(U, D[k]) = s
        BY <2>f, <1>4
    <2>g. \A k \in 1 .. Len(C) : Space(T, C[k]) # namespc
        BY <1>2, <1>6
    <2>h. \A j, k \in DOMAIN D : Space(T, D[j]) = Space(T, D[k]) => j = k
        BY <2>3, <2>e, <2>g, <1>5
    <2>10. \A j, k \in DOMAIN D : Space(U, D[j]) = Space(U, D[k]) => j = k
        BY <2>h, <1>4
    <2> QED BY <2>8, <2>9, <2>10 DEF IsChain, D
<1>7. ASSUME NEW k \in DOMAIN C, Space(T, C[k]) = namespc
      PROVE  IsChain(U, s, [C EXCEPT ![k] = e])
    <2>1. /\ old = C[k]
          /\ U.head[s] = IF k = 1 THEN e ELSE T.head[s]
          /\ \A x \in DOMAIN T.link :
               U.link[x] = IF k # 1 /\ x = C[k - 1] THEN e
                           ELSE IF x = e THEN T.link[old] ELSE T.link[x]
        BY <1>7, <1>p
    <2> DEFINE D == [C EXCEPT ![k] = e]
    <2>2. k \in 1 .. Len(C)
        BY <1>2
    <2>d. DOMAIN U.link = DOMAIN T.entity /\ e \in DOMAIN T.entity
        BY <1>3
    <2>3. /\ D \in Seq(DOMAIN T.entity) /\ Len(D) = Len(C) /\ DOMAIN D = 1 .. Len(C)
          /\ \A j \in 1 .. Len(C) : D[j] = IF j = k THEN e ELSE C[j]
          /\ D # <<>>
        <3>1. C \in [1 .. Len(C) -> DOMAIN T.entity]
            BY <1>2
        <3>2. D \in [1 .. Len(C) -> DOMAIN T.entity]
            BY <3>1, <2>2
        <3>3. D \in Seq(DOMAIN T.entity) /\ Len(D) = Len(C)
            <4> HIDE DEF D
            <4> QED BY <3>2, <1>2
        <3>4. \A j \in 1 .. Len(C) : D[j] = IF j = k THEN e ELSE C[j]
            BY <3>1
        <3> QED BY <3>2, <3>3, <3>4, <2>2
    <2> HIDE DEF D, U
    <2>4. \A j \in 1 .. Len(C) : j # k => C[j] # e
        BY <1>7, <1>5, <2>2
    <2>5. U.head[s] = D[1]
        <3>1. CASE k = 1
            BY <3>1, <2>1, <2>2, <2>3, <1>1, <1>h
        <3>2. CASE k # 1
            <4>1. 1 \in 1 .. Len(C)
                BY <2>2, <1>2
            <4>2. D[1] = C[1]
                BY <4>1, <3>2, <2>3
            <4>l. Len(C) # 0
                BY <4>1, <1>2
            <4>3. T.head[s] = C[1]
                BY <4>l, <1>5
            <4> QED BY <4>2, <4>3, <3>2, <2>1
        <3> QED BY <3>1, <3>2
    <2>6. ASSUME NEW j \in DOMAIN D
          PROVE  U.link[D[j]] = IF j = Len(D) THEN Null ELSE D[j + 1]
        <3>1. j \in 1 .. Len(C)
            BY <2>3
        <3>2. CASE j = k
            <4>1. k # 1 => k - 1 \in 1 .. Len(C) /\ C[k - 1] # e
                BY <2>2, <2>4, <1>2
            <4>2. U.link[e] = T.link[old]
                BY <4>1, <2>1, <1>1
            <4>3. j # Len(C) => j + 1 \in 1 .. Len(C) /\ D[j + 1] = C[j + 1]
                BY <3>1, <3>2, <2>3, <1>2
            <4> QED BY <4>2, <4>3, <3>2, <2>1, <2>2, <2>3, <1>5
        <3>3. CASE j # k /\ j + 1 = k
            <4>1. k # 1 /\ k - 1 = j /\ j # Len(C)
                BY <3>3, <3>1, <2>2, <1>2
            <4>3. U.link[C[j]] = e
                BY <4>1, <2>1, <3>1, <1>5
            <4> QED BY <4>3, <4>1, <3>1, <3>3, <2>2, <2>3
        <3>4. CASE j # k /\ j + 1 # k
            <4>1. C[j] # e
                BY <3>1, <3>4, <2>4
            <4>2. k # 1 => k - 1 \in 1 .. Len(C) /\ k - 1 # j
                BY <3>4, <3>1, <2>2, <1>2
            <4>3. k # 1 => C[j] # C[k - 1]
                BY <4>2, <3>1, <1>5
            <4>4. U.link[C[j]] = T.link[C[j]]
                <5>1. CASE k = 1
                    BY <4>1, <5>1, <2>1, <3>1, <1>5
                <5>2. CASE k # 1
                    BY <4>1, <4>3, <5>2, <2>1, <3>1, <1>5
                <5> QED BY <5>1, <5>2
            <4>5. j # Len(C) => j + 1 \in 1 .. Len(C)
                BY <3>1, <1>2
            <4> QED BY <4>4, <4>5, <3>1, <3>4, <2>3, <1>5
        <3> QED BY <3>2, <3>3, <3>4
    <2>7. \A i, j \in DOMAIN D : D[i] = D[j] => i = j
        BY <2>3, <2>4, <1>5
    <2>8. Linked(U.head[s], U.link, D)
        BY <2>3, <2>d, <2>5, <2>6, <2>7 DEF Linked
    <2>9. \A j \in DOMAIN D : Symbol(U, D[j]) = s
        <3>1. ASSUME NEW j \in 1 .. Len(C) PROVE Symbol(T, D[j]) = s
            <4>1. CASE j = k
                <5>1. D[j] = e
                    BY <4>1, <2>3
                <5> QED BY <5>1
            <4>2. CASE j # k
                <5>1. D[j] = C[j] /\ Symbol(T, C[j]) = s
                    BY <4>2, <2>3, <1>5
                <5> QED BY <5>1
            <4> QED BY <4>1, <4>2
        <3> QED BY <3>1, <2>3, <1>4
    <2>10. \A i, j \in DOMAIN D : Space(U, D[i]) = Space(U, D[j]) => i = j
        <3>1. \A j \in 1 .. Len(C) : Space(T, D[j]) = Space(T, C[j])
            BY <2>3, <1>7
        <3>2. /\ DOMAIN D = 1 .. Len(C) /\ \A x : Space(U, x) = Space(T, x)
            BY <2>3, <1>4
        <3>3. \A i, j \in 1 .. Len(C) : Space(T, C[i]) = Space(T, C[j]) => i = j
            BY <1>5
        <3> QED BY <3>1, <3>2, <3>3
    <2> QED BY <2>8, <2>9, <2>10 DEF IsChain, D
<1> QED BY <1>6, <1>7

\* After e has been pushed its name means e, the other names what they meant
\* before. The pointers of entities that their names do not mean stay.
Pushed(T, U, e) ==
  /\ Chained(U)
  /\ \A r \in Symbols, n \in NameSpaces :
       get_entity(U, r, n) = IF r = Symbol(T, e) /\ n = Space(T, e) THEN e
                             ELSE get_entity(T, r, n)
  /\ \A x \in DOMAIN T.entity :
       x # e /\ get_entity(T, Symbol(T, x), Space(T, x)) # x => U.link[x] = T.link[x]
  /\ U.link[e] = IF get_entity(T, Symbol(T, e), Space(T, e)) = Null THEN Null
                 ELSE T.link[get_entity(T, Symbol(T, e), Space(T, e))]

LEMMA PushMeans ==
  ASSUME NEW T, Table(T), Chained(T), NEW e \in DOMAIN T.entity,
         NEW which \in {"env", "label"},
         get_entity(T, Symbol(T, e), Space(T, e)) = Null => T.link[e] = Null
  PROVE  Pushed(T, stack_push(T, which, e), e)
<1> DEFINE U == stack_push(T, which, e)
           s == Symbol(T, e)
           namespc == Space(T, e)
           old == get_entity(T, s, namespc)
<1>1. Shape(T) /\ s \in Symbols /\ namespc \in NameSpaces /\ e \in DOMAIN T.link /\ e # Null
    BY EntityFacts DEF Table
<1>2. PICK C : IsChain(T, s, C)
    BY <1>1 DEF Chained
<1>3. /\ C \in Seq(DOMAIN T.entity) /\ Len(C) \in Nat /\ DOMAIN C = 1 .. Len(C)
      /\ \A k \in DOMAIN C : C[k] \in DOMAIN T.link /\ Symbol(T, C[k]) = s
      /\ DOMAIN T.link = DOMAIN T.entity
      /\ C = <<>> <=> Len(C) = 0
    <2>1. DOMAIN T.link = DOMAIN T.entity
        BY <1>1 DEF Shape
    <2>2. C \in Seq(DOMAIN T.entity)
        BY <1>1, <1>2, ChainIs
    <2> QED BY <1>2, <2>1, <2>2 DEF IsChain
<1>4. Table(U) /\ Shape(U) /\ U.entity = T.entity
    BY PushFields DEF Table
<1>5. \A x : Symbol(U, x) = Symbol(T, x) /\ Space(U, x) = Space(T, x)
    BY <1>4 DEF Symbol, Space
<1>6. /\ \A r \in Symbols : r # s => U.head[r] = T.head[r]
      /\ old = Null =>
           \A x \in DOMAIN T.link :
             U.link[x] = IF C # <<>> /\ x = C[Len(C)] THEN e ELSE T.link[x]
      /\ \A k \in DOMAIN C : Space(T, C[k]) = namespc =>
           /\ old = C[k]
           /\ \A x \in DOMAIN T.link :
                U.link[x] = IF k # 1 /\ x = C[k - 1] THEN e
                            ELSE IF x = e THEN T.link[old] ELSE T.link[x]
    BY <1>2, PushPointers DEF Relinked
<1>7. /\ (\A k \in DOMAIN C : Space(T, C[k]) # namespc) => IsChain(U, s, Append(C, e))
      /\ \A k \in DOMAIN C : Space(T, C[k]) = namespc => IsChain(U, s, [C EXCEPT ![k] = e])
    BY <1>2, PushedList
<1> HIDE DEF U, s, namespc, old
\* Only the pointers of e and of entities on the list of s change.
<1>8. ASSUME NEW x \in DOMAIN T.link, x # e, \A k \in DOMAIN C : C[k] # x
      PROVE  U.link[x] = T.link[x]
    <2>1. CASE \A k \in DOMAIN C : Space(T, C[k]) # namespc
        <3>1. old = Null
            BY <2>1, <1>1, <1>2, Lookup DEF s, old, namespc
        <3>2. C # <<>> => C[Len(C)] # x
            BY <1>3, <1>8
        <3> QED BY <3>1, <3>2, <1>6
    <2>2. ASSUME NEW k \in DOMAIN C, Space(T, C[k]) = namespc
          PROVE  U.link[x] = T.link[x]
        <3>1. k # 1 => k - 1 \in DOMAIN C
            BY <1>3
        <3> QED BY <3>1, <2>2, <1>6, <1>8
    <2> QED BY <2>1, <2>2
<1>9. ASSUME NEW r \in Symbols, r # s, NEW D, IsChain(T, r, D)
      PROVE  IsChain(U, r, D)
    <2>1. /\ D \in Seq(DOMAIN T.entity)
          /\ \A k \in DOMAIN D : D[k] \in DOMAIN T.link /\ Symbol(T, D[k]) = r
        <3>1. D \in Seq(DOMAIN T.entity)
            BY <1>1, <1>9, ChainIs
        <3> QED BY <3>1, <1>3, <1>9 DEF IsChain
    <2>2. ASSUME NEW k \in DOMAIN D PROVE U.link[D[k]] = T.link[D[k]]
        <3>1. D[k] # e /\ \A j \in DOMAIN C : C[j] # D[k]
            BY <1>3, <1>9, <2>1 DEF s
        <3> QED BY <3>1, <2>1, <1>8
    <2>3. Len(T.entity) <= Len(U.entity)
        BY <1>1, <1>4 DEF Shape
    <2> QED BY <2>2, <2>3, <1>1, <1>4, <1>5, <1>6, <1>9, ChainKept
<1>10. PICK E : /\ IsChain(U, s, E) /\ DOMAIN C \subseteq DOMAIN E
                /\ \E k \in DOMAIN E : E[k] = e
                /\ \A k \in DOMAIN E : E[k] = e \/ (k \in DOMAIN C /\ E[k] = C[k])
                /\ \A k \in DOMAIN C : Space(T, C[k]) # namespc => E[k] = C[k]
    <2>1. CASE \A k \in DOMAIN C : Space(T, C[k]) # namespc
        <3>1. PICK E : E = Append(C, e)
            OBVIOUS
        <3>2. /\ DOMAIN E = 1 .. Len(C) + 1 /\ E[Len(C) + 1] = e
              /\ \A k \in 1 .. Len(C) : E[k] = C[k]
            BY <3>1, <1>3
        <3>3. IsChain(U, s, E)
            BY <3>1, <2>1, <1>7
        <3>4. \A k \in DOMAIN E : k = Len(C) + 1 \/ k \in DOMAIN C
            BY <3>2, <1>3
        <3>5. Len(C) + 1 \in DOMAIN E /\ DOMAIN C \subseteq DOMAIN E
            BY <3>2, <1>3
        <3> QED BY <3>2, <3>3, <3>4, <3>5, <1>3
    <2>2. ASSUME NEW k \in DOMAIN C, Space(T, C[k]) = namespc
          PROVE  \E E : /\ IsChain(U, s, E) /\ DOMAIN C \subseteq DOMAIN E
                        /\ \E j \in DOMAIN E : E[j] = e
                        /\ \A j \in DOMAIN E : E[j] = e \/ (j \in DOMAIN C /\ E[j] = C[j])
                        /\ \A j \in DOMAIN C : Space(T, C[j]) # namespc => E[j] = C[j]
        <3>1. PICK E : E = [C EXCEPT ![k] = e]
            OBVIOUS
        <3>2. IsChain(U, s, E)
            BY <3>1, <2>2, <1>7
        <3>3. DOMAIN E = DOMAIN C /\ E[k] = e /\ \A j \in DOMAIN C : j # k => E[j] = C[j]
            BY <3>1, <2>2
        <3> QED BY <3>2, <3>3, <2>2
    <2> QED BY <2>1, <2>2
<1>11. Chained(U)
    <2>1. ASSUME NEW r \in Symbols PROVE \E D : IsChain(U, r, D)
        <3>1. PICK D : IsChain(T, r, D)
            BY DEF Chained
        <3> QED BY <3>1, <1>9, <1>10
    <2> QED BY <2>1 DEF Chained
<1>12. ASSUME NEW r \in Symbols, NEW n \in NameSpaces
       PROVE  get_entity(U, r, n) = IF r = s /\ n = namespc THEN e ELSE get_entity(T, r, n)
    <2>1. CASE r # s
        <3>1. PICK D : IsChain(T, r, D)
            BY DEF Chained
        <3>2. IsChain(U, r, D)
            BY <2>1, <3>1, <1>9
        <3>3. CASE \E k \in DOMAIN D : Space(T, D[k]) = n
            <4>1. PICK k \in DOMAIN D : Space(T, D[k]) = n
                BY <3>3
            <4>2. get_entity(T, r, n) = D[k]
                BY <4>1, <3>1, <1>1, Lookup
            <4>3. get_entity(U, r, n) = D[k]
                BY <4>1, <3>2, <1>4, <1>5, Lookup
            <4> QED BY <4>2, <4>3, <2>1
        <3>4. CASE \A k \in DOMAIN D : Space(T, D[k]) # n
            <4>2. get_entity(T, r, n) = Null
                BY <3>4, <3>1, <1>1, Lookup
            <4>3. get_entity(U, r, n) = Null
                BY <3>4, <3>2, <1>4, <1>5, Lookup
            <4> QED BY <4>2, <4>3, <2>1
        <3> QED BY <3>3, <3>4
    <2>2. CASE r = s /\ n = namespc
        <3>1. PICK k \in DOMAIN E : E[k] = e
            BY <1>10
        <3>2. Space(U, E[k]) = n
            BY <3>1, <2>2, <1>5 DEF namespc
        <3> QED BY <3>1, <3>2, <2>2, <1>4, <1>10, Lookup
    <2>3. CASE r = s /\ n # namespc
        <3>1. CASE \E k \in DOMAIN C : Space(T, C[k]) = n
            <4>1. PICK k \in DOMAIN C : Space(T, C[k]) = n
                BY <3>1
            <4>2. get_entity(T, s, n) = C[k]
                BY <4>1, <1>1, <1>2, Lookup
            <4>3. k \in DOMAIN E /\ E[k] = C[k] /\ Space(U, E[k]) = n
                BY <4>1, <2>3, <1>10, <1>5
            <4>4. get_entity(U, s, n) = E[k]
                BY <4>3, <1>1, <1>4, <1>10, Lookup
            <4> QED BY <4>2, <4>3, <4>4, <2>3
        <3>2. CASE \A k \in DOMAIN C : Space(T, C[k]) # n
            <4>1. get_entity(T, s, n) = Null
                BY <3>2, <1>1, <1>2, Lookup
            <4>2. \A k \in DOMAIN E : Space(T, E[k]) # n
                BY <3>2, <2>3, <1>10 DEF namespc
            <4>3. get_entity(U, s, n) = Null
                BY <4>2, <1>1, <1>4, <1>5, <1>10, Lookup
            <4> QED BY <4>1, <4>3, <2>3
        <3> QED BY <3>1, <3>2
    <2> QED BY <2>1, <2>2, <2>3
<1>13. ASSUME NEW x \in DOMAIN T.entity, x # e, get_entity(T, Symbol(T, x), Space(T, x)) # x
       PROVE  U.link[x] = T.link[x]
    <2>1. \A k \in DOMAIN C : C[k] # x
        <3>1. ASSUME NEW k \in DOMAIN C, C[k] = x PROVE FALSE
            <4>1. Symbol(T, x) = s
                BY <3>1, <1>3
            <4>2. get_entity(T, s, Space(T, C[k])) = C[k]
                BY <1>1, <1>2, Lookup
            <4> QED BY <4>1, <4>2, <3>1, <1>13
        <3> QED BY <3>1
    <2> QED BY <2>1, <1>8, <1>13, <1>3
<1>14. U.link[e] = IF old = Null THEN Null ELSE T.link[old]
    <2>1. CASE \A k \in DOMAIN C : Space(T, C[k]) # namespc
        <3>1. old = Null
            BY <2>1, <1>1, <1>2, Lookup DEF s, old, namespc
        <3>2. C # <<>> => C[Len(C)] # e
            BY <2>1, <1>3 DEF namespc
        <3>3. U.link[e] = T.link[e]
            BY <3>1, <3>2, <1>1, <1>6
        <3> QED BY <3>1, <3>3 DEF s, namespc, old
    <2>2. ASSUME NEW k \in DOMAIN C, Space(T, C[k]) = namespc
          PROVE  U.link[e] = T.link[old] /\ old # Null
        <3>1. k # 1 => k - 1 \in DOMAIN C
            BY <1>3
        <3>2. k # 1 => C[k - 1] # e
            <4>1. ASSUME k # 1, C[k - 1] = e PROVE FALSE
                <5>1. Space(T, C[k - 1]) = Space(T, C[k])
                    BY <4>1, <2>2 DEF namespc
                <5>2. k - 1 = k
                    BY <5>1, <4>1, <3>1, <1>2 DEF IsChain
                <5> QED BY <5>2, <1>3
            <4> QED BY <4>1
        <3>3. C[k] # Null
            BY <1>1, <1>2, ChainElements
        <3> QED BY <3>2, <3>3, <2>2, <1>1, <1>6
    <2> QED BY <2>1, <2>2
<1> QED BY <1>11, <1>12, <1>13, <1>14 DEF Pushed, U, s, namespc, old

-----------------------------------------------------------------------------
(***************************************************************************)
(* An entry is put back.                                                   *)
(***************************************************************************)
\* Where the pointers are changed when an entry is put back whose name means
\* element k of the list C.
Unlinked(T, U, entry, C, k) ==
  LET s     == entry.symbol
      old   == entry.old_entity
      after == T.link[C[k]]
      back  == IF old = Null THEN after ELSE old
  IN /\ \A r \in Symbols : r # s => U.head[r] = T.head[r]
     /\ U.head[s] = IF k = 1 THEN back ELSE T.head[s]
     /\ \A x \in DOMAIN T.link :
          U.link[x] = IF k # 1 /\ x = C[k - 1] THEN back
                      ELSE IF x = old THEN after ELSE T.link[x]

LEMMA PopPointers ==
  ASSUME NEW T, Shape(T), Chained(T), NEW entry \in EntryType, EntryOK(T, entry),
         NEW C, IsChain(T, entry.symbol, C),
         NEW k \in DOMAIN C, Space(T, C[k]) = entry.namespc
  PROVE  /\ Unlinked(T, PopOne(T, entry), entry, C, k)
         /\ PopOne(T, entry) = [T EXCEPT !.link = PopOne(T, entry).link,
                                         !.head = PopOne(T, entry).head]
         /\ PopOne(T, entry).link \in Seq(Nat) /\ DOMAIN PopOne(T, entry).link = DOMAIN T.link
         /\ PopOne(T, entry).head \in [Symbols -> Nat]
<1> DEFINE U == PopOne(T, entry)
           s == entry.symbol
           namespc == entry.namespc
           old == entry.old_entity
           after == T.link[C[k]]
           L == [T EXCEPT !.link[old] = after]
<1>1. s \in Symbols /\ namespc \in NameSpaces /\ old \in Nat
    BY DEF EntryType
<1>2. /\ C \in Seq(DOMAIN T.entity) /\ Len(C) \in Nat /\ DOMAIN C = 1 .. Len(C)
      /\ Chain(T, s) = C
    BY <1>1, ChainIs
<1>3. Place(T, s, namespc) = k /\ k # 0 /\ k \in Nat
    BY <1>1, <1>2, PlaceIs
<1>4. /\ C[k] \in DOMAIN T.entity /\ after \in Nat
      /\ DOMAIN T.link = DOMAIN T.entity /\ T.link \in Seq(Nat) /\ T.head \in [Symbols -> Nat]
      /\ k # 1 => k - 1 \in DOMAIN C /\ C[k - 1] \in DOMAIN T.link
    <2>1. DOMAIN T.link = DOMAIN T.entity /\ T.link \in Seq(Nat) /\ T.head \in [Symbols -> Nat]
        BY DEF Shape
    <2>2. C[k] \in DOMAIN T.entity
        BY <1>2
    <2>3. after \in Nat
        BY <2>1, <2>2
    <2>4. k # 1 => k - 1 \in DOMAIN C
        BY <1>2, <1>3
    <2>5. k # 1 => C[k - 1] \in DOMAIN T.link
        <3> HIDE DEF after
        <3> QED BY <2>1, <2>4, <1>2
    <2> HIDE DEF after
    <2> QED BY <2>1, <2>2, <2>3, <2>4, <2>5
<1>5. CASE old = Null
    <2>1. U = Anchored(T, s, k, after)
        BY <1>5, <1>2, <1>3 DEF PopOne
    <2> HIDE DEF U
    <2>2. CASE k = 1
        <3>1. U = [T EXCEPT !.head[s] = after]
            BY <2>1, <2>2 DEF Anchored
        <3> HIDE DEF after
        <3>2. U.head = [T.head EXCEPT ![s] = after] /\ U.link = T.link
            BY <3>1 DEF Shape
        <3>3. U.head \in [Symbols -> Nat]
            BY <3>2, <1>1, <1>4
        <3>4. U = [T EXCEPT !.link = U.link, !.head = U.head]
            BY <3>1, <3>2 DEF Shape
        <3>5. Unlinked(T, U, entry, C, k)
            <4>1. \A x \in DOMAIN T.link : x # old
                BY <1>5, <1>4 DEF Null, Shape
            <4> QED BY <4>1, <3>2, <2>2, <1>5, <1>1, <1>4 DEF Unlinked, after
        <3> QED BY <3>2, <3>3, <3>4, <3>5, <1>4 DEF U
    <2>3. CASE k # 1
        <3>1. U = [T EXCEPT !.link[C[k - 1]] = after]
            BY <2>1, <2>3, <1>2 DEF Anchored
        <3> HIDE DEF after
        <3>2. U.link = [T.link EXCEPT ![C[k - 1]] = after] /\ U.head = T.head
            BY <3>1 DEF Shape
        <3>3. U.link \in Seq(Nat) /\ DOMAIN U.link = DOMAIN T.link
            <4>1. /\ [T.link EXCEPT ![C[k - 1]] = after] \in Seq(Nat)
                  /\ DOMAIN [T.link EXCEPT ![C[k - 1]] = after] = DOMAIN T.link
                BY <1>4, SeqExcept
            <4> QED BY <4>1, <3>2
        <3>4. U = [T EXCEPT !.link = U.link, !.head = U.head]
            BY <3>1, <3>2 DEF Shape
        <3>5. Unlinked(T, U, entry, C, k)
            <4>1. \A x \in DOMAIN T.link : x # old
                BY <1>5, <1>4 DEF Null, Shape
            <4> QED BY <4>1, <3>2, <2>3, <1>5, <1>1, <1>4 DEF Unlinked, after
        <3> QED BY <3>2, <3>3, <3>4, <3>5, <1>4 DEF U
    <2> QED BY <2>2, <2>3
<1>6. CASE old # Null
    <2>1. /\ U = Anchored(L, s, k, old)
          /\ old \in DOMAIN T.link /\ Symbol(T, old) = s /\ Space(T, old) = namespc
        BY <1>6, <1>2, <1>3, <1>4 DEF PopOne, EntryOK
    <2> HIDE DEF U, after
    <2>2. /\ L.head = T.head /\ L.entity = T.entity /\ L.next = T.next /\ L.scope = T.scope
          /\ L.env = T.env /\ L.label = T.label /\ L.aborted = T.aborted
          /\ L.link = [T.link EXCEPT ![old] = after]
          /\ L = [T EXCEPT !.link = L.link]
        BY DEF Shape
    <2>3. L.link \in Seq(Nat) /\ DOMAIN L.link = DOMAIN T.link
        BY <2>2, <1>4, SeqExcept
    <2> HIDE DEF L
    <2>4. Shape(L)
        <3>1. L = [entity |-> L.entity, next |-> L.next, scope |-> L.scope, head |-> L.head,
                   link |-> L.link, env |-> L.env, label |-> L.label, aborted |-> L.aborted]
            BY <2>2 DEF Shape
        <3>2. Len(L.link) = Len(T.link)
            BY <2>3, <1>4
        <3> QED BY <3>1, <3>2, <2>2, <2>3 DEF Shape
    <2>5. IsChain(L, s, C)
        <3>1. ASSUME NEW j \in DOMAIN C PROVE L.link[C[j]] = T.link[C[j]]
            <4>1. CASE C[j] = old
                <5>1. j = k
                    BY <4>1, <2>1 DEF IsChain
                <5> QED BY <5>1, <4>1, <2>1, <2>2 DEF after
            <4>2. CASE C[j] # old
                BY <4>2, <2>2
            <4> QED BY <4>1, <4>2
        <3>2. \A x : Symbol(L, x) = Symbol(T, x) /\ Space(L, x) = Space(T, x)
            BY <2>2 DEF Symbol, Space
        <3>3. Len(T.entity) <= Len(L.entity)
            BY <2>2 DEF Shape
        <3>4. \A j \in DOMAIN C : /\ L.link[C[j]] = T.link[C[j]]
                                  /\ Symbol(L, C[j]) = Symbol(T, C[j])
                                  /\ Space(L, C[j]) = Space(T, C[j])
            BY <3>1, <3>2
        <3>5. Shape(T) /\ IsChain(T, s, C) /\ L.head[s] = T.head[s] /\ s \in Symbols
            BY <2>2, <1>1
        <3> HIDE DEF s
        <3> QED BY <3>3, <3>4, <3>5, <2>4, ChainKept
    <2>6. Chain(L, s) = C
        BY <2>4, <2>5, <1>1, ChainIs
    <2>7. CASE k = 1
        <3>1. U = [L EXCEPT !.head[s] = old]
            BY <2>1, <2>7 DEF Anchored
        <3>2. U.head = [T.head EXCEPT ![s] = old] /\ U.link = L.link
            BY <3>1, <2>2, <2>4 DEF Shape
        <3>3. U.head \in [Symbols -> Nat]
            BY <3>2, <1>1, <1>4
        <3>4. U = [T EXCEPT !.link = U.link, !.head = U.head]
            BY <3>1, <3>2, <2>2 DEF Shape
        <3>5. Unlinked(T, U, entry, C, k)
            BY <3>2, <2>1, <2>2, <2>7, <1>6, <1>1, <1>4 DEF Unlinked, after
        <3> QED BY <3>2, <3>3, <3>4, <3>5, <2>3 DEF U
    <2>8. CASE k # 1
        <3>1. U = [L EXCEPT !.link[C[k - 1]] = old]
            BY <2>1, <2>8, <2>6 DEF Anchored
        <3>2. U.link = [L.link EXCEPT ![C[k - 1]] = old] /\ U.head = T.head
            BY <3>1, <2>2, <2>4 DEF Shape
        <3>3. U.link \in Seq(Nat) /\ DOMAIN U.link = DOMAIN T.link
            <4>1. /\ [L.link EXCEPT ![C[k - 1]] = old] \in Seq(Nat)
                  /\ DOMAIN [L.link EXCEPT ![C[k - 1]] = old] = DOMAIN L.link
                BY <2>3, <1>1, SeqExcept
            <4> QED BY <4>1, <3>2, <2>3
        <3>4. U = [T EXCEPT !.link = U.link, !.head = U.head]
            BY <3>1, <3>2, <2>2 DEF Shape
        <3>5. Unlinked(T, U, entry, C, k)
            BY <3>2, <2>1, <2>2, <2>3, <2>8, <1>6, <1>1, <1>4 DEF Unlinked, after
        <3> QED BY <3>2, <3>3, <3>4, <3>5, <1>4 DEF U
    <2> QED BY <2>7, <2>8
<1> QED BY <1>5, <1>6 DEF U

\* The fields that putting an entry back does not change.
LEMMA PopFields ==
  ASSUME NEW T, Table(T), Chained(T), NEW entry \in EntryType, EntryOK(T, entry)
  PROVE  LET U == PopOne(T, entry)
             e == get_entity(T, entry.symbol, entry.namespc)
         IN /\ Table(U)
            /\ U.entity = T.entity /\ U.next = T.next /\ U.scope = T.scope
            /\ U.env = T.env /\ U.label = T.label
            /\ U.aborted = (T.aborted \/ e = Null)
            /\ e = Null => U.head = T.head /\ U.link = T.link
            /\ DOMAIN U.link = DOMAIN T.link
<1> DEFINE U == PopOne(T, entry)
           e == get_entity(T, entry.symbol, entry.namespc)
<1>1. Shape(T) /\ entry.symbol \in Symbols
    BY DEF Table, EntryType
<1>2. PICK C : IsChain(T, entry.symbol, C)
    BY <1>1 DEF Chained
<1>3. /\ U = [T EXCEPT !.link = U.link, !.head = U.head, !.aborted = T.aborted \/ e = Null]
      /\ U.link \in Seq(Nat) /\ DOMAIN U.link = DOMAIN T.link
      /\ U.head \in [Symbols -> Nat]
      /\ e = Null => U.head = T.head /\ U.link = T.link
    <2>1. CASE \A k \in DOMAIN C : Space(T, C[k]) # entry.namespc
        <3>1. e = Null /\ Place(T, entry.symbol, entry.namespc) = 0
            BY <2>1, <1>1, <1>2, Lookup, PlaceIs
        <3>2. U = [T EXCEPT !.aborted = TRUE]
            BY <3>1 DEF PopOne
        <3> HIDE DEF U, e
        <3> QED BY <3>1, <3>2, <1>1 DEF Shape
    <2>2. ASSUME NEW k \in DOMAIN C, Space(T, C[k]) = entry.namespc
          PROVE  /\ U = [T EXCEPT !.link = U.link, !.head = U.head, !.aborted = T.aborted \/ e = Null]
                 /\ U.link \in Seq(Nat) /\ DOMAIN U.link = DOMAIN T.link
                 /\ U.head \in [Symbols -> Nat]
                 /\ e # Null
        <3>1. e = C[k] /\ C[k] # Null
            BY <2>2, <1>1, <1>2, Lookup, ChainElements
        <3>2. /\ U = [T EXCEPT !.link = U.link, !.head = U.head]
              /\ U.link \in Seq(Nat) /\ DOMAIN U.link = DOMAIN T.link
              /\ U.head \in [Symbols -> Nat]
            BY <2>2, <1>1, <1>2, PopPointers
        <3> HIDE DEF U, e
        <3>3. T.aborted = (T.aborted \/ e = Null)
            BY <3>1, <1>1 DEF Shape
        <3>4. U = [T EXCEPT !.link = U.link, !.head = U.head, !.aborted = T.aborted]
            BY <3>2, <1>1 DEF Shape
        <3> QED BY <3>1, <3>2, <3>3, <3>4
    <2> QED BY <2>1, <2>2
<1> HIDE DEF U, e
<1>4. /\ U.entity = T.entity /\ U.next = T.next /\ U.scope = T.scope
      /\ U.env = T.env /\ U.label = T.label /\ U.aborted = (T.aborted \/ e = Null)
      /\ U = [entity |-> U.entity, next |-> U.next, scope |-> U.scope, head |-> U.head,
              link |-> U.link, env |-> U.env, label |-> U.label, aborted |-> U.aborted]
    BY <1>1, <1>3 DEF Shape
<1>5. Len(U.link) = Len(T.link) /\ U.aborted \in BOOLEAN
    BY <1>1, <1>3, <1>4 DEF Shape
<1>6. Shape(U)
    BY <1>1, <1>3, <1>4, <1>5 DEF Shape
<1>7. \A x : EntryOK(U, x) <=> EntryOK(T, x)
    BY <1>4 DEF EntryOK, Symbol, Space
<1>8. Table(U)
    BY <1>4, <1>6, <1>7 DEF Table
<1> QED BY <1>3, <1>4, <1>8 DEF U, e

\* C without its element k.
Without(C, k) == [i \in 1 .. Len(C) - 1 |-> IF i < k THEN C[i] ELSE C[i + 1]]

\* The list of the symbol after the entry has been put back.
LEMMA PopList ==
  ASSUME NEW T, Table(T), Chained(T), NEW entry \in EntryType, EntryOK(T, entry),
         NEW C, IsChain(T, entry.symbol, C),
         NEW k \in DOMAIN C, Space(T, C[k]) = entry.namespc
  PROVE  LET U == PopOne(T, entry)
         IN IF entry.old_entity = Null THEN IsChain(U, entry.symbol, Without(C, k))
            ELSE IsChain(U, entry.symbol, [C EXCEPT ![k] = entry.old_entity])
<1> DEFINE U == PopOne(T, entry)
           s == entry.symbol
           namespc == entry.namespc
           old == entry.old_entity
           after == T.link[C[k]]
<1>1. Shape(T) /\ s \in Symbols /\ namespc \in NameSpaces /\ old \in Nat
    BY DEF Table, EntryType
<1>2. /\ C \in Seq(DOMAIN T.entity) /\ Len(C) \in Nat /\ DOMAIN C = 1 .. Len(C)
      /\ k \in 1 .. Len(C)
    BY <1>1, ChainIs
<1>3. /\ Table(U) /\ Shape(U) /\ U.entity = T.entity /\ DOMAIN U.link = DOMAIN T.link
      /\ DOMAIN T.link = DOMAIN T.entity
    <2>1. Table(U) /\ U.entity = T.entity /\ DOMAIN U.link = DOMAIN T.link
        BY PopFields
    <2>2. DOMAIN T.link = DOMAIN T.entity
        BY <1>1 DEF Shape
    <2> QED BY <2>1, <2>2 DEF Table
<1>4. \A x : Symbol(U, x) = Symbol(T, x) /\ Space(U, x) = Space(T, x)
    BY <1>3 DEF Symbol, Space
<1>5. /\ T.head[s] = IF Len(C) = 0 THEN Null ELSE C[1]
      /\ \A i \in 1 .. Len(C) : T.link[C[i]] = IF i = Len(C) THEN Null ELSE C[i + 1]
      /\ \A i \in 1 .. Len(C) : Symbol(T, C[i]) = s /\ C[i] \in DOMAIN T.link
      /\ \A i, j \in 1 .. Len(C) : C[i] = C[j] => i = j
      /\ \A i, j \in 1 .. Len(C) : Space(T, C[i]) = Space(T, C[j]) => i = j
    <2>1. /\ Linked(T.head[s], T.link, C)
          /\ \A i \in DOMAIN C : Symbol(T, C[i]) = s
          /\ \A i, j \in DOMAIN C : Space(T, C[i]) = Space(T, C[j]) => i = j
        BY DEF IsChain
    <2>2. C = <<>> <=> Len(C) = 0
        BY <1>2
    <2>3. \A i \in 1 .. Len(C) : C[i] \in DOMAIN T.link
        BY <1>2, <1>3
    <2> QED BY <2>1, <2>2, <2>3, <1>2 DEF Linked
<1>6. Unlinked(T, U, entry, C, k)
    BY <1>1, PopPointers
<1>l. Len(C) # 0 /\ T.head[s] = C[1] /\ Space(T, C[k]) = namespc
    <2>1. Len(C) # 0
        BY <1>2
    <2> QED BY <2>1, <1>5
<1> HIDE DEF U
<1>7. ASSUME old = Null
      PROVE  IsChain(U, s, Without(C, k))
    <2> DEFINE D == Without(C, k)
    <2>1. /\ U.head[s] = IF k = 1 THEN after ELSE T.head[s]
          /\ \A i \in 1 .. Len(C) :
               U.link[C[i]] = IF i = k - 1 THEN after ELSE T.link[C[i]]
        <3>1. ASSUME NEW i \in 1 .. Len(C) PROVE C[i] # old
            <4>1. C[i] # Null
                BY <1>1, <1>2, ChainElements
            <4> QED BY <4>1, <1>7
        <3>2. ASSUME NEW i \in 1 .. Len(C)
              PROVE  k # 1 /\ C[i] = C[k - 1] <=> i = k - 1
            <4>1. k # 1 => k - 1 \in 1 .. Len(C)
                BY <1>2
            <4>2. CASE k = 1
                BY <4>2, <3>2, <1>2
            <4>3. CASE k # 1
                BY <4>1, <4>3, <3>2, <1>5
            <4> QED BY <4>2, <4>3
        <3>3. \A i \in 1 .. Len(C) : C[i] \in DOMAIN T.link
            BY <1>5
        <3> HIDE DEF after
        <3> QED BY <3>1, <3>2, <3>3, <1>6, <1>7 DEF Unlinked, after
    <2>2. /\ D \in Seq(DOMAIN T.entity) /\ Len(D) = Len(C) - 1 /\ DOMAIN D = 1 .. Len(C) - 1
          /\ \A i \in 1 .. Len(C) - 1 : D[i] = IF i < k THEN C[i] ELSE C[i + 1]
          /\ D = <<>> <=> Len(C) = 1
        <3>1. \A i \in 1 .. Len(C) - 1 : i \in 1 .. Len(C) /\ i + 1 \in 1 .. Len(C)
            BY <1>2
        <3>2. D \in [1 .. Len(C) - 1 -> DOMAIN T.entity]
            BY <3>1, <1>2 DEF Without
        <3>3. Len(C) - 1 \in Nat
            BY <1>2, <1>l
        <3>4. D \in Seq(DOMAIN T.entity) /\ Len(D) = Len(C) - 1 /\ DOMAIN D = 1 .. Len(C) - 1
            <4> HIDE DEF D
            <4> QED BY <3>2, <3>3
        <3>5. \A i \in 1 .. Len(C) - 1 : D[i] = IF i < k THEN C[i] ELSE C[i + 1]
            BY DEF Without
        <3> HIDE DEF D
        <3> QED BY <3>4, <3>5, <1>2
    <2> HIDE DEF D
    <2>3. U.head[s] = IF D = <<>> THEN Null ELSE D[1]
        <3>1. CASE Len(C) = 1
            <4>1. k = 1 /\ after = Null
                BY <3>1, <1>2, <1>5
            <4> QED BY <4>1, <3>1, <2>1, <2>2
        <3>2. CASE Len(C) # 1
            <4>1. 1 \in 1 .. Len(C) - 1
                BY <3>2, <1>2, <1>l
            <4>2. CASE k = 1
                <5>1. after = C[2] /\ D[1] = C[2]
                    BY <4>1, <4>2, <3>2, <2>2, <1>2, <1>5
                <5> QED BY <5>1, <4>2, <3>2, <2>1, <2>2
            <4>3. CASE k # 1
                <5>1. D[1] = C[1]
                    BY <4>1, <4>3, <2>2, <1>2
                <5> QED BY <5>1, <4>3, <3>2, <2>1, <2>2, <1>l
            <4> QED BY <4>2, <4>3
        <3> QED BY <3>1, <3>2
    <2>4. ASSUME NEW i \in DOMAIN D
          PROVE  U.link[D[i]] = IF i = Len(D) THEN Null ELSE D[i + 1]
        <3>1. i \in 1 .. Len(C) - 1 /\ i \in 1 .. Len(C) /\ i + 1 \in 1 .. Len(C) /\ i \in Nat
            BY <2>2, <1>2
        <3>2. i # Len(D) => i + 1 \in 1 .. Len(C) - 1 /\ i + 2 \in 1 .. Len(C)
            BY <3>1, <2>2, <1>2
        <3>3. CASE i < k - 1
            <4>1. D[i] = C[i] /\ i # Len(D) /\ D[i + 1] = C[i + 1]
                BY <3>1, <3>2, <3>3, <2>2, <1>2
            <4>2. U.link[C[i]] = C[i + 1]
                <5>1. i # k - 1 /\ i # Len(C)
                    BY <3>1, <3>3, <1>2
                <5>2. U.link[C[i]] = T.link[C[i]]
                    BY <5>1, <3>1, <2>1
                <5> QED BY <5>1, <5>2, <3>1, <1>5
            <4> QED BY <4>1, <4>2
        <3>4. CASE i = k - 1
            <4>1. D[i] = C[i] /\ (i # Len(D) => D[i + 1] = C[i + 2])
                BY <3>1, <3>2, <3>4, <2>2, <1>2
            <4>2. U.link[C[i]] = after
                BY <3>1, <3>4, <2>1
            <4>3. after = IF k = Len(C) THEN Null ELSE C[k + 1]
                BY <1>2, <1>5
            <4>4. i = Len(D) <=> k = Len(C)
                BY <3>4, <3>1, <2>2, <1>2
            <4>5. k + 1 = i + 2
                BY <3>4, <3>1, <1>2
            <4> QED BY <4>1, <4>2, <4>3, <4>4, <4>5
        <3>5. CASE i >= k
            <4>1. D[i] = C[i + 1] /\ (i # Len(D) => D[i + 1] = C[i + 2])
                BY <3>1, <3>2, <3>5, <2>2, <1>2
            <4>2. U.link[C[i + 1]] = T.link[C[i + 1]]
                BY <3>1, <3>5, <2>1, <1>2
            <4>3. T.link[C[i + 1]] = IF i + 1 = Len(C) THEN Null ELSE C[i + 2]
                BY <3>1, <1>5
            <4>4. i = Len(D) <=> i + 1 = Len(C)
                BY <3>1, <2>2, <1>2
            <4> QED BY <4>1, <4>2, <4>3, <4>4
        <3> QED BY <3>1, <3>3, <3>4, <3>5, <1>2
    <2>5. ASSUME NEW i \in DOMAIN D
          PROVE  \E j \in 1 .. Len(C) : /\ D[i] = C[j] /\ j # k
                                        /\ i = IF j < k THEN j ELSE j - 1
        <3>1. CASE i < k
            BY <3>1, <2>2, <1>2
        <3>2. CASE ~(i < k)
            <4>1. i + 1 \in 1 .. Len(C) /\ D[i] = C[i + 1] /\ i + 1 # k /\ ~(i + 1 < k)
                BY <3>2, <2>2, <1>2
            <4> QED BY <4>1, <2>2
        <3> QED BY <3>1, <3>2
    <2>6. \A i, j \in DOMAIN D : D[i] = D[j] => i = j
        BY <2>5, <1>5
    <2>7. \A i, j \in DOMAIN D : Space(U, D[i]) = Space(U, D[j]) => i = j
        <3>1. \A i, j \in DOMAIN D : Space(T, D[i]) = Space(T, D[j]) => i = j
            BY <2>5, <1>5
        <3> QED BY <3>1, <1>4
    <2>8. \A i \in DOMAIN D : Symbol(U, D[i]) = s
        <3>1. \A i \in DOMAIN D : Symbol(T, D[i]) = s
            BY <2>5, <1>5
        <3> QED BY <3>1, <1>4
    <2>9. Linked(U.head[s], U.link, D)
        BY <2>2, <2>3, <2>4, <2>6, <1>3 DEF Linked
    <2> QED BY <2>7, <2>8, <2>9 DEF IsChain, D
<1>8. ASSUME old # Null
      PROVE  IsChain(U, s, [C EXCEPT ![k] = old])
    <2>1. old \in DOMAIN T.entity /\ Symbol(T, old) = s /\ Space(T, old) = namespc
        BY <1>8 DEF EntryOK
    <2>2. /\ U.head[s] = IF k = 1 THEN old ELSE T.head[s]
          /\ \A x \in DOMAIN T.link :
               U.link[x] = IF k # 1 /\ x = C[k - 1] THEN old
                           ELSE IF x = old THEN after ELSE T.link[x]
        <3> HIDE DEF after
        <3> QED BY <1>6, <1>8 DEF Unlinked, after
    <2> DEFINE D == [C EXCEPT ![k] = old]
    <2>3. /\ D \in Seq(DOMAIN T.entity) /\ Len(D) = Len(C) /\ DOMAIN D = 1 .. Len(C)
          /\ \A j \in 1 .. Len(C) : D[j] = IF j = k THEN old ELSE C[j]
          /\ D # <<>>
        <3>1. C \in [1 .. Len(C) -> DOMAIN T.entity]
            BY <1>2
        <3>2. D \in [1 .. Len(C) -> DOMAIN T.entity]
            BY <3>1, <2>1, <1>2
        <3>3. D \in Seq(DOMAIN T.entity) /\ Len(D) = Len(C)
            <4> HIDE DEF D
            <4> QED BY <3>2, <1>2
        <3>4. \A j \in 1 .. Len(C) : D[j] = IF j = k THEN old ELSE C[j]
            BY <3>1
        <3> QED BY <3>2, <3>3, <3>4, <1>2
    <2> HIDE DEF D
    <2>4. \A j \in 1 .. Len(C) : j # k => C[j] # old
        BY <2>1, <1>5, <1>2, <1>l
    <2>5. U.head[s] = D[1]
        <3>1. 1 \in 1 .. Len(C)
            BY <1>2, <1>l
        <3>2. D[1] = IF k = 1 THEN old ELSE C[1]
            BY <3>1, <2>3
        <3> QED BY <3>2, <2>2, <1>l
    <2>6. ASSUME NEW j \in DOMAIN D
          PROVE  U.link[D[j]] = IF j = Len(D) THEN Null ELSE D[j + 1]
        <3>1. j \in 1 .. Len(C)
            BY <2>3
        <3>i. /\ k # 1 => k - 1 \in 1 .. Len(C) /\ k - 1 # k
              /\ j # Len(C) => j + 1 \in 1 .. Len(C)
            BY <3>1, <1>2
        <3>2. CASE j = k
            <4>1. k # 1 => C[k - 1] # old
                BY <3>i, <2>4
            <4>2. U.link[old] = after
                BY <4>1, <2>1, <2>2, <1>3
            <4>3. after = IF k = Len(C) THEN Null ELSE C[k + 1]
                BY <1>2, <1>5
            <4>4. j # Len(C) => D[j + 1] = C[j + 1]
                BY <3>i, <3>1, <3>2, <2>3, <1>2
            <4>5. D[j] = old
                BY <3>1, <3>2, <2>3
            <4> QED BY <4>2, <4>3, <4>4, <4>5, <3>2, <2>3
        <3>3. CASE j + 1 = k
            <4>1. k # 1 /\ k - 1 = j /\ j # Len(C) /\ j # k
                BY <3>3, <3>1, <1>2
            <4>2. U.link[C[j]] = old
                BY <4>1, <3>1, <2>2, <1>5
            <4>3. D[j + 1] = old /\ D[j] = C[j]
                BY <4>1, <3>1, <3>3, <2>3, <1>2
            <4> QED BY <4>1, <4>2, <4>3, <2>3
        <3>4. CASE j # k /\ j + 1 # k
            <4>1. C[j] # old
                BY <3>1, <3>4, <2>4
            <4>2. k # 1 => k - 1 # j
                BY <3>4, <3>1, <1>2
            <4>3. k # 1 => C[j] # C[k - 1]
                BY <4>2, <3>1, <3>i, <1>5
            <4>4. U.link[C[j]] = T.link[C[j]]
                BY <4>1, <4>3, <3>1, <2>2, <1>5
            <4>5. T.link[C[j]] = IF j = Len(C) THEN Null ELSE C[j + 1]
                BY <3>1, <1>5
            <4>6. D[j] = C[j] /\ (j # Len(C) => D[j + 1] = C[j + 1])
                BY <3>1, <3>i, <3>4, <2>3
            <4> QED BY <4>4, <4>5, <4>6, <2>3
        <3> QED BY <3>2, <3>3, <3>4
    <2>7. \A i, j \in DOMAIN D : D[i] = D[j] => i = j
        BY <2>3, <2>4, <1>5
    <2>8. Linked(U.head[s], U.link, D)
        BY <2>3, <2>5, <2>6, <2>7, <1>3 DEF Linked
    <2>9. \A j \in DOMAIN D : Symbol(U, D[j]) = s
        <3>1. \A j \in DOMAIN D : D[j] = old \/ Symbol(T, D[j]) = s
            BY <2>3, <1>5
        <3> QED BY <3>1, <2>1, <1>4
    <2>10. \A i, j \in DOMAIN D : Space(U, D[i]) = Space(U, D[j]) => i = j
        <3>1. \A j \in 1 .. Len(C) : Space(T, D[j]) = Space(T, C[j])
            BY <2>1, <2>3, <1>l
        <3>2. \A i, j \in DOMAIN D : Space(T, D[i]) = Space(T, D[j]) => i = j
            BY <3>1, <2>3, <1>5
        <3> QED BY <3>2, <1>4
    <2> QED BY <2>8, <2>9, <2>10 DEF IsChain, D
<1> QED BY <1>7, <1>8 DEF U

\* After the entry has been put back its name means the entity that the entry
\* remembers, the other names what they meant before. The pointers of other
\* entities that their names do not mean stay.
Popped(T, U, entry) ==
  /\ Chained(U)
  /\ \A r \in Symbols, n \in NameSpaces :
       get_entity(U, r, n) =
         IF r = entry.symbol /\ n = entry.namespc /\ get_entity(T, r, n) # Null
         THEN entry.old_entity ELSE get_entity(T, r, n)
  /\ \A x \in DOMAIN T.entity :
       x # entry.old_entity /\ get_entity(T, Symbol(T, x), Space(T, x)) # x
         => U.link[x] = T.link[x]

LEMMA PopMeans ==
  ASSUME NEW T, Table(T), Chained(T), NEW entry \in EntryType, EntryOK(T, entry)
  PROVE  Popped(T, PopOne(T, entry), entry)
<1> DEFINE U == PopOne(T, entry)
           s == entry.symbol
           namespc == entry.namespc
           old == entry.old_entity
           e == get_entity(T, s, namespc)
<1>1. Shape(T) /\ s \in Symbols /\ namespc \in NameSpaces /\ old \in Nat
    BY DEF Table, EntryType
<1>2. PICK C : IsChain(T, s, C)
    BY <1>1 DEF Chained
<1>3. /\ C \in Seq(DOMAIN T.entity) /\ Len(C) \in Nat /\ DOMAIN C = 1 .. Len(C)
      /\ \A k \in DOMAIN C : C[k] \in DOMAIN T.link /\ Symbol(T, C[k]) = s
      /\ DOMAIN T.link = DOMAIN T.entity
    <2>1. DOMAIN T.link = DOMAIN T.entity
        BY <1>1 DEF Shape
    <2>2. C \in Seq(DOMAIN T.entity)
        BY <1>1, <1>2, ChainIs
    <2> QED BY <1>2, <2>1, <2>2 DEF IsChain
<1>4. /\ Table(U) /\ Shape(U) /\ U.entity = T.entity
      /\ e = Null => U.head = T.head /\ U.link = T.link
    BY PopFields DEF Table
<1>5. \A x : Symbol(U, x) = Symbol(T, x) /\ Space(U, x) = Space(T, x)
    BY <1>4 DEF Symbol, Space
<1>6. ASSUME NEW k \in DOMAIN C, Space(T, C[k]) = namespc
      PROVE  /\ Unlinked(T, U, entry, C, k)
             /\ IF old = Null THEN IsChain(U, s, Without(C, k))
                              ELSE IsChain(U, s, [C EXCEPT ![k] = old])
             /\ e = C[k] /\ e # Null
    <2>1. Unlinked(T, U, entry, C, k)
        BY <1>1, <1>2, <1>6, PopPointers
    <2>2. IF old = Null THEN IsChain(U, s, Without(C, k))
                        ELSE IsChain(U, s, [C EXCEPT ![k] = old])
        BY <1>2, <1>6, PopList
    <2>3. e = C[k] /\ e # Null
        BY <1>1, <1>2, <1>6, Lookup, ChainElements
    <2> QED BY <2>1, <2>2, <2>3
<1> HIDE DEF U, s, namespc, old, e
<1>7. CASE \A k \in DOMAIN C : Space(T, C[k]) # namespc
    <2>1. e = Null
        BY <1>7, <1>1, <1>2, Lookup DEF e
    <2>2. U.head = T.head /\ U.link = T.link
        BY <2>1, <1>4
    <2>3. ASSUME NEW r \in Symbols, NEW D, IsChain(T, r, D) PROVE IsChain(U, r, D)
        <3>1. Len(T.entity) <= Len(U.entity)
            BY <1>1, <1>4 DEF Shape
        <3> QED BY <3>1, <2>2, <2>3, <1>1, <1>4, <1>5, ChainKept
    <2>4. Chained(U)
        BY <2>3 DEF Chained
    <2>5. ASSUME NEW r \in Symbols, NEW n \in NameSpaces
          PROVE  get_entity(U, r, n) = get_entity(T, r, n)
        <3>1. PICK D : IsChain(T, r, D)
            BY DEF Chained
        <3>2. IsChain(U, r, D)
            BY <3>1, <2>3
        <3>3. CASE \E k \in DOMAIN D : Space(T, D[k]) = n
            BY <3>1, <3>2, <3>3, <1>1, <1>4, <1>5, Lookup
        <3>4. CASE \A k \in DOMAIN D : Space(T, D[k]) # n
            BY <3>1, <3>2, <3>4, <1>1, <1>4, <1>5, Lookup
        <3> QED BY <3>3, <3>4
    <2> QED BY <2>1, <2>2, <2>4, <2>5 DEF Popped, e, U, s, namespc
<1>8. ASSUME NEW k \in DOMAIN C, Space(T, C[k]) = namespc
      PROVE  Popped(T, U, entry)
    <2>0. /\ Unlinked(T, U, entry, C, k)
          /\ IF old = Null THEN IsChain(U, s, Without(C, k))
                           ELSE IsChain(U, s, [C EXCEPT ![k] = old])
          /\ e = C[k] /\ e # Null
        BY <1>6, <1>8
    <2>1. ASSUME NEW x \in DOMAIN T.link, x # old, \A j \in DOMAIN C : C[j] # x
          PROVE  U.link[x] = T.link[x]
        <3>1. k # 1 => k - 1 \in DOMAIN C
            BY <1>3
        <3> QED BY <3>1, <2>0, <2>1 DEF Unlinked, old
    <2>2. PICK E : /\ IsChain(U, s, E)
                   /\ old # Null => \E j \in DOMAIN E : E[j] = old
                   /\ \A j \in DOMAIN E :
                        \/ old # Null /\ E[j] = old
                        \/ \E i \in DOMAIN C : i # k /\ E[j] = C[i]
                   /\ \A i \in DOMAIN C : i # k => \E j \in DOMAIN E : E[j] = C[i]
        <3>1. CASE old = Null
            <4>1. PICK E : E = Without(C, k)
                OBVIOUS
            <4>2. /\ DOMAIN E = 1 .. Len(C) - 1
                  /\ \A i \in 1 .. Len(C) - 1 : E[i] = IF i < k THEN C[i] ELSE C[i + 1]
                BY <4>1 DEF Without
            <4>3. ASSUME NEW j \in DOMAIN E PROVE \E i \in DOMAIN C : i # k /\ E[j] = C[i]
                <5>1. CASE j < k
                    BY <5>1, <4>2, <1>3
                <5>2. CASE ~(j < k)
                    <6>1. j + 1 \in DOMAIN C /\ j + 1 # k /\ E[j] = C[j + 1]
                        BY <5>2, <4>2, <1>3
                    <6> QED BY <6>1
                <5> QED BY <5>1, <5>2
            <4>4. ASSUME NEW i \in DOMAIN C, i # k PROVE \E j \in DOMAIN E : E[j] = C[i]
                <5>1. CASE i < k
                    BY <5>1, <4>2, <1>3
                <5>2. CASE ~(i < k)
                    <6>1. i - 1 \in DOMAIN E /\ ~(i - 1 < k) /\ i - 1 + 1 = i
                        BY <5>2, <4>4, <4>2, <1>3
                    <6>2. E[i - 1] = C[i]
                        BY <6>1, <4>2
                    <6> QED BY <6>1, <6>2
                <5> QED BY <5>1, <5>2
            <4>5. IsChain(U, s, E)
                BY <4>1, <3>1, <2>0
            <4> QED BY <4>3, <4>4, <4>5, <3>1
        <3>2. CASE old # Null
            <4>1. PICK E : E = [C EXCEPT ![k] = old]
                OBVIOUS
            <4>2. DOMAIN E = DOMAIN C /\ E[k] = old /\ \A j \in DOMAIN C : j # k => E[j] = C[j]
                BY <4>1, <1>3
            <4>3. IsChain(U, s, E)
                BY <4>1, <3>2, <2>0
            <4> QED BY <4>2, <4>3, <3>2
        <3> QED BY <3>1, <3>2
    <2>3. ASSUME NEW r \in Symbols, r # s, NEW D, IsChain(T, r, D)
          PROVE  IsChain(U, r, D)
        <3>1. /\ D \in Seq(DOMAIN T.entity)
              /\ \A j \in DOMAIN D : D[j] \in DOMAIN T.link /\ Symbol(T, D[j]) = r
            <4>1. D \in Seq(DOMAIN T.entity)
                BY <1>1, <2>3, ChainIs
            <4> QED BY <4>1, <1>3, <2>3 DEF IsChain
        <3>2. ASSUME NEW j \in DOMAIN D PROVE U.link[D[j]] = T.link[D[j]]
            <4>1. D[j] # old
                <5>1. CASE old = Null
                    BY <5>1, <1>1, <2>3, ChainElements
                <5>2. CASE old # Null
                    <6>1. Symbol(T, old) = s
                        BY <5>2 DEF EntryOK, old, s
                    <6> QED BY <6>1, <3>1, <2>3
                <5> QED BY <5>1, <5>2
            <4>2. \A i \in DOMAIN C : C[i] # D[j]
                BY <1>3, <2>3, <3>1
            <4> QED BY <4>1, <4>2, <3>1, <2>1
        <3>3. Len(T.entity) <= Len(U.entity)
            BY <1>1, <1>4 DEF Shape
        <3>4. U.head[r] = T.head[r]
            BY <2>0, <2>3 DEF Unlinked, s
        <3> QED BY <3>2, <3>3, <3>4, <1>1, <1>4, <1>5, <2>3, ChainKept
    <2>4. Chained(U)
        <3>1. ASSUME NEW r \in Symbols PROVE \E D : IsChain(U, r, D)
            <4>1. PICK D : IsChain(T, r, D)
                BY DEF Chained
            <4> QED BY <4>1, <2>2, <2>3
        <3> QED BY <3>1 DEF Chained
    <2>5. ASSUME NEW r \in Symbols, NEW n \in NameSpaces
          PROVE  get_entity(U, r, n) = IF r = s /\ n = namespc THEN old ELSE get_entity(T, r, n)
        <3>1. CASE r # s
            <4>1. PICK D : IsChain(T, r, D)
                BY DEF Chained
            <4>2. IsChain(U, r, D)
                BY <4>1, <3>1, <2>3
            <4>3. CASE \E j \in DOMAIN D : Space(T, D[j]) = n
                <5>1. PICK j \in DOMAIN D : Space(T, D[j]) = n
                    BY <4>3
                <5>2. get_entity(T, r, n) = D[j]
                    BY <5>1, <4>1, <1>1, Lookup
                <5>3. get_entity(U, r, n) = D[j]
                    BY <5>1, <4>2, <1>4, <1>5, Lookup
                <5> QED BY <5>2, <5>3, <3>1
            <4>4. CASE \A j \in DOMAIN D : Space(T, D[j]) # n
                <5>2. get_entity(T, r, n) = Null
                    BY <4>4, <4>1, <1>1, Lookup
                <5>3. get_entity(U, r, n) = Null
                    BY <4>4, <4>2, <1>4, <1>5, Lookup
                <5> QED BY <5>2, <5>3, <3>1
            <4> QED BY <4>3, <4>4
        <3>2. CASE r = s /\ n = namespc
            <4>1. CASE old # Null
                <5>1. PICK j \in DOMAIN E : E[j] = old
                    BY <4>1, <2>2
                <5>2. Space(U, E[j]) = n
                    BY <5>1, <4>1, <3>2, <1>5 DEF EntryOK, old, namespc
                <5> QED BY <5>1, <5>2, <3>2, <1>4, <2>2, Lookup
            <4>2. CASE old = Null
                <5>1. ASSUME NEW j \in DOMAIN E PROVE Space(U, E[j]) # n
                    <6>1. PICK i \in DOMAIN C : i # k /\ E[j] = C[i]
                        BY <4>2, <2>2
                    <6>2. Space(T, C[i]) # Space(T, C[k])
                        BY <6>1, <1>2 DEF IsChain
                    <6> QED BY <6>1, <6>2, <3>2, <1>5, <1>8
                <5> QED BY <5>1, <4>2, <3>2, <1>4, <2>2, Lookup
            <4> QED BY <4>1, <4>2
        <3>3. CASE r = s /\ n # namespc
            <4>1. CASE \E i \in DOMAIN C : Space(T, C[i]) = n
                <5>1. PICK i \in DOMAIN C : Space(T, C[i]) = n
                    BY <4>1
                <5>2. get_entity(T, s, n) = C[i]
                    BY <5>1, <1>1, <1>2, Lookup
                <5>3. i # k
                    BY <5>1, <3>3, <1>8
                <5>4. PICK j \in DOMAIN E : E[j] = C[i]
                    BY <5>3, <2>2
                <5>5. get_entity(U, s, n) = E[j]
                    <6>1. Space(U, E[j]) = n
                        BY <5>1, <5>4, <1>5
                    <6> QED BY <6>1, <1>1, <1>4, <2>2, Lookup
                <5> QED BY <5>2, <5>4, <5>5, <3>3
            <4>2. CASE \A i \in DOMAIN C : Space(T, C[i]) # n
                <5>1. get_entity(T, s, n) = Null
                    BY <4>2, <1>1, <1>2, Lookup
                <5>2. ASSUME NEW j \in DOMAIN E PROVE Space(U, E[j]) # n
                    <6>1. CASE old # Null /\ E[j] = old
                        <7>1. Space(T, old) = namespc
                            BY <6>1 DEF EntryOK, old, namespc
                        <7> QED BY <7>1, <6>1, <3>3, <1>5
                    <6>2. CASE \E i \in DOMAIN C : i # k /\ E[j] = C[i]
                        BY <6>2, <4>2, <1>5
                    <6> QED BY <6>1, <6>2, <2>2
                <5>3. get_entity(U, s, n) = Null
                    BY <5>2, <1>1, <1>4, <2>2, Lookup
                <5> QED BY <5>1, <5>3, <3>3
            <4> QED BY <4>1, <4>2
        <3> QED BY <3>1, <3>2, <3>3
    <2>6. ASSUME NEW x \in DOMAIN T.entity, x # old, get_entity(T, Symbol(T, x), Space(T, x)) # x
          PROVE  U.link[x] = T.link[x]
        <3>1. ASSUME NEW j \in DOMAIN C, C[j] = x PROVE FALSE
            <4>1. Symbol(T, x) = s
                BY <3>1, <1>3
            <4>2. get_entity(T, s, Space(T, C[j])) = C[j]
                BY <1>1, <1>2, Lookup
            <4> QED BY <4>1, <4>2, <3>1, <2>6
        <3> QED BY <3>1, <2>1, <2>6, <1>3
    <2>7. ASSUME NEW r \in Symbols, NEW n \in NameSpaces
          PROVE  get_entity(U, r, n) =
                   IF r = s /\ n = namespc /\ get_entity(T, r, n) # Null
                   THEN old ELSE get_entity(T, r, n)
        <3>1. r = s /\ n = namespc => get_entity(T, r, n) # Null
            BY <2>0 DEF e
        <3> QED BY <3>1, <2>5
    <2> QED BY <2>4, <2>6, <2>7 DEF Popped, s, namespc, old
<1> QED BY <1>7, <1>8 DEF U

-----------------------------------------------------------------------------
(***************************************************************************)
(* Tables with the same lists.                                             *)
(***************************************************************************)
\* No entity of X is meant by its name.
Off(T, X) == \A x \in X \cap DOMAIN T.entity : get_entity(T, Symbol(T, x), Space(T, x)) # x

\* U is T up to further entities and to the pointers of those in X.
Alike(T, U, X) ==
  /\ U.head = T.head
  /\ Len(T.entity) <= Len(U.entity)
  /\ \A x \in DOMAIN T.entity :
       /\ Symbol(U, x) = Symbol(T, x) /\ Space(U, x) = Space(T, x)
       /\ x \notin X => U.link[x] = T.link[x]

LEMMA AlikeChain ==
  ASSUME NEW T, Shape(T), NEW U, Shape(U), NEW X, Alike(T, U, X), Off(T, X),
         NEW s \in Symbols, NEW C, IsChain(T, s, C)
  PROVE  IsChain(U, s, C)
<1>1. /\ C \in Seq(DOMAIN T.entity)
      /\ \A k \in DOMAIN C : Symbol(T, C[k]) = s
    BY ChainIs DEF IsChain
<1>2. ASSUME NEW k \in DOMAIN C PROVE C[k] \notin X
    <2>1. get_entity(T, s, Space(T, C[k])) = C[k]
        BY Lookup
    <2> QED BY <2>1, <1>1 DEF Off
<1>3. \A k \in DOMAIN C : /\ U.link[C[k]] = T.link[C[k]]
                          /\ Symbol(U, C[k]) = Symbol(T, C[k])
                          /\ Space(U, C[k]) = Space(T, C[k])
    BY <1>1, <1>2 DEF Alike
<1> QED BY <1>3, ChainKept DEF Alike

\* The names mean the same in tables that are alike.
LEMMA AlikeMeans ==
  ASSUME NEW T, Shape(T), Chained(T), NEW U, Shape(U), NEW X, Alike(T, U, X), Off(T, X)
  PROVE  /\ Chained(U)
         /\ \A r \in Symbols, n \in NameSpaces : get_entity(U, r, n) = get_entity(T, r, n)
<1>1. Chained(U)
    <2>1. ASSUME NEW r \in Symbols PROVE \E C : IsChain(U, r, C)
        <3>1. PICK C : IsChain(T, r, C)
            BY DEF Chained
        <3> QED BY <3>1, AlikeChain
    <2> QED BY <2>1 DEF Chained
<1>2. ASSUME NEW r \in Symbols, NEW n \in NameSpaces
      PROVE  get_entity(U, r, n) = get_entity(T, r, n)
    <2>1. PICK C : IsChain(T, r, C)
        BY DEF Chained
    <2>2. IsChain(U, r, C)
        BY <2>1, AlikeChain
    <2>3. \A k \in DOMAIN C : Space(U, C[k]) = Space(T, C[k])
        <3>1. \A k \in DOMAIN C : C[k] \in DOMAIN T.entity
            BY <2>1, ChainElements
        <3> QED BY <3>1 DEF Alike
    <2>4. CASE \E k \in DOMAIN C : Space(T, C[k]) = n
        <3>1. PICK k \in DOMAIN C : Space(T, C[k]) = n
            BY <2>4
        <3>2. get_entity(T, r, n) = C[k]
            BY <3>1, <2>1, Lookup
        <3>3. get_entity(U, r, n) = C[k]
            BY <3>1, <2>2, <2>3, Lookup
        <3> QED BY <3>2, <3>3
    <2>5. CASE \A k \in DOMAIN C : Space(T, C[k]) # n
        <3>2. get_entity(T, r, n) = Null
            BY <2>5, <2>1, Lookup
        <3>3. get_entity(U, r, n) = Null
            BY <2>5, <2>2, <2>3, Lookup
        <3> QED BY <3>2, <3>3
    <2> QED BY <2>4, <2>5
<1> QED BY <1>1, <1>2

\* Putting back an entry keeps them alike.
LEMMA AlikePop ==
  ASSUME NEW T, Table(T), Chained(T), NEW U, Table(U), NEW X, Alike(T, U, X), Off(T, X),
         NEW entry \in EntryType, EntryOK(T, entry), entry.old_entity \notin X
  PROVE  Alike(PopOne(T, entry), PopOne(U, entry), X) /\ Off(PopOne(T, entry), X)
<1> DEFINE V == PopOne(T, entry)
           W == PopOne(U, entry)
           s == entry.symbol
           old == entry.old_entity
<1>1. Shape(T) /\ Shape(U) /\ s \in Symbols /\ entry.namespc \in NameSpaces
    BY DEF Table, EntryType
<1>2. /\ Chained(U)
      /\ \A r \in Symbols, n \in NameSpaces : get_entity(U, r, n) = get_entity(T, r, n)
    BY <1>1, AlikeMeans
<1>3. EntryOK(U, entry)
    <2>1. DOMAIN T.entity \subseteq DOMAIN U.entity
        BY <1>1 DEF Alike, Shape
    <2> QED BY <2>1 DEF EntryOK, Alike
<1>4. V.entity = T.entity /\ W.entity = U.entity
    BY <1>2, <1>3, PopFields
<1>5. \A x : /\ Symbol(V, x) = Symbol(T, x) /\ Space(V, x) = Space(T, x)
             /\ Symbol(W, x) = Symbol(U, x) /\ Space(W, x) = Space(U, x)
    BY <1>4 DEF Symbol, Space
<1>6. PICK C : IsChain(T, s, C)
    BY <1>1 DEF Chained
<1>7. IsChain(U, s, C)
    BY <1>1, <1>6, AlikeChain
<1>8. /\ \A k \in DOMAIN C : C[k] \in DOMAIN T.entity /\ Space(U, C[k]) = Space(T, C[k])
      /\ DOMAIN T.link = DOMAIN T.entity /\ DOMAIN U.link = DOMAIN U.entity
      /\ DOMAIN T.entity \subseteq DOMAIN U.entity
      /\ DOMAIN C = 1 .. Len(C) /\ Len(C) \in Nat
    <2>1. \A k \in DOMAIN C : C[k] \in DOMAIN T.entity
        BY <1>1, <1>6, ChainElements
    <2>2. C \in Seq(DOMAIN T.entity)
        BY <1>1, <1>6, ChainIs
    <2> QED BY <2>1, <2>2, <1>1 DEF Alike, Shape
<1>9. Off(V, X)
    <2>1. ASSUME NEW x \in X \cap DOMAIN T.entity
          PROVE  get_entity(V, Symbol(T, x), Space(T, x)) # x
        <3>1. Symbol(T, x) \in Symbols /\ Space(T, x) \in NameSpaces
            BY <1>1, EntityFacts
        <3>2. Popped(T, V, entry)
            BY PopMeans
        <3> HIDE DEF V
        <3> QED BY <3>1, <3>2 DEF Popped, Off
    <2> QED BY <2>1, <1>4, <1>5 DEF Off
<1>10. V.head = W.head /\ \A x \in DOMAIN T.entity : x \notin X => W.link[x] = V.link[x]
    <2>1. CASE \A k \in DOMAIN C : Space(T, C[k]) # entry.namespc
        <3>1. get_entity(T, s, entry.namespc) = Null
            BY <2>1, <1>1, <1>6, Lookup
        <3>2. get_entity(U, s, entry.namespc) = Null
            BY <3>1, <1>1, <1>2
        <3>3. V.head = T.head /\ V.link = T.link
            BY <3>1, PopFields
        <3>4. W.head = U.head /\ W.link = U.link
            BY <3>2, <1>2, <1>3, PopFields
        <3> QED BY <3>3, <3>4 DEF Alike
    <2>2. ASSUME NEW k \in DOMAIN C, Space(T, C[k]) = entry.namespc
          PROVE  V.head = W.head /\ \A x \in DOMAIN T.entity : x \notin X => W.link[x] = V.link[x]
        <3>1. /\ Unlinked(T, V, entry, C, k)
              /\ V.head \in [Symbols -> Nat]
            BY <2>2, <1>1, <1>6, PopPointers
        <3>2. Space(U, C[k]) = entry.namespc
            BY <2>2, <1>8
        <3>3. /\ Unlinked(U, W, entry, C, k)
              /\ W.head \in [Symbols -> Nat]
            BY <3>2, <1>1, <1>2, <1>3, <1>7, PopPointers
        <3>4. U.link[C[k]] = T.link[C[k]]
            <4>1. get_entity(T, s, Space(T, C[k])) = C[k] /\ Symbol(T, C[k]) = s
                BY <1>1, <1>6, Lookup DEF IsChain
            <4>2. C[k] \notin X
                BY <4>1, <1>8 DEF Off
            <4> QED BY <4>2, <1>8 DEF Alike
        <3> HIDE DEF V, W, s, old
        <3>5. \A r \in Symbols : V.head[r] = W.head[r]
            BY <3>1, <3>3, <3>4 DEF Unlinked, Alike
        <3>6. V.head = W.head
            BY <3>1, <3>3, <3>5
        <3>7. ASSUME NEW x \in DOMAIN T.entity, x \notin X PROVE W.link[x] = V.link[x]
            <4>1. U.link[x] = T.link[x] /\ x \in DOMAIN U.link /\ x \in DOMAIN T.link
                BY <3>7, <1>8 DEF Alike
            <4> QED BY <4>1, <3>1, <3>3, <3>4 DEF Unlinked
        <3> QED BY <3>6, <3>7
    <2> QED BY <2>1, <2>2
<1> HIDE DEF V, W
<1>11. Alike(V, W, X)
    BY <1>4, <1>5, <1>10 DEF Alike
<1> QED BY <1>9, <1>11 DEF V, W

\* Putting back what has just been pushed restores the lists.
LEMMA PushPop ==
  ASSUME NEW T, Table(T), Chained(T), NEW e \in DOMAIN T.entity,
         NEW which \in {"env", "label"}, Off(T, {e}),
         get_entity(T, Symbol(T, e), Space(T, e)) = Null => T.link[e] = Null
  PROVE  LET V == PopOne(stack_push(T, which, e), Entry(T, e))
         IN /\ Alike(T, V, {e})
            /\ get_entity(T, Symbol(T, e), Space(T, e)) = Null => V.link[e] = Null
<1> DEFINE U == stack_push(T, which, e)
           entry == Entry(T, e)
           V == PopOne(U, entry)
           s == Symbol(T, e)
           namespc == Space(T, e)
           old == get_entity(T, s, namespc)
<1>1. Shape(T) /\ s \in Symbols /\ namespc \in NameSpaces /\ e \in DOMAIN T.link /\ e # Null
    BY EntityFacts DEF Table
<1>2. PICK C : IsChain(T, s, C)
    BY <1>1 DEF Chained
<1>3. /\ C \in Seq(DOMAIN T.entity) /\ Len(C) \in Nat /\ DOMAIN C = 1 .. Len(C)
      /\ DOMAIN T.link = DOMAIN T.entity /\ (C = <<>> <=> Len(C) = 0)
      /\ DOMAIN T.head = Symbols
    <2>1. C \in Seq(DOMAIN T.entity)
        BY <1>1, <1>2, ChainIs
    <2> QED BY <2>1, <1>1 DEF Shape
<1>4. /\ Table(U) /\ Shape(U) /\ U.entity = T.entity
      /\ U.head \in [Symbols -> Nat] /\ DOMAIN U.link = DOMAIN T.link
    <2>1. Table(U) /\ U.entity = T.entity
        BY PushFields
    <2> HIDE DEF U
    <2>2. Shape(U)
        BY ONLY <2>1 DEF Table
    <2>3. DOMAIN U.link = DOMAIN U.entity
        BY ONLY <2>2 DEF Shape
    <2>4. U.head \in [Symbols -> Nat]
        BY ONLY <2>2 DEF Shape
    <2> QED BY <2>1, <2>2, <2>3, <2>4, <1>3
<1>5. \A x : Symbol(U, x) = Symbol(T, x) /\ Space(U, x) = Space(T, x)
    BY <1>4 DEF Symbol, Space
<1>6. Pushed(T, U, e) /\ Chained(U)
    BY PushMeans DEF Pushed
<1>7. /\ entry.symbol = s /\ entry.namespc = namespc /\ entry.old_entity = old
      /\ entry \in EntryType /\ EntryOK(U, entry)
    <2>1. old \in Nat
        BY <1>1, MeaningType
    <2>2. old # Null => old \in DOMAIN T.entity /\ Symbol(T, old) = s /\ Space(T, old) = namespc
        BY <1>1, MeaningNamed
    <2>3. entry.symbol = s /\ entry.namespc = namespc /\ entry.old_entity = old
        BY DEF Entry
    <2>4. entry \in EntryType
        BY <2>1, <1>1 DEF Entry, EntryType
    <2>5. EntryOK(U, entry)
        BY <2>2, <2>3, <1>4, <1>5 DEF EntryOK
    <2> QED BY <2>3, <2>4, <2>5
<1>8. /\ V.entity = U.entity /\ DOMAIN V.link = DOMAIN U.link
    BY <1>4, <1>6, <1>7, PopFields
<1>9. Relinked(T, U, e, C)
    BY <1>2, PushPointers
<1>10. /\ T.head[s] = IF Len(C) = 0 THEN Null ELSE C[1]
       /\ \A i \in 1 .. Len(C) : T.link[C[i]] = IF i = Len(C) THEN Null ELSE C[i + 1]
       /\ \A i \in 1 .. Len(C) : C[i] \in DOMAIN T.link
       /\ \A i, j \in 1 .. Len(C) : C[i] = C[j] => i = j
    <2>1. Linked(T.head[s], T.link, C)
        BY <1>2 DEF IsChain
    <2>2. \A i \in 1 .. Len(C) : C[i] \in DOMAIN T.link
        BY <1>3
    <2>3. T.head[s] = IF C = <<>> THEN Null ELSE C[1]
        BY <2>1 DEF Linked
    <2>4. /\ \A i \in 1 .. Len(C) : T.link[C[i]] = IF i = Len(C) THEN Null ELSE C[i + 1]
          /\ \A i, j \in 1 .. Len(C) : C[i] = C[j] => i = j
        BY <2>1, <1>3 DEF Linked
    <2> QED BY <2>2, <2>3, <2>4, <1>3
<1>c. ASSUME NEW i \in 1 .. Len(C) PROVE C[i] # e
    <2>1. get_entity(T, s, Space(T, C[i])) = C[i] /\ Symbol(T, C[i]) = s
        BY <1>1, <1>2, <1>3, Lookup DEF IsChain
    <2> QED BY <2>1 DEF Off
<1>11. /\ V.head \in [Symbols -> Nat]
       /\ \A r \in Symbols : V.head[r] = T.head[r]
       /\ \A x \in DOMAIN T.link : x # e => V.link[x] = T.link[x]
       /\ old = Null => V.link[e] = Null
    <2>1. CASE \A k \in DOMAIN C : Space(T, C[k]) # namespc
        <3>1. old = Null /\ T.link[e] = Null
            BY <2>1, <1>1, <1>2, Lookup
        <3>2. IsChain(U, s, Append(C, e))
            BY <2>1, <1>2, PushedList
        <3>3. PICK D : D = Append(C, e)
            OBVIOUS
        <3>4. /\ DOMAIN D = 1 .. Len(C) + 1 /\ D[Len(C) + 1] = e
              /\ \A i \in 1 .. Len(C) : D[i] = C[i]
            BY <3>3, <1>3
        <3>5. PICK k \in Nat : k = Len(C) + 1
            BY <1>3
        <3>6. k \in DOMAIN D /\ D[k] = e /\ IsChain(U, entry.symbol, D) /\ Space(U, D[k]) = entry.namespc
            BY <3>2, <3>3, <3>4, <3>5, <1>3, <1>5, <1>7
        <3>7. Unlinked(U, V, entry, D, k) /\ V.head \in [Symbols -> Nat]
            BY <3>6, <1>4, <1>6, <1>7, PopPointers
        <3>8. /\ \A r \in Symbols : r # s => U.head[r] = T.head[r]
              /\ U.head[s] = IF C = <<>> THEN e ELSE T.head[s]
              /\ \A x \in DOMAIN T.link :
                   U.link[x] = IF C # <<>> /\ x = C[Len(C)] THEN e ELSE T.link[x]
            <4> HIDE DEF U, V, entry
            <4> QED BY <3>1, <1>9 DEF Relinked
        <3>9. U.link[e] = Null
            <4>1. C # <<>> => C[Len(C)] # e
                BY <1>c, <1>3
            <4> QED BY <4>1, <3>1, <3>8, <1>1
        <3>n. \A x \in DOMAIN T.link : x # Null
            BY <1>1, EntityFacts, <1>3
        <3> HIDE DEF U, V, entry, s, old, namespc
        <3>10. /\ \A r \in Symbols : r # s => V.head[r] = U.head[r]
               /\ V.head[s] = IF k = 1 THEN Null ELSE U.head[s]
               /\ \A x \in DOMAIN T.link :
                    V.link[x] = IF k # 1 /\ x = D[k - 1] THEN Null ELSE U.link[x]
            BY <3>1, <3>6, <3>7, <3>9, <3>n, <1>4, <1>7 DEF Unlinked
        <3>11. CASE C = <<>>
            <4>1. k = 1 /\ T.head[s] = Null
                BY <3>11, <3>5, <1>3, <1>10
            <4> QED BY <4>1, <3>7, <3>8, <3>9, <3>10, <3>11, <1>1
        <3>12. CASE C # <<>>
            <4>1. k # 1 /\ k - 1 = Len(C) /\ Len(C) \in 1 .. Len(C)
                BY <3>12, <3>5, <1>3
            <4>2. D[k - 1] = C[Len(C)] /\ T.link[C[Len(C)]] = Null
                BY <4>1, <3>4, <1>10
            <4>3. C[Len(C)] # e
                BY <4>1, <1>c
            <4> QED BY <4>1, <4>2, <4>3, <3>7, <3>8, <3>9, <3>10, <3>12, <1>1
        <3> QED BY <3>11, <3>12
    <2>2. ASSUME NEW k \in DOMAIN C, Space(T, C[k]) = namespc
          PROVE  /\ V.head \in [Symbols -> Nat]
                 /\ \A r \in Symbols : V.head[r] = T.head[r]
                 /\ \A x \in DOMAIN T.link : x # e => V.link[x] = T.link[x]
                 /\ old # Null
        <3>1. old = C[k] /\ old # Null
            BY <2>2, <1>1, <1>2, Lookup, ChainElements
        <3>2. IsChain(U, s, [C EXCEPT ![k] = e])
            BY <2>2, <1>2, PushedList
        <3>3. PICK D : D = [C EXCEPT ![k] = e]
            OBVIOUS
        <3>4. DOMAIN D = DOMAIN C /\ D[k] = e /\ \A i \in DOMAIN C : i # k => D[i] = C[i]
            BY <3>3, <1>3
        <3>6. k \in DOMAIN D /\ IsChain(U, entry.symbol, D) /\ Space(U, D[k]) = entry.namespc
            BY <3>2, <3>3, <3>4, <1>5, <1>7
        <3>7. Unlinked(U, V, entry, D, k) /\ V.head \in [Symbols -> Nat]
            BY <3>6, <1>4, <1>6, <1>7, PopPointers
        <3> HIDE DEF U, V, entry, s, old, namespc
        <3>8. /\ \A r \in Symbols : r # s => U.head[r] = T.head[r]
              /\ U.head[s] = IF k = 1 THEN e ELSE T.head[s]
              /\ \A x \in DOMAIN T.link :
                   U.link[x] = IF k # 1 /\ x = C[k - 1] THEN e
                               ELSE IF x = e THEN T.link[old] ELSE T.link[x]
            BY <2>2, <1>9 DEF Relinked, s, old, namespc
        <3>i. k \in 1 .. Len(C) /\ (k # 1 => k - 1 \in 1 .. Len(C) /\ k - 1 # k)
            BY <1>3
        <3>9. U.link[e] = T.link[old]
            BY <3>8, <3>i, <1>c, <1>1
        <3>10. /\ \A r \in Symbols : r # s => V.head[r] = U.head[r]
               /\ V.head[s] = IF k = 1 THEN old ELSE U.head[s]
               /\ \A x \in DOMAIN T.link :
                    V.link[x] = IF k # 1 /\ x = D[k - 1] THEN old
                                ELSE IF x = old THEN T.link[old] ELSE U.link[x]
            BY <3>1, <3>4, <3>7, <3>9, <1>4, <1>7 DEF Unlinked
        <3>11. k = 1 => T.head[s] = old
            BY <3>1, <3>i, <1>3, <1>10
        <3>12. ASSUME NEW x \in DOMAIN T.link, x # e PROVE V.link[x] = T.link[x]
            <4>1. k # 1 => D[k - 1] = C[k - 1] /\ T.link[C[k - 1]] = old
                <5>1. k # 1 => k - 1 # Len(C) /\ k - 1 + 1 = k
                    BY <3>i, <1>3
                <5>2. k # 1 => D[k - 1] = C[k - 1]
                    BY <3>4, <3>i, <1>3
                <5>3. k # 1 => T.link[C[k - 1]] = C[k]
                    BY <5>1, <3>i, <1>10
                <5> QED BY <5>2, <5>3, <3>1
            <4> QED BY <4>1, <3>8, <3>10, <3>12
        <3>13. \A r \in Symbols : V.head[r] = T.head[r]
            BY <3>8, <3>10, <3>11
        <3> QED BY <3>1, <3>7, <3>12, <3>13
    <2> QED BY <2>1, <2>2
<1> HIDE DEF U, V, entry, s, old, namespc
<1>12. V.head = T.head
    BY <1>11, <1>1 DEF Shape
<1>13. \A x : Symbol(V, x) = Symbol(T, x) /\ Space(V, x) = Space(T, x)
    BY <1>4, <1>8 DEF Symbol, Space
<1>14. Len(T.entity) <= Len(V.entity)
    BY <1>1, <1>4, <1>8 DEF Shape
<1>15. Alike(T, V, {e})
    BY <1>11, <1>12, <1>13, <1>14, <1>3 DEF Alike
<1> QED BY <1>11, <1>15 DEF U, V, entry, s, old, namespc

-----------------------------------------------------------------------------
(***************************************************************************)
(* The entries above top are put back, youngest first.                     *)
(***************************************************************************)
\* f[i] is T when i entries of the stack are left.
IsUndoing(f, T, stack, top) ==
  f = [i \in top .. Len(stack) |->
         IF i = Len(stack) THEN T ELSE PopOne(f[i + 1], stack[i + 1])]

LEMMA UndoingExists ==
  ASSUME NEW T, NEW stack \in Seq(EntryType), NEW top \in 0 .. Len(stack)
  PROVE  \E f : IsUndoing(f, T, stack, top)
<1> DEFINE n == Len(stack)
           S == { m \in Nat : m <= n => \E f : IsUndoing(f, T, stack, n - m) }
<1>n. n \in Nat
    OBVIOUS
<1> HIDE DEF n
<1>1. 0 \in S
    <2>1. IsUndoing([i \in n .. n |-> T], T, stack, n)
        BY <1>n DEF IsUndoing, n
    <2>2. n - 0 = n
        BY <1>n
    <2> QED BY <2>1, <2>2
<1>2. ASSUME NEW m \in Nat, m \in S PROVE m + 1 \in S
    <2> SUFFICES ASSUME m + 1 <= n PROVE \E f : IsUndoing(f, T, stack, n - (m + 1))
        OBVIOUS
    <2>1. PICK f : IsUndoing(f, T, stack, n - m)
        BY <1>2, <1>n
    <2>2. PICK b \in Int : b = n - (m + 1)
        BY <1>n
    <2>3. b + 1 = n - m /\ b < n /\ b \in Nat
        BY <2>2, <1>n
    <2> DEFINE g == [i \in b .. n |-> IF i = b THEN PopOne(f[b + 1], stack[b + 1]) ELSE f[i]]
    <2>4. ASSUME NEW i \in b .. n
          PROVE  g[i] = IF i = n THEN T ELSE PopOne(g[i + 1], stack[i + 1])
        <3>1. CASE i = b
            <4>1. b + 1 \in b .. n /\ b + 1 # b /\ i # n
                BY <3>1, <2>3, <1>n
            <4>2. g[b + 1] = f[b + 1] /\ g[i] = PopOne(f[b + 1], stack[b + 1])
                BY <4>1, <3>1
            <4> HIDE DEF g
            <4> QED BY <4>1, <4>2, <3>1
        <3>2. CASE i # b
            <4>1. i \in b + 1 .. n /\ (i # n => i + 1 \in b .. n /\ i + 1 # b)
                BY <3>2, <2>3, <1>n
            <4>2. f[i] = IF i = n THEN T ELSE PopOne(f[i + 1], stack[i + 1])
                BY <4>1, <2>1, <2>3 DEF IsUndoing, n
            <4>3. g[i] = f[i] /\ (i # n => g[i + 1] = f[i + 1])
                BY <4>1, <3>2
            <4> HIDE DEF g
            <4> QED BY <4>2, <4>3
        <3> QED BY <3>1, <3>2
    <2>5. g = [i \in b .. n |-> g[i]]
        OBVIOUS
    <2> HIDE DEF g
    <2>6. g = [i \in b .. n |-> IF i = n THEN T ELSE PopOne(g[i + 1], stack[i + 1])]
        BY <2>4, <2>5
    <2> QED BY <2>2, <2>6 DEF IsUndoing, n
<1>3. n - top \in S
    <2>1. n - top \in Nat
        BY <1>n DEF n
    <2>2. \A m \in Nat : m \in S
        <3> HIDE DEF S
        <3> QED BY <1>1, <1>2, Induction
    <2> QED BY <2>1, <2>2
<1> QED BY <1>3, <1>n DEF n

\* What an undoing is when i entries are left.
LEMMA UndoingStep ==
  ASSUME NEW T, NEW stack \in Seq(EntryType), NEW top \in 0 .. Len(stack),
         NEW f, IsUndoing(f, T, stack, top)
  PROVE  /\ f[Len(stack)] = T
         /\ \A i \in top .. Len(stack) :
              i # Len(stack) => f[i] = PopOne(f[i + 1], stack[i + 1])
BY DEF IsUndoing

\* What holds of T and is kept by every round holds of the result.
LEMMA Downwards ==
  ASSUME NEW n \in Nat, NEW top \in 0 .. n, NEW S, n \in S,
         \A i \in top .. n : i + 1 \in S /\ i # n => i \in S
  PROVE  \A i \in top .. n : i \in S
<1> DEFINE M == { m \in Nat : m <= n - top => n - m \in S }
<1>1. 0 \in M
    OBVIOUS
<1>2. ASSUME NEW m \in Nat, m \in M PROVE m + 1 \in M
    <2> SUFFICES ASSUME m + 1 <= n - top PROVE n - (m + 1) \in S
        OBVIOUS
    <2>1. PICK i \in Int : i = n - (m + 1)
        OBVIOUS
    <2>2. i \in top .. n /\ i + 1 = n - m /\ i # n /\ m <= n - top
        BY <2>1
    <2>3. i + 1 \in S
        BY <2>2, <1>2
    <2> QED BY <2>1, <2>2, <2>3
<1>3. \A m \in Nat : m \in M
    <2> HIDE DEF M
    <2> QED BY <1>1, <1>2, Induction
<1>4. ASSUME NEW i \in top .. n PROVE i \in S
    <2>1. PICK m \in Nat : m = n - i
        OBVIOUS
    <2>2. m <= n - top /\ n - m = i
        BY <2>1
    <2> QED BY <2>2, <1>3
<1> QED BY <1>4

\* The tables in between have the same fields but for the lists.
Restored(T, U) ==
  /\ Table(U) /\ Chained(U)
  /\ U.entity = T.entity /\ U.next = T.next /\ U.scope = T.scope
  /\ U.env = T.env /\ U.label = T.label
  /\ DOMAIN U.link = DOMAIN T.link

LEMMA UndoingFields ==
  ASSUME NEW T, Table(T), Chained(T), NEW stack \in Seq(EntryType),
         \A i \in DOMAIN stack : EntryOK(T, stack[i]),
         NEW top \in 0 .. Len(stack), NEW f, IsUndoing(f, T, stack, top)
  PROVE  \A i \in top .. Len(stack) : Restored(T, f[i])
<1> DEFINE n == Len(stack)
           S == { i \in top .. n : Restored(T, f[i]) }
<1>1. n \in Nat
    OBVIOUS
<1>2. n \in S
    <2>1. f[n] = T
        BY UndoingStep
    <2> QED BY <2>1 DEF Restored
<1>3. ASSUME NEW i \in top .. n, i + 1 \in S, i # n PROVE i \in S
    <2>1. Restored(T, f[i + 1]) /\ f[i] = PopOne(f[i + 1], stack[i + 1])
        BY <1>3, UndoingStep
    <2>2. stack[i + 1] \in EntryType /\ EntryOK(T, stack[i + 1])
        <3>1. i + 1 \in DOMAIN stack
            BY <1>3
        <3> QED BY <3>1
    <2>3. EntryOK(f[i + 1], stack[i + 1])
        BY <2>1, <2>2 DEF EntryOK, Restored, Symbol, Space
    <2>4. PICK V : V = f[i + 1]
        OBVIOUS
    <2>5. PICK entry \in EntryType : entry = stack[i + 1]
        BY <2>2
    <2>6. Table(V) /\ Chained(V) /\ EntryOK(V, entry)
        BY <2>1, <2>3, <2>4, <2>5 DEF Restored
    <2>7. LET U == PopOne(V, entry)
          IN /\ Table(U) /\ U.entity = V.entity /\ U.next = V.next /\ U.scope = V.scope
             /\ U.env = V.env /\ U.label = V.label /\ DOMAIN U.link = DOMAIN V.link
        BY <2>6, PopFields
    <2>8. Chained(PopOne(V, entry))
        BY <2>6, PopMeans DEF Popped
    <2>9. Restored(T, f[i])
        BY <2>1, <2>4, <2>5, <2>7, <2>8 DEF Restored
    <2> QED BY <2>9
<1>4. \A i \in top .. n : i \in S
    <2> HIDE DEF S
    <2> QED BY <1>1, <1>2, <1>3, Downwards
<1> QED BY <1>4

StackOf(T, which) == IF which = "env" THEN T.env ELSE T.label

\* U is what is left of T when the undoing ends with V.
Ended(T, U, V, which, top) ==
  /\ Table(U) /\ Chained(U)
  /\ U.entity = T.entity /\ U.next = T.next /\ U.scope = T.scope
  /\ U.head = V.head /\ U.link = V.link /\ U.aborted = V.aborted
  /\ U.env = IF which = "env" THEN SubSeq(T.env, 1, top) ELSE T.env
  /\ U.label = IF which = "env" THEN T.label ELSE SubSeq(T.label, 1, top)
  /\ DOMAIN U.link = DOMAIN T.link

LEMMA StackOfType ==
  ASSUME NEW T, Table(T), NEW which \in {"env", "label"}
  PROVE  /\ StackOf(T, which) \in Seq(EntryType)
         /\ \A i \in DOMAIN StackOf(T, which) : EntryOK(T, StackOf(T, which)[i])
         /\ T[which] = StackOf(T, which)
<1>1. CASE which = "env"
    BY <1>1 DEF Table, Shape, StackOf
<1>2. CASE which = "label"
    BY <1>2 DEF Table, Shape, StackOf
<1> QED BY <1>1, <1>2

LEMMA PrefixSeq ==
  ASSUME NEW S, NEW q \in Seq(S), NEW top \in 0 .. Len(q)
  PROVE  /\ SubSeq(q, 1, top) \in Seq(S) /\ Len(SubSeq(q, 1, top)) = top
         /\ DOMAIN SubSeq(q, 1, top) = 1 .. top
         /\ \A i \in 1 .. top : SubSeq(q, 1, top)[i] = q[i]
OBVIOUS

LEMMA PopToIs ==
  ASSUME NEW T, Table(T), Chained(T), NEW which \in {"env", "label"},
         NEW top \in 0 .. Len(StackOf(T, which))
  PROVE  \E f : /\ IsUndoing(f, T, StackOf(T, which), top)
                /\ Ended(T, stack_pop_to(T, which, top), f[top], which, top)
<1> DEFINE stack == StackOf(T, which)
           n == Len(stack)
           U == stack_pop_to(T, which, top)
           f == CHOOSE g : g = [i \in top .. Len(T[which]) |->
                                  IF i = Len(T[which]) THEN T ELSE PopOne(g[i + 1], T[which][i + 1])]
<1>1. /\ stack \in Seq(EntryType) /\ \A i \in DOMAIN stack : EntryOK(T, stack[i])
      /\ T[which] = stack /\ n \in Nat
    BY StackOfType
<1>2. U = [f[top] EXCEPT ![which] = SubSeq(@, 1, top)]
    BY DEF stack_pop_to
<1>3. IsUndoing(f, T, stack, top)
    <2>1. \E g : IsUndoing(g, T, stack, top)
        BY <1>1, UndoingExists
    <2> HIDE DEF stack
    <2>2. f = CHOOSE g : IsUndoing(g, T, stack, top)
        BY <1>1 DEF IsUndoing
    <2> HIDE DEF f
    <2> QED BY <2>1, <2>2
<1> HIDE DEF f, U
<1>4. Restored(T, f[top])
    BY <1>1, <1>3, UndoingFields
<1>5. PICK V : V = f[top]
    OBVIOUS
<1>6. /\ Shape(V) /\ V.entity = T.entity /\ V.next = T.next /\ V.scope = T.scope
      /\ V.env = T.env /\ V.label = T.label /\ DOMAIN V.link = DOMAIN T.link
      /\ Chained(V) /\ Table(V)
    BY <1>4, <1>5 DEF Restored, Table
<1>7. /\ U.entity = V.entity /\ U.next = V.next /\ U.scope = V.scope
      /\ U.head = V.head /\ U.link = V.link /\ U.aborted = V.aborted
      /\ U.env = IF which = "env" THEN SubSeq(T.env, 1, top) ELSE T.env
      /\ U.label = IF which = "env" THEN T.label ELSE SubSeq(T.label, 1, top)
      /\ U = [entity |-> U.entity, next |-> U.next, scope |-> U.scope, head |-> U.head,
              link |-> U.link, env |-> U.env, label |-> U.label, aborted |-> U.aborted]
    <2>1. CASE which = "env"
        BY <2>1, <1>2, <1>5, <1>6 DEF Shape
    <2>2. CASE which = "label"
        BY <2>2, <1>2, <1>5, <1>6 DEF Shape
    <2> QED BY <2>1, <2>2
<1>8. /\ U.env \in Seq(EntryType) /\ DOMAIN U.env \subseteq DOMAIN T.env
      /\ \A i \in DOMAIN U.env : U.env[i] = T.env[i]
      /\ U.label \in Seq(EntryType) /\ DOMAIN U.label \subseteq DOMAIN T.label
      /\ \A i \in DOMAIN U.label : U.label[i] = T.label[i]
    <2>0. T.env \in Seq(EntryType) /\ T.label \in Seq(EntryType)
        BY DEF Table, Shape
    <2>1. CASE which = "env"
        <3>1. top \in 0 .. Len(T.env) /\ U.env = SubSeq(T.env, 1, top) /\ U.label = T.label
            BY <2>1, <1>7 DEF StackOf
        <3> QED BY <3>1, <2>0, PrefixSeq
    <2>2. CASE which = "label"
        <3>1. top \in 0 .. Len(T.label) /\ U.label = SubSeq(T.label, 1, top) /\ U.env = T.env
            BY <2>2, <1>7 DEF StackOf
        <3> QED BY <3>1, <2>0, PrefixSeq
    <2> QED BY <2>1, <2>2
<1>9. Shape(U)
    BY <1>6, <1>7, <1>8 DEF Shape
<1>10. \A x : EntryOK(U, x) <=> EntryOK(T, x)
    BY <1>6, <1>7 DEF EntryOK, Symbol, Space
<1>11. Table(U)
    <2>1. \A i \in DOMAIN T.env : EntryOK(T, T.env[i])
        BY DEF Table
    <2>2. \A i \in DOMAIN T.label : EntryOK(T, T.label[i])
        BY DEF Table
    <2> QED BY <2>1, <2>2, <1>8, <1>9, <1>10 DEF Table
<1>12. Chained(U)
    <2>1. /\ \A x : Symbol(U, x) = Symbol(V, x) /\ Space(U, x) = Space(V, x)
          /\ Len(V.entity) <= Len(U.entity)
        BY <1>6, <1>7 DEF Symbol, Space, Shape
    <2>2. Alike(V, U, {}) /\ Off(V, {})
        BY <2>1, <1>7 DEF Alike, Off
    <2> QED BY <2>2, <1>6, <1>9, AlikeMeans
<1>13. Ended(T, U, f[top], which, top)
    BY <1>5, <1>6, <1>7, <1>11, <1>12 DEF Ended
<1> QED BY <1>3, <1>13 DEF U

\* A table with the same lists means the same.
LEMMA SameLists ==
  ASSUME NEW T, Shape(T), Chained(T), NEW U, Shape(U),
         U.head = T.head, U.link = T.link, U.entity = T.entity
  PROVE  /\ Chained(U)
         /\ \A r \in Symbols, n \in NameSpaces : get_entity(U, r, n) = get_entity(T, r, n)
<1>1. /\ \A x : Symbol(U, x) = Symbol(T, x) /\ Space(U, x) = Space(T, x)
      /\ Len(T.entity) <= Len(U.entity)
    BY DEF Symbol, Space, Shape
<1>2. Alike(T, U, {}) /\ Off(T, {})
    BY <1>1 DEF Alike, Off
<1> QED BY <1>2, AlikeMeans

\* A name that no entry is for means the same when the entries have been put
\* back; the pointer of an entity that is not meant, and that no entry
\* remembers, stays.
LEMMA PopToKeeps ==
  ASSUME NEW T, Table(T), Chained(T), NEW which \in {"env", "label"},
         NEW top \in 0 .. Len(StackOf(T, which))
  PROVE  LET U == stack_pop_to(T, which, top)
             stack == StackOf(T, which)
         IN /\ Table(U) /\ Chained(U)
            /\ U.entity = T.entity /\ U.next = T.next /\ U.scope = T.scope
            /\ U.env = IF which = "env" THEN SubSeq(T.env, 1, top) ELSE T.env
            /\ U.label = IF which = "env" THEN T.label ELSE SubSeq(T.label, 1, top)
            /\ DOMAIN U.link = DOMAIN T.link
            /\ \A r \in Symbols, n \in NameSpaces :
                 (\A i \in top + 1 .. Len(stack) : Name(stack[i]) # << r, n >>)
                   => get_entity(U, r, n) = get_entity(T, r, n)
            /\ \A x \in DOMAIN T.entity :
                 /\ get_entity(T, Symbol(T, x), Space(T, x)) # x
                 /\ \A i \in top + 1 .. Len(stack) : stack[i].old_entity # x
                 => /\ U.link[x] = T.link[x]
                    /\ get_entity(U, Symbol(T, x), Space(T, x)) # x
<1> DEFINE stack == StackOf(T, which)
           n == Len(stack)
           U == stack_pop_to(T, which, top)
<1>1. /\ stack \in Seq(EntryType) /\ \A i \in DOMAIN stack : EntryOK(T, stack[i])
      /\ n \in Nat /\ top \in 0 .. n
    BY StackOfType
<1>2. PICK f : IsUndoing(f, T, stack, top) /\ Ended(T, U, f[top], which, top)
    BY PopToIs
<1> HIDE DEF stack, n, U
<1>3. \A i \in top .. n : Restored(T, f[i])
    BY <1>1, <1>2, UndoingFields DEF n
<1>4. /\ f[n] = T
      /\ \A i \in top .. n : i # n => f[i] = PopOne(f[i + 1], stack[i + 1])
    <2>1. stack \in Seq(EntryType) /\ top \in 0 .. Len(stack) /\ IsUndoing(f, T, stack, top)
        BY <1>1, <1>2 DEF n
    <2>2. /\ f[Len(stack)] = T
          /\ \A i \in top .. Len(stack) :
               i # Len(stack) => f[i] = PopOne(f[i + 1], stack[i + 1])
        BY <2>1 DEF IsUndoing
    <2> QED BY <2>2 DEF n
<1>5. ASSUME NEW i \in top .. n, i # n
      PROVE  /\ Popped(f[i + 1], f[i], stack[i + 1])
             /\ f[i + 1].entity = T.entity
             /\ i + 1 \in top + 1 .. n
    <2>1. i + 1 \in top .. n /\ i + 1 \in DOMAIN stack /\ i + 1 \in top + 1 .. n
        BY <1>1, <1>5 DEF n
    <2>2. Restored(T, f[i + 1])
        BY <2>1, <1>3
    <2>3. PICK V : V = f[i + 1]
        OBVIOUS
    <2>4. PICK entry \in EntryType : entry = stack[i + 1]
        BY <2>1, <1>1
    <2>5. EntryOK(V, entry)
        BY <2>1, <2>2, <2>3, <2>4, <1>1 DEF EntryOK, Restored, Symbol, Space
    <2>6. Table(V) /\ Chained(V)
        BY <2>2, <2>3 DEF Restored
    <2>7. Popped(V, PopOne(V, entry), entry)
        BY <2>5, <2>6, PopMeans
    <2> QED BY <2>1, <2>2, <2>3, <2>4, <2>7, <1>4, <1>5 DEF Restored
<1>6. ASSUME NEW r \in Symbols, NEW m \in NameSpaces,
             \A i \in top + 1 .. n : Name(stack[i]) # << r, m >>
      PROVE  get_entity(f[top], r, m) = get_entity(T, r, m)
    <2> DEFINE S == { i \in top .. n : get_entity(f[i], r, m) = get_entity(T, r, m) }
    <2>1. n \in S
        BY <1>1, <1>4
    <2>2. ASSUME NEW i \in top .. n, i + 1 \in S, i # n PROVE i \in S
        <3>1. Popped(f[i + 1], f[i], stack[i + 1]) /\ Name(stack[i + 1]) # << r, m >>
            BY <2>2, <1>5, <1>6
        <3>2. ~(r = stack[i + 1].symbol /\ m = stack[i + 1].namespc)
            BY <3>1 DEF Name
        <3>3. get_entity(f[i], r, m) = get_entity(f[i + 1], r, m)
            BY <3>1, <3>2 DEF Popped
        <3> QED BY <3>3, <2>2
    <2>3. \A i \in top .. n : i \in S
        <3> HIDE DEF S
        <3> QED BY <2>1, <2>2, <1>1, Downwards
    <2>4. top \in top .. n
        BY <1>1
    <2> QED BY <2>3, <2>4
<1>7. ASSUME NEW x \in DOMAIN T.entity, get_entity(T, Symbol(T, x), Space(T, x)) # x,
             \A i \in top + 1 .. n : stack[i].old_entity # x
      PROVE  /\ f[top].link[x] = T.link[x]
             /\ get_entity(f[top], Symbol(T, x), Space(T, x)) # x
    <2> DEFINE S == { i \in top .. n : /\ f[i].link[x] = T.link[x]
                                       /\ get_entity(f[i], Symbol(T, x), Space(T, x)) # x }
    <2>0. Symbol(T, x) \in Symbols /\ Space(T, x) \in NameSpaces
        BY EntityFacts DEF Table
    <2>1. n \in S
        BY <1>1, <1>4, <1>7
    <2>2. ASSUME NEW i \in top .. n, i + 1 \in S, i # n PROVE i \in S
        <3>1. /\ Popped(f[i + 1], f[i], stack[i + 1]) /\ f[i + 1].entity = T.entity
              /\ stack[i + 1].old_entity # x
            BY <2>2, <1>5, <1>7
        <3>2. Symbol(f[i + 1], x) = Symbol(T, x) /\ Space(f[i + 1], x) = Space(T, x)
            BY <3>1 DEF Symbol, Space
        <3>3. f[i].link[x] = T.link[x]
            BY <3>1, <3>2, <2>2 DEF Popped
        <3>4. get_entity(f[i], Symbol(T, x), Space(T, x)) # x
            BY <3>1, <2>0, <2>2 DEF Popped
        <3> QED BY <3>3, <3>4
    <2>3. \A i \in top .. n : i \in S
        <3> HIDE DEF S
        <3> QED BY <2>1, <2>2, <1>1, Downwards
    <2>4. top \in top .. n
        BY <1>1
    <2> QED BY <2>3, <2>4
<1>8. \A r \in Symbols, m \in NameSpaces : get_entity(U, r, m) = get_entity(f[top], r, m)
    <2>1. PICK V : V = f[top]
        OBVIOUS
    <2>2. Restored(T, V)
        BY <2>1, <1>1, <1>3
    <2>3. Shape(V) /\ Chained(V) /\ Shape(U) /\ U.head = V.head /\ U.link = V.link /\ U.entity = V.entity
        BY <2>1, <2>2, <1>2 DEF Restored, Ended, Table
    <2> QED BY <2>1, <2>3, SameLists
<1>9. \A x \in DOMAIN T.entity : Symbol(T, x) \in Symbols /\ Space(T, x) \in NameSpaces
    BY EntityFacts DEF Table
<1>10. /\ Table(U) /\ Chained(U)
       /\ U.entity = T.entity /\ U.next = T.next /\ U.scope = T.scope
       /\ U.env = IF which = "env" THEN SubSeq(T.env, 1, top) ELSE T.env
       /\ U.label = IF which = "env" THEN T.label ELSE SubSeq(T.label, 1, top)
       /\ DOMAIN U.link = DOMAIN T.link /\ U.link = f[top].link
    BY <1>2 DEF Ended
<1>11. ASSUME NEW r \in Symbols, NEW m \in NameSpaces,
              \A i \in top + 1 .. n : Name(stack[i]) # << r, m >>
       PROVE  get_entity(U, r, m) = get_entity(T, r, m)
    BY <1>6, <1>8, <1>11
<1>12. ASSUME NEW x \in DOMAIN T.entity, get_entity(T, Symbol(T, x), Space(T, x)) # x,
              \A i \in top + 1 .. n : stack[i].old_entity # x
       PROVE  /\ U.link[x] = T.link[x]
              /\ get_entity(U, Symbol(T, x), Space(T, x)) # x
    BY <1>7, <1>8, <1>9, <1>10, <1>12
<1> QED BY <1>10, <1>11, <1>12 DEF U, stack, n

\* Putting back the same entries keeps tables alike.
LEMMA UndoingAlike ==
  ASSUME NEW T, Table(T), Chained(T), NEW stack \in Seq(EntryType),
         \A i \in DOMAIN stack : EntryOK(T, stack[i]),
         NEW top \in 0 .. Len(stack), NEW f, IsUndoing(f, T, stack, top),
         NEW X, Off(T, X), \A i \in top + 1 .. Len(stack) : stack[i].old_entity \notin X,
         NEW g, Alike(T, g[Len(stack)], X),
         \A i \in top .. Len(stack) :
           Table(g[i]) /\ (i # Len(stack) => g[i] = PopOne(g[i + 1], stack[i + 1]))
  PROVE  Alike(f[top], g[top], X) /\ Off(f[top], X)
<1> DEFINE n == Len(stack)
           S == { i \in top .. n : Alike(f[i], g[i], X) /\ Off(f[i], X) }
<1>1. n \in Nat /\ top \in top .. n
    OBVIOUS
<1>2. \A i \in top .. n : Restored(T, f[i])
    BY UndoingFields
<1>3. n \in S
    <2>1. f[n] = T
        BY UndoingStep
    <2> QED BY <2>1
<1>4. ASSUME NEW i \in top .. n, i + 1 \in S, i # n PROVE i \in S
    <2>1. f[i] = PopOne(f[i + 1], stack[i + 1])
        BY <1>4, UndoingStep
    <2>2. g[i] = PopOne(g[i + 1], stack[i + 1])
        BY <1>4
    <2>3. /\ stack[i + 1] \in EntryType /\ EntryOK(T, stack[i + 1])
          /\ stack[i + 1].old_entity \notin X
        <3>1. i + 1 \in DOMAIN stack /\ i + 1 \in top + 1 .. Len(stack)
            BY <1>4
        <3> QED BY <3>1
    <2>4. PICK V : V = f[i + 1]
        OBVIOUS
    <2>5. PICK W : W = g[i + 1]
        OBVIOUS
    <2>6. PICK entry \in EntryType : entry = stack[i + 1]
        BY <2>3
    <2>7. Restored(T, V)
        <3>1. i + 1 \in top .. n
            BY <1>4
        <3> QED BY <3>1, <2>4, <1>2
    <2>8. Table(W)
        <3>1. i + 1 \in top .. Len(stack)
            BY <1>4
        <3> QED BY <3>1, <2>5
    <2>9. EntryOK(V, entry) /\ entry.old_entity \notin X
        BY <2>3, <2>6, <2>7 DEF EntryOK, Restored, Symbol, Space
    <2>10. Table(V) /\ Chained(V) /\ Alike(V, W, X) /\ Off(V, X)
        BY <2>4, <2>5, <2>7, <1>4 DEF Restored
    <2>11. Alike(PopOne(V, entry), PopOne(W, entry), X) /\ Off(PopOne(V, entry), X)
        BY <2>8, <2>9, <2>10, AlikePop
    <2> QED BY <2>1, <2>2, <2>4, <2>5, <2>6, <2>11
<1>5. \A i \in top .. n : i \in S
    <2> HIDE DEF S
    <2> QED BY <1>1, <1>3, <1>4, Downwards
<1> QED BY <1>1, <1>5

LEMMA EndedAlike ==
  ASSUME NEW T, NEW V, NEW W, NEW which, NEW top, Ended(T, V, W, which, top), W.entity = T.entity
  PROVE  /\ \A x : Symbol(V, x) = Symbol(W, x) /\ Space(V, x) = Space(W, x)
         /\ V.head = W.head /\ V.link = W.link /\ V.entity = W.entity
BY DEF Ended, Symbol, Space

LEMMA PopToAlike ==
  ASSUME NEW T, Table(T), Chained(T), NEW U, Table(U), NEW X, Alike(T, U, X), Off(T, X),
         NEW which \in {"env", "label"}, StackOf(U, which) = StackOf(T, which),
         NEW top \in 0 .. Len(StackOf(T, which)),
         \A i \in top + 1 .. Len(StackOf(T, which)) : StackOf(T, which)[i].old_entity \notin X
  PROVE  /\ Alike(stack_pop_to(T, which, top), stack_pop_to(U, which, top), X)
         /\ Off(stack_pop_to(T, which, top), X)
<1> DEFINE stack == StackOf(T, which)
           P == stack_pop_to(T, which, top)
           Q == stack_pop_to(U, which, top)
<1>1. /\ stack \in Seq(EntryType) /\ \A i \in DOMAIN stack : EntryOK(T, stack[i])
      /\ \A i \in DOMAIN stack : EntryOK(U, stack[i])
      /\ top \in 0 .. Len(stack) /\ top \in top .. Len(stack)
    <2>1. \A i \in DOMAIN stack : EntryOK(U, stack[i])
        BY StackOfType
    <2> QED BY <2>1, StackOfType
<1>2. Chained(U)
    BY AlikeMeans DEF Table
<1>3. PICK f : IsUndoing(f, T, stack, top) /\ Ended(T, P, f[top], which, top)
    BY PopToIs
<1>4. PICK g : IsUndoing(g, U, stack, top) /\ Ended(U, Q, g[top], which, top)
    BY <1>2, PopToIs
<1>s. StackOf(U, which) = stack /\ \A i \in top + 1 .. Len(stack) : stack[i].old_entity \notin X
    OBVIOUS
<1> HIDE DEF stack, P, Q
<1>5. \A i \in top .. Len(stack) : Restored(T, f[i])
    BY <1>1, <1>3, UndoingFields
<1>6. \A i \in top .. Len(stack) : Restored(U, g[i])
    BY <1>1, <1>2, <1>4, UndoingFields
<1>7. \A i \in top .. Len(stack) :
        Table(g[i]) /\ (i # Len(stack) => g[i] = PopOne(g[i + 1], stack[i + 1]))
    BY <1>4, <1>6 DEF Restored, IsUndoing
<1>8. Alike(T, g[Len(stack)], X)
    <2>1. g[Len(stack)] = U
        BY <1>1, <1>4 DEF IsUndoing
    <2> QED BY <2>1
<1>9. Alike(f[top], g[top], X) /\ Off(f[top], X)
    BY <1>1, <1>3, <1>7, <1>8, <1>s, UndoingAlike
<1>10. f[top].entity = T.entity /\ g[top].entity = U.entity
    BY <1>1, <1>5, <1>6 DEF Restored
<1>11. PICK V : V = f[top]
    OBVIOUS
<1>12. PICK W : W = g[top]
    OBVIOUS
<1>13. /\ \A x : Symbol(P, x) = Symbol(V, x) /\ Space(P, x) = Space(V, x)
       /\ P.head = V.head /\ P.link = V.link /\ P.entity = V.entity
    BY <1>3, <1>10, <1>11, EndedAlike
<1>14. /\ \A x : Symbol(Q, x) = Symbol(W, x) /\ Space(Q, x) = Space(W, x)
       /\ Q.head = W.head /\ Q.link = W.link /\ Q.entity = W.entity
    BY <1>4, <1>10, <1>12, EndedAlike
<1>15. Alike(P, Q, X)
    BY <1>9, <1>11, <1>12, <1>13, <1>14 DEF Alike
<1>16. Off(P, X)
    <2>1. \A r \in Symbols, m \in NameSpaces : get_entity(P, r, m) = get_entity(V, r, m)
        <3>1. Shape(V) /\ Chained(V) /\ Shape(P)
            BY <1>1, <1>3, <1>5, <1>11 DEF Restored, Ended, Table
        <3> QED BY <3>1, <1>13, SameLists
    <2>2. \A x \in DOMAIN V.entity : Symbol(V, x) \in Symbols /\ Space(V, x) \in NameSpaces
        <3>1. Shape(V)
            BY <1>1, <1>5, <1>11 DEF Restored, Table
        <3> QED BY <3>1, EntityFacts
    <2> QED BY <2>1, <2>2, <1>9, <1>11, <1>13 DEF Off
<1> QED BY <1>15, <1>16 DEF P, Q

LEMMA AlikeTrans ==
  ASSUME NEW T, Shape(T), NEW U, Shape(U), NEW V, Shape(V), NEW X,
         Alike(T, U, X), Alike(U, V, X)
  PROVE  Alike(T, V, X)
<1>1. /\ Len(T.entity) \in Nat /\ DOMAIN T.entity = 1 .. Len(T.entity)
      /\ Len(U.entity) \in Nat /\ DOMAIN U.entity = 1 .. Len(U.entity)
    BY DEF Shape
<1>2. /\ Len(T.entity) <= Len(U.entity) /\ Len(U.entity) <= Len(V.entity)
      /\ V.head = T.head /\ Len(V.entity) \in Nat
    BY DEF Alike, Shape
<1>4. DOMAIN T.entity \subseteq DOMAIN U.entity
    BY <1>1, <1>2
<1> QED BY <1>1, <1>2, <1>4 DEF Alike

\* Opening up to top what has been pushed above top gives the lists that were
\* there without it.
LEMMA PopToPushed ==
  ASSUME NEW T, Table(T), Chained(T), NEW e \in DOMAIN T.entity, Off(T, {e}),
         get_entity(T, Symbol(T, e), Space(T, e)) = Null => T.link[e] = Null,
         NEW top \in 0 .. Len(T.env),
         \A i \in top + 1 .. Len(T.env) : T.env[i].old_entity # e
  PROVE  LET P == stack_pop_to(T, "env", top)
             Q == stack_pop_to(stack_push(T, "env", e), "env", top)
         IN /\ Alike(P, Q, {e}) /\ Off(P, {e})
            /\ get_entity(T, Symbol(T, e), Space(T, e)) = Null => Q.link[e] = Null
<1> DEFINE U == stack_push(T, "env", e)
           P == stack_pop_to(T, "env", top)
           Q == stack_pop_to(U, "env", top)
           old == get_entity(T, Symbol(T, e), Space(T, e))
           n == Len(T.env)
           V == PopOne(U, Entry(T, e))
<1>1. /\ T.env \in Seq(EntryType) /\ \A i \in DOMAIN T.env : EntryOK(T, T.env[i])
      /\ n \in Nat /\ top \in 0 .. n /\ Shape(T)
    BY DEF Table, Shape
<1>2. Table(U) /\ U.env = Append(T.env, Entry(T, e)) /\ U.entity = T.entity
    BY PushFields
<1>3. Chained(U)
    BY PushMeans DEF Pushed
<1>4. U.env \in Seq(EntryType) /\ \A i \in DOMAIN U.env : EntryOK(U, U.env[i])
    BY <1>2 DEF Table, Shape
<1>5. /\ Alike(T, V, {e})
      /\ old = Null => V.link[e] = Null
    BY PushPop
<1>6. /\ Len(U.env) = n + 1 /\ U.env[n + 1] = Entry(T, e)
      /\ \A i \in 1 .. n : U.env[i] = T.env[i]
    BY <1>1, <1>2
<1>7. PICK f : IsUndoing(f, T, T.env, top) /\ Ended(T, P, f[top], "env", top)
    BY <1>1, PopToIs DEF StackOf
<1>8. PICK g : IsUndoing(g, U, U.env, top) /\ Ended(U, Q, g[top], "env", top)
    BY <1>1, <1>2, <1>3, <1>6, PopToIs DEF StackOf
<1>o. \A i \in top + 1 .. n : T.env[i].old_entity # e
    OBVIOUS
<1>e. old = Null => T.link[e] = Null
    OBVIOUS
<1>p. /\ Table(P) /\ P.entity = T.entity
      /\ get_entity(T, Symbol(T, e), Space(T, e)) # e => P.link[e] = T.link[e]
    BY <1>1, PopToKeeps DEF StackOf
<1> HIDE DEF U, P, Q, old, n, V
<1>9. \A i \in top .. n + 1 : Restored(U, g[i])
    <2>1. top \in 0 .. Len(U.env)
        BY <1>1, <1>6
    <2> QED BY <2>1, <1>2, <1>3, <1>4, <1>6, <1>8, UndoingFields
<1>10. \A i \in top .. n : Restored(T, f[i])
    BY <1>1, <1>7, UndoingFields DEF n
<1>11. g[n + 1] = U /\ g[n] = V
    <2>1. g = [i \in top .. n + 1 |-> IF i = n + 1 THEN U ELSE PopOne(g[i + 1], U.env[i + 1])]
        BY <1>8, <1>6 DEF IsUndoing
    <2>2. g[n + 1] = U /\ g[n] = PopOne(g[n + 1], U.env[n + 1])
        BY <2>1, <1>1
    <2> QED BY <2>2, <1>6 DEF V
<1>12. \A i \in top .. n : Table(g[i]) /\ (i # n => g[i] = PopOne(g[i + 1], T.env[i + 1]))
    <2>1. g = [i \in top .. n + 1 |-> IF i = n + 1 THEN U ELSE PopOne(g[i + 1], U.env[i + 1])]
        BY <1>8, <1>6 DEF IsUndoing
    <2>2. ASSUME NEW i \in top .. n
          PROVE  Table(g[i]) /\ (i # n => g[i] = PopOne(g[i + 1], T.env[i + 1]))
        <3>1. i \in top .. n + 1 /\ i # n + 1 /\ (i # n => i + 1 \in 1 .. n)
            BY <1>1
        <3>2. g[i] = PopOne(g[i + 1], U.env[i + 1])
            BY <3>1, <2>1
        <3>3. Table(g[i])
            BY <3>1, <1>9 DEF Restored
        <3> QED BY <3>1, <3>2, <3>3, <1>6
    <2> QED BY <2>2
<1>13. ASSUME NEW X, X \subseteq {e}, Alike(T, V, X)
       PROVE  Alike(P, Q, X) /\ Off(P, X)
    <2>1. /\ Off(T, X) /\ \A i \in top + 1 .. n : T.env[i].old_entity \notin X
        BY <1>13, <1>o DEF Off
    <2>2. Alike(f[top], g[top], X) /\ Off(f[top], X)
        <3>1. Alike(T, g[n], X)
            BY <1>11, <1>13
        <3> QED BY <3>1, <2>1, <1>1, <1>7, <1>12, UndoingAlike DEF n
    <2>3. PICK Y : Y = f[top]
        OBVIOUS
    <2>4. PICK W : W = g[top]
        OBVIOUS
    <2>5. /\ Restored(T, Y) /\ Restored(U, W)
        BY <2>3, <2>4, <1>1, <1>9, <1>10
    <2>6. /\ \A x : Symbol(P, x) = Symbol(Y, x) /\ Space(P, x) = Space(Y, x)
          /\ P.head = Y.head /\ P.link = Y.link /\ P.entity = Y.entity
        BY <2>3, <2>5, <1>7, EndedAlike DEF Restored
    <2>7. /\ \A x : Symbol(Q, x) = Symbol(W, x) /\ Space(Q, x) = Space(W, x)
          /\ Q.head = W.head /\ Q.link = W.link /\ Q.entity = W.entity
        BY <2>4, <2>5, <1>8, EndedAlike DEF Restored
    <2>8. Alike(P, Q, X)
        BY <2>2, <2>3, <2>4, <2>6, <2>7 DEF Alike
    <2>9. Shape(Y) /\ Chained(Y) /\ Shape(P)
        BY <2>5, <1>p DEF Restored, Table
    <2>10. \A r \in Symbols, m \in NameSpaces : get_entity(P, r, m) = get_entity(Y, r, m)
        BY <2>6, <2>9, SameLists
    <2>11. \A x \in DOMAIN Y.entity : Symbol(Y, x) \in Symbols /\ Space(Y, x) \in NameSpaces
        BY <2>9, EntityFacts
    <2>12. Off(P, X)
        BY <2>2, <2>3, <2>6, <2>10, <2>11 DEF Off
    <2> QED BY <2>8, <2>12
<1>14. Alike(P, Q, {e}) /\ Off(P, {e})
    BY <1>5, <1>13
<1>15. ASSUME old = Null PROVE Q.link[e] = Null
    <2>1. V.link[e] = T.link[e]
        BY <1>5, <1>15, <1>e
    <2>2. Alike(T, V, {})
        BY <2>1, <1>5 DEF Alike
    <2>3. Alike(P, Q, {})
        BY <2>2, <1>13
    <2>4. P.link[e] = T.link[e]
        BY <1>p DEF Off
    <2>5. e \in DOMAIN P.entity
        BY <1>p
    <2> QED BY <2>3, <2>4, <2>5, <1>15, <1>e DEF Alike
<1> QED BY <1>14, <1>15 DEF U, P, Q, old

-----------------------------------------------------------------------------
(***************************************************************************)
(* What the steps of the parser do to a table.                             *)
(***************************************************************************)
\* A table of which only fields other than the lists and stacks have changed.
Touched(T, U) ==
  /\ Shape(U)
  /\ U.head = T.head /\ U.link = T.link /\ U.env = T.env /\ U.label = T.label
  /\ Len(U.entity) = Len(T.entity)
  /\ \A x \in DOMAIN T.entity : Symbol(U, x) = Symbol(T, x) /\ Space(U, x) = Space(T, x)

LEMMA TouchedMeans ==
  ASSUME NEW T, Table(T), Chained(T), NEW U, Touched(T, U)
  PROVE  /\ Table(U) /\ Chained(U) /\ Alike(T, U, {}) /\ Off(T, {})
         /\ \A r \in Symbols, n \in NameSpaces : get_entity(U, r, n) = get_entity(T, r, n)
<1>1. Shape(T) /\ Shape(U) /\ DOMAIN T.entity = DOMAIN U.entity
    BY DEF Table, Touched, Shape
<1>2. Alike(T, U, {}) /\ Off(T, {})
    BY <1>1 DEF Touched, Alike, Off, Shape
<1>3. \A x : EntryOK(T, x) => EntryOK(U, x)
    BY <1>1 DEF EntryOK, Touched
<1>4. Table(U)
    BY <1>1, <1>3 DEF Table, Touched
<1> QED BY <1>1, <1>2, <1>4, AlikeMeans

Owners == {"function", "struct", "namespace"}

\* A new entity is on no list, and no entry remembers it.
Allocated(T, U, kind, symbol, parent) ==
  LET e == Fresh(T)
  IN /\ Table(U) /\ Chained(U) /\ Alike(T, U, {}) /\ Off(U, {e})
     /\ Len(U.entity) = Len(T.entity) + 1 /\ e \in DOMAIN U.entity
     /\ \A x \in DOMAIN T.entity : x # e /\ U.entity[x] = T.entity[x] /\ U.next[x] = T.next[x]
     /\ U.entity[e] = [kind |-> kind, symbol |-> symbol, parent_scope |-> parent,
                       own |-> IF kind \in Owners THEN Len(T.scope) + 1 ELSE Null,
                       complete |-> FALSE]
     /\ U.next[e] = Null /\ U.link[e] = Null
     /\ U.scope = IF kind \in Owners THEN Append(T.scope, NewScope) ELSE T.scope
     /\ U.env = T.env /\ U.label = T.label /\ U.aborted = T.aborted
     /\ \A i \in DOMAIN T.env : T.env[i].old_entity # e
     /\ \A i \in DOMAIN T.label : T.label[i].old_entity # e
     /\ \A r \in Symbols, n \in NameSpaces :
          get_entity(U, r, n) = get_entity(T, r, n) /\ get_entity(U, r, n) # e

LEMMA AllocateIs ==
  ASSUME NEW T, Table(T), Chained(T), NEW kind \in Kinds, NEW symbol \in Symbols,
         NEW parent \in Nat
  PROVE  Allocated(T, Allocate(T, kind, symbol, parent), kind, symbol, parent)
<1> DEFINE U == Allocate(T, kind, symbol, parent)
           e == Fresh(T)
           new == [kind |-> kind, symbol |-> symbol, parent_scope |-> parent,
                   own |-> IF kind \in Owners THEN Len(T.scope) + 1 ELSE Null,
                   complete |-> FALSE]
<1>1. /\ Shape(T) /\ T.scope \in Seq(ScopeType) /\ T.entity \in Seq(EntityType)
      /\ T.next \in Seq(Nat) /\ T.link \in Seq(Nat)
      /\ Len(T.next) = Len(T.entity) /\ Len(T.link) = Len(T.entity) /\ Len(T.entity) \in Nat
    BY DEF Table, Shape
<1>2. new \in EntityType
    BY <1>1 DEF EntityType, Null
<1>3. NewScope \in ScopeType
    BY DEF NewScope, ScopeType, Null
<1>4. /\ U.entity = Append(T.entity, new)
      /\ U.next = Append(T.next, Null) /\ U.link = Append(T.link, Null)
      /\ U.scope = IF kind \in Owners THEN Append(T.scope, NewScope) ELSE T.scope
      /\ U.head = T.head /\ U.env = T.env /\ U.label = T.label /\ U.aborted = T.aborted
      /\ U = [entity |-> U.entity, next |-> U.next, scope |-> U.scope, head |-> U.head,
              link |-> U.link, env |-> U.env, label |-> U.label, aborted |-> U.aborted]
    <2> HIDE DEF new
    <2>1. U = [T EXCEPT !.entity = Append(@, new), !.next = Append(@, Null),
                        !.link = Append(@, Null),
                        !.scope = IF kind \in Owners THEN Append(@, NewScope) ELSE @]
        BY DEF Allocate, new, Owners
    <2> HIDE DEF U
    <2> QED BY <2>1, <1>1 DEF Shape
<1> HIDE DEF U, new
<1>5. Shape(U)
    <2>1. U.entity \in Seq(EntityType) /\ Len(U.entity) = Len(T.entity) + 1
        BY <1>1, <1>2, <1>4
    <2>2. /\ U.next \in Seq(Nat) /\ U.link \in Seq(Nat)
          /\ Len(U.next) = Len(T.entity) + 1 /\ Len(U.link) = Len(T.entity) + 1
        BY <1>1, <1>4 DEF Null
    <2>3. U.scope \in Seq(ScopeType)
        BY <1>1, <1>3, <1>4
    <2> QED BY <2>1, <2>2, <2>3, <1>1, <1>4 DEF Shape
<1>6. /\ Len(U.entity) = Len(T.entity) + 1 /\ e \in DOMAIN U.entity /\ U.entity[e] = new
      /\ U.next[e] = Null /\ U.link[e] = Null
      /\ \A x \in DOMAIN T.entity :
           x # e /\ U.entity[x] = T.entity[x] /\ U.next[x] = T.next[x] /\ U.link[x] = T.link[x]
      /\ DOMAIN T.entity \subseteq DOMAIN U.entity /\ e # Null
    <2>1. e = Len(T.entity) + 1 /\ e # Null
        BY <1>1 DEF Fresh, Null
    <2>2. /\ Len(U.entity) = Len(T.entity) + 1 /\ e \in DOMAIN U.entity /\ U.entity[e] = new
          /\ \A x \in DOMAIN T.entity : x # e /\ U.entity[x] = T.entity[x]
          /\ DOMAIN T.entity \subseteq DOMAIN U.entity
        <3>1. T.entity \in Seq(EntityType) /\ U.entity = Append(T.entity, new)
            BY <1>1, <1>4
        <3>2. /\ Len(U.entity) = Len(T.entity) + 1
              /\ U.entity[Len(T.entity) + 1] = new
              /\ \A x \in 1 .. Len(T.entity) : U.entity[x] = T.entity[x]
            BY <3>1, <1>2
        <3>3. DOMAIN T.entity = 1 .. Len(T.entity) /\ DOMAIN U.entity = 1 .. Len(T.entity) + 1
            BY <3>1, <3>2, <1>2
        <3> HIDE DEF e
        <3> QED BY <3>2, <3>3, <2>1
    <2>3. DOMAIN T.next = DOMAIN T.entity /\ DOMAIN T.link = DOMAIN T.entity
        BY <1>1
    <2> HIDE DEF e
    <2>4. U.next[e] = Null /\ \A x \in DOMAIN T.next : U.next[x] = T.next[x]
        <3>1. T.next \in Seq(Nat) /\ U.next = Append(T.next, Null) /\ e = Len(T.next) + 1
            BY <2>1, <1>1, <1>4
        <3> QED BY ONLY <3>1
    <2>5. U.link[e] = Null /\ \A x \in DOMAIN T.link : U.link[x] = T.link[x]
        <3>1. T.link \in Seq(Nat) /\ U.link = Append(T.link, Null) /\ e = Len(T.link) + 1
            BY <2>1, <1>1, <1>4
        <3> QED BY ONLY <3>1
    <2> QED BY <2>1, <2>2, <2>3, <2>4, <2>5
<1>7. \A x \in DOMAIN T.entity : Symbol(U, x) = Symbol(T, x) /\ Space(U, x) = Space(T, x)
    BY <1>6 DEF Symbol, Space
<1>8. Alike(T, U, {}) /\ Off(T, {})
    BY <1>1, <1>4, <1>6, <1>7 DEF Alike, Off
<1>9. \A x : EntryOK(T, x) => EntryOK(U, x) /\ x.old_entity # e
    BY <1>6, <1>7 DEF EntryOK
<1>10. Table(U)
    BY <1>4, <1>5, <1>9 DEF Table
<1>11. /\ Chained(U)
       /\ \A r \in Symbols, n \in NameSpaces : get_entity(U, r, n) = get_entity(T, r, n)
    BY <1>1, <1>5, <1>8, AlikeMeans
<1>12. \A r \in Symbols, n \in NameSpaces : get_entity(T, r, n) # e
    <2>1. ASSUME NEW r \in Symbols, NEW n \in NameSpaces PROVE get_entity(T, r, n) # e
        <3>1. get_entity(T, r, n) # Null => get_entity(T, r, n) \in DOMAIN T.entity
            BY <1>1, MeaningNamed
        <3> QED BY <3>1, <1>6
    <2> QED BY <2>1
<1>13. Off(U, {e})
    <2>1. Symbol(U, e) \in Symbols /\ Space(U, e) \in NameSpaces
        BY <1>5, <1>6, EntityFacts
    <2> QED BY <2>1, <1>11, <1>12 DEF Off
<1> HIDE DEF e
<1>14. /\ \A i \in DOMAIN T.env : T.env[i].old_entity # e
       /\ \A i \in DOMAIN T.label : T.label[i].old_entity # e
    BY <1>9 DEF Table
<1> QED BY <1>4, <1>6, <1>8, <1>10, <1>11, <1>12, <1>13, <1>14 DEF Allocated, U, e, new

\* environment_push()
EnvPushed(T, U, e) ==
  /\ Table(U) /\ Pushed(T, U, e)
  /\ U.entity = T.entity /\ U.next = T.next /\ U.scope = T.scope
  /\ U.env = Append(T.env, Entry(T, e)) /\ U.label = T.label
  /\ U.aborted = (T.aborted \/ T.entity[e].parent_scope = Null)
  /\ Touched(stack_push(T, "env", e), U)

LEMMA EnvironmentPushIs ==
  ASSUME NEW T, Table(T), Chained(T), NEW e \in DOMAIN T.entity,
         get_entity(T, Symbol(T, e), Space(T, e)) = Null => T.link[e] = Null
  PROVE  EnvPushed(T, environment_push(T, e), e)
<1> DEFINE V == stack_push(T, "env", e)
           U == environment_push(T, e)
<1>1. /\ Table(V) /\ V.entity = T.entity /\ V.next = T.next /\ V.scope = T.scope
      /\ V.aborted = T.aborted /\ V.env = Append(T.env, Entry(T, e)) /\ V.label = T.label
    BY PushFields
<1>2. Pushed(T, V, e)
    BY PushMeans
<1>3. U = [V EXCEPT !.aborted = @ \/ T.entity[e].parent_scope = Null]
    BY DEF environment_push
<1> HIDE DEF U, V
<1>4. /\ U.entity = V.entity /\ U.next = V.next /\ U.scope = V.scope /\ U.head = V.head
      /\ U.link = V.link /\ U.env = V.env /\ U.label = V.label
      /\ U.aborted = (V.aborted \/ T.entity[e].parent_scope = Null)
      /\ U = [entity |-> U.entity, next |-> U.next, scope |-> U.scope, head |-> U.head,
              link |-> U.link, env |-> U.env, label |-> U.label, aborted |-> U.aborted]
    BY <1>1, <1>3 DEF Table, Shape
<1>5. Shape(U)
    <2>1. U.aborted \in BOOLEAN
        BY <1>1, <1>4 DEF Table, Shape
    <2> QED BY <2>1, <1>1, <1>4 DEF Table, Shape
<1>6. Touched(V, U)
    BY <1>4, <1>5 DEF Touched, Symbol, Space
<1>7. /\ Table(U) /\ Chained(U)
      /\ \A r \in Symbols, n \in NameSpaces : get_entity(U, r, n) = get_entity(V, r, n)
    BY <1>1, <1>2, <1>6, TouchedMeans DEF Pushed
<1>8. Pushed(T, U, e)
    <2>1. Shape(T)
        BY DEF Table
    <2>2. ASSUME NEW r \in Symbols, NEW n \in NameSpaces
          PROVE  get_entity(U, r, n) = IF r = Symbol(T, e) /\ n = Space(T, e) THEN e
                                       ELSE get_entity(T, r, n)
        BY <1>2, <1>7 DEF Pushed
    <2> QED BY <2>2, <1>2, <1>4, <1>7 DEF Pushed
<1> QED BY <1>1, <1>4, <1>6, <1>7, <1>8 DEF EnvPushed, U, V

\* append_entity()
Appended(T, U, s, e) ==
  LET last == T.scope[s].last_entity
  IN /\ Touched(T, U) /\ U.entity = T.entity /\ U.aborted = T.aborted
     /\ DOMAIN U.scope = DOMAIN T.scope
     /\ \A x \in DOMAIN T.scope :
          U.scope[x] = IF x = s
                       THEN [entities    |-> IF last = Null THEN e ELSE T.scope[s].entities,
                             last_entity |-> e,
                             depth       |-> T.scope[s].depth]
                       ELSE T.scope[x]
     /\ \A x \in DOMAIN T.next : U.next[x] = IF x = last THEN e ELSE T.next[x]

LEMMA AppendEntityIs ==
  ASSUME NEW T, Shape(T), NEW s \in DOMAIN T.scope, NEW e \in Nat
  PROVE  Appended(T, append_entity(T, s, e), s, e)
<1> DEFINE U == append_entity(T, s, e)
           last == T.scope[s].last_entity
           V == IF last = Null THEN [T EXCEPT !.scope[s].entities = e] ELSE [T EXCEPT !.next[last] = e]
<1>1. U = [V EXCEPT !.scope[s].last_entity = e]
    BY DEF append_entity
<1>2. /\ T.scope \in Seq(ScopeType) /\ T.scope[s] \in ScopeType /\ T.next \in Seq(Nat)
      /\ T.scope \in [1 .. Len(T.scope) -> ScopeType] /\ s \in 1 .. Len(T.scope)
      /\ Len(T.scope) \in Nat
    BY DEF Shape
<1>3. T.scope[s] = [entities |-> T.scope[s].entities, last_entity |-> last,
                    depth |-> T.scope[s].depth]
      /\ T.scope[s].entities \in Nat /\ last \in Nat /\ T.scope[s].depth \in Nat
    BY <1>2 DEF ScopeType
<1> HIDE DEF U, V
<1>4. /\ U.entity = T.entity /\ U.head = T.head /\ U.link = T.link /\ U.env = T.env
      /\ U.label = T.label /\ U.aborted = T.aborted
      /\ U.next = IF last = Null THEN T.next ELSE [T.next EXCEPT ![last] = e]
      /\ U.scope = IF last = Null
                   THEN [T.scope EXCEPT ![s] = [@ EXCEPT !.entities = e, !.last_entity = e]]
                   ELSE [T.scope EXCEPT ![s] = [@ EXCEPT !.last_entity = e]]
      /\ U = [entity |-> U.entity, next |-> U.next, scope |-> U.scope, head |-> U.head,
              link |-> U.link, env |-> U.env, label |-> U.label, aborted |-> U.aborted]
    <2> HIDE DEF last
    <2>1. CASE last = Null
        <3>1. V = [T EXCEPT !.scope[s].entities = e]
            BY <2>1 DEF V, last
        <3> QED BY <2>1, <3>1, <1>1, <1>2 DEF Shape
    <2>2. CASE last # Null
        <3>1. V = [T EXCEPT !.next[last] = e]
            BY <2>2 DEF V, last
        <3> QED BY <2>2, <3>1, <1>1, <1>2 DEF Shape
    <2> QED BY <2>1, <2>2
<1>5. U.next \in Seq(Nat) /\ DOMAIN U.next = DOMAIN T.next
    <2>1. /\ [T.next EXCEPT ![last] = e] \in Seq(Nat)
          /\ DOMAIN [T.next EXCEPT ![last] = e] = DOMAIN T.next
        BY <1>2, SeqExcept
    <2> QED BY <2>1, <1>2, <1>4
<1> DEFINE new == [entities |-> IF last = Null THEN e ELSE T.scope[s].entities,
                   last_entity |-> e, depth |-> T.scope[s].depth]
<1>6. U.scope = [T.scope EXCEPT ![s] = new]
    <2>1. CASE last = Null
        BY <2>1, <1>2, <1>3, <1>4
    <2>2. CASE last # Null
        BY <2>2, <1>2, <1>3, <1>4
    <2> QED BY <2>1, <2>2
<1>7. new \in ScopeType
    BY <1>3 DEF ScopeType
<1> HIDE DEF new
<1>8. /\ U.scope \in Seq(ScopeType) /\ DOMAIN U.scope = DOMAIN T.scope
      /\ \A x \in DOMAIN T.scope : U.scope[x] = IF x = s THEN new ELSE T.scope[x]
    <2>1. U.scope \in [1 .. Len(T.scope) -> ScopeType]
        BY <1>2, <1>6, <1>7
    <2>2. U.scope \in Seq(ScopeType)
        <3>1. PICK n \in Nat : n = Len(T.scope)
            BY <1>2
        <3>2. PICK q : q = U.scope
            OBVIOUS
        <3>3. q \in [1 .. n -> ScopeType]
            BY <2>1, <3>1, <3>2
        <3>4. q \in Seq(ScopeType)
            BY ONLY <3>3, n \in Nat
        <3> QED BY <3>2, <3>4
    <2> QED BY <2>2, <1>2, <1>6
<1>9. Shape(U)
    <2>1. Len(U.next) = Len(T.next)
        BY <1>2, <1>5
    <2> QED BY <2>1, <1>4, <1>5, <1>8 DEF Shape
<1>10. Touched(T, U)
    BY <1>4, <1>9 DEF Touched, Symbol, Space
<1>11. \A x \in DOMAIN T.next : U.next[x] = IF x = last THEN e ELSE T.next[x]
    <2>1. \A x \in DOMAIN T.next : x # Null
        BY <1>2 DEF Null
    <2>2. CASE last = Null
        BY <2>1, <2>2, <1>4
    <2>3. CASE last # Null
        BY <2>3, <1>4
    <2> QED BY <2>2, <2>3
<1> QED BY <1>4, <1>8, <1>10, <1>11 DEF Appended, U, new

LEMMA SeqExceptIn ==
  ASSUME NEW S, NEW q \in Seq(S), NEW v \in S, NEW i
  PROVE  /\ [q EXCEPT ![i] = v] \in Seq(S) /\ Len([q EXCEPT ![i] = v]) = Len(q)
         /\ DOMAIN [q EXCEPT ![i] = v] = DOMAIN q
         /\ \A x \in DOMAIN q : [q EXCEPT ![i] = v][x] = IF x = i THEN v ELSE q[x]
<1>1. q \in [1 .. Len(q) -> S] /\ Len(q) \in Nat
    OBVIOUS
<1>2. [q EXCEPT ![i] = v] \in [1 .. Len(q) -> S]
    BY <1>1
<1>3. [q EXCEPT ![i] = v] \in Seq(S) /\ Len([q EXCEPT ![i] = v]) = Len(q)
    <2>1. PICK n \in Nat : n = Len(q)
        BY <1>1
    <2>2. PICK p : p = [q EXCEPT ![i] = v]
        OBVIOUS
    <2>3. p \in [1 .. n -> S]
        BY <1>2, <2>1, <2>2
    <2>4. p \in Seq(S) /\ Len(p) = n
        BY ONLY <2>3, n \in Nat
    <2> QED BY <2>1, <2>2, <2>4
<1>4. /\ DOMAIN [q EXCEPT ![i] = v] = DOMAIN q
      /\ \A x \in DOMAIN q : [q EXCEPT ![i] = v][x] = IF x = i THEN v ELSE q[x]
    OBVIOUS
<1> QED BY <1>3, <1>4

\* An entity changes, but for its kind and symbol.
EntitySet(T, U, x, parent, complete, aborted) ==
  /\ Touched(T, U)
  /\ U.next = T.next /\ U.scope = T.scope /\ U.aborted = aborted
  /\ DOMAIN U.entity = DOMAIN T.entity
  /\ \A y \in DOMAIN T.entity :
       U.entity[y] = IF y = x
                     THEN [kind |-> T.entity[x].kind, symbol |-> T.entity[x].symbol,
                           parent_scope |-> parent, own |-> T.entity[x].own,
                           complete |-> complete]
                     ELSE T.entity[y]

Put(T, U, x, new, aborted) ==
  U = [T EXCEPT !.entity = [T.entity EXCEPT ![x] = new], !.aborted = aborted]

LEMMA EntitySetIs ==
  ASSUME NEW T, Shape(T), NEW x, NEW parent \in Nat, NEW complete \in BOOLEAN,
         NEW aborted \in BOOLEAN, NEW new,
         x \in DOMAIN T.entity =>
           new = [kind |-> T.entity[x].kind, symbol |-> T.entity[x].symbol,
                  parent_scope |-> parent, own |-> T.entity[x].own, complete |-> complete],
         NEW U, Put(T, U, x, new, aborted)
  PROVE  EntitySet(T, U, x, parent, complete, aborted)
<1>1. /\ U.entity = [T.entity EXCEPT ![x] = new] /\ U.next = T.next /\ U.scope = T.scope
      /\ U.head = T.head /\ U.link = T.link /\ U.env = T.env /\ U.label = T.label
      /\ U.aborted = aborted
      /\ U = [entity |-> U.entity, next |-> U.next, scope |-> U.scope, head |-> U.head,
              link |-> U.link, env |-> U.env, label |-> U.label, aborted |-> U.aborted]
    BY DEF Put, Shape
<1>2. T.entity \in Seq(EntityType)
    BY DEF Shape
<1>3. x \in DOMAIN T.entity => new \in EntityType
    <2>1. x \in DOMAIN T.entity => T.entity[x] \in EntityType
        BY <1>2
    <2> QED BY <2>1 DEF EntityType
<1>4. /\ U.entity \in Seq(EntityType) /\ Len(U.entity) = Len(T.entity)
      /\ DOMAIN U.entity = DOMAIN T.entity
      /\ \A y \in DOMAIN T.entity : U.entity[y] = IF y = x THEN new ELSE T.entity[y]
    <2>1. CASE x \in DOMAIN T.entity
        <3>1. new \in EntityType
            BY <2>1, <1>3
        <3>2. /\ [T.entity EXCEPT ![x] = new] \in Seq(EntityType)
              /\ Len([T.entity EXCEPT ![x] = new]) = Len(T.entity)
              /\ DOMAIN [T.entity EXCEPT ![x] = new] = DOMAIN T.entity
              /\ \A y \in DOMAIN T.entity :
                   [T.entity EXCEPT ![x] = new][y] = IF y = x THEN new ELSE T.entity[y]
            BY ONLY <3>1, <1>2, SeqExceptIn
        <3>3. PICK q : q = [T.entity EXCEPT ![x] = new]
            OBVIOUS
        <3>4. U.entity = q
            BY <3>3, <1>1
        <3>5. /\ q \in Seq(EntityType) /\ Len(q) = Len(T.entity) /\ DOMAIN q = DOMAIN T.entity
              /\ \A y \in DOMAIN T.entity : q[y] = IF y = x THEN new ELSE T.entity[y]
            BY ONLY <3>2, <3>3
        <3> QED BY ONLY <3>4, <3>5
    <2>2. CASE x \notin DOMAIN T.entity
        <3>1. U.entity = T.entity
            BY <2>2, <1>1, <1>2
        <3> QED BY <3>1, <2>2, <1>2
    <2> QED BY <2>1, <2>2
<1>5. Shape(U)
    BY <1>1, <1>4 DEF Shape
<1>6. \A y \in DOMAIN T.entity : Symbol(U, y) = Symbol(T, y) /\ Space(U, y) = Space(T, y)
    BY <1>4 DEF Symbol, Space
<1>7. Touched(T, U)
    BY <1>1, <1>4, <1>5, <1>6 DEF Touched
<1> QED BY <1>1, <1>4, <1>7 DEF EntitySet

\* Enlist()
Enlisted(T, U, e, s) ==
  /\ Table(U) /\ Pushed(T, U, e)
  /\ U.entity = T.entity /\ U.env = Append(T.env, Entry(T, e)) /\ U.label = T.label
  /\ U.aborted = (T.aborted \/ T.entity[e].parent_scope = Null)
  /\ Touched(stack_push(T, "env", e), U)
  /\ DOMAIN U.scope = DOMAIN T.scope
  /\ \A x \in DOMAIN T.scope :
       U.scope[x] = IF x = s
                    THEN [entities    |-> IF T.scope[s].last_entity = Null THEN e
                                          ELSE T.scope[s].entities,
                          last_entity |-> e,
                          depth       |-> T.scope[s].depth]
                    ELSE T.scope[x]
  /\ \A x \in DOMAIN T.next : U.next[x] = IF x = T.scope[s].last_entity THEN e ELSE T.next[x]

LEMMA EnlistIs ==
  ASSUME NEW T, Table(T), Chained(T), NEW e \in DOMAIN T.entity, NEW s \in DOMAIN T.scope,
         get_entity(T, Symbol(T, e), Space(T, e)) = Null => T.link[e] = Null
  PROVE  Enlisted(T, Enlist(T, e, s), e, s)
<1> DEFINE V == environment_push(T, e)
           U == Enlist(T, e, s)
<1>1. EnvPushed(T, V, e)
    BY EnvironmentPushIs
<1>2. U = append_entity(V, s, e) /\ e \in Nat
    BY EntityFacts DEF Enlist, Table
<1> HIDE DEF U, V
<1>3. Table(V) /\ Shape(V) /\ s \in DOMAIN V.scope /\ V.scope = T.scope /\ V.next = T.next
    BY <1>1 DEF EnvPushed, Table
<1>4. Appended(V, U, s, e)
    BY <1>2, <1>3, AppendEntityIs
<1>5. Chained(V)
    BY <1>1 DEF EnvPushed, Pushed
<1>6. Touched(V, U) /\ U.entity = V.entity /\ U.aborted = V.aborted
    BY <1>4 DEF Appended
<1>7. /\ Table(U) /\ Chained(U)
      /\ \A r \in Symbols, n \in NameSpaces : get_entity(U, r, n) = get_entity(V, r, n)
    BY <1>3, <1>5, <1>6, TouchedMeans
<1>8. Pushed(T, U, e)
    <2>1. ASSUME NEW r \in Symbols, NEW n \in NameSpaces
          PROVE  get_entity(U, r, n) = IF r = Symbol(T, e) /\ n = Space(T, e) THEN e
                                       ELSE get_entity(T, r, n)
        BY <1>1, <1>7 DEF EnvPushed, Pushed
    <2> QED BY <2>1, <1>1, <1>6, <1>7 DEF EnvPushed, Pushed, Touched
<1>9. Touched(stack_push(T, "env", e), U)
    <2>1. Touched(stack_push(T, "env", e), V)
        BY <1>1 DEF EnvPushed
    <2>2. DOMAIN V.entity = DOMAIN stack_push(T, "env", e).entity
        BY <1>1, PushFields DEF EnvPushed
    <2> QED BY <2>1, <2>2, <1>6 DEF Touched
<1>10. U.env = V.env /\ U.label = V.label
    BY <1>6 DEF Touched
<1>11. /\ DOMAIN U.scope = DOMAIN T.scope
       /\ \A x \in DOMAIN T.scope :
            U.scope[x] = IF x = s
                         THEN [entities    |-> IF T.scope[s].last_entity = Null THEN e
                                               ELSE T.scope[s].entities,
                               last_entity |-> e,
                               depth       |-> T.scope[s].depth]
                         ELSE T.scope[x]
       /\ \A x \in DOMAIN T.next : U.next[x] = IF x = T.scope[s].last_entity THEN e ELSE T.next[x]
    BY <1>3, <1>4 DEF Appended
<1> QED BY <1>1, <1>6, <1>7, <1>8, <1>9, <1>10, <1>11 DEF Enlisted, EnvPushed, U

\* record_entity(): the declaration is merged with the previous one, or
\* recorded.
Merged(T, U, p) ==
  EntitySet(T, U, p, T.entity[p].parent_scope,
            T.entity[p].complete \/ T.entity[p].kind = "parameter", T.aborted)

Mark(T, V, s, e) ==
  LET p == get_entity(T, T.entity[e].symbol, "normal")
  IN EntitySet(T, V, e, s, T.entity[e].complete,
               T.aborted \/ T.entity[e].parent_scope # Null
                         \/ (RedeclaresParameter(T, s, p) /\ T.entity[p].kind # "parameter"))

LEMMA RecordEntityIs ==
  ASSUME NEW T, Table(T), Chained(T), NEW e \in DOMAIN T.entity, NEW s \in DOMAIN T.scope,
         get_entity(T, Symbol(T, e), Space(T, e)) = Null => T.link[e] = Null
  PROVE  LET U == record_entity(T, s, e)
             p == get_entity(T, T.entity[e].symbol, "normal")
         IN IF Merges(T, s, e, p) THEN Merged(T, U, p)
            ELSE \E V : /\ Mark(T, V, s, e) /\ Enlisted(V, U, e, s)
                        /\ Table(V) /\ Chained(V)
<1> DEFINE U == record_entity(T, s, e)
           p == get_entity(T, T.entity[e].symbol, "normal")
           x == T.entity[p]
<1>1. Shape(T) /\ T.entity \in Seq(EntityType)
    BY DEF Table, Shape
<1>2. CASE Merges(T, s, e, p)
    <2>1. U = [T EXCEPT !.entity[p].complete = @ \/ T.entity[p].kind = "parameter"]
        BY <1>2 DEF record_entity
    <2>2. p \in DOMAIN T.entity /\ x \in EntityType
        <3>1. p # Null
            BY <1>2 DEF Merges
        <3>2. T.entity[e].symbol \in Symbols
            BY <1>1, EntityFacts DEF Symbol
        <3>3. p \in DOMAIN T.entity
            BY <3>1, <3>2, <1>1, MeaningNamed
        <3> QED BY <3>3, <1>1
    <2> DEFINE parent == x.parent_scope
               complete == x.complete \/ x.kind = "parameter"
               aborted == T.aborted
               new == [kind |-> x.kind, symbol |-> x.symbol, parent_scope |-> parent,
                       own |-> x.own, complete |-> complete]
    <2>3. parent \in Nat /\ complete \in BOOLEAN /\ aborted \in BOOLEAN
        BY <2>2, <1>1 DEF EntityType, Shape
    <2>4. new = [x EXCEPT !.complete = complete]
        BY <2>2 DEF EntityType
    <2> HIDE DEF U, p
    <2>5. Put(T, U, p, new, aborted)
        <3> HIDE DEF new
        <3>1. U.entity = [T.entity EXCEPT ![p] = new]
            BY <2>1, <2>2, <2>4, <1>1 DEF Shape
        <3> QED BY <3>1, <2>1, <1>1 DEF Shape, Put
    <2>6. EntitySet(T, U, p, parent, complete, aborted)
        <3>1. p \in DOMAIN T.entity =>
                new = [kind |-> T.entity[p].kind, symbol |-> T.entity[p].symbol,
                       parent_scope |-> parent, own |-> T.entity[p].own, complete |-> complete]
            OBVIOUS
        <3> HIDE DEF new, parent, complete, aborted
        <3> QED BY <3>1, <2>3, <2>5, <1>1, EntitySetIs
    <2>7. Merged(T, U, p)
        BY <2>6 DEF Merged
    <2> QED BY <2>7, <1>2 DEF U, p
<1>3. CASE ~Merges(T, s, e, p)
    <2> DEFINE a == RedeclaresParameter(T, s, p) /\ T.entity[p].kind # "parameter"
               y == T.entity[e]
               aborted == T.aborted \/ y.parent_scope # Null \/ a
               V == [T EXCEPT !.entity[e].parent_scope = s, !.aborted = aborted]
    <2>1. U = Enlist(V, e, s)
        BY <1>3 DEF record_entity
    <2>2. y \in EntityType /\ s \in Nat /\ aborted \in BOOLEAN
        <3>1. y \in EntityType /\ s \in Nat
            BY <1>1 DEF Shape
        <3>2. a \in BOOLEAN /\ (y.parent_scope # Null) \in BOOLEAN /\ T.aborted \in BOOLEAN
            BY <1>1 DEF Shape
        <3> HIDE DEF a
        <3> QED BY <3>1, <3>2
    <2> HIDE DEF U, p, a, aborted
    <2> DEFINE complete == y.complete
               new == [kind |-> y.kind, symbol |-> y.symbol, parent_scope |-> s,
                       own |-> y.own, complete |-> complete]
    <2>3. new = [y EXCEPT !.parent_scope = s] /\ complete \in BOOLEAN
        BY <2>2 DEF EntityType
    <2>4. Put(T, V, e, new, aborted)
        <3> HIDE DEF new
        <3>1. V.entity = [T.entity EXCEPT ![e] = new]
            BY <2>3, <1>1 DEF Shape
        <3> QED BY <3>1, <1>1 DEF Shape, Put
    <2>5. EntitySet(T, V, e, s, complete, aborted)
        <3>1. e \in DOMAIN T.entity =>
                new = [kind |-> T.entity[e].kind, symbol |-> T.entity[e].symbol,
                       parent_scope |-> s, own |-> T.entity[e].own, complete |-> complete]
            OBVIOUS
        <3>2. s \in Nat /\ complete \in BOOLEAN /\ aborted \in BOOLEAN
            BY <2>2, <2>3
        <3>3. Put(T, V, e, new, aborted)
            BY <2>4
        <3> HIDE DEF new, complete, V, y
        <3> QED BY <3>1, <3>2, <3>3, <1>1, EntitySetIs
    <2> HIDE DEF V
    <2>6. Mark(T, V, s, e)
        BY <2>5 DEF Mark, p, a, aborted
    <2>7. Touched(T, V) /\ V.scope = T.scope /\ DOMAIN V.entity = DOMAIN T.entity
        BY <2>5 DEF EntitySet
    <2>8. /\ Table(V) /\ Chained(V)
          /\ \A r \in Symbols, n \in NameSpaces : get_entity(V, r, n) = get_entity(T, r, n)
        BY <2>7, TouchedMeans
    <2>9. get_entity(V, Symbol(V, e), Space(V, e)) = Null => V.link[e] = Null
        <3>1. Symbol(V, e) = Symbol(T, e) /\ Space(V, e) = Space(T, e) /\ V.link = T.link
            BY <2>7 DEF Touched
        <3>2. Symbol(T, e) \in Symbols /\ Space(T, e) \in NameSpaces
            BY <1>1, EntityFacts
        <3> QED BY <3>1, <3>2, <2>8
    <2>10. Enlisted(V, U, e, s)
        <3>1. Enlisted(V, Enlist(V, e, s), e, s)
            BY <2>7, <2>8, <2>9, EnlistIs
        <3> QED BY <3>1, <2>1
    <2> QED BY <2>6, <2>8, <2>10, <1>3 DEF U, p
<1> QED BY <1>2, <1>3

-----------------------------------------------------------------------------
(***************************************************************************)
(* The parameters become visible.                                          *)
(***************************************************************************)
\* Each element of the list from i on that is the first of its name there, and
\* whose name means nothing, can be put at the end of a list.
Ready(T, L, i) ==
  \A k \in DOMAIN L :
    /\ k > i /\ get_entity(T, Symbol(T, L[k]), Space(T, L[k])) = Null
    /\ \A j \in DOMAIN L :
         i < j /\ j < k => << Symbol(T, L[j]), Space(T, L[j]) >> # << Symbol(T, L[k]), Space(T, L[k]) >>
    => T.link[L[k]] = Null

IsPushing(w, T, L, own, declared) ==
  w = [i \in 0 .. Len(L) |-> IF i = 0 THEN T ELSE PushParameter(w[i - 1], L[i], own, declared)]

LEMMA PushingExists ==
  ASSUME NEW T, NEW L, Len(L) \in Nat, NEW own, NEW declared
  PROVE  \E w : IsPushing(w, T, L, own, declared)
<1> DEFINE n == Len(L)
           Is(w, m) == w = [i \in 0 .. m |-> IF i = 0 THEN T ELSE PushParameter(w[i - 1], L[i], own, declared)]
           S == { m \in Nat : \E w : Is(w, m) }
<1>1. 0 \in S
    <2>1. Is([i \in 0 .. 0 |-> T], 0)
        OBVIOUS
    <2> QED BY <2>1
<1>2. ASSUME NEW m \in Nat, m \in S PROVE m + 1 \in S
    <2>1. PICK w : Is(w, m)
        BY <1>2
    <2> DEFINE g == [i \in 0 .. m + 1 |-> IF i = m + 1 THEN PushParameter(w[m], L[m + 1], own, declared)
                                          ELSE w[i]]
    <2>2. ASSUME NEW i \in 0 .. m + 1
          PROVE  g[i] = IF i = 0 THEN T ELSE PushParameter(g[i - 1], L[i], own, declared)
        <3>1. CASE i = m + 1
            <4>1. i # 0 /\ i - 1 = m /\ m \in 0 .. m + 1 /\ m # m + 1
                BY <3>1
            <4>2. g[m] = w[m] /\ g[i] = PushParameter(w[m], L[m + 1], own, declared)
                BY <4>1, <3>1
            <4> HIDE DEF g
            <4> QED BY <4>1, <4>2, <3>1
        <3>2. CASE i # m + 1
            <4>1. i \in 0 .. m /\ (i # 0 => i - 1 \in 0 .. m + 1 /\ i - 1 # m + 1)
                BY <3>2
            <4>2. w[i] = IF i = 0 THEN T ELSE PushParameter(w[i - 1], L[i], own, declared)
                BY <4>1, <2>1
            <4>3. g[i] = w[i] /\ (i # 0 => g[i - 1] = w[i - 1])
                BY <4>1, <3>2
            <4> HIDE DEF g
            <4> QED BY <4>2, <4>3
        <3> QED BY <3>1, <3>2
    <2>3. g = [i \in 0 .. m + 1 |-> g[i]]
        OBVIOUS
    <2> HIDE DEF g
    <2>4. Is(g, m + 1)
        BY <2>2, <2>3
    <2> QED BY <2>4
<1>3. n \in S
    <2> HIDE DEF S
    <2> QED BY <1>1, <1>2, Induction
<1> QED BY <1>3 DEF IsPushing

\* What holds of 0 and is kept by every step up to n holds of all of 0 .. n.
LEMMA Upwards ==
  ASSUME NEW n \in Nat, NEW S, 0 \in S, \A i \in 0 .. n : i \in S /\ i # n => i + 1 \in S
  PROVE  \A i \in 0 .. n : i \in S
<1> DEFINE M == { m \in Nat : m <= n => m \in S }
<1>1. 0 \in M
    OBVIOUS
<1>2. ASSUME NEW m \in Nat, m \in M PROVE m + 1 \in M
    BY <1>2
<1>3. \A m \in Nat : m \in M
    <2> HIDE DEF M
    <2> QED BY <1>1, <1>2, Induction
<1> QED BY <1>3

\* PushParameter()
ParameterPushed(T, U, p, own, declared) ==
  \E V : /\ EntitySet(T, V, p, own, T.entity[p].complete,
                      T.aborted \/ T.entity[p].parent_scope \notin {Null, declared, own})
         /\ Table(V) /\ Chained(V)
         /\ EnvPushed(V, U, p)

LEMMA PushParameterIs ==
  ASSUME NEW T, Table(T), Chained(T), NEW p \in DOMAIN T.entity, NEW own \in Nat, NEW declared,
         get_entity(T, Symbol(T, p), Space(T, p)) = Null => T.link[p] = Null
  PROVE  ParameterPushed(T, PushParameter(T, p, own, declared), p, own, declared)
<1> DEFINE y == T.entity[p]
           a == y.parent_scope \notin {Null, declared, own}
           aborted == T.aborted \/ a
           V == [T EXCEPT !.entity[p].parent_scope = own, !.aborted = aborted]
           complete == y.complete
           new == [kind |-> y.kind, symbol |-> y.symbol, parent_scope |-> own,
                   own |-> y.own, complete |-> complete]
<1>1. Shape(T) /\ T.entity \in Seq(EntityType) /\ y \in EntityType
    BY DEF Table, Shape
<1>2. PushParameter(T, p, own, declared) = environment_push(V, p)
    BY DEF PushParameter
<1>3. complete \in BOOLEAN /\ aborted \in BOOLEAN /\ new = [y EXCEPT !.parent_scope = own]
    <2>1. a \in BOOLEAN /\ T.aborted \in BOOLEAN
        BY <1>1 DEF Shape
    <2> HIDE DEF a
    <2> QED BY <2>1, <1>1 DEF EntityType
<1> HIDE DEF a, aborted
<1>4. Put(T, V, p, new, aborted)
    <2> HIDE DEF new
    <2>1. V.entity = [T.entity EXCEPT ![p] = new]
        BY <1>3, <1>1 DEF Shape
    <2> QED BY <2>1, <1>1 DEF Shape, Put
<1>5. EntitySet(T, V, p, own, complete, aborted)
    <2>1. p \in DOMAIN T.entity =>
            new = [kind |-> T.entity[p].kind, symbol |-> T.entity[p].symbol,
                   parent_scope |-> own, own |-> T.entity[p].own, complete |-> complete]
        OBVIOUS
    <2>2. Put(T, V, p, new, aborted) /\ complete \in BOOLEAN /\ aborted \in BOOLEAN
        BY <1>3, <1>4
    <2> HIDE DEF new, complete, V, y
    <2> QED BY <2>1, <2>2, <1>1, EntitySetIs
<1> HIDE DEF V
<1>6. Touched(T, V) /\ DOMAIN V.entity = DOMAIN T.entity
    BY <1>5 DEF EntitySet
<1>7. /\ Table(V) /\ Chained(V)
      /\ \A r \in Symbols, n \in NameSpaces : get_entity(V, r, n) = get_entity(T, r, n)
    BY <1>6, TouchedMeans
<1>8. get_entity(V, Symbol(V, p), Space(V, p)) = Null => V.link[p] = Null
    <2>1. Symbol(V, p) = Symbol(T, p) /\ Space(V, p) = Space(T, p) /\ V.link = T.link
        BY <1>6 DEF Touched
    <2>2. Symbol(T, p) \in Symbols /\ Space(T, p) \in NameSpaces
        BY <1>1, EntityFacts
    <2> QED BY <2>1, <2>2, <1>7
<1>9. EnvPushed(V, environment_push(V, p), p)
    BY <1>6, <1>7, <1>8, EnvironmentPushIs
<1> QED BY <1>2, <1>5, <1>7, <1>9 DEF ParameterPushed, aborted, a

\* A name that means something when a parameter has been pushed is the
\* parameter's or meant something before, and those still to come stay ready.
LEMMA PushedReady ==
  ASSUME NEW T, Table(T), Chained(T), NEW L \in Seq(DOMAIN T.entity),
         NEW i \in 0 .. Len(L) - 1, Ready(T, L, i),
         NEW own \in Nat, NEW declared,
         NEW U, ParameterPushed(T, U, L[i + 1], own, declared)
  PROVE  Ready(U, L, i + 1)
<1> DEFINE p == L[i + 1]
<1>1. i + 1 \in DOMAIN L /\ p \in DOMAIN T.entity /\ Shape(T) /\ Len(L) \in Nat
    BY DEF Table
<1>2. PICK V : /\ EntitySet(T, V, p, own, T.entity[p].complete,
                            T.aborted \/ T.entity[p].parent_scope \notin {Null, declared, own})
               /\ EnvPushed(V, U, p)
    BY DEF ParameterPushed
<1> HIDE DEF p
<1>3. Touched(T, V) /\ DOMAIN V.entity = DOMAIN T.entity
    BY <1>2 DEF EntitySet
<1>4. \A r \in Symbols, n \in NameSpaces : get_entity(V, r, n) = get_entity(T, r, n)
    BY <1>3, TouchedMeans
<1>5. \A x \in DOMAIN T.entity : Symbol(V, x) = Symbol(T, x) /\ Space(V, x) = Space(T, x)
    BY <1>3 DEF Touched
<1>6. U.entity = V.entity /\ Pushed(V, U, p)
    BY <1>2 DEF EnvPushed
<1>7. \A x \in DOMAIN T.entity : Symbol(U, x) = Symbol(T, x) /\ Space(U, x) = Space(T, x)
    BY <1>5, <1>6 DEF Symbol, Space
<1>8. \A x \in DOMAIN T.entity : Symbol(T, x) \in Symbols /\ Space(T, x) \in NameSpaces /\ x # Null
    BY <1>1, EntityFacts
<1>9. \A r \in Symbols, n \in NameSpaces :
        get_entity(U, r, n) = IF r = Symbol(T, p) /\ n = Space(T, p) THEN p ELSE get_entity(T, r, n)
    BY <1>1, <1>4, <1>5, <1>6 DEF Pushed
<1>10. ASSUME NEW k \in DOMAIN L, k > i + 1,
              get_entity(U, Symbol(U, L[k]), Space(U, L[k])) = Null,
              \A j \in DOMAIN L :
                i + 1 < j /\ j < k =>
                  << Symbol(U, L[j]), Space(U, L[j]) >> # << Symbol(U, L[k]), Space(U, L[k]) >>
       PROVE  U.link[L[k]] = Null
    <2>0. /\ L[k] \in DOMAIN T.entity
          /\ \A j \in DOMAIN L : L[j] \in DOMAIN T.entity /\ j \in Nat
        OBVIOUS
    <2>1. /\ ~(Symbol(T, L[k]) = Symbol(T, p) /\ Space(T, L[k]) = Space(T, p))
          /\ get_entity(T, Symbol(T, L[k]), Space(T, L[k])) = Null
        BY <2>0, <1>1, <1>7, <1>8, <1>9, <1>10
    <2>2. ASSUME NEW j \in DOMAIN L, i < j, j < k
          PROVE  << Symbol(T, L[j]), Space(T, L[j]) >> # << Symbol(T, L[k]), Space(T, L[k]) >>
        <3>1. CASE j = i + 1
            BY <3>1, <2>1 DEF p
        <3>2. CASE j # i + 1
            <4>1. i + 1 < j
                BY <3>2, <2>2, <2>0
            <4> QED BY <4>1, <2>0, <2>2, <1>7, <1>10
        <3> QED BY <3>1, <3>2
    <2>3. k > i
        BY <1>10, <2>0
    <2>4. T.link[L[k]] = Null
        BY <2>1, <2>2, <2>3 DEF Ready
    <2>5. L[k] # p
        BY <2>1
    <2>6. get_entity(V, Symbol(V, L[k]), Space(V, L[k])) # L[k]
        BY <2>0, <2>1, <1>4, <1>5, <1>8
    <2>7. U.link[L[k]] = V.link[L[k]]
        BY <2>0, <2>5, <2>6, <1>3, <1>6 DEF Pushed
    <2> QED BY <2>4, <2>7, <1>3 DEF Touched
<1> QED BY <1>10 DEF Ready

\* The list of a scope is what Listed() computes.
LEMMA ListedIs ==
  ASSUME NEW T, Shape(T), NEW s, NEW L, Linked(T.scope[s].entities, T.next, L)
  PROVE  /\ Listed(T, s) = L /\ L \in Seq(DOMAIN T.entity) /\ Len(L) \in Nat
         /\ Len(L) <= Len(T.entity) /\ DOMAIN L = 1 .. Len(L)
<1> DEFINE first == T.scope[s].entities
           link == T.next
           n == Len(T.next)
<1>1. link \in Seq(Nat) /\ n \in Nat /\ DOMAIN link = DOMAIN T.entity /\ n = Len(T.entity)
    BY DEF Shape
<1>2. L \in Seq(DOMAIN link)
    BY DEF Linked
<1>3. Linked(first, link, L) /\ Listed(T, s) = Elements(first, link, n)
    BY DEF Listed
<1> HIDE DEF first, n, link
<1>4. Len(L) <= Len(link)
    BY <1>1, <1>3, LinkedIsShort
<1>5. Len(L) <= n
    BY <1>4 DEF n, link
<1>6. Elements(first, link, n) = L
    BY <1>1, <1>3, <1>5, ElementsAre
<1> QED BY <1>1, <1>2, <1>3, <1>5, <1>6

\* PushParameters(): one after the other.
ParametersPushed(T, U, w, L, own, declared) ==
  /\ w[0] = T /\ w[Len(L)] = U
  /\ \A i \in 0 .. Len(L) :
       /\ Table(w[i]) /\ Chained(w[i])
       /\ Len(w[i].entity) = Len(T.entity)
       /\ i # Len(L) => ParameterPushed(w[i], w[i + 1], L[i + 1], own, declared)

LEMMA PushParametersAre ==
  ASSUME NEW T, Table(T), Chained(T), NEW f \in DOMAIN T.entity, NEW declared, NEW L,
         Linked(T.scope[T.entity[f].own].entities, T.next, L), Ready(T, L, 0)
  PROVE  \E w : ParametersPushed(T, PushParameters(T, f, declared), w, L, T.entity[f].own, declared)
<1> DEFINE own == T.entity[f].own
           U == PushParameters(T, f, declared)
           w == CHOOSE w : w = [i \in 0 .. Len(L) |->
                                  IF i = 0 THEN T ELSE PushParameter(w[i - 1], L[i], own, declared)]
<1>1. Shape(T) /\ own \in Nat
    <2>1. Shape(T) /\ T.entity[f] \in EntityType
        BY DEF Table, Shape
    <2> QED BY <2>1 DEF EntityType
<1>2. /\ Listed(T, own) = L /\ L \in Seq(DOMAIN T.entity) /\ Len(L) \in Nat
      /\ DOMAIN L = 1 .. Len(L)
    <2>1. Linked(T.scope[own].entities, T.next, L)
        OBVIOUS
    <2> HIDE DEF own
    <2> QED BY <2>1, <1>1, ListedIs
<1>3. U = w[Len(L)]
    BY <1>2 DEF PushParameters
<1>4. IsPushing(w, T, L, own, declared)
    <2> HIDE DEF own
    <2>1. \E g : IsPushing(g, T, L, own, declared)
        BY <1>2, PushingExists
    <2>2. w = CHOOSE g : IsPushing(g, T, L, own, declared)
        BY DEF IsPushing
    <2> HIDE DEF w
    <2> QED BY <2>1, <2>2
<1> HIDE DEF w, own, U
<1> DEFINE n == Len(L)
           S == { i \in 0 .. n : /\ Table(w[i]) /\ Chained(w[i]) /\ Ready(w[i], L, i)
                                 /\ Len(w[i].entity) = Len(T.entity) }
<1>5. w[0] = T /\ \A i \in 0 .. n : i # n => w[i + 1] = PushParameter(w[i], L[i + 1], own, declared)
    <2>1. w[0] = T
        BY <1>2, <1>4 DEF IsPushing
    <2>2. ASSUME NEW i \in 0 .. n, i # n
          PROVE  w[i + 1] = PushParameter(w[i], L[i + 1], own, declared)
        <3>1. i + 1 \in 0 .. Len(L) /\ i + 1 # 0 /\ i + 1 - 1 = i
            <4>1. Len(L) \in Nat /\ i \in 0 .. Len(L) /\ i # Len(L)
                BY <2>2, <1>2
            <4> QED BY ONLY <4>1
        <3>2. w[i + 1] = IF i + 1 = 0 THEN T ELSE PushParameter(w[i + 1 - 1], L[i + 1], own, declared)
            BY <3>1, <1>4 DEF IsPushing
        <3> QED BY <3>1, <3>2
    <2> QED BY <2>1, <2>2
<1>6. 0 \in S
    <2>1. 0 \in 0 .. n
        BY <1>2
    <2>2. Table(w[0]) /\ Chained(w[0]) /\ Ready(w[0], L, 0) /\ Len(w[0].entity) = Len(T.entity)
        BY <1>5
    <2> QED BY <2>1, <2>2
<1>7. ASSUME NEW i \in 0 .. n, i \in S, i # n
      PROVE  i + 1 \in S /\ ParameterPushed(w[i], w[i + 1], L[i + 1], own, declared)
    <2>1. PICK V : V = w[i]
        OBVIOUS
    <2>2. /\ Table(V) /\ Chained(V) /\ Ready(V, L, i) /\ Len(V.entity) = Len(T.entity)
        BY <2>1, <1>7
    <2>3. DOMAIN V.entity = DOMAIN T.entity
        BY <2>2, <1>1 DEF Table, Shape
    <2>4. i \in 0 .. Len(L) - 1 /\ i + 1 \in DOMAIN L /\ i + 1 > i /\ i + 1 \in 0 .. n
        BY <1>2, <1>7
    <2>5. PICK p : p = L[i + 1]
        OBVIOUS
    <2>6. p \in DOMAIN V.entity
        BY <2>3, <2>4, <2>5, <1>2
    <2>7. get_entity(V, Symbol(V, p), Space(V, p)) = Null => V.link[p] = Null
        <3>1. \A j \in DOMAIN L : ~(i < j /\ j < i + 1)
            BY <1>2
        <3> QED BY <3>1, <2>2, <2>4, <2>5 DEF Ready
    <2>8. ParameterPushed(V, PushParameter(V, p, own, declared), p, own, declared)
        BY <2>2, <2>6, <2>7, <1>1, PushParameterIs
    <2>9. PICK X : X = PushParameter(V, p, own, declared)
        OBVIOUS
    <2>10. Ready(X, L, i + 1)
        <3>1. L \in Seq(DOMAIN V.entity)
            BY <2>3, <1>2
        <3>2. ParameterPushed(V, X, L[i + 1], own, declared)
            BY <2>5, <2>8, <2>9
        <3> QED BY <3>1, <3>2, <2>2, <2>4, <1>1, PushedReady
    <2>11. Table(X) /\ Chained(X) /\ Len(X.entity) = Len(V.entity)
        BY <2>8, <2>9 DEF ParameterPushed, EnvPushed, Pushed, EntitySet, Touched
    <2>12. w[i + 1] = X
        BY <2>1, <2>5, <2>9, <1>5, <1>7
    <2> QED BY <2>1, <2>2, <2>4, <2>5, <2>8, <2>9, <2>10, <2>11, <2>12
<1>8. \A i \in 0 .. n : i \in S
    <2> HIDE DEF S
    <2> QED BY <1>2, <1>6, <1>7, Upwards
<1>9. ParametersPushed(T, U, w, L, own, declared)
    BY <1>3, <1>5, <1>7, <1>8 DEF ParametersPushed
<1> QED BY <1>9 DEF U, own

-----------------------------------------------------------------------------
(***************************************************************************)
(* Scopes.                                                                 *)
(***************************************************************************)
ScopePut(T, U, Q) == U = [T EXCEPT !.scope = Q]

LEMMA ScopePutIs ==
  ASSUME NEW T, Shape(T), NEW Q \in Seq(ScopeType), NEW U, ScopePut(T, U, Q)
  PROVE  /\ Touched(T, U) /\ U.entity = T.entity /\ U.next = T.next /\ U.scope = Q
         /\ U.aborted = T.aborted
<1>1. /\ U.entity = T.entity /\ U.next = T.next /\ U.scope = Q
      /\ U.head = T.head /\ U.link = T.link /\ U.env = T.env /\ U.label = T.label
      /\ U.aborted = T.aborted
      /\ U = [entity |-> U.entity, next |-> U.next, scope |-> U.scope, head |-> U.head,
              link |-> U.link, env |-> U.env, label |-> U.label, aborted |-> U.aborted]
    BY DEF ScopePut, Shape
<1>2. Shape(U)
    BY <1>1 DEF Shape
<1> QED BY <1>1, <1>2 DEF Touched, Symbol, Space

\* scope_push()
ScopePushed(T, U, s, around) ==
  /\ Touched(T, U) /\ U.entity = T.entity /\ U.next = T.next /\ U.aborted = T.aborted
  /\ Len(U.scope) = Len(T.scope)
  /\ \A x \in DOMAIN T.scope :
       U.scope[x] = IF x = s
                    THEN [entities |-> T.scope[s].entities, last_entity |-> T.scope[s].last_entity,
                          depth |-> T.scope[around].depth + 1]
                    ELSE T.scope[x]

LEMMA ScopePushIs ==
  ASSUME NEW T, Shape(T), NEW s \in DOMAIN T.scope, NEW around \in DOMAIN T.scope
  PROVE  ScopePushed(T, scope_push(T, s, around), s, around)
<1> DEFINE depth == T.scope[around].depth + 1
           new == [entities |-> T.scope[s].entities, last_entity |-> T.scope[s].last_entity,
                   depth |-> depth]
           Q == [T.scope EXCEPT ![s] = new]
           U == scope_push(T, s, around)
<1>1. /\ T.scope \in Seq(ScopeType) /\ T.scope[s] \in ScopeType /\ T.scope[around] \in ScopeType
    BY DEF Shape
<1>2. new \in ScopeType /\ new = [T.scope[s] EXCEPT !.depth = depth]
    <2>1. depth \in Nat
        BY <1>1 DEF ScopeType
    <2> HIDE DEF depth
    <2>2. PICK c : c = T.scope[s]
        OBVIOUS
    <2>3. /\ c = [entities |-> c.entities, last_entity |-> c.last_entity, depth |-> c.depth]
          /\ c.entities \in Nat /\ c.last_entity \in Nat
        BY <2>2, <1>1 DEF ScopeType
    <2>4. new = [entities |-> c.entities, last_entity |-> c.last_entity, depth |-> depth]
        BY <2>2
    <2>5. new \in ScopeType
        BY <2>1, <2>3, <2>4 DEF ScopeType
    <2>6. [c EXCEPT !.depth = depth]
            = [entities |-> c.entities, last_entity |-> c.last_entity, depth |-> depth]
        BY <2>3
    <2> QED BY <2>2, <2>4, <2>5, <2>6
<1>3. U = [T EXCEPT !.scope[s].depth = depth]
    BY DEF scope_push
<1> HIDE DEF new, U, depth
<1>4. ScopePut(T, U, Q)
    <2>1. [T.scope EXCEPT ![s].depth = depth] = Q
        BY <1>1, <1>2
    <2> HIDE DEF Q
    <2>2. U = [T EXCEPT !.scope = [T.scope EXCEPT ![s].depth = depth]]
        BY <1>3 DEF Shape
    <2> QED BY <2>1, <2>2 DEF ScopePut
<1>5. /\ Q \in Seq(ScopeType) /\ Len(Q) = Len(T.scope)
      /\ \A x \in DOMAIN T.scope : Q[x] = IF x = s THEN new ELSE T.scope[x]
    BY <1>1, <1>2, SeqExceptIn
<1> HIDE DEF Q
<1>6. /\ Touched(T, U) /\ U.entity = T.entity /\ U.next = T.next /\ U.scope = Q
      /\ U.aborted = T.aborted
    BY <1>4, <1>5, ScopePutIs
<1> QED BY <1>5, <1>6 DEF ScopePushed, new, U, depth

\* A new scope, and scope_push() of it.
LEMMA NewScopeIs ==
  ASSUME NEW T, Shape(T), NEW around \in DOMAIN T.scope
  PROVE  LET U == scope_push([T EXCEPT !.scope = Append(@, NewScope)], Len(T.scope) + 1, around)
         IN /\ Touched(T, U) /\ U.entity = T.entity /\ U.next = T.next /\ U.aborted = T.aborted
            /\ U.scope = Append(T.scope, [entities |-> Null, last_entity |-> Null,
                                          depth |-> T.scope[around].depth + 1])
<1> DEFINE V == [T EXCEPT !.scope = Append(@, NewScope)]
           s == Len(T.scope) + 1
           U == scope_push(V, s, around)
           Q == Append(T.scope, NewScope)
           new == [entities |-> Null, last_entity |-> Null, depth |-> T.scope[around].depth + 1]
<1>1. T.scope \in Seq(ScopeType) /\ NewScope \in ScopeType /\ Len(T.scope) \in Nat
    BY DEF Shape, NewScope, ScopeType, Null
<1>2. /\ Q \in Seq(ScopeType) /\ DOMAIN Q = 1 .. s /\ Len(Q) = s
      /\ \A x \in DOMAIN T.scope : Q[x] = T.scope[x] /\ x # s
      /\ Q[s] = NewScope /\ s \in DOMAIN Q /\ around \in DOMAIN Q
    BY <1>1
<1> HIDE DEF Q
<1>3. ScopePut(T, V, Q)
    <2>1. V = [T EXCEPT !.scope = Append(T.scope, NewScope)]
        BY DEF Shape
    <2> QED BY <2>1 DEF ScopePut, Q
<1> HIDE DEF V
<1>4. /\ Touched(T, V) /\ V.entity = T.entity /\ V.next = T.next /\ V.scope = Q
      /\ V.aborted = T.aborted
    BY <1>2, <1>3, ScopePutIs
<1>5. Shape(V)
    BY <1>4 DEF Touched
<1>6. ScopePushed(V, U, s, around)
    BY <1>2, <1>4, <1>5, ScopePushIs
<1> HIDE DEF U
<1>7. Touched(T, U)
    <2>1. DOMAIN V.entity = DOMAIN T.entity
        BY <1>4
    <2> QED BY <2>1, <1>4, <1>6 DEF Touched, ScopePushed
<1>8. U.scope = Append(T.scope, new)
    <2>1. U.scope \in Seq(ScopeType) /\ Len(U.scope) = s
        BY <1>2, <1>4, <1>6 DEF ScopePushed, Touched, Shape
    <2>2. /\ \A x \in DOMAIN T.scope : U.scope[x] = T.scope[x]
          /\ U.scope[s] = new
        <3>1. DOMAIN T.scope \subseteq DOMAIN V.scope /\ s \in DOMAIN V.scope
            BY <1>1, <1>2, <1>4
        <3>2. \A x \in DOMAIN V.scope :
                U.scope[x] = IF x = s
                             THEN [entities |-> V.scope[s].entities,
                                   last_entity |-> V.scope[s].last_entity,
                                   depth |-> V.scope[around].depth + 1]
                             ELSE V.scope[x]
            BY <1>6 DEF ScopePushed
        <3>3. \A x \in DOMAIN T.scope : U.scope[x] = T.scope[x]
            BY <3>1, <3>2, <1>2, <1>4
        <3>4. V.scope[s] = NewScope /\ V.scope[around] = T.scope[around]
            BY <1>2, <1>4
        <3>5. U.scope[s] = new
            BY <3>1, <3>2, <3>4 DEF NewScope
        <3> QED BY <3>3, <3>5
    <2>3. new \in ScopeType
        <3>1. T.scope[around] \in ScopeType
            BY <1>1
        <3> QED BY <3>1 DEF ScopeType, Null
    <2> HIDE DEF new
    <2>4. PICK q : q = U.scope
        OBVIOUS
    <2>5. q \in Seq(ScopeType) /\ Len(q) = Len(T.scope) + 1
          /\ (\A x \in 1 .. Len(T.scope) : q[x] = T.scope[x]) /\ q[Len(T.scope) + 1] = new
        BY <2>1, <2>2, <2>4, <1>1
    <2>6. q = Append(T.scope, new)
        BY <2>3, <2>5, <1>1
    <2> QED BY <2>4, <2>6
<1> QED BY <1>4, <1>6, <1>7, <1>8 DEF ScopePushed, U, V

\* Functions, structs and namespaces have scopes of their own; the last entity
\* of a scope exists.
OwnsOK(T) ==
  /\ \A x \in DOMAIN T.entity :
       /\ T.entity[x].own \in 0 .. Len(T.scope)
       /\ T.entity[x].kind \in Owners <=> T.entity[x].own # Null
  /\ \A x, y \in DOMAIN T.entity :
       T.entity[x].own = T.entity[y].own /\ T.entity[x].own # Null => x = y
  /\ \A s \in DOMAIN T.scope : T.scope[s].last_entity \in 0 .. Len(T.entity)
  /\ File \in DOMAIN T.scope

Good(T) == Table(T) /\ Chained(T) /\ OwnsOK(T)

\* Only fields that OwnsOK() does not speak of have changed.
LEMMA GoodTouched ==
  ASSUME NEW T, Good(T), NEW U, Touched(T, U),
         \A x \in DOMAIN T.entity : /\ U.entity[x].own = T.entity[x].own
                                    /\ U.entity[x].kind = T.entity[x].kind,
         Len(T.scope) <= Len(U.scope),
         \A s \in DOMAIN U.scope : U.scope[s].last_entity \in 0 .. Len(T.entity)
  PROVE  Good(U)
<1>1. Table(U) /\ Chained(U)
    BY TouchedMeans DEF Good
<1>2. /\ DOMAIN U.entity = DOMAIN T.entity /\ Len(U.entity) = Len(T.entity)
      /\ Len(T.scope) \in Nat /\ Len(U.scope) \in Nat
      /\ DOMAIN T.scope \subseteq DOMAIN U.scope
      /\ 0 .. Len(T.scope) \subseteq 0 .. Len(U.scope)
    <2>1. /\ DOMAIN U.entity = DOMAIN T.entity /\ Len(U.entity) = Len(T.entity)
          /\ Len(T.scope) \in Nat /\ Len(U.scope) \in Nat
          /\ DOMAIN T.scope = 1 .. Len(T.scope) /\ DOMAIN U.scope = 1 .. Len(U.scope)
        BY DEF Touched, Good, Table, Shape
    <2> QED BY <2>1
<1>3. OwnsOK(U)
    BY <1>2 DEF Good, OwnsOK
<1> QED BY <1>1, <1>3 DEF Good

LEMMA GoodAllocate ==
  ASSUME NEW T, Good(T), NEW kind \in Kinds, NEW symbol \in Symbols, NEW parent \in Nat
  PROVE  Good(Allocate(T, kind, symbol, parent))
<1> DEFINE U == Allocate(T, kind, symbol, parent)
           e == Fresh(T)
<1>1. Allocated(T, U, kind, symbol, parent) /\ Shape(T)
    BY AllocateIs DEF Good, Table
<1> HIDE DEF U
<1>2. /\ Len(T.entity) \in Nat /\ DOMAIN T.entity = 1 .. Len(T.entity) /\ e = Len(T.entity) + 1
      /\ Len(U.entity) = Len(T.entity) + 1 /\ DOMAIN U.entity = 1 .. Len(T.entity) + 1
      /\ T.scope \in Seq(ScopeType) /\ Len(T.scope) \in Nat
    BY <1>1 DEF Allocated, Shape, Table, Fresh
<1>3. /\ \A x \in DOMAIN T.entity : U.entity[x] = T.entity[x]
      /\ U.entity[e].own = IF kind \in Owners THEN Len(T.scope) + 1 ELSE Null
      /\ U.entity[e].kind = kind
      /\ U.scope = IF kind \in Owners THEN Append(T.scope, NewScope) ELSE T.scope
    BY <1>1 DEF Allocated
<1>4. \A x \in DOMAIN U.entity : x \in DOMAIN T.entity \/ x = e
    BY <1>2
<1>5. /\ Len(U.scope) = IF kind \in Owners THEN Len(T.scope) + 1 ELSE Len(T.scope)
      /\ File \in DOMAIN U.scope
      /\ \A s \in DOMAIN U.scope : U.scope[s].last_entity \in 0 .. Len(U.entity)
    <2>0. /\ File \in DOMAIN T.scope
          /\ \A s \in DOMAIN T.scope : T.scope[s].last_entity \in 0 .. Len(T.entity)
        BY DEF Good, OwnsOK
    <2>1. CASE kind \in Owners
        <3>1. U.scope = Append(T.scope, NewScope)
            BY <2>1, <1>3
        <3>2. /\ Len(U.scope) = Len(T.scope) + 1 /\ DOMAIN U.scope = 1 .. Len(T.scope) + 1
              /\ U.scope[Len(T.scope) + 1] = NewScope
              /\ \A s \in 1 .. Len(T.scope) : U.scope[s] = T.scope[s]
            BY <3>1, <1>2
        <3>3. NewScope.last_entity = 0
            BY DEF NewScope, Null
        <3>4. \A s \in DOMAIN U.scope : s \in DOMAIN T.scope \/ s = Len(T.scope) + 1
            BY <3>2, <1>2
        <3>5. File \in DOMAIN U.scope
            BY <3>2, <2>0, <1>1 DEF Table, Shape
        <3>6. ASSUME NEW s \in DOMAIN U.scope
              PROVE  U.scope[s].last_entity \in 0 .. Len(U.entity)
            <4>1. CASE s \in DOMAIN T.scope
                <5>1. s \in 1 .. Len(T.scope)
                    BY <4>1, <1>2
                <5>2. U.scope[s] = T.scope[s]
                    BY <5>1, <3>2
                <5>3. T.scope[s].last_entity \in 0 .. Len(T.entity)
                    BY <4>1, <2>0
                <5> QED BY <5>2, <5>3, <1>2
            <4>2. CASE s = Len(T.scope) + 1
                BY <4>2, <3>2, <3>3, <1>2
            <4> QED BY <4>1, <4>2, <3>4
        <3> QED BY <3>2, <3>5, <3>6, <2>1
    <2>2. CASE kind \notin Owners
        BY <2>0, <2>2, <1>2, <1>3
    <2> QED BY <2>1, <2>2
<1> HIDE DEF e
<1>6. ASSUME NEW x \in DOMAIN U.entity
      PROVE  /\ U.entity[x].own \in 0 .. Len(U.scope)
             /\ U.entity[x].kind \in Owners <=> U.entity[x].own # Null
    <2>1. CASE x \in DOMAIN T.entity
        <3>1. /\ T.entity[x].own \in 0 .. Len(T.scope)
              /\ T.entity[x].kind \in Owners <=> T.entity[x].own # Null
            BY <2>1 DEF Good, OwnsOK
        <3> QED BY <3>1, <2>1, <1>2, <1>3, <1>5
    <2>2. CASE x = e
        BY <2>2, <1>2, <1>3, <1>5 DEF Null
    <2> QED BY <2>1, <2>2, <1>4
<1>7. ASSUME NEW x \in DOMAIN U.entity, NEW y \in DOMAIN U.entity,
             U.entity[x].own = U.entity[y].own, U.entity[x].own # Null
      PROVE  x = y
    <2>1. \A z \in DOMAIN T.entity : T.entity[z].own # Len(T.scope) + 1
        <3>1. \A z \in DOMAIN T.entity : T.entity[z].own \in 0 .. Len(T.scope)
            BY DEF Good, OwnsOK
        <3> QED BY <3>1, <1>2
    <2>2. CASE x \in DOMAIN T.entity /\ y \in DOMAIN T.entity
        BY <2>2, <1>3, <1>7 DEF Good, OwnsOK
    <2>3. CASE x = e \/ y = e
        <3>1. CASE x = e /\ y # e
            BY <3>1, <2>1, <1>3, <1>4, <1>7
        <3>2. CASE y = e /\ x # e
            BY <3>2, <2>1, <1>3, <1>4, <1>7
        <3> QED BY <3>1, <3>2, <2>3
    <2> QED BY <2>2, <2>3, <1>4
<1>8. OwnsOK(U)
    BY <1>5, <1>6, <1>7 DEF OwnsOK
<1> QED BY <1>1, <1>8 DEF Good, Allocated, U

LEMMA OwnsKept ==
  ASSUME NEW T, Good(T), NEW U, Table(U), Chained(U), Len(U.entity) = Len(T.entity),
         \A x \in DOMAIN T.entity : /\ U.entity[x].own = T.entity[x].own
                                    /\ U.entity[x].kind = T.entity[x].kind,
         Len(T.scope) <= Len(U.scope),
         \A s \in DOMAIN U.scope : U.scope[s].last_entity \in 0 .. Len(T.entity)
  PROVE  Good(U)
<1>1. /\ DOMAIN U.entity = DOMAIN T.entity
      /\ Len(T.scope) \in Nat /\ Len(U.scope) \in Nat
      /\ DOMAIN T.scope \subseteq DOMAIN U.scope
      /\ 0 .. Len(T.scope) \subseteq 0 .. Len(U.scope)
    <2>1. /\ DOMAIN T.entity = 1 .. Len(T.entity) /\ DOMAIN U.entity = 1 .. Len(U.entity)
          /\ Len(T.scope) \in Nat /\ Len(U.scope) \in Nat
          /\ DOMAIN T.scope = 1 .. Len(T.scope) /\ DOMAIN U.scope = 1 .. Len(U.scope)
        BY DEF Good, Table, Shape
    <2> QED BY <2>1
<1>2. OwnsOK(U)
    BY <1>1 DEF Good, OwnsOK
<1> QED BY <1>2 DEF Good

\* The entities and the scopes have not changed at all.
LEMMA OwnsSame ==
  ASSUME NEW T, Good(T), NEW U, Table(U), Chained(U), U.entity = T.entity, U.scope = T.scope
  PROVE  Good(U)
<1>1. Len(T.scope) \in Nat
    BY DEF Good, Table, Shape
<1> QED BY <1>1, OwnsKept DEF Good, OwnsOK

LEMMA GoodStackPush ==
  ASSUME NEW T, Good(T), NEW e \in DOMAIN T.entity, NEW which \in {"env", "label"},
         get_entity(T, Symbol(T, e), Space(T, e)) = Null => T.link[e] = Null
  PROVE  Good(stack_push(T, which, e))
<1> DEFINE U == stack_push(T, which, e)
<1>1. Table(T) /\ Chained(T)
    BY DEF Good
<1>2. Table(U) /\ U.entity = T.entity /\ U.scope = T.scope
    BY <1>1, PushFields
<1>3. Pushed(T, U, e)
    BY <1>1, PushMeans
<1> HIDE DEF U
<1>4. Good(U)
    BY <1>2, <1>3, OwnsSame DEF Pushed
<1> QED BY <1>4 DEF U

LEMMA GoodEnvironmentPush ==
  ASSUME NEW T, Good(T), NEW e \in DOMAIN T.entity,
         get_entity(T, Symbol(T, e), Space(T, e)) = Null => T.link[e] = Null
  PROVE  EnvPushed(T, environment_push(T, e), e) /\ Good(environment_push(T, e))
<1> DEFINE U == environment_push(T, e)
<1>1. EnvPushed(T, U, e)
    BY EnvironmentPushIs DEF Good
<1> HIDE DEF U
<1>2. Good(U)
    BY <1>1, OwnsSame DEF EnvPushed, Pushed
<1> QED BY <1>1, <1>2 DEF U

LEMMA GoodPopTo ==
  ASSUME NEW T, Good(T), NEW which \in {"env", "label"}, NEW top \in 0 .. Len(StackOf(T, which))
  PROVE  /\ Good(stack_pop_to(T, which, top))
         /\ stack_pop_to(T, which, top).entity = T.entity
         /\ stack_pop_to(T, which, top).next = T.next
         /\ stack_pop_to(T, which, top).scope = T.scope
         /\ Len(stack_pop_to(T, which, top).env) = IF which = "env" THEN top ELSE Len(T.env)
         /\ Len(stack_pop_to(T, which, top).label) = IF which = "env" THEN Len(T.label) ELSE top
<1> DEFINE U == stack_pop_to(T, which, top)
<1>1. Table(T) /\ Chained(T)
    BY DEF Good
<1>2. /\ Table(U) /\ Chained(U)
      /\ U.entity = T.entity /\ U.next = T.next /\ U.scope = T.scope
      /\ U.env = IF which = "env" THEN SubSeq(T.env, 1, top) ELSE T.env
      /\ U.label = IF which = "env" THEN T.label ELSE SubSeq(T.label, 1, top)
    <2>1. CASE which = "env"
        <3>1. T.env = StackOf(T, "env") /\ top \in 0 .. Len(StackOf(T, "env"))
            BY <2>1 DEF StackOf
        <3> QED BY <2>1, <3>1, <1>1, PopToKeeps
    <2>2. CASE which = "label"
        <3>1. T.label = StackOf(T, "label") /\ top \in 0 .. Len(StackOf(T, "label"))
            BY <2>2 DEF StackOf
        <3> QED BY <2>2, <3>1, <1>1, PopToKeeps
    <2> QED BY <2>1, <2>2
<1>3. Len(SubSeq(StackOf(T, which), 1, top)) = top
    BY <1>1, StackOfType, PrefixSeq
<1> HIDE DEF U
<1>4. Good(U)
    BY <1>2, OwnsSame
<1>5. /\ Len(U.env) = IF which = "env" THEN top ELSE Len(T.env)
      /\ Len(U.label) = IF which = "env" THEN Len(T.label) ELSE top
    <2>1. CASE which = "env"
        BY <2>1, <1>2, <1>3 DEF StackOf
    <2>2. CASE which = "label"
        BY <2>2, <1>2, <1>3 DEF StackOf
    <2> QED BY <2>1, <2>2
<1> QED BY <1>2, <1>4, <1>5 DEF U

LEMMA GoodEntitySet ==
  ASSUME NEW T, Good(T), NEW U, NEW x, NEW parent, NEW complete, NEW aborted,
         EntitySet(T, U, x, parent, complete, aborted)
  PROVE  Good(U)
<1>1. /\ Touched(T, U) /\ U.scope = T.scope
      /\ \A y \in DOMAIN T.entity : /\ U.entity[y].own = T.entity[y].own
                                    /\ U.entity[y].kind = T.entity[y].kind
    BY DEF EntitySet
<1>2. Len(T.scope) \in Nat
    BY DEF Good, Table, Shape
<1> QED BY <1>1, <1>2, GoodTouched DEF Good, OwnsOK

LEMMA GoodAppended ==
  ASSUME NEW T, Good(T), NEW s \in DOMAIN T.scope, NEW e \in DOMAIN T.entity,
         NEW U, Appended(T, U, s, e)
  PROVE  Good(U)
<1>1. e \in 0 .. Len(T.entity) /\ Len(T.scope) \in Nat /\ Len(U.scope) = Len(T.scope)
    <2>1. /\ DOMAIN T.entity = 1 .. Len(T.entity) /\ Len(T.scope) \in Nat /\ Len(U.scope) \in Nat
          /\ DOMAIN T.scope = 1 .. Len(T.scope) /\ DOMAIN U.scope = 1 .. Len(U.scope)
        BY DEF Good, Table, Shape, Appended, Touched
    <2> QED BY <2>1 DEF Appended
<1>2. \A x \in DOMAIN U.scope : U.scope[x].last_entity \in 0 .. Len(T.entity)
    BY <1>1 DEF Good, OwnsOK, Appended
<1> QED BY <1>1, <1>2, GoodTouched DEF Appended

LEMMA GoodEnlisted ==
  ASSUME NEW T, Good(T), NEW s \in DOMAIN T.scope, NEW e \in DOMAIN T.entity,
         NEW U, Enlisted(T, U, e, s)
  PROVE  Good(U)
<1>1. e \in 0 .. Len(T.entity) /\ Len(T.scope) \in Nat /\ Len(U.scope) = Len(T.scope)
    <2>1. /\ DOMAIN T.entity = 1 .. Len(T.entity) /\ Len(T.scope) \in Nat /\ Len(U.scope) \in Nat
          /\ DOMAIN T.scope = 1 .. Len(T.scope) /\ DOMAIN U.scope = 1 .. Len(U.scope)
        BY DEF Good, Table, Shape, Enlisted
    <2> QED BY <2>1 DEF Enlisted
<1>2. \A x \in DOMAIN U.scope : U.scope[x].last_entity \in 0 .. Len(T.entity)
    BY <1>1 DEF Good, OwnsOK, Enlisted
<1>3. Table(U) /\ Chained(U) /\ U.entity = T.entity
    BY DEF Enlisted, Pushed
<1> QED BY <1>1, <1>2, <1>3, OwnsKept

LEMMA GoodEnlist ==
  ASSUME NEW T, Good(T), NEW s \in DOMAIN T.scope, NEW e \in DOMAIN T.entity,
         get_entity(T, Symbol(T, e), Space(T, e)) = Null => T.link[e] = Null
  PROVE  Enlisted(T, Enlist(T, e, s), e, s) /\ Good(Enlist(T, e, s))
<1>1. Enlisted(T, Enlist(T, e, s), e, s)
    BY EnlistIs DEF Good
<1> QED BY <1>1, GoodEnlisted

LEMMA GoodRecord ==
  ASSUME NEW T, Good(T), NEW s \in DOMAIN T.scope, NEW e \in DOMAIN T.entity,
         get_entity(T, Symbol(T, e), Space(T, e)) = Null => T.link[e] = Null
  PROVE  Good(record_entity(T, s, e))
<1> DEFINE U == record_entity(T, s, e)
           p == get_entity(T, T.entity[e].symbol, "normal")
<1>1. IF Merges(T, s, e, p) THEN Merged(T, U, p)
      ELSE \E V : Mark(T, V, s, e) /\ Enlisted(V, U, e, s) /\ Table(V) /\ Chained(V)
    BY RecordEntityIs DEF Good
<1> HIDE DEF U, p
<1>2. CASE Merges(T, s, e, p)
    <2>1. Merged(T, U, p)
        BY <1>1, <1>2
    <2>2. Good(U)
        BY <2>1, GoodEntitySet DEF Merged
    <2> QED BY <2>2 DEF U
<1>3. CASE ~Merges(T, s, e, p)
    <2>1. PICK V : Mark(T, V, s, e) /\ Enlisted(V, U, e, s)
        BY <1>1, <1>3
    <2>2. Good(V)
        BY <2>1, GoodEntitySet DEF Mark
    <2>3. V.scope = T.scope /\ DOMAIN V.entity = DOMAIN T.entity
        BY <2>1 DEF Mark, EntitySet
    <2>4. Good(U)
        BY <2>1, <2>2, <2>3, GoodEnlisted
    <2> QED BY <2>4 DEF U
<1> QED BY <1>2, <1>3

-----------------------------------------------------------------------------
(***************************************************************************)
(* The head of an old-style function definition. What it puts into the     *)
(* scope of the parameters is pushed, taken back at the end of the head    *)
(* and pushed again for the body. EnvPart() says that the second push      *)
(* finds the pointers as stack_push() needs them, ListPart() that the list *)
(* L of the scope own is the whole list.                                   *)
(***************************************************************************)
NameOf(T, e) == << Symbol(T, e), Space(T, e) >>

EnvPart(T, top, L) ==
  /\ top \in 0 .. Len(T.env)
  /\ \A i \in top + 1 .. Len(T.env) : \E k \in DOMAIN L : Name(T.env[i]) = NameOf(T, L[k])
  /\ Ready(stack_pop_to(T, "env", top), L, 0)

LEMMA ReadyAlike ==
  ASSUME NEW P, Shape(P), Chained(P), NEW Q, Shape(Q), NEW X, Alike(P, Q, X), Off(P, X),
         NEW L \in Seq(DOMAIN P.entity), \A k \in DOMAIN L : L[k] \notin X,
         Ready(P, L, 0)
  PROVE  Ready(Q, L, 0)
<1>1. \A r \in Symbols, n \in NameSpaces : get_entity(Q, r, n) = get_entity(P, r, n)
    BY AlikeMeans
<1>2. ASSUME NEW k \in DOMAIN L
      PROVE  /\ L[k] \in DOMAIN P.entity
             /\ Symbol(Q, L[k]) = Symbol(P, L[k]) /\ Space(Q, L[k]) = Space(P, L[k])
             /\ Q.link[L[k]] = P.link[L[k]]
             /\ get_entity(Q, Symbol(Q, L[k]), Space(Q, L[k]))
                  = get_entity(P, Symbol(P, L[k]), Space(P, L[k]))
    <2>1. L[k] \in DOMAIN P.entity
        OBVIOUS
    <2>2. /\ Symbol(Q, L[k]) = Symbol(P, L[k]) /\ Space(Q, L[k]) = Space(P, L[k])
          /\ Q.link[L[k]] = P.link[L[k]]
        BY <2>1 DEF Alike
    <2>3. Symbol(P, L[k]) \in Symbols /\ Space(P, L[k]) \in NameSpaces
        BY <2>1, EntityFacts
    <2> QED BY <2>1, <2>2, <2>3, <1>1
<1> QED BY <1>2 DEF Ready

LEMMA EnvAlike ==
  ASSUME NEW T, Table(T), Chained(T), NEW U, Table(U), Alike(T, U, {}), U.env = T.env,
         NEW L \in Seq(DOMAIN T.entity), NEW top, EnvPart(T, top, L)
  PROVE  EnvPart(U, top, L)
<1> DEFINE P == stack_pop_to(T, "env", top)
           Q == stack_pop_to(U, "env", top)
<1>1. /\ top \in 0 .. Len(T.env)
      /\ \A i \in top + 1 .. Len(T.env) : \E k \in DOMAIN L : Name(T.env[i]) = NameOf(T, L[k])
      /\ Ready(P, L, 0)
    BY DEF EnvPart
<1>2. /\ Chained(U)
    <2>1. Shape(T) /\ Shape(U) /\ Off(T, {})
        BY DEF Table, Off
    <2> QED BY <2>1, AlikeMeans
<1>3. Alike(P, Q, {}) /\ Off(P, {})
    <2>1. /\ "env" \in {"env", "label"} /\ StackOf(U, "env") = StackOf(T, "env")
          /\ top \in 0 .. Len(StackOf(T, "env")) /\ Off(T, {})
          /\ \A i \in top + 1 .. Len(StackOf(T, "env")) : StackOf(T, "env")[i].old_entity \notin {}
        BY <1>1 DEF StackOf, Off
    <2> QED BY <2>1, PopToAlike
<1>4. /\ Table(P) /\ Chained(P) /\ P.entity = T.entity /\ Table(Q)
    <2>1. /\ top \in 0 .. Len(StackOf(T, "env")) /\ top \in 0 .. Len(StackOf(U, "env"))
        BY <1>1 DEF StackOf
    <2> QED BY <2>1, <1>2, PopToKeeps
<1> HIDE DEF P, Q
<1>5. Ready(Q, L, 0)
    BY <1>1, <1>3, <1>4, ReadyAlike DEF Table
<1>6. \A k \in DOMAIN L : NameOf(U, L[k]) = NameOf(T, L[k])
    BY DEF NameOf, Alike
<1> QED BY <1>1, <1>5, <1>6 DEF EnvPart, Q

LEMMA EnvPush ==
  ASSUME NEW T, Table(T), Chained(T), NEW L \in Seq(DOMAIN T.entity), NEW top,
         EnvPart(T, top, L), NEW e \in DOMAIN T.entity, \A k \in DOMAIN L : L[k] # e,
         Off(T, {e}), T.link[e] = Null, \A i \in DOMAIN T.env : T.env[i].old_entity # e,
         NEW U, Table(U), Touched(stack_push(T, "env", e), U)
  PROVE  EnvPart(U, top, Append(L, e))
<1> DEFINE V == stack_push(T, "env", e)
           P == stack_pop_to(T, "env", top)
           O == stack_pop_to(V, "env", top)
           Q == stack_pop_to(U, "env", top)
           M == Append(L, e)
           n == Len(L)
<1>1. /\ top \in 0 .. Len(T.env)
      /\ \A i \in top + 1 .. Len(T.env) : \E k \in DOMAIN L : Name(T.env[i]) = NameOf(T, L[k])
      /\ Ready(P, L, 0)
    BY DEF EnvPart
<1>2. /\ Table(V) /\ V.entity = T.entity /\ V.env = Append(T.env, Entry(T, e)) /\ Chained(V)
    <2>1. "env" \in {"env", "label"}
        OBVIOUS
    <2>2. Pushed(T, V, e)
        BY <2>1, PushMeans
    <2>3. Table(V) /\ V.entity = T.entity /\ V.env = Append(T.env, Entry(T, e))
        BY <2>1, PushFields
    <2> QED BY <2>2, <2>3 DEF Pushed
<1>3. /\ T.env \in Seq(EntryType) /\ Len(T.env) \in Nat /\ DOMAIN T.env = 1 .. Len(T.env)
      /\ n \in Nat /\ DOMAIN L = 1 .. n
    BY DEF Table, Shape
<1>4. /\ Alike(P, O, {e}) /\ Off(P, {e})
      /\ get_entity(T, Symbol(T, e), Space(T, e)) = Null => O.link[e] = Null
    <2>1. \A i \in top + 1 .. Len(T.env) : T.env[i].old_entity # e
        BY <1>1, <1>3
    <2> QED BY <2>1, <1>1, PopToPushed
<1>5. Alike(V, U, {}) /\ Off(V, {}) /\ U.env = V.env
    BY <1>2, TouchedMeans DEF Touched
<1>6. Len(V.env) = Len(T.env) + 1 /\ top \in 0 .. Len(V.env)
      /\ (\A i \in DOMAIN T.env : V.env[i] = T.env[i]) /\ V.env[Len(T.env) + 1] = Entry(T, e)
    BY <1>1, <1>2, <1>3
<1> HIDE DEF V
<1>7. Alike(O, Q, {})
    <2>1. /\ "env" \in {"env", "label"} /\ StackOf(U, "env") = StackOf(V, "env")
          /\ top \in 0 .. Len(StackOf(V, "env"))
          /\ \A i \in top + 1 .. Len(StackOf(V, "env")) : StackOf(V, "env")[i].old_entity \notin {}
        BY <1>5, <1>6 DEF StackOf
    <2> QED BY <2>1, <1>2, <1>5, PopToAlike
<1>8. /\ Table(P) /\ Chained(P) /\ P.entity = T.entity
      /\ \A r \in Symbols, m \in NameSpaces :
           (\A i \in top + 1 .. Len(T.env) : Name(T.env[i]) # << r, m >>)
              => get_entity(P, r, m) = get_entity(T, r, m)
    <2>1. "env" \in {"env", "label"} /\ top \in 0 .. Len(StackOf(T, "env")) /\ StackOf(T, "env") = T.env
        BY <1>1 DEF StackOf
    <2> QED BY <2>1, PopToKeeps
<1>9. Table(O) /\ Chained(O) /\ O.entity = T.entity
    <2>1. top \in 0 .. Len(StackOf(V, "env"))
        BY <1>6 DEF StackOf
    <2> QED BY <2>1, <1>2, PopToKeeps
<1>10. Table(Q)
    <2>1. top \in 0 .. Len(StackOf(U, "env"))
        BY <1>5, <1>6 DEF StackOf
    <2>2. Touched(V, U)
        BY DEF V
    <2>3. Chained(U)
        BY <2>2, <1>2, TouchedMeans
    <2> QED BY <2>1, <2>3, PopToKeeps
<1> HIDE DEF P, O, Q
<1>11. Alike(P, Q, {e})
    <2>1. Alike(O, Q, {e})
        BY <1>7 DEF Alike
    <2> QED BY <2>1, <1>4, <1>8, <1>9, <1>10, AlikeTrans DEF Table
<1>12. Q.link[e] = O.link[e]
    BY <1>7, <1>9 DEF Alike
<1>13. /\ \A x \in DOMAIN T.entity : /\ Symbol(Q, x) = Symbol(T, x) /\ Space(Q, x) = Space(T, x)
                                     /\ Symbol(U, x) = Symbol(T, x) /\ Space(U, x) = Space(T, x)
                                     /\ Symbol(P, x) = Symbol(T, x) /\ Space(P, x) = Space(T, x)
       /\ \A x \in DOMAIN T.entity : x # e => Q.link[x] = P.link[x]
    <2>1. \A x \in DOMAIN T.entity : /\ Symbol(P, x) = Symbol(T, x) /\ Space(P, x) = Space(T, x)
                                     /\ Symbol(V, x) = Symbol(T, x) /\ Space(V, x) = Space(T, x)
        BY <1>2, <1>8 DEF Symbol, Space
    <2>2. \A x \in DOMAIN T.entity : /\ Symbol(Q, x) = Symbol(P, x) /\ Space(Q, x) = Space(P, x)
        BY <1>8, <1>11 DEF Alike
    <2>3. \A x \in DOMAIN T.entity : /\ Symbol(U, x) = Symbol(V, x) /\ Space(U, x) = Space(V, x)
        BY <1>2, <1>5 DEF Alike
    <2>4. \A x \in DOMAIN T.entity : x # e => Q.link[x] = P.link[x]
        BY <1>8, <1>11 DEF Alike
    <2> QED BY <2>1, <2>2, <2>3, <2>4
<1>14. \A r \in Symbols, m \in NameSpaces : get_entity(Q, r, m) = get_entity(P, r, m)
    BY <1>4, <1>8, <1>10, <1>11, AlikeMeans DEF Table
<1>15. /\ Len(M) = n + 1 /\ DOMAIN M = 1 .. n + 1 /\ M[n + 1] = e
       /\ \A k \in 1 .. n : M[k] = L[k] /\ L[k] \in DOMAIN T.entity /\ L[k] # e
    BY <1>3
<1> HIDE DEF M
<1>16. ASSUME NEW k \in DOMAIN M,
              get_entity(Q, Symbol(Q, M[k]), Space(Q, M[k])) = Null,
              \A j \in DOMAIN M : 0 < j /\ j < k => NameOf(Q, M[j]) # NameOf(Q, M[k])
       PROVE  Q.link[M[k]] = Null
    <2>1. M[k] \in DOMAIN T.entity
        BY <1>15
    <2>2. Symbol(T, M[k]) \in Symbols /\ Space(T, M[k]) \in NameSpaces
        BY <2>1, EntityFacts DEF Table
    <2>3. get_entity(P, Symbol(T, M[k]), Space(T, M[k])) = Null
        BY <1>13, <1>14, <1>16, <2>1, <2>2
    <2>4. \A j \in 1 .. n : j < k => NameOf(T, L[j]) # NameOf(T, M[k])
        <3>1. ASSUME NEW j \in 1 .. n, j < k
              PROVE  NameOf(T, L[j]) # NameOf(T, M[k])
            <4>1. j \in DOMAIN M /\ 0 < j /\ M[j] = L[j] /\ L[j] \in DOMAIN T.entity
                BY <1>3, <1>15
            <4>2. NameOf(Q, M[j]) # NameOf(Q, M[k])
                BY <4>1, <3>1, <1>16
            <4> QED BY <4>1, <4>2, <2>1, <1>13 DEF NameOf
        <3> QED BY <3>1
    <2>5. CASE k \in 1 .. n
        <3>1. M[k] = L[k] /\ L[k] # e /\ k \in DOMAIN L /\ k > 0
            BY <2>5, <1>15, <1>3
        <3>2. get_entity(P, Symbol(P, L[k]), Space(P, L[k])) = Null
            BY <3>1, <2>1, <2>3, <1>13
        <3>3. \A j \in DOMAIN L : 0 < j /\ j < k =>
                << Symbol(P, L[j]), Space(P, L[j]) >> # << Symbol(P, L[k]), Space(P, L[k]) >>
            BY <2>4, <3>1, <1>3, <1>13, <1>15 DEF NameOf
        <3>4. P.link[L[k]] = Null
            BY <3>1, <3>2, <3>3, <1>1 DEF Ready
        <3> QED BY <3>1, <3>4, <2>1, <1>13
    <2>6. CASE k = n + 1
        <3>1. M[k] = e
            BY <2>6, <1>15
        <3>2. ASSUME NEW i \in top + 1 .. Len(T.env)
              PROVE  Name(T.env[i]) # << Symbol(T, e), Space(T, e) >>
            <4>1. PICK j \in DOMAIN L : Name(T.env[i]) = NameOf(T, L[j])
                BY <1>1
            <4>2. j \in 1 .. n /\ j < k
                BY <2>6, <1>3
            <4> QED BY <4>1, <4>2, <3>1, <2>4 DEF NameOf
        <3>3. get_entity(T, Symbol(T, e), Space(T, e)) = Null
            BY <3>1, <3>2, <2>2, <2>3, <1>8
        <3> QED BY <3>1, <3>3, <1>4, <1>12
    <2>7. k \in 1 .. n \/ k = n + 1
        BY <1>3, <1>15
    <2> QED BY <2>5, <2>6, <2>7
<1>17. Ready(Q, M, 0)
    BY <1>16 DEF Ready, NameOf
<1>18. ASSUME NEW i \in top + 1 .. Len(U.env)
       PROVE  \E k \in DOMAIN M : Name(U.env[i]) = NameOf(U, M[k])
    <2>1. i \in top + 1 .. Len(T.env) \/ i = Len(T.env) + 1
        BY <1>1, <1>3, <1>5, <1>6
    <2>2. CASE i \in top + 1 .. Len(T.env)
        <3>1. PICK k \in DOMAIN L : Name(T.env[i]) = NameOf(T, L[k])
            BY <1>1, <2>2
        <3>2. U.env[i] = T.env[i]
            BY <2>2, <1>1, <1>3, <1>5, <1>6
        <3>3. k \in DOMAIN M /\ M[k] = L[k] /\ L[k] \in DOMAIN T.entity
            BY <1>3, <1>15
        <3> QED BY <3>1, <3>2, <3>3, <1>13 DEF NameOf
    <2>3. CASE i = Len(T.env) + 1
        <3>1. U.env[i] = Entry(T, e)
            BY <2>3, <1>5, <1>6
        <3>2. Name(U.env[i]) = NameOf(U, e)
            BY <3>1, <1>13 DEF Name, Entry, NameOf
        <3>3. n + 1 \in DOMAIN M /\ M[n + 1] = e
            BY <1>3, <1>15
        <3> QED BY <3>2, <3>3
    <2> QED BY <2>1, <2>2, <2>3
<1>19. top \in 0 .. Len(U.env)
    BY <1>5, <1>6
<1> QED BY <1>17, <1>18, <1>19 DEF EnvPart, M, Q

ListPart(T, own, L) ==
  /\ own \in DOMAIN T.scope
  /\ Linked(T.scope[own].entities, T.next, L)
  /\ T.scope[own].last_entity = IF L = <<>> THEN Null ELSE L[Len(L)]
  /\ \A s \in DOMAIN T.scope : s # own => \A k \in DOMAIN L : T.scope[s].last_entity # L[k]

\* What append_entity() does to the lists.
Extended(T, U, s, e) ==
  /\ DOMAIN U.scope = DOMAIN T.scope /\ DOMAIN U.next = DOMAIN T.next
  /\ \A x \in DOMAIN T.scope :
       /\ U.scope[x].last_entity = IF x = s THEN e ELSE T.scope[x].last_entity
       /\ U.scope[x].entities = IF x = s /\ T.scope[s].last_entity = Null THEN e
                                ELSE T.scope[x].entities
  /\ \A x \in DOMAIN T.next : U.next[x] = IF x = T.scope[s].last_entity THEN e ELSE T.next[x]

LEMMA AppendedExtends ==
  ASSUME NEW T, Shape(T), NEW s \in DOMAIN T.scope, NEW e, NEW U, Appended(T, U, s, e)
  PROVE  Extended(T, U, s, e)
<1>1. DOMAIN U.next = DOMAIN T.next
    BY DEF Appended, Touched, Shape
<1>2. ASSUME NEW x \in DOMAIN T.scope
      PROVE  /\ U.scope[x].last_entity = IF x = s THEN e ELSE T.scope[x].last_entity
             /\ U.scope[x].entities = IF x = s /\ T.scope[s].last_entity = Null THEN e
                                      ELSE T.scope[x].entities
    <2>1. CASE x = s
        BY <2>1 DEF Appended
    <2>2. CASE x # s
        BY <2>2 DEF Appended
    <2> QED BY <2>1, <2>2
<1> QED BY <1>1, <1>2 DEF Appended, Extended

LEMMA EnlistedExtends ==
  ASSUME NEW T, Shape(T), NEW s \in DOMAIN T.scope, NEW e, NEW U, Enlisted(T, U, e, s)
  PROVE  Extended(T, U, s, e)
<1>1. DOMAIN U.next = DOMAIN T.next
    BY DEF Enlisted, Table, Shape
<1>2. ASSUME NEW x \in DOMAIN T.scope
      PROVE  /\ U.scope[x].last_entity = IF x = s THEN e ELSE T.scope[x].last_entity
             /\ U.scope[x].entities = IF x = s /\ T.scope[s].last_entity = Null THEN e
                                      ELSE T.scope[x].entities
    <2>1. CASE x = s
        BY <2>1 DEF Enlisted
    <2>2. CASE x # s
        BY <2>2 DEF Enlisted
    <2> QED BY <2>1, <2>2
<1> QED BY <1>1, <1>2 DEF Enlisted, Extended

LEMMA LinkedAppend ==
  ASSUME NEW first, NEW link \in Seq(Nat), NEW C, Linked(first, link, C),
         NEW e \in DOMAIN link, link[e] = Null, \A k \in DOMAIN C : C[k] # e,
         NEW start, start = IF C = <<>> THEN e ELSE first,
         NEW new, DOMAIN new = DOMAIN link,
         \A x \in DOMAIN link : new[x] = IF C # <<>> /\ x = C[Len(C)] THEN e ELSE link[x]
  PROVE  Linked(start, new, Append(C, e))
<1> DEFINE n == Len(C)
           M == Append(C, e)
<1>1. /\ C \in Seq(DOMAIN link)
      /\ first = IF C = <<>> THEN Null ELSE C[1]
      /\ \A k \in DOMAIN C : link[C[k]] = IF k = Len(C) THEN Null ELSE C[k + 1]
      /\ \A j, k \in DOMAIN C : C[j] = C[k] => j = k
    BY DEF Linked
<1>2. n \in Nat /\ DOMAIN C = 1 .. n /\ (C = <<>> <=> n = 0)
    BY <1>1
<1>3. /\ Len(M) = n + 1 /\ DOMAIN M = 1 .. n + 1 /\ M[n + 1] = e
      /\ \A k \in 1 .. n : M[k] = C[k] /\ C[k] \in DOMAIN link /\ C[k] # e
      /\ M \in Seq(DOMAIN new) /\ M # <<>>
    <2>1. /\ Len(M) = n + 1 /\ DOMAIN M = 1 .. n + 1 /\ M[n + 1] = e
          /\ \A k \in 1 .. n : M[k] = C[k] /\ C[k] \in DOMAIN link
        BY <1>1, <1>2
    <2>2. M \in Seq(DOMAIN link) /\ M # <<>>
        <3>1. PICK D : D = DOMAIN link
            OBVIOUS
        <3>2. C \in Seq(D) /\ e \in D
            BY <3>1, <1>1
        <3>3. Append(C, e) \in Seq(D)
            BY ONLY <3>2
        <3>4. Len(M) # 0
            BY <2>1, <1>2
        <3>5. M # <<>>
            BY <3>4
        <3> QED BY <3>1, <3>3, <3>5
    <2>3. \A k \in 1 .. n : C[k] # e
        BY <1>2
    <2> QED BY <2>1, <2>2, <2>3
<1> HIDE DEF n, M
<1>4. start = M[1]
    <2>1. CASE n = 0
        BY <2>1, <1>2, <1>3
    <2>2. CASE n # 0
        <3>1. 1 \in 1 .. n /\ C # <<>>
            BY <2>2, <1>2
        <3> QED BY <3>1, <1>1, <1>3
    <2> QED BY <2>1, <2>2
<1>5. ASSUME NEW k \in DOMAIN M
      PROVE  new[M[k]] = IF k = Len(M) THEN Null ELSE M[k + 1]
    <2>1. CASE k = n + 1
        <3>1. ~(C # <<>> /\ e = C[Len(C)])
            <4>1. C # <<>> => n \in DOMAIN C
                BY <1>2
            <4> QED BY <4>1 DEF n
        <3>2. new[e] = link[e]
            BY <3>1
        <3> QED BY <3>2, <2>1, <1>3
    <2>2. CASE k \in 1 .. n
        <3>1. M[k] = C[k] /\ C[k] \in DOMAIN link /\ k \in DOMAIN C /\ C # <<>>
            BY <2>2, <1>2, <1>3
        <3>2. CASE k = n
            <4>1. new[C[k]] = e
                BY <3>1, <3>2 DEF n
            <4> QED BY <4>1, <3>1, <3>2, <1>2, <1>3
        <3>3. CASE k # n
            <4>0. n \in DOMAIN C
                BY <2>2, <1>2
            <4>1. n \in DOMAIN C /\ C[k] # C[n]
                BY <4>0, <3>1, <3>3, <1>1
            <4>2. new[C[k]] = link[C[k]]
                BY <3>1, <4>1 DEF n
            <4>3. k + 1 \in 1 .. n /\ k # Len(M)
                BY <3>3, <2>2, <1>2, <1>3
            <4>4. link[C[k]] = C[k + 1] /\ M[k + 1] = C[k + 1]
                BY <3>1, <3>3, <4>3, <1>1, <1>3 DEF n
            <4> QED BY <3>1, <4>2, <4>3, <4>4
        <3> QED BY <3>2, <3>3
    <2> QED BY <2>1, <2>2, <1>2, <1>3
<1>6. ASSUME NEW j \in DOMAIN M, NEW k \in DOMAIN M, M[j] = M[k]
      PROVE  j = k
    <2>1. CASE j \in 1 .. n /\ k \in 1 .. n
        BY <2>1, <1>1, <1>2, <1>3, <1>6
    <2>2. CASE j = n + 1 \/ k = n + 1
        BY <2>2, <1>2, <1>3, <1>6
    <2> QED BY <2>1, <2>2, <1>2, <1>3
<1>7. Linked(start, new, M)
    BY <1>3, <1>4, <1>5, <1>6 DEF Linked
<1> QED BY <1>7 DEF M

LEMMA LinkedKept ==
  ASSUME NEW first, NEW link \in Seq(Nat), NEW C, Linked(first, link, C),
         NEW new, DOMAIN link \subseteq DOMAIN new,
         \A k \in DOMAIN C : new[C[k]] = link[C[k]]
  PROVE  Linked(first, new, C)
<1>1. C \in Seq(DOMAIN link)
    BY DEF Linked
<1>2. C \in Seq(DOMAIN new)
    BY <1>1
<1> QED BY <1>2 DEF Linked

LEMMA ListOwn ==
  ASSUME NEW T, Shape(T), NEW U, Shape(U), NEW own, NEW L, ListPart(T, own, L),
         NEW e \in DOMAIN T.entity, Extended(T, U, own, e), T.next[e] = Null,
         \A k \in DOMAIN L : L[k] # e,
         \A s \in DOMAIN T.scope : T.scope[s].last_entity # e
  PROVE  ListPart(U, own, Append(L, e))
<1> DEFINE M == Append(L, e)
<1>1. /\ own \in DOMAIN T.scope
      /\ Linked(T.scope[own].entities, T.next, L)
      /\ T.scope[own].last_entity = IF L = <<>> THEN Null ELSE L[Len(L)]
      /\ \A s \in DOMAIN T.scope : s # own => \A k \in DOMAIN L : T.scope[s].last_entity # L[k]
    BY DEF ListPart
<1>2. L \in Seq(DOMAIN T.next)
    BY <1>1 DEF Linked
<1>3. /\ Len(L) \in Nat /\ DOMAIN L = 1 .. Len(L) /\ (L = <<>> <=> Len(L) = 0)
      /\ \A k \in DOMAIN L : L[k] \in DOMAIN T.next
      /\ DOMAIN T.next = 1 .. Len(T.entity) /\ Len(T.entity) \in Nat
    BY <1>2 DEF Shape
<1>4. L # <<>> => T.scope[own].last_entity # Null
    <2>1. L # <<>> => Len(L) \in DOMAIN L
        BY <1>3
    <2> QED BY <2>1, <1>1, <1>3 DEF Null
<1>5. U.scope[own].entities = IF L = <<>> THEN e ELSE T.scope[own].entities
    BY <1>1, <1>4 DEF Extended
<1>6. \A x \in DOMAIN T.next :
        U.next[x] = IF L # <<>> /\ x = L[Len(L)] THEN e ELSE T.next[x]
    <2>1. CASE L = <<>>
        <3>1. \A x \in DOMAIN T.next : x # Null
            BY <1>3 DEF Null
        <3> QED BY <2>1, <3>1, <1>1 DEF Extended
    <2>2. CASE L # <<>>
        BY <2>2, <1>1 DEF Extended
    <2> QED BY <2>1, <2>2
<1>7. Linked(U.scope[own].entities, U.next, M)
    <2>1. T.next \in Seq(Nat) /\ e \in DOMAIN T.next /\ DOMAIN U.next = DOMAIN T.next
        <3>1. /\ T.next \in Seq(Nat) /\ T.entity \in Seq(EntityType)
              /\ Len(T.next) = Len(T.entity)
            BY DEF Shape
        <3>2. DOMAIN T.next = DOMAIN T.entity
            BY <3>1, <1>3
        <3>3. DOMAIN U.next = DOMAIN T.next
            BY DEF Extended
        <3> QED BY <3>1, <3>2, <3>3
    <2> QED BY <2>1, <1>1, <1>5, <1>6, LinkedAppend
<1>8. /\ Len(M) = Len(L) + 1 /\ DOMAIN M = 1 .. Len(L) + 1 /\ M # <<>> /\ M[Len(M)] = e
      /\ \A k \in DOMAIN M : (k \in DOMAIN L /\ M[k] = L[k]) \/ M[k] = e
    BY <1>2
<1> HIDE DEF M
<1>9. U.scope[own].last_entity = IF M = <<>> THEN Null ELSE M[Len(M)]
    BY <1>1, <1>8 DEF Extended
<1>10. ASSUME NEW s \in DOMAIN U.scope, s # own, NEW k \in DOMAIN M
       PROVE  U.scope[s].last_entity # M[k]
    BY <1>1, <1>8, <1>10 DEF Extended
<1>11. ListPart(U, own, M)
    BY <1>1, <1>7, <1>9, <1>10 DEF ListPart, Extended
<1> QED BY <1>11 DEF M

LEMMA ListOther ==
  ASSUME NEW T, Shape(T), NEW U, Shape(U), NEW own, NEW L, ListPart(T, own, L),
         NEW s \in DOMAIN T.scope, s # own, NEW e, Extended(T, U, s, e),
         \A k \in DOMAIN L : L[k] # e
  PROVE  ListPart(U, own, L)
<1>1. /\ own \in DOMAIN T.scope
      /\ Linked(T.scope[own].entities, T.next, L)
      /\ T.scope[own].last_entity = IF L = <<>> THEN Null ELSE L[Len(L)]
      /\ \A x \in DOMAIN T.scope : x # own => \A k \in DOMAIN L : T.scope[x].last_entity # L[k]
    BY DEF ListPart
<1>2. \A k \in DOMAIN L : L[k] \in DOMAIN T.next
    BY <1>1 DEF Linked
<1>3. \A k \in DOMAIN L : U.next[L[k]] = T.next[L[k]]
    BY <1>1, <1>2 DEF Extended
<1>4. /\ U.scope[own].entities = T.scope[own].entities
      /\ U.scope[own].last_entity = T.scope[own].last_entity
    BY <1>1 DEF Extended
<1>5. Linked(U.scope[own].entities, U.next, L)
    <2>1. T.next \in Seq(Nat) /\ DOMAIN T.next \subseteq DOMAIN U.next
        BY DEF Shape, Extended
    <2> QED BY <2>1, <1>1, <1>3, <1>4, LinkedKept
<1>6. ASSUME NEW x \in DOMAIN U.scope, x # own, NEW k \in DOMAIN L
      PROVE  U.scope[x].last_entity # L[k]
    BY <1>1, <1>6 DEF Extended
<1> QED BY <1>1, <1>4, <1>5, <1>6 DEF ListPart, Extended

LEMMA ListKept ==
  ASSUME NEW T, Shape(T), NEW U, Shape(U), NEW own, NEW L, ListPart(T, own, L),
         DOMAIN T.next \subseteq DOMAIN U.next,
         \A x \in DOMAIN T.next : U.next[x] = T.next[x],
         own \in DOMAIN U.scope, U.scope[own].entities = T.scope[own].entities,
         \A s \in DOMAIN U.scope :
           IF s \in DOMAIN T.scope THEN U.scope[s].last_entity = T.scope[s].last_entity
           ELSE U.scope[s].last_entity = Null
  PROVE  ListPart(U, own, L)
<1>1. /\ own \in DOMAIN T.scope
      /\ Linked(T.scope[own].entities, T.next, L)
      /\ T.scope[own].last_entity = IF L = <<>> THEN Null ELSE L[Len(L)]
      /\ \A x \in DOMAIN T.scope : x # own => \A k \in DOMAIN L : T.scope[x].last_entity # L[k]
    BY DEF ListPart
<1>2. \A k \in DOMAIN L : L[k] \in DOMAIN T.next
    BY <1>1 DEF Linked
<1>3. \A k \in DOMAIN L : L[k] # Null
    BY <1>2 DEF Shape, Null
<1>4. Linked(U.scope[own].entities, U.next, L)
    <2>1. T.next \in Seq(Nat)
        BY DEF Shape
    <2> QED BY <2>1, <1>1, <1>2, LinkedKept
<1>5. ASSUME NEW x \in DOMAIN U.scope, x # own, NEW k \in DOMAIN L
      PROVE  U.scope[x].last_entity # L[k]
    BY <1>1, <1>3, <1>5
<1>6. U.scope[own].last_entity = T.scope[own].last_entity
    BY <1>1
<1> QED BY <1>1, <1>4, <1>5, <1>6 DEF ListPart

\* No list has e, no entry of the environment remembers it.
Hidden(T, e) ==
  /\ e \in DOMAIN T.entity /\ T.link[e] = Null
  /\ get_entity(T, Symbol(T, e), Space(T, e)) # e
  /\ \A i \in DOMAIN T.env : T.env[i].old_entity # e

FreshEntity(T, e) ==
  /\ Hidden(T, e) /\ T.next[e] = Null
  /\ \A s \in DOMAIN T.scope : T.scope[s].last_entity # e

LEMMA HiddenAlike ==
  ASSUME NEW T, Table(T), Chained(T), NEW U, Table(U), Alike(T, U, {}), U.env = T.env,
         NEW e, Hidden(T, e)
  PROVE  Hidden(U, e)
<1>1. /\ e \in DOMAIN T.entity /\ T.link[e] = Null
      /\ get_entity(T, Symbol(T, e), Space(T, e)) # e
      /\ \A i \in DOMAIN T.env : T.env[i].old_entity # e
    BY DEF Hidden
<1>2. e \in DOMAIN U.entity
    <2>1. /\ DOMAIN T.entity = 1 .. Len(T.entity) /\ DOMAIN U.entity = 1 .. Len(U.entity)
          /\ Len(T.entity) \in Nat /\ Len(U.entity) \in Nat /\ Len(T.entity) <= Len(U.entity)
        BY DEF Table, Shape, Alike
    <2> QED BY <2>1, <1>1
<1>3. Symbol(U, e) = Symbol(T, e) /\ Space(U, e) = Space(T, e) /\ U.link[e] = T.link[e]
    BY <1>1 DEF Alike
<1>4. \A r \in Symbols, n \in NameSpaces : get_entity(U, r, n) = get_entity(T, r, n)
    <2>1. Off(T, {}) /\ Shape(T) /\ Shape(U)
        BY DEF Off, Table
    <2> QED BY <2>1, AlikeMeans
<1>5. Symbol(T, e) \in Symbols /\ Space(T, e) \in NameSpaces
    BY <1>1, EntityFacts DEF Table
<1> QED BY <1>1, <1>2, <1>3, <1>4, <1>5 DEF Hidden

LEMMA HiddenPush ==
  ASSUME NEW T, Table(T), Chained(T), NEW e \in DOMAIN T.entity,
         NEW U, Pushed(T, U, e), U.entity = T.entity, U.env = Append(T.env, Entry(T, e)),
         NEW x, x # e, Hidden(T, x)
  PROVE  Hidden(U, x)
<1>1. /\ x \in DOMAIN T.entity /\ T.link[x] = Null
      /\ get_entity(T, Symbol(T, x), Space(T, x)) # x
      /\ \A i \in DOMAIN T.env : T.env[i].old_entity # x
    BY DEF Hidden
<1>2. Symbol(U, x) = Symbol(T, x) /\ Space(U, x) = Space(T, x)
    BY DEF Symbol, Space
<1>3. /\ Symbol(T, x) \in Symbols /\ Space(T, x) \in NameSpaces
      /\ Symbol(T, e) \in Symbols /\ Space(T, e) \in NameSpaces
    BY <1>1, EntityFacts DEF Table
<1>4. U.link[x] = T.link[x]
    BY <1>1 DEF Pushed
<1>5. get_entity(U, Symbol(T, x), Space(T, x)) # x
    BY <1>1, <1>3 DEF Pushed
<1>6. x # Null
    BY <1>1, EntityFacts DEF Table
<1>7. get_entity(T, Symbol(T, e), Space(T, e)) # x
    <2>1. get_entity(T, Symbol(T, e), Space(T, e)) = x
            => Symbol(T, e) = Symbol(T, x) /\ Space(T, e) = Space(T, x)
        BY <1>3, <1>6, MeaningNamed DEF Table
    <2> QED BY <2>1, <1>1
<1>8. \A i \in DOMAIN U.env : U.env[i].old_entity # x
    <2>1. /\ DOMAIN T.env = 1 .. Len(T.env) /\ Len(T.env) \in Nat
          /\ DOMAIN U.env = 1 .. Len(T.env) + 1 /\ U.env[Len(T.env) + 1] = Entry(T, e)
          /\ \A i \in 1 .. Len(T.env) : U.env[i] = T.env[i]
        BY DEF Table, Shape
    <2>2. Entry(T, e).old_entity # x
        BY <1>7 DEF Entry
    <2>3. \A i \in DOMAIN U.env : i \in 1 .. Len(T.env) \/ i = Len(T.env) + 1
        BY <2>1
    <2> QED BY <2>1, <2>2, <2>3, <1>1
<1> QED BY <1>1, <1>2, <1>4, <1>5, <1>8 DEF Hidden

LEMMA HiddenPop ==
  ASSUME NEW T, Table(T), Chained(T), NEW top \in 0 .. Len(T.env), NEW e, Hidden(T, e)
  PROVE  Hidden(stack_pop_to(T, "env", top), e)
<1> DEFINE U == stack_pop_to(T, "env", top)
<1>1. /\ e \in DOMAIN T.entity /\ T.link[e] = Null
      /\ get_entity(T, Symbol(T, e), Space(T, e)) # e
      /\ \A i \in DOMAIN T.env : T.env[i].old_entity # e
    BY DEF Hidden
<1>2. /\ Len(T.env) \in Nat /\ DOMAIN T.env = 1 .. Len(T.env) /\ T.env \in Seq(EntryType)
    BY DEF Table, Shape
<1>3. /\ U.entity = T.entity /\ U.env = SubSeq(T.env, 1, top)
      /\ U.link[e] = T.link[e] /\ get_entity(U, Symbol(T, e), Space(T, e)) # e
    <2>1. /\ "env" \in {"env", "label"} /\ StackOf(T, "env") = T.env
          /\ top \in 0 .. Len(StackOf(T, "env"))
        BY DEF StackOf
    <2>2. \A i \in top + 1 .. Len(StackOf(T, "env")) : StackOf(T, "env")[i].old_entity # e
        BY <2>1, <1>1, <1>2
    <2> QED BY <2>1, <2>2, <1>1, PopToKeeps
<1> HIDE DEF U
<1>4. DOMAIN U.env = 1 .. top /\ \A i \in 1 .. top : U.env[i] = T.env[i]
    BY <1>2, <1>3, PrefixSeq
<1>5. \A i \in DOMAIN U.env : U.env[i].old_entity # e
    BY <1>1, <1>2, <1>4
<1>6. Symbol(U, e) = Symbol(T, e) /\ Space(U, e) = Space(T, e)
    BY <1>3 DEF Symbol, Space
<1>7. Hidden(U, e)
    BY <1>1, <1>3, <1>5, <1>6 DEF Hidden
<1> QED BY <1>7 DEF U

\* A new entity is known to nobody.
LEMMA FreshAllocated ==
  ASSUME NEW T, Good(T), NEW kind \in Kinds, NEW symbol \in Symbols, NEW parent \in Nat
  PROVE  LET U == Allocate(T, kind, symbol, parent)
         IN /\ Good(U) /\ Allocated(T, U, kind, symbol, parent)
            /\ FreshEntity(U, Fresh(T)) /\ Fresh(T) \notin DOMAIN T.entity
<1> DEFINE U == Allocate(T, kind, symbol, parent)
           e == Fresh(T)
<1>1. Allocated(T, U, kind, symbol, parent) /\ Good(U)
    BY AllocateIs, GoodAllocate DEF Good
<1> HIDE DEF U
<1>2. /\ e = Len(T.entity) + 1 /\ Len(T.entity) \in Nat /\ DOMAIN T.entity = 1 .. Len(T.entity)
      /\ T.scope \in Seq(ScopeType) /\ DOMAIN T.scope = 1 .. Len(T.scope) /\ Len(T.scope) \in Nat
    BY DEF Fresh, Good, Table, Shape
<1>3. e \notin DOMAIN T.entity
    BY <1>2
<1>4. \A s \in DOMAIN U.scope : U.scope[s].last_entity # e
    <2>1. \A s \in DOMAIN T.scope : T.scope[s].last_entity # e
        BY <1>2 DEF Good, OwnsOK
    <2>2. CASE kind \in Owners
        <3>1. U.scope = Append(T.scope, NewScope)
            BY <2>2, <1>1 DEF Allocated
        <3>2. \A s \in DOMAIN U.scope :
                (s \in DOMAIN T.scope /\ U.scope[s] = T.scope[s]) \/ U.scope[s] = NewScope
            BY <3>1, <1>2
        <3>3. NewScope.last_entity # e
            BY <1>2 DEF NewScope, Null
        <3> QED BY <2>1, <3>2, <3>3
    <2>3. CASE kind \notin Owners
        BY <2>1, <2>3, <1>1 DEF Allocated
    <2> QED BY <2>2, <2>3
<1>5. Symbol(U, e) \in Symbols /\ Space(U, e) \in NameSpaces
    BY <1>1, EntityFacts DEF Allocated, Good, Table
<1>6. Hidden(U, e)
    BY <1>1, <1>5 DEF Hidden, Allocated
<1>7. FreshEntity(U, e)
    BY <1>1, <1>4, <1>6 DEF FreshEntity, Allocated
<1> QED BY <1>1, <1>3, <1>7 DEF U

\* EntitySet() leaves all this alone.
LEMMA FreshEntitySet ==
  ASSUME NEW T, Good(T), NEW U, NEW x, NEW parent, NEW complete, NEW aborted,
         EntitySet(T, U, x, parent, complete, aborted), NEW e
  PROVE  /\ FreshEntity(T, e) => FreshEntity(U, e)
         /\ Hidden(T, e) => Hidden(U, e)
<1>1. /\ Table(T) /\ Chained(T) /\ Touched(T, U) /\ U.next = T.next /\ U.scope = T.scope
      /\ U.env = T.env
    BY DEF Good, EntitySet, Touched
<1>2. Table(U) /\ Alike(T, U, {})
    BY <1>1, TouchedMeans
<1>3. Hidden(T, e) => Hidden(U, e)
    BY <1>1, <1>2, HiddenAlike
<1> QED BY <1>1, <1>3 DEF FreshEntity

\* The table in the head of a definition of the function nd: L are the
\* entities in the scope own, nd itself is not declared yet.
HeadList(T, top, own, nd, L) ==
  /\ EnvPart(T, top, L) /\ ListPart(T, own, L)
  /\ Hidden(T, nd) /\ T.entity[nd].kind = "function" /\ T.entity[nd].own = own

LEMMA HeadListType ==
  ASSUME NEW T, Table(T), NEW top, NEW own, NEW nd, NEW L, HeadList(T, top, own, nd, L)
  PROVE  /\ L \in Seq(DOMAIN T.entity) /\ top \in 0 .. Len(T.env) /\ own \in DOMAIN T.scope
         /\ nd \in DOMAIN T.entity
<1>1. Linked(T.scope[own].entities, T.next, L) /\ own \in DOMAIN T.scope
    BY DEF HeadList, ListPart
<1>2. L \in Seq(DOMAIN T.next)
    BY <1>1 DEF Linked
<1>3. DOMAIN T.next = DOMAIN T.entity
    BY DEF Table, Shape
<1>4. L \in Seq(DOMAIN T.entity)
    BY <1>2, <1>3
<1> QED BY <1>1, <1>4 DEF HeadList, EnvPart, Hidden

LEMMA HeadKept ==
  ASSUME NEW T, Good(T), NEW top, NEW own, NEW nd, NEW L, HeadList(T, top, own, nd, L),
         NEW U, Table(U), Alike(T, U, {}), U.env = T.env, ListPart(U, own, L),
         U.entity[nd].kind = T.entity[nd].kind, U.entity[nd].own = T.entity[nd].own
  PROVE  HeadList(U, top, own, nd, L)
<1>1. /\ Table(T) /\ Chained(T) /\ EnvPart(T, top, L) /\ Hidden(T, nd)
      /\ T.entity[nd].kind = "function" /\ T.entity[nd].own = own
    BY DEF Good, HeadList
<1>2. L \in Seq(DOMAIN T.entity)
    BY <1>1, HeadListType
<1>3. EnvPart(U, top, L)
    BY <1>1, <1>2, EnvAlike
<1>4. Hidden(U, nd)
    BY <1>1, HiddenAlike
<1> QED BY <1>1, <1>3, <1>4 DEF HeadList

LEMMA ListAllocated ==
  ASSUME NEW T, Shape(T), NEW kind \in Kinds, NEW symbol, NEW parent,
         NEW U, Allocated(T, U, kind, symbol, parent), NEW own, NEW L, ListPart(T, own, L)
  PROVE  /\ ListPart(U, own, L)
         /\ \A s \in DOMAIN T.scope : s \in DOMAIN U.scope /\ U.scope[s] = T.scope[s]
         /\ Len(U.scope) = Len(T.scope) + IF kind \in Owners THEN 1 ELSE 0
         /\ kind \in Owners => Len(T.scope) + 1 \in DOMAIN U.scope
                               /\ U.scope[Len(T.scope) + 1] = NewScope
<1>1. /\ Shape(U) /\ own \in DOMAIN T.scope
      /\ \A x \in DOMAIN T.entity : U.next[x] = T.next[x]
      /\ Len(U.entity) = Len(T.entity) + 1
      /\ U.scope = IF kind \in Owners THEN Append(T.scope, NewScope) ELSE T.scope
    BY DEF Allocated, Table, ListPart
<1>2. /\ DOMAIN T.next = DOMAIN T.entity /\ DOMAIN T.next \subseteq DOMAIN U.next
      /\ Len(T.scope) \in Nat /\ DOMAIN T.scope = 1 .. Len(T.scope)
    <2>1. /\ DOMAIN T.next = 1 .. Len(T.entity) /\ DOMAIN U.next = 1 .. Len(U.entity)
          /\ DOMAIN T.entity = 1 .. Len(T.entity) /\ Len(T.entity) \in Nat
        BY <1>1 DEF Shape
    <2>2. DOMAIN T.next \subseteq DOMAIN U.next
        BY <2>1, <1>1
    <2> QED BY <2>1, <2>2 DEF Shape
<1>3. /\ \A s \in DOMAIN T.scope : s \in DOMAIN U.scope /\ U.scope[s] = T.scope[s]
      /\ Len(U.scope) = Len(T.scope) + IF kind \in Owners THEN 1 ELSE 0
      /\ kind \in Owners => Len(T.scope) + 1 \in DOMAIN U.scope
                            /\ U.scope[Len(T.scope) + 1] = NewScope
      /\ \A s \in DOMAIN U.scope :
           IF s \in DOMAIN T.scope THEN U.scope[s].last_entity = T.scope[s].last_entity
           ELSE U.scope[s].last_entity = Null
    <2>1. CASE kind \in Owners
        <3>1. U.scope = Append(T.scope, NewScope)
            BY <2>1, <1>1
        <3>2. /\ DOMAIN U.scope = 1 .. Len(T.scope) + 1 /\ U.scope[Len(T.scope) + 1] = NewScope
              /\ \A s \in 1 .. Len(T.scope) : U.scope[s] = T.scope[s]
              /\ Len(U.scope) = Len(T.scope) + 1
            BY <3>1, <1>2 DEF Shape
        <3>3. NewScope.last_entity = Null
            BY DEF NewScope
        <3>4. \A s \in DOMAIN U.scope : s \in 1 .. Len(T.scope) \/ s = Len(T.scope) + 1
            BY <3>2, <1>2
        <3>5. Len(T.scope) + 1 \notin 1 .. Len(T.scope) /\ Len(T.scope) + 1 \in 1 .. Len(T.scope) + 1
            BY <1>2
        <3>6. \A s \in DOMAIN T.scope : s \in DOMAIN U.scope /\ U.scope[s] = T.scope[s]
            BY <3>2, <1>2
        <3> QED BY <2>1, <3>2, <3>3, <3>4, <3>5, <3>6, <1>2
    <2>2. CASE kind \notin Owners
        BY <2>2, <1>1, <1>2
    <2> QED BY <2>1, <2>2
<1>4. ListPart(U, own, L)
    <2>1. \A x \in DOMAIN T.next : U.next[x] = T.next[x]
        BY <1>1, <1>2
    <2>2. own \in DOMAIN U.scope /\ U.scope[own].entities = T.scope[own].entities
        BY <1>1, <1>3
    <2> QED BY <2>1, <2>2, <1>1, <1>2, <1>3, ListKept
<1> QED BY <1>3, <1>4

LEMMA HeadAllocate ==
  ASSUME NEW T, Good(T), NEW top, NEW own, NEW nd, NEW L, HeadList(T, top, own, nd, L),
         NEW kind \in Kinds, NEW symbol \in Symbols, NEW parent \in Nat
  PROVE  LET U == Allocate(T, kind, symbol, parent)
         IN /\ HeadList(U, top, own, nd, L)
            /\ Fresh(T) # nd /\ \A k \in DOMAIN L : L[k] # Fresh(T)
<1> DEFINE U == Allocate(T, kind, symbol, parent)
           e == Fresh(T)
<1>1. /\ Good(U) /\ Allocated(T, U, kind, symbol, parent) /\ FreshEntity(U, e)
      /\ e \notin DOMAIN T.entity
    BY FreshAllocated
<1> HIDE DEF U, e
<1>2. L \in Seq(DOMAIN T.entity) /\ own \in DOMAIN T.scope /\ nd \in DOMAIN T.entity
    BY HeadListType DEF Good
<1>3. e # nd /\ \A k \in DOMAIN L : L[k] # e
    BY <1>1, <1>2
<1>4. Table(U) /\ Alike(T, U, {}) /\ U.env = T.env /\ U.entity[nd] = T.entity[nd]
    BY <1>1, <1>2 DEF Allocated
<1>5. ListPart(U, own, L)
    <2>1. ListPart(T, own, L) /\ Shape(T)
        BY DEF HeadList, Good, Table
    <2> QED BY <2>1, <1>1, ListAllocated
<1>6. HeadList(U, top, own, nd, L)
    BY <1>4, <1>5, HeadKept
<1> QED BY <1>3, <1>6 DEF U, e

LEMMA HeadEntitySet ==
  ASSUME NEW T, Good(T), NEW top, NEW own, NEW nd, NEW L, HeadList(T, top, own, nd, L),
         NEW U, NEW x, NEW parent, NEW complete, NEW aborted,
         EntitySet(T, U, x, parent, complete, aborted)
  PROVE  HeadList(U, top, own, nd, L)
<1>1. /\ Table(T) /\ Chained(T) /\ Touched(T, U) /\ U.next = T.next /\ U.scope = T.scope
      /\ U.env = T.env
    BY DEF Good, EntitySet, Touched
<1>2. Table(U) /\ Alike(T, U, {})
    BY <1>1, TouchedMeans
<1>3. nd \in DOMAIN T.entity
    BY <1>1, HeadListType
<1>4. U.entity[nd].kind = T.entity[nd].kind /\ U.entity[nd].own = T.entity[nd].own
    BY <1>3 DEF EntitySet
<1>5. ListPart(U, own, L)
    BY <1>1 DEF HeadList, ListPart
<1> QED BY <1>1, <1>2, <1>4, <1>5, HeadKept

\* An entity is declared in the scope of the parameters,
LEMMA HeadEnlist ==
  ASSUME NEW T, Good(T), NEW top, NEW own, NEW nd, NEW L, HeadList(T, top, own, nd, L),
         NEW e, FreshEntity(T, e), e # nd, \A k \in DOMAIN L : L[k] # e,
         NEW U, Enlisted(T, U, e, own)
  PROVE  HeadList(U, top, own, nd, Append(L, e))
<1>1. /\ Table(T) /\ Chained(T) /\ EnvPart(T, top, L) /\ ListPart(T, own, L) /\ Hidden(T, nd)
      /\ T.entity[nd].kind = "function" /\ T.entity[nd].own = own
    BY DEF Good, HeadList
<1>2. L \in Seq(DOMAIN T.entity) /\ own \in DOMAIN T.scope
    BY <1>1, HeadListType
<1>3. /\ e \in DOMAIN T.entity /\ T.link[e] = Null /\ T.next[e] = Null
      /\ get_entity(T, Symbol(T, e), Space(T, e)) # e
      /\ \A i \in DOMAIN T.env : T.env[i].old_entity # e
      /\ \A s \in DOMAIN T.scope : T.scope[s].last_entity # e
    BY DEF FreshEntity, Hidden
<1>4. /\ Table(U) /\ Pushed(T, U, e) /\ U.entity = T.entity /\ U.env = Append(T.env, Entry(T, e))
      /\ Touched(stack_push(T, "env", e), U)
    BY DEF Enlisted
<1>5. EnvPart(U, top, Append(L, e))
    <2>1. Off(T, {e})
        BY <1>3 DEF Off
    <2> QED BY <2>1, <1>1, <1>2, <1>3, <1>4, EnvPush
<1>6. ListPart(U, own, Append(L, e))
    <2>1. Extended(T, U, own, e)
        BY <1>1, <1>2, EnlistedExtends DEF Table
    <2> QED BY <2>1, <1>1, <1>3, <1>4, ListOwn DEF Table
<1>7. Hidden(U, nd)
    BY <1>1, <1>3, <1>4, HiddenPush
<1> QED BY <1>1, <1>4, <1>5, <1>6, <1>7 DEF HeadList

\* and a member in another scope.
LEMMA HeadMember ==
  ASSUME NEW T, Good(T), NEW top, NEW own, NEW nd, NEW L, HeadList(T, top, own, nd, L),
         NEW e, \A k \in DOMAIN L : L[k] # e,
         NEW s \in DOMAIN T.scope, s # own, NEW U, Appended(T, U, s, e)
  PROVE  HeadList(U, top, own, nd, L)
<1>1. /\ Table(T) /\ Chained(T) /\ Touched(T, U) /\ U.entity = T.entity /\ U.env = T.env
    BY DEF Good, Appended, Touched
<1>2. Table(U) /\ Alike(T, U, {})
    BY <1>1, TouchedMeans
<1>3. ListPart(U, own, L)
    <2>1. Extended(T, U, s, e)
        BY <1>1, AppendedExtends DEF Table
    <2> QED BY <2>1, <1>1, <1>2, ListOther DEF HeadList, Table
<1> QED BY <1>1, <1>2, <1>3, HeadKept

\* record_entity() of a new entity.
LEMMA HeadRecord ==
  ASSUME NEW T, Good(T), NEW top, NEW own, NEW nd, NEW L, HeadList(T, top, own, nd, L),
         NEW e, FreshEntity(T, e), e # nd, \A k \in DOMAIN L : L[k] # e
  PROVE  /\ Good(record_entity(T, own, e))
         /\ \E M : HeadList(record_entity(T, own, e), top, own, nd, M)
<1> DEFINE U == record_entity(T, own, e)
           p == get_entity(T, T.entity[e].symbol, "normal")
<1>1. /\ e \in DOMAIN T.entity /\ T.link[e] = Null /\ Table(T) /\ Chained(T)
    BY DEF FreshEntity, Hidden, Good
<1>2. own \in DOMAIN T.scope
    BY <1>1, HeadListType
<1>3. Good(U)
    BY <1>1, <1>2, GoodRecord
<1>4. IF Merges(T, own, e, p) THEN Merged(T, U, p)
      ELSE \E V : Mark(T, V, own, e) /\ Enlisted(V, U, e, own) /\ Table(V) /\ Chained(V)
    BY <1>1, <1>2, RecordEntityIs
<1> HIDE DEF U, p
<1>5. CASE Merges(T, own, e, p)
    <2>1. Merged(T, U, p)
        BY <1>4, <1>5
    <2>2. HeadList(U, top, own, nd, L)
        BY <2>1, HeadEntitySet DEF Merged
    <2> QED BY <2>2, <1>3 DEF U
<1>6. CASE ~Merges(T, own, e, p)
    <2>1. PICK V : Mark(T, V, own, e) /\ Enlisted(V, U, e, own)
        BY <1>4, <1>6
    <2>2. Good(V) /\ FreshEntity(V, e)
        BY <2>1, GoodEntitySet, FreshEntitySet DEF Mark
    <2>3. HeadList(V, top, own, nd, L)
        BY <2>1, HeadEntitySet DEF Mark
    <2>4. HeadList(U, top, own, nd, Append(L, e))
        BY <2>1, <2>2, <2>3, HeadEnlist
    <2> QED BY <2>4, <1>3 DEF U
<1> QED BY <1>5, <1>6

\* Other entities stay new when one is allocated,
LEMMA FreshBesideAllocated ==
  ASSUME NEW T, Good(T), NEW kind \in Kinds, NEW symbol, NEW parent,
         NEW U, Allocated(T, U, kind, symbol, parent), NEW x
  PROVE  /\ Hidden(T, x) => Hidden(U, x)
         /\ FreshEntity(T, x) => FreshEntity(U, x)
<1>1. Table(T) /\ Chained(T) /\ Table(U) /\ Alike(T, U, {}) /\ U.env = T.env
    BY DEF Good, Allocated
<1>2. Hidden(T, x) => Hidden(U, x)
    BY <1>1, HiddenAlike
<1>3. ASSUME FreshEntity(T, x)
      PROVE  FreshEntity(U, x)
    <2>1. /\ x \in DOMAIN T.entity /\ T.next[x] = Null
          /\ \A s \in DOMAIN T.scope : T.scope[s].last_entity # x
        BY <1>3 DEF FreshEntity, Hidden
    <2>2. U.next[x] = Null
        BY <2>1 DEF Allocated
    <2>3. \A s \in DOMAIN U.scope : U.scope[s].last_entity # x
        <3>1. CASE kind \in Owners
            <4>1. U.scope = Append(T.scope, NewScope)
                BY <3>1 DEF Allocated
            <4>2. T.scope \in Seq(ScopeType)
                BY <1>1 DEF Table, Shape
            <4>3. \A s \in DOMAIN U.scope :
                    (s \in DOMAIN T.scope /\ U.scope[s] = T.scope[s]) \/ U.scope[s] = NewScope
                BY <4>1, <4>2
            <4>4. NewScope.last_entity # x
                BY <2>1, <1>1, EntityFacts DEF NewScope, Table
            <4> QED BY <2>1, <4>3, <4>4
        <3>2. CASE kind \notin Owners
            BY <3>2, <2>1 DEF Allocated
        <3> QED BY <3>1, <3>2
    <2> QED BY <1>2, <1>3, <2>2, <2>3 DEF FreshEntity
<1> QED BY <1>2, <1>3

\* and when another is appended to a list.
LEMMA FreshBesideAppended ==
  ASSUME NEW T, Good(T), NEW s \in DOMAIN T.scope, NEW e, NEW U, Appended(T, U, s, e), NEW x
  PROVE  /\ Hidden(T, x) => Hidden(U, x)
         /\ FreshEntity(T, x) /\ x # e => FreshEntity(U, x)
<1>1. Table(T) /\ Chained(T) /\ Touched(T, U) /\ U.env = T.env
    BY DEF Good, Appended, Touched
<1>2. Table(U) /\ Alike(T, U, {})
    BY <1>1, TouchedMeans
<1>3. Hidden(T, x) => Hidden(U, x)
    BY <1>1, <1>2, HiddenAlike
<1>4. ASSUME FreshEntity(T, x), x # e
      PROVE  FreshEntity(U, x)
    <2>1. /\ x \in DOMAIN T.entity /\ T.next[x] = Null
          /\ \A y \in DOMAIN T.scope : T.scope[y].last_entity # x
        BY <1>4 DEF FreshEntity, Hidden
    <2>2. x \in DOMAIN T.next
        BY <2>1, <1>1, EntityFacts DEF Table
    <2>3. Extended(T, U, s, e)
        BY <1>1, AppendedExtends DEF Table
    <2>4. U.next[x] = Null
        BY <2>1, <2>2, <2>3 DEF Extended
    <2>5. \A y \in DOMAIN U.scope : U.scope[y].last_entity # x
        BY <2>1, <2>3, <1>4 DEF Extended
    <2> QED BY <1>3, <1>4, <2>4, <2>5 DEF FreshEntity
<1> QED BY <1>3, <1>4

IsDeclaring(w, T, s, q) ==
  w = [i \in 0 .. Len(q) |->
         IF i = 0 THEN Allocate(T, "function", s, Null)
         ELSE append_entity(Allocate(w[i - 1], "parameter", q[i], Null),
                            Len(T.scope) + 1, Fresh(w[i - 1]))]

LEMMA DeclaringExists ==
  ASSUME NEW T, NEW s, NEW q, Len(q) \in Nat
  PROVE  \E w : IsDeclaring(w, T, s, q)
<1> DEFINE n == Len(q)
           A == Allocate(T, "function", s, Null)
           F(V, i) == append_entity(Allocate(V, "parameter", q[i], Null),
                                    Len(T.scope) + 1, Fresh(V))
           Is(w, m) == w = [i \in 0 .. m |-> IF i = 0 THEN A ELSE F(w[i - 1], i)]
           S == { m \in Nat : \E w : Is(w, m) }
<1>0. ASSUME NEW w, Is(w, n) PROVE IsDeclaring(w, T, s, q)
    BY <1>0 DEF IsDeclaring
<1> HIDE DEF A, F
<1>1. 0 \in S
    <2>1. Is([i \in 0 .. 0 |-> A], 0)
        OBVIOUS
    <2> QED BY <2>1
<1>2. ASSUME NEW m \in Nat, m \in S PROVE m + 1 \in S
    <2>1. PICK w : Is(w, m)
        BY <1>2
    <2> DEFINE g == [i \in 0 .. m + 1 |-> IF i = m + 1 THEN F(w[m], m + 1) ELSE w[i]]
    <2>2. ASSUME NEW i \in 0 .. m + 1
          PROVE  g[i] = IF i = 0 THEN A ELSE F(g[i - 1], i)
        <3>1. CASE i = m + 1
            <4>1. i # 0 /\ i - 1 = m /\ m \in 0 .. m + 1 /\ m # m + 1
                BY <3>1
            <4>2. g[m] = w[m] /\ g[i] = F(w[m], m + 1)
                BY <4>1, <3>1
            <4> HIDE DEF g
            <4> QED BY <4>1, <4>2, <3>1
        <3>2. CASE i # m + 1
            <4>1. i \in 0 .. m /\ (i # 0 => i - 1 \in 0 .. m + 1 /\ i - 1 # m + 1)
                BY <3>2
            <4>2. w[i] = IF i = 0 THEN A ELSE F(w[i - 1], i)
                BY <4>1, <2>1
            <4>3. g[i] = w[i] /\ (i # 0 => g[i - 1] = w[i - 1])
                BY <4>1, <3>2
            <4> HIDE DEF g
            <4> QED BY <4>2, <4>3
        <3> QED BY <3>1, <3>2
    <2>3. g = [i \in 0 .. m + 1 |-> g[i]]
        OBVIOUS
    <2> HIDE DEF g
    <2>4. Is(g, m + 1)
        BY <2>2, <2>3
    <2> QED BY <2>4
<1>3. n \in S
    <2> HIDE DEF S
    <2> QED BY <1>1, <1>2, Induction
<1>4. PICK w : Is(w, n)
    BY <1>3
<1> QED BY <1>0, <1>4

\* The entities of a function declarator behind the table T: the function is
\* Fresh(T), its first i parameters are the next ones.
NewParameters(T, i) == [k \in 1 .. i |-> Fresh(T) + k]

Declares(T, W, s, q, i) ==
  /\ Good(W) /\ Alike(T, W, {})
  /\ W.env = T.env /\ W.label = T.label /\ W.aborted = T.aborted
  /\ Len(W.entity) = Fresh(T) + i /\ Len(W.scope) = Len(T.scope) + 1
  /\ \A x \in DOMAIN T.entity : W.entity[x] = T.entity[x]
  /\ \A x \in DOMAIN T.scope : W.scope[x] = T.scope[x]
  /\ FreshEntity(W, Fresh(T))
  /\ W.entity[Fresh(T)] = [kind |-> "function", symbol |-> s, parent_scope |-> Null,
                           own |-> Len(T.scope) + 1, complete |-> FALSE]
  /\ \A k \in 1 .. i : /\ Hidden(W, Fresh(T) + k)
                       /\ W.entity[Fresh(T) + k]
                            = [kind |-> "parameter", symbol |-> q[k], parent_scope |-> Null,
                               own |-> Null, complete |-> FALSE]
  /\ ListPart(W, Len(T.scope) + 1, NewParameters(T, i))

LEMMA NewParametersAre ==
  ASSUME NEW T, Shape(T), NEW i \in Nat
  PROVE  /\ NewParameters(T, i) \in Seq(Nat) /\ Len(NewParameters(T, i)) = i
         /\ DOMAIN NewParameters(T, i) = 1 .. i
         /\ \A k \in 1 .. i : NewParameters(T, i)[k] = Fresh(T) + k
         /\ Append(NewParameters(T, i), Fresh(T) + (i + 1)) = NewParameters(T, i + 1)
<1>1. Fresh(T) \in Nat
    BY DEF Shape, Fresh
<1>2. \A j \in Nat : /\ NewParameters(T, j) \in Seq(Nat) /\ Len(NewParameters(T, j)) = j
                     /\ DOMAIN NewParameters(T, j) = 1 .. j
                     /\ \A k \in 1 .. j : NewParameters(T, j)[k] = Fresh(T) + k
    BY <1>1 DEF NewParameters
<1>3. PICK a, b, e : a = NewParameters(T, i) /\ b = NewParameters(T, i + 1) /\ e = Fresh(T) + (i + 1)
    OBVIOUS
<1>4. /\ a \in Seq(Nat) /\ Len(a) = i /\ b \in Seq(Nat) /\ Len(b) = i + 1 /\ e \in Nat
      /\ \A k \in 1 .. i : b[k] = a[k]
      /\ b[i + 1] = e
    <2>1. i + 1 \in Nat /\ i + 1 \in 1 .. i + 1 /\ 1 .. i \subseteq 1 .. i + 1
        OBVIOUS
    <2>2. /\ a \in Seq(Nat) /\ Len(a) = i /\ b \in Seq(Nat) /\ Len(b) = i + 1
        BY <2>1, <1>2, <1>3
    <2>3. e \in Nat
        BY <1>1, <1>3
    <2>4. \A k \in 1 .. i : b[k] = a[k]
        BY <2>1, <1>2, <1>3
    <2>5. b[i + 1] = e
        BY <2>1, <1>2, <1>3
    <2> QED BY <2>2, <2>3, <2>4, <2>5
<1>5. Append(a, e) = b
    BY ONLY <1>4, i \in Nat
<1> QED BY <1>2, <1>3, <1>5

LEMMA DeclaringStart ==
  ASSUME NEW T, Good(T), NEW s \in Symbols, NEW q
  PROVE  Declares(T, Allocate(T, "function", s, Null), s, q, 0)
<1> DEFINE A == Allocate(T, "function", s, Null)
           own == Len(T.scope) + 1
           L == NewParameters(T, 0)
<1>1. "function" \in Kinds /\ Null \in Nat /\ "function" \in Owners
    BY DEF Kinds, Null, Owners
<1>2. Good(A) /\ Allocated(T, A, "function", s, Null) /\ FreshEntity(A, Fresh(T))
    BY <1>1, FreshAllocated
<1> HIDE DEF A
<1>3. /\ Shape(T) /\ Shape(A) /\ Fresh(T) = Len(T.entity) + 1 /\ Fresh(T) \in Nat
      /\ Len(T.scope) \in Nat /\ DOMAIN T.scope = 1 .. Len(T.scope)
    BY <1>2 DEF Good, Table, Shape, Fresh
<1>4. /\ A.scope = Append(T.scope, NewScope)
      /\ A.entity[Fresh(T)] = [kind |-> "function", symbol |-> s, parent_scope |-> Null,
                               own |-> own, complete |-> FALSE]
      /\ Len(A.entity) = Len(T.entity) + 1
    BY <1>1, <1>2 DEF Allocated
<1>5. /\ Len(A.scope) = own /\ DOMAIN A.scope = 1 .. own /\ A.scope[own] = NewScope
      /\ \A x \in DOMAIN T.scope : A.scope[x] = T.scope[x]
    BY <1>3, <1>4 DEF Shape
<1>6. L = <<>>
    <2>1. L \in Seq(Nat) /\ Len(L) = 0
        BY <1>3, NewParametersAre
    <2> HIDE DEF L
    <2> QED BY <2>1
<1>7. ListPart(A, own, <<>>)
    <2>1. own \in DOMAIN A.scope
        BY <1>3, <1>5
    <2>2. Linked(A.scope[own].entities, A.next, <<>>)
        BY <1>5 DEF Linked, NewScope
    <2>3. A.scope[own].last_entity = Null
        BY <1>5 DEF NewScope
    <2> QED BY <2>1, <2>2, <2>3 DEF ListPart
<1>8. Declares(T, A, s, q, 0)
    <2>1. Alike(T, A, {}) /\ A.env = T.env /\ A.label = T.label /\ A.aborted = T.aborted
        BY <1>2 DEF Allocated
    <2>2. \A x \in DOMAIN T.entity : A.entity[x] = T.entity[x]
        BY <1>2 DEF Allocated
    <2>3. Len(A.entity) = Fresh(T) + 0
        BY <1>3, <1>4
    <2>4. \A k : k \notin 1 .. 0
        OBVIOUS
    <2>5. ListPart(A, own, NewParameters(T, 0))
        BY <1>6, <1>7
    <2> QED BY <1>2, <1>4, <1>5, <2>1, <2>2, <2>3, <2>4, <2>5 DEF Declares
<1> QED BY <1>8 DEF A

LEMMA DeclaringStep ==
  ASSUME NEW T, Good(T), NEW s \in Symbols, NEW q \in Seq(Symbols), NEW i \in Nat, i + 1 \in DOMAIN q,
         NEW W, Declares(T, W, s, q, i)
  PROVE  Declares(T, append_entity(Allocate(W, "parameter", q[i + 1], Null),
                                   Len(T.scope) + 1, Fresh(W)), s, q, i + 1)
<1> DEFINE V == Allocate(W, "parameter", q[i + 1], Null)
           own == Len(T.scope) + 1
           f == Fresh(T)
           e == Fresh(W)
           U == append_entity(V, own, e)
           L == NewParameters(T, i)
<1>1. /\ Good(W) /\ Alike(T, W, {})
      /\ W.env = T.env /\ W.label = T.label /\ W.aborted = T.aborted
      /\ Len(W.entity) = f + i /\ Len(W.scope) = Len(T.scope) + 1
      /\ \A x \in DOMAIN T.entity : W.entity[x] = T.entity[x]
      /\ \A x \in DOMAIN T.scope : W.scope[x] = T.scope[x]
      /\ FreshEntity(W, f)
      /\ W.entity[f] = [kind |-> "function", symbol |-> s, parent_scope |-> Null,
                        own |-> own, complete |-> FALSE]
      /\ \A k \in 1 .. i : /\ Hidden(W, f + k)
                           /\ W.entity[f + k]
                                = [kind |-> "parameter", symbol |-> q[k], parent_scope |-> Null,
                                   own |-> Null, complete |-> FALSE]
      /\ ListPart(W, own, L)
    BY DEF Declares
<1>2. "parameter" \in Kinds /\ Null \in Nat /\ "parameter" \notin Owners /\ q[i + 1] \in Symbols
    BY DEF Kinds, Null, Owners
<1>3. /\ Good(V) /\ Allocated(W, V, "parameter", q[i + 1], Null) /\ FreshEntity(V, e)
      /\ e \notin DOMAIN W.entity
    BY <1>1, <1>2, FreshAllocated
<1> HIDE DEF V
<1>4. /\ f \in Nat /\ f = Len(T.entity) + 1 /\ e = f + (i + 1) /\ Len(T.scope) \in Nat
      /\ DOMAIN T.scope = 1 .. Len(T.scope) /\ Shape(T) /\ Len(T.entity) \in Nat
      /\ DOMAIN T.entity = 1 .. Len(T.entity) /\ DOMAIN W.entity = 1 .. f + i
      /\ Shape(V) /\ Shape(W)
    <2>1. e = Len(W.entity) + 1 /\ f = Len(T.entity) + 1 /\ Len(T.entity) \in Nat
        BY DEF Good, Table, Shape, Fresh
    <2>2. Shape(T) /\ Shape(V) /\ Shape(W)
        BY <1>1, <1>3 DEF Good, Table
    <2>3. Len(T.scope) \in Nat /\ DOMAIN T.scope = 1 .. Len(T.scope)
          /\ DOMAIN T.entity = 1 .. Len(T.entity) /\ DOMAIN W.entity = 1 .. Len(W.entity)
        BY <2>2 DEF Shape
    <2>4. Len(W.entity) = f + i
        BY <1>1
    <2> HIDE DEF f, e
    <2>5. PICK n, w : n = Len(T.entity) /\ w = Len(W.entity)
        OBVIOUS
    <2>6. n \in Nat /\ f = n + 1 /\ e = w + 1 /\ w = f + i
        BY <2>1, <2>4, <2>5
    <2>7. f \in Nat /\ e = f + (i + 1)
        BY ONLY <2>6, i \in Nat
    <2> QED BY <2>1, <2>2, <2>3, <2>4, <2>7
<1>5. ListPart(V, own, L) /\ V.scope = W.scope
    <2>1. V.scope = W.scope
        BY <1>2, <1>3 DEF Allocated
    <2> HIDE DEF L, own, e
    <2>2. PICK z, k : z = q[i + 1] /\ k = "parameter"
        OBVIOUS
    <2>3. Allocated(W, V, k, z, Null) /\ k \in Kinds
        BY <2>2, <1>2, <1>3
    <2>4. ListPart(W, own, L) /\ Shape(W)
        BY <1>1, <1>4
    <2>5. ListPart(V, own, L)
        BY <2>3, <2>4, ListAllocated
    <2> QED BY <2>1, <2>5
<1>6. own \in DOMAIN V.scope
    BY <1>5 DEF ListPart
<1>7. Appended(V, U, own, e)
    <2>1. e \in Nat
        BY <1>4
    <2> QED BY <2>1, <1>4, <1>6, AppendEntityIs
<1> HIDE DEF U
<1>8. e \in DOMAIN V.entity /\ e # f /\ \A k \in 1 .. i : e # f + k
    <2>1. e \in DOMAIN V.entity
        BY <1>3 DEF FreshEntity, Hidden
    <2> HIDE DEF e, f
    <2>2. f \in Nat /\ e = f + (i + 1)
        BY <1>4
    <2>3. e # f /\ \A k \in 1 .. i : e # f + k
        BY ONLY <2>2, i \in Nat
    <2> QED BY <2>1, <2>3
<1>9. Good(U)
    BY <1>3, <1>6, <1>7, <1>8, GoodAppended
<1>10. /\ Table(U) /\ Chained(U) /\ U.entity = V.entity /\ U.aborted = V.aborted
       /\ U.env = V.env /\ U.label = V.label /\ Alike(V, U, {})
    <2>1. Table(V) /\ Chained(V) /\ Touched(V, U)
        BY <1>3, <1>7 DEF Good, Appended
    <2>2. Alike(V, U, {})
        BY <2>1, TouchedMeans
    <2> QED BY <2>1, <2>2, <1>7, <1>9 DEF Good, Appended, Touched
<1>11. /\ V.env = W.env /\ V.label = W.label /\ V.aborted = W.aborted /\ Alike(W, V, {})
       /\ Len(V.entity) = Len(W.entity) + 1
       /\ \A x \in DOMAIN W.entity : V.entity[x] = W.entity[x]
       /\ V.entity[e] = [kind |-> "parameter", symbol |-> q[i + 1], parent_scope |-> Null,
                         own |-> Null, complete |-> FALSE]
    BY <1>2, <1>3 DEF Allocated
<1>12. Alike(T, U, {})
    <2>1. Shape(U)
        BY <1>10 DEF Table
    <2>2. Alike(W, U, {})
        BY <2>1, <1>4, <1>10, <1>11, AlikeTrans
    <2> QED BY <2>1, <2>2, <1>1, <1>4, AlikeTrans
<1>13. \A x : (FreshEntity(W, x) /\ x # e => FreshEntity(U, x)) /\ (Hidden(W, x) => Hidden(U, x))
    <2>1. ASSUME NEW x
          PROVE  (FreshEntity(W, x) /\ x # e => FreshEntity(U, x)) /\ (Hidden(W, x) => Hidden(U, x))
        <3>1. (Hidden(W, x) => Hidden(V, x)) /\ (FreshEntity(W, x) => FreshEntity(V, x))
            BY <1>1, <1>2, <1>3, FreshBesideAllocated
        <3>2. (Hidden(V, x) => Hidden(U, x)) /\ (FreshEntity(V, x) /\ x # e => FreshEntity(U, x))
            BY <1>3, <1>6, <1>7, FreshBesideAppended
        <3> QED BY <3>1, <3>2
    <2> QED BY <2>1
<1>14. Hidden(U, e)
    <2>1. Hidden(V, e)
        BY <1>3 DEF FreshEntity
    <2> QED BY <2>1, <1>3, <1>6, <1>7, FreshBesideAppended
<1>15. ListPart(U, own, NewParameters(T, i + 1))
    <2>1. Extended(V, U, own, e)
        BY <1>4, <1>6, <1>7, AppendedExtends
    <2>2. /\ DOMAIN L = 1 .. i /\ \A k \in 1 .. i : L[k] = f + k
        BY <1>4, NewParametersAre
    <2>3. Append(L, e) = NewParameters(T, i + 1)
        BY <1>4, NewParametersAre
    <2> HIDE DEF L
    <2>4. ListPart(U, own, Append(L, e))
        <3>1. V.next[e] = Null /\ \A x \in DOMAIN V.scope : V.scope[x].last_entity # e
            BY <1>3 DEF FreshEntity
        <3>2. \A k \in DOMAIN L : L[k] # e
            BY <2>2, <1>8
        <3>3. Shape(U)
            BY <1>10 DEF Table
        <3> QED BY <3>1, <3>2, <3>3, <2>1, <1>4, <1>5, <1>8, ListOwn
    <2> QED BY <2>3, <2>4
<1> HIDE DEF e, f, own, L
<1>16. Len(U.entity) = f + (i + 1) /\ Len(U.scope) = Len(T.scope) + 1
    <2>1. DOMAIN U.scope = DOMAIN V.scope
        BY <1>7 DEF Appended
    <2>2. Len(U.scope) = Len(V.scope)
        <3>1. U.scope \in Seq(ScopeType) /\ V.scope \in Seq(ScopeType)
            BY <1>4, <1>10 DEF Table, Shape
        <3>2. PICK a, b : a = U.scope /\ b = V.scope
            OBVIOUS
        <3>3. a \in Seq(ScopeType) /\ b \in Seq(ScopeType) /\ DOMAIN a = DOMAIN b
            BY <2>1, <3>1, <3>2
        <3>4. Len(a) = Len(b)
            BY ONLY <3>3
        <3> QED BY <3>2, <3>4
    <2>3. Len(U.scope) = Len(T.scope) + 1
        BY <2>2, <1>1, <1>5
    <2>4. Len(U.entity) = (f + i) + 1
        BY <1>1, <1>10, <1>11
    <2>5. f \in Nat
        BY <1>4
    <2>6. (f + i) + 1 = f + (i + 1)
        BY ONLY <2>5, i \in Nat
    <2> QED BY <2>3, <2>4, <2>6
<1>17. \A x \in DOMAIN T.entity : x \in DOMAIN W.entity
    BY <1>4
<1>18. \A x \in DOMAIN T.scope : U.scope[x] = T.scope[x]
    <2>1. \A x \in DOMAIN T.scope : x # own /\ x \in DOMAIN V.scope
        <3>1. DOMAIN V.scope = 1 .. Len(T.scope) + 1
            BY <1>1, <1>4, <1>5 DEF Shape
        <3> QED BY <3>1, <1>4 DEF own
    <2> QED BY <2>1, <1>1, <1>5, <1>7 DEF Appended
<1>19. ASSUME NEW k \in 1 .. i + 1
       PROVE  /\ Hidden(U, f + k)
              /\ U.entity[f + k] = [kind |-> "parameter", symbol |-> q[k], parent_scope |-> Null,
                                    own |-> Null, complete |-> FALSE]
    <2>1. k \in 1 .. i \/ k = i + 1
        OBVIOUS
    <2>2. CASE k \in 1 .. i
        <3>1. f + k \in DOMAIN W.entity
            BY <2>2, <1>4
        <3> QED BY <3>1, <2>2, <1>1, <1>10, <1>11, <1>13
    <2>3. CASE k = i + 1
        BY <2>3, <1>4, <1>10, <1>11, <1>14
    <2> QED BY <2>1, <2>2, <2>3
<1>20. /\ U.env = T.env /\ U.label = T.label /\ U.aborted = T.aborted
    BY <1>1, <1>10, <1>11
<1>21. \A x \in DOMAIN T.entity : U.entity[x] = T.entity[x]
    BY <1>1, <1>10, <1>11, <1>17
<1>22. /\ FreshEntity(U, f)
       /\ U.entity[f] = [kind |-> "function", symbol |-> s, parent_scope |-> Null,
                         own |-> own, complete |-> FALSE]
    <2>1. f \in DOMAIN W.entity
        BY <1>1 DEF FreshEntity, Hidden
    <2> QED BY <2>1, <1>1, <1>8, <1>10, <1>11, <1>13
<1>23. Declares(T, U, s, q, i + 1)
    BY <1>9, <1>12, <1>15, <1>16, <1>18, <1>19, <1>20, <1>21, <1>22 DEF Declares, f, own
<1> QED BY <1>23 DEF U, V, e, own

LEMMA DeclaratorIs ==
  ASSUME Good(table), NEW s \in Symbols, NEW q \in Seq(Symbols)
  PROVE  Declares(table, Declarator(s, q), s, q, Len(q))
<1> DEFINE own == Len(table.scope) + 1
           U == Declarator(s, q)
           w == CHOOSE w : w = [i \in 0 .. Len(q) |->
                  IF i = 0 THEN Allocate(table, "function", s, Null)
                  ELSE append_entity(Allocate(w[i - 1], "parameter", q[i], Null),
                                     own, Fresh(w[i - 1]))]
<1>1. U = w[Len(q)]
    BY DEF Declarator
<1>2. IsDeclaring(w, table, s, q)
    <2>1. \E g : IsDeclaring(g, table, s, q)
        <3>1. Len(q) \in Nat
            OBVIOUS
        <3> QED BY <3>1, DeclaringExists
    <2>2. w = CHOOSE g : IsDeclaring(g, table, s, q)
        BY DEF IsDeclaring
    <2> HIDE DEF w
    <2> QED BY <2>1, <2>2
<1> HIDE DEF w, U
<1> DEFINE n == Len(q)
           S == { i \in 0 .. n : Declares(table, w[i], s, q, i) }
<1>3. n \in Nat /\ DOMAIN q = 1 .. n
    OBVIOUS
<1>4. 0 \in S
    <2>1. w[0] = Allocate(table, "function", s, Null) /\ 0 \in 0 .. n
        BY <1>2, <1>3 DEF IsDeclaring
    <2> QED BY <2>1, DeclaringStart
<1>5. ASSUME NEW i \in 0 .. n, i \in S, i # n
      PROVE  i + 1 \in S
    <2>1. i \in Nat /\ i + 1 \in 0 .. n /\ i + 1 # 0 /\ i + 1 - 1 = i /\ i + 1 \in DOMAIN q
        <3>1. PICK m : m = n
            OBVIOUS
        <3>2. m \in Nat /\ i \in 0 .. m /\ i # m
            BY <3>1, <1>3, <1>5
        <3>3. i \in Nat /\ i + 1 \in 0 .. m /\ i + 1 # 0 /\ i + 1 - 1 = i /\ i + 1 \in 1 .. m
            BY ONLY <3>2
        <3> QED BY <3>1, <3>3, <1>3
    <2>2. PICK W : W = w[i]
        OBVIOUS
    <2>3. Declares(table, W, s, q, i)
        BY <2>2, <1>5
    <2>4. w[i + 1] = append_entity(Allocate(W, "parameter", q[i + 1], Null),
                                   own, Fresh(W))
        <3>1. w[i + 1] = IF i + 1 = 0 THEN Allocate(table, "function", s, Null)
                         ELSE append_entity(Allocate(w[i + 1 - 1], "parameter", q[i + 1], Null),
                                            own, Fresh(w[i + 1 - 1]))
            BY <2>1, <1>2 DEF IsDeclaring
        <3> QED BY <3>1, <2>1, <2>2
    <2>5. Declares(table, w[i + 1], s, q, i + 1)
        <3>1. Declares(table, append_entity(Allocate(W, "parameter", q[i + 1], Null),
                                            Len(table.scope) + 1, Fresh(W)), s, q, i + 1)
            BY <2>1, <2>3, DeclaringStep
        <3> QED BY <3>1, <2>4
    <2> QED BY <2>1, <2>5
<1>6. \A i \in 0 .. n : i \in S
    <2> HIDE DEF S
    <2> QED BY <1>3, <1>4, <1>5, Upwards
<1>7. n \in S
    <2> HIDE DEF S
    <2> QED BY <1>3, <1>6
<1> QED BY <1>1, <1>7 DEF U

-----------------------------------------------------------------------------
(***************************************************************************)
(* Pushing the parameters.                                                 *)
(***************************************************************************)
LEMMA GoodParameterPushed ==
  ASSUME NEW T, Good(T), NEW U, NEW p, NEW own, NEW declared,
         ParameterPushed(T, U, p, own, declared)
  PROVE  /\ Good(U) /\ U.scope = T.scope /\ U.next = T.next /\ U.label = T.label
         /\ Len(U.env) = Len(T.env) + 1 /\ Len(U.entity) = Len(T.entity)
         /\ \A x \in DOMAIN T.entity : /\ U.entity[x].own = T.entity[x].own
                                       /\ U.entity[x].kind = T.entity[x].kind
                                       /\ U.entity[x].complete = T.entity[x].complete
                                       /\ U.entity[x].symbol = T.entity[x].symbol
<1>1. PICK V : /\ EntitySet(T, V, p, own, T.entity[p].complete,
                            T.aborted \/ T.entity[p].parent_scope \notin {Null, declared, own})
               /\ EnvPushed(V, U, p)
    BY DEF ParameterPushed
<1>2. Good(V)
    BY <1>1, GoodEntitySet
<1>3. /\ Table(U) /\ Chained(U) /\ U.entity = V.entity /\ U.scope = V.scope /\ U.next = V.next
      /\ U.label = V.label /\ U.env = Append(V.env, Entry(V, p))
    BY <1>1 DEF EnvPushed, Pushed
<1>4. Good(U)
    BY <1>2, <1>3, OwnsSame
<1>5. /\ V.scope = T.scope /\ V.next = T.next /\ V.label = T.label /\ V.env = T.env
      /\ Len(V.entity) = Len(T.entity)
    BY <1>1 DEF EntitySet, Touched
<1>6. Len(U.env) = Len(T.env) + 1
    <2>1. T.env \in Seq(EntryType)
        BY DEF Good, Table, Shape
    <2> QED BY <2>1, <1>3, <1>5
<1>7. ASSUME NEW x \in DOMAIN T.entity
      PROVE  /\ U.entity[x].own = T.entity[x].own
             /\ U.entity[x].kind = T.entity[x].kind
             /\ U.entity[x].complete = T.entity[x].complete
             /\ U.entity[x].symbol = T.entity[x].symbol
    <2>1. CASE x = p
        BY <2>1, <1>1, <1>3 DEF EntitySet
    <2>2. CASE x # p
        BY <2>2, <1>1, <1>3 DEF EntitySet
    <2> QED BY <2>1, <2>2
<1> QED BY <1>3, <1>4, <1>5, <1>6, <1>7

SameTable(T, U) ==
  /\ U.scope = T.scope /\ U.next = T.next /\ U.label = T.label
  /\ Len(U.entity) = Len(T.entity) /\ DOMAIN U.entity = DOMAIN T.entity
  /\ \A x \in DOMAIN T.entity : /\ U.entity[x].own = T.entity[x].own
                                /\ U.entity[x].kind = T.entity[x].kind
                                /\ U.entity[x].complete = T.entity[x].complete
                                /\ U.entity[x].symbol = T.entity[x].symbol

LEMMA GoodParametersPushed ==
  ASSUME NEW T, Good(T), NEW U, NEW w, NEW L, Len(L) \in Nat, NEW own, NEW declared,
         ParametersPushed(T, U, w, L, own, declared)
  PROVE  \A i \in 0 .. Len(L) : /\ Good(w[i]) /\ SameTable(T, w[i])
                                /\ Len(w[i].env) = Len(T.env) + i
<1> DEFINE n == Len(L)
           S == { i \in 0 .. n : Good(w[i]) /\ SameTable(T, w[i]) /\ Len(w[i].env) = Len(T.env) + i }
<1>1. n \in Nat /\ Len(T.env) \in Nat
    BY DEF Good, Table, Shape
<1>2. 0 \in S
    <2>1. w[0] = T
        BY DEF ParametersPushed
    <2>2. SameTable(T, T)
        BY DEF SameTable
    <2>3. 0 \in 0 .. n /\ Len(T.env) = Len(T.env) + 0
        BY <1>1
    <2> QED BY <2>1, <2>2, <2>3
<1>3. ASSUME NEW i \in 0 .. n, i \in S, i # n
      PROVE  i + 1 \in S
    <2>1. ParameterPushed(w[i], w[i + 1], L[i + 1], own, declared)
        BY <1>3 DEF ParametersPushed
    <2>2. PICK V, W, p : V = w[i] /\ W = w[i + 1] /\ p = L[i + 1]
        OBVIOUS
    <2>3. Good(V) /\ SameTable(T, V) /\ Len(V.env) = Len(T.env) + i
        BY <2>2, <1>3
    <2>4. ParameterPushed(V, W, p, own, declared)
        BY <2>1, <2>2
    <2>5. /\ Good(W) /\ W.scope = V.scope /\ W.next = V.next /\ W.label = V.label
          /\ Len(W.env) = Len(V.env) + 1 /\ Len(W.entity) = Len(V.entity)
          /\ \A x \in DOMAIN V.entity : /\ W.entity[x].own = V.entity[x].own
                                        /\ W.entity[x].kind = V.entity[x].kind
                                        /\ W.entity[x].complete = V.entity[x].complete
                                        /\ W.entity[x].symbol = V.entity[x].symbol
        BY <2>3, <2>4, GoodParameterPushed
    <2>6. DOMAIN W.entity = DOMAIN V.entity
        BY <2>3, <2>5 DEF Good, Table, Shape
    <2>7. SameTable(T, W)
        BY <2>3, <2>5, <2>6 DEF SameTable
    <2>8. i + 1 \in 0 .. n /\ Len(W.env) = Len(T.env) + (i + 1)
        <3>1. PICK m, a, b, c : m = n /\ a = Len(T.env) /\ b = Len(V.env) /\ c = Len(W.env)
            OBVIOUS
        <3>2. m \in Nat /\ i \in 0 .. m /\ i # m /\ a \in Nat /\ b = a + i /\ c = b + 1
            BY <3>1, <1>1, <1>3, <2>3, <2>5
        <3>3. i + 1 \in 0 .. m /\ c = a + (i + 1)
            BY ONLY <3>2
        <3> QED BY <3>1, <3>3
    <2> QED BY <2>2, <2>5, <2>7, <2>8
<1>4. \A i \in 0 .. n : i \in S
    <2> HIDE DEF S
    <2> QED BY <1>1, <1>2, <1>3, Upwards
<1> QED BY <1>4

LEMMA PrefixAppend ==
  ASSUME NEW S, NEW q \in Seq(S)
  PROVE  /\ SubSeq(q, 1, 0) = <<>> /\ SubSeq(q, 1, Len(q)) = q
         /\ \A i \in 0 .. Len(q) : i # Len(q) => Append(SubSeq(q, 1, i), q[i + 1]) = SubSeq(q, 1, i + 1)
<1>1. Len(q) \in Nat /\ DOMAIN q = 1 .. Len(q)
    OBVIOUS
<1>2. SubSeq(q, 1, 0) = <<>>
    <2>1. 0 \in 0 .. Len(q)
        BY <1>1
    <2>2. SubSeq(q, 1, 0) \in Seq(S) /\ Len(SubSeq(q, 1, 0)) = 0
        BY <2>1, PrefixSeq
    <2> QED BY <2>2
<1>3. SubSeq(q, 1, Len(q)) = q
    <2>1. Len(q) \in 0 .. Len(q)
        BY <1>1
    <2>2. PICK a : a = SubSeq(q, 1, Len(q))
        OBVIOUS
    <2>3. a \in Seq(S) /\ Len(a) = Len(q) /\ \A i \in 1 .. Len(q) : a[i] = q[i]
        BY <2>1, <2>2, PrefixSeq
    <2>4. a = q
        BY ONLY <2>3, q \in Seq(S)
    <2> QED BY <2>2, <2>4
<1>4. ASSUME NEW i \in 0 .. Len(q), i # Len(q)
      PROVE  Append(SubSeq(q, 1, i), q[i + 1]) = SubSeq(q, 1, i + 1)
    <2>1. i + 1 \in 0 .. Len(q) /\ i + 1 \in 1 .. Len(q) /\ i \in Nat
        <3>1. PICK m : m = Len(q)
            OBVIOUS
        <3>2. m \in Nat /\ i \in 0 .. m /\ i # m
            BY <3>1, <1>1, <1>4
        <3>3. i + 1 \in 0 .. m /\ i + 1 \in 1 .. m /\ i \in Nat
            BY ONLY <3>2
        <3> QED BY <3>1, <3>3
    <2>2. PICK a, b, e : a = SubSeq(q, 1, i) /\ b = SubSeq(q, 1, i + 1) /\ e = q[i + 1]
        OBVIOUS
    <2>3. /\ a \in Seq(S) /\ Len(a) = i /\ \A k \in 1 .. i : a[k] = q[k]
        BY <1>4, <2>2, PrefixSeq
    <2>4. b \in Seq(S) /\ Len(b) = i + 1 /\ \A k \in 1 .. i + 1 : b[k] = q[k]
        BY <2>1, <2>2, PrefixSeq
    <2>5. e \in S /\ b[i + 1] = e /\ \A k \in 1 .. i : b[k] = a[k]
        <3>1. e \in S
            BY <2>1, <2>2, <1>1
        <3>2. i + 1 \in 1 .. i + 1 /\ 1 .. i \subseteq 1 .. i + 1
            BY <2>1
        <3> QED BY <3>1, <3>2, <2>2, <2>3, <2>4
    <2>6. Append(a, e) = b
        BY ONLY <2>1, <2>3, <2>4, <2>5
    <2> QED BY <2>2, <2>6
<1> QED BY <1>2, <1>3, <1>4

LEMMA HeadPushed ==
  ASSUME NEW T, Good(T), NEW own, NEW nd, NEW L, ListPart(T, own, L), Hidden(T, nd),
         T.entity[nd].kind = "function", T.entity[nd].own = own,
         \A k \in DOMAIN L : Hidden(T, L[k]) /\ L[k] # nd,
         NEW U, NEW w, NEW declared, ParametersPushed(T, U, w, L, own, declared)
  PROVE  HeadList(U, Len(T.env), own, nd, L)
<1> DEFINE n == Len(L)
           top == Len(T.env)
           Pre(i) == SubSeq(L, 1, i)
           Part(W, i) == EnvPart(W, top, Pre(i)) /\ Hidden(W, nd) /\ \A k \in 1 .. n : k > i => Hidden(W, L[k])
           S == { i \in 0 .. n : Part(w[i], i) }
<1>1. /\ Table(T) /\ Chained(T) /\ L \in Seq(DOMAIN T.entity) /\ n \in Nat /\ DOMAIN L = 1 .. n
      /\ Len(T.env) \in Nat /\ \A j, k \in DOMAIN L : L[j] = L[k] => j = k
    <2>1. Linked(T.scope[own].entities, T.next, L)
        BY DEF ListPart
    <2>2. L \in Seq(DOMAIN T.next) /\ \A j, k \in DOMAIN L : L[j] = L[k] => j = k
        BY <2>1 DEF Linked
    <2>3. Table(T) /\ Chained(T) /\ DOMAIN T.next = DOMAIN T.entity /\ Len(T.env) \in Nat
        BY DEF Good, Table, Shape
    <2> QED BY <2>2, <2>3
<1>2. \A i \in 0 .. n : Good(w[i]) /\ SameTable(T, w[i]) /\ Len(w[i].env) = Len(T.env) + i
    <2>1. Len(L) \in Nat
        BY <1>1
    <2> HIDE DEF n, top, S
    <2>2. \A i \in 0 .. Len(L) : Good(w[i]) /\ SameTable(T, w[i]) /\ Len(w[i].env) = Len(T.env) + i
        BY <2>1, GoodParametersPushed
    <2> QED BY <2>2 DEF n
<1>3. w[0] = T /\ w[n] = U
    BY DEF ParametersPushed
<1>4. 0 \in S
    <2>1. Pre(0) = <<>> /\ 0 \in 0 .. n
        BY <1>1, PrefixAppend
    <2>2. EnvPart(T, top, <<>>)
        BY <1>1 DEF EnvPart, Ready
    <2>3. \A k \in 1 .. n : Hidden(T, L[k])
        BY <1>1
    <2>4. Part(T, 0)
        BY <2>1, <2>2, <2>3
    <2> HIDE DEF Part
    <2> QED BY <2>1, <2>4, <1>3
<1>5. ASSUME NEW i \in 0 .. n, i \in S, i # n
      PROVE  i + 1 \in S
    <2>1. /\ i \in Nat /\ i + 1 \in 0 .. n /\ i + 1 \in 1 .. n /\ i + 1 > i
          /\ \A k \in 1 .. n : k > i + 1 => k > i /\ k # i + 1
        <3>1. PICK m : m = n
            OBVIOUS
        <3>2. m \in Nat /\ i \in 0 .. m /\ i # m
            BY <3>1, <1>1, <1>5
        <3>3. /\ i \in Nat /\ i + 1 \in 0 .. m /\ i + 1 \in 1 .. m /\ i + 1 > i
              /\ \A k \in 1 .. m : k > i + 1 => k > i /\ k # i + 1
            BY ONLY <3>2
        <3> QED BY <3>1, <3>3
    <2>2. PICK V, W, p : V = w[i] /\ W = w[i + 1] /\ p = L[i + 1]
        OBVIOUS
    <2>3. Good(V) /\ SameTable(T, V)
        BY <2>2, <1>2
    <2>4. EnvPart(V, top, Pre(i)) /\ Hidden(V, nd) /\ \A k \in 1 .. n : k > i => Hidden(V, L[k])
        <3>1. Part(w[i], i)
            <4> HIDE DEF Part
            <4> QED BY <1>5
        <3> QED BY <3>1, <2>2
    <2>5. ParameterPushed(V, W, p, own, declared)
        BY <2>2, <1>5 DEF ParametersPushed
    <2>6. PICK X : /\ EntitySet(V, X, p, own, V.entity[p].complete,
                                V.aborted \/ V.entity[p].parent_scope \notin {Null, declared, own})
                   /\ EnvPushed(X, W, p)
        BY <2>5 DEF ParameterPushed
    <2>7. Good(X) /\ \A x : Hidden(V, x) => Hidden(X, x)
        BY <2>3, <2>6, GoodEntitySet, FreshEntitySet
    <2>8. /\ Table(V) /\ Chained(V) /\ Table(X) /\ Chained(X) /\ Alike(V, X, {}) /\ X.env = V.env
          /\ DOMAIN X.entity = DOMAIN T.entity
        <3>1. Touched(V, X) /\ Table(V) /\ Chained(V) /\ DOMAIN X.entity = DOMAIN V.entity
            BY <2>3, <2>6 DEF EntitySet, Good
        <3>2. Alike(V, X, {})
            BY <3>1, TouchedMeans
        <3> QED BY <3>1, <3>2, <2>3, <2>7 DEF Good, Touched, SameTable
    <2>9. /\ Pre(i) \in Seq(DOMAIN T.entity) /\ DOMAIN Pre(i) = 1 .. i
          /\ \A k \in 1 .. i : Pre(i)[k] = L[k]
          /\ Append(Pre(i), p) = Pre(i + 1)
        <3>1. L \in Seq(DOMAIN T.entity) /\ i \in 0 .. Len(L) /\ i # Len(L)
            BY <1>1, <1>5
        <3>2. /\ Pre(i) \in Seq(DOMAIN T.entity) /\ DOMAIN Pre(i) = 1 .. i
              /\ \A k \in 1 .. i : Pre(i)[k] = L[k]
            <4>1. /\ SubSeq(L, 1, i) \in Seq(DOMAIN T.entity) /\ DOMAIN SubSeq(L, 1, i) = 1 .. i
                  /\ \A k \in 1 .. i : SubSeq(L, 1, i)[k] = L[k]
                BY ONLY <3>1, PrefixSeq
            <4> QED BY ONLY <4>1
        <3>3. Append(Pre(i), L[i + 1]) = Pre(i + 1)
            BY <3>1, PrefixAppend
        <3> QED BY <3>2, <3>3, <2>2
    <2>10. Hidden(X, p) /\ p # nd /\ \A k \in 1 .. i : L[k] # p
        <3>1. Hidden(V, p)
            BY <2>1, <2>2, <2>4
        <3>2. p # nd
            BY <2>1, <2>2, <1>1
        <3>3. \A k \in 1 .. i : k \in DOMAIN L /\ i + 1 \in DOMAIN L /\ k # i + 1
            BY <2>1, <1>1
        <3> QED BY <3>1, <3>2, <3>3, <2>2, <2>7, <1>1
    <2>11. EnvPart(X, top, Pre(i))
        <3>1. Pre(i) \in Seq(DOMAIN V.entity)
            BY <2>3, <2>9 DEF SameTable
        <3> HIDE DEF Pre, top
        <3> QED BY <3>1, <2>4, <2>8, EnvAlike
    <2>12. EnvPart(W, top, Append(Pre(i), p))
        <3>1. /\ p \in DOMAIN X.entity /\ X.link[p] = Null /\ Off(X, {p})
              /\ \A j \in DOMAIN X.env : X.env[j].old_entity # p
            BY <2>10 DEF Hidden, Off
        <3>2. Table(W) /\ Touched(stack_push(X, "env", p), W)
            BY <2>6 DEF EnvPushed
        <3>3. Pre(i) \in Seq(DOMAIN X.entity) /\ \A k \in DOMAIN Pre(i) : Pre(i)[k] # p
            BY <2>8, <2>9, <2>10
        <3> HIDE DEF Pre, top
        <3> QED BY <3>1, <3>2, <3>3, <2>8, <2>11, EnvPush
    <2>13. \A x : x # p /\ Hidden(X, x) => Hidden(W, x)
        <3>1. /\ Pushed(X, W, p) /\ W.entity = X.entity /\ W.env = Append(X.env, Entry(X, p))
              /\ p \in DOMAIN X.entity
            BY <2>6, <2>10 DEF EnvPushed, Hidden
        <3> QED BY <3>1, <2>8, HiddenPush
    <2>14. Hidden(W, nd)
        BY <2>4, <2>7, <2>10, <2>13
    <2>15. ASSUME NEW k \in 1 .. n, k > i + 1
           PROVE  Hidden(W, L[k])
        <3>1. L[k] # p
            BY <2>1, <2>2, <2>15, <1>1
        <3> QED BY <3>1, <2>1, <2>4, <2>7, <2>13, <2>15
    <2>16. Part(W, i + 1)
        BY <2>9, <2>12, <2>14, <2>15
    <2> HIDE DEF Part
    <2> QED BY <2>1, <2>2, <2>16
<1>6. \A i \in 0 .. n : i \in S
    <2> HIDE DEF S
    <2> QED BY <1>1, <1>4, <1>5, Upwards
<1>7. EnvPart(U, top, L) /\ Hidden(U, nd)
    <2>1. n \in S /\ n \in 0 .. n
        <3> HIDE DEF S
        <3> QED BY <1>1, <1>6
    <2>2. Part(w[n], n)
        <3> HIDE DEF Part
        <3> QED BY <2>1
    <2>3. Pre(n) = L
        BY <1>1, PrefixAppend
    <2> QED BY <2>2, <2>3, <1>3
<1>8. Good(U) /\ SameTable(T, U)
    <2>1. n \in 0 .. n
        BY <1>1
    <2> QED BY <2>1, <1>2, <1>3
<1>9. ListPart(U, own, L)
    BY <1>8 DEF ListPart, SameTable
<1>10. U.entity[nd].kind = "function" /\ U.entity[nd].own = own
    BY <1>8 DEF SameTable, Hidden
<1> QED BY <1>7, <1>9, <1>10 DEF HeadList

-----------------------------------------------------------------------------
(***************************************************************************)
(* The start of the body of a function.                                    *)
(***************************************************************************)
LEMMA ReadyPushed ==
  ASSUME NEW T, Table(T), Chained(T), NEW U, Table(U), NEW e \in DOMAIN T.entity,
         Pushed(T, U, e), U.entity = T.entity,
         NEW L \in Seq(DOMAIN T.entity), Ready(T, L, 0)
  PROVE  Ready(U, L, 0)
<1>1. \A x : Symbol(U, x) = Symbol(T, x) /\ Space(U, x) = Space(T, x)
    BY DEF Symbol, Space
<1>2. Symbol(T, e) \in Symbols /\ Space(T, e) \in NameSpaces /\ e # Null
    BY EntityFacts DEF Table
<1>3. ASSUME NEW k \in DOMAIN L, k > 0, get_entity(U, Symbol(U, L[k]), Space(U, L[k])) = Null,
             \A j \in DOMAIN L : 0 < j /\ j < k =>
               << Symbol(U, L[j]), Space(U, L[j]) >> # << Symbol(U, L[k]), Space(U, L[k]) >>
      PROVE  U.link[L[k]] = Null
    <2>1. PICK x : x = L[k]
        OBVIOUS
    <2>2. x \in DOMAIN T.entity
        BY <2>1
    <2>3. Symbol(T, x) \in Symbols /\ Space(T, x) \in NameSpaces /\ x # Null
        BY <2>2, EntityFacts DEF Table
    <2>4. get_entity(U, Symbol(T, x), Space(T, x)) = Null
        BY <2>1, <1>1, <1>3
    <2>5. ~(Symbol(T, x) = Symbol(T, e) /\ Space(T, x) = Space(T, e))
        BY <1>2, <2>3, <2>4 DEF Pushed
    <2>6. get_entity(T, Symbol(T, x), Space(T, x)) = Null
        BY <2>3, <2>4, <2>5 DEF Pushed
    <2>7. T.link[x] = Null
        <3>1. \A j \in DOMAIN L : 0 < j /\ j < k =>
                << Symbol(T, L[j]), Space(T, L[j]) >> # << Symbol(T, L[k]), Space(T, L[k]) >>
            BY <1>1, <1>3
        <3> QED BY <3>1, <2>1, <2>6, <1>3 DEF Ready
    <2>8. U.link[x] = T.link[x]
        BY <2>2, <2>3, <2>5, <2>6 DEF Pushed
    <2> QED BY <2>1, <2>7, <2>8
<1> QED BY <1>3 DEF Ready

\* The lengths and the kinds after record_entity().
Recording(T, R) ==
  /\ Good(R)
  /\ Len(R.env) \in {Len(T.env), Len(T.env) + 1} /\ R.label = T.label
  /\ DOMAIN R.scope = DOMAIN T.scope /\ DOMAIN R.entity = DOMAIN T.entity
  /\ \A x \in DOMAIN T.entity : /\ R.entity[x].own = T.entity[x].own
                                /\ R.entity[x].kind = T.entity[x].kind

LEMMA RecordingIs ==
  ASSUME NEW T, Good(T), NEW e \in DOMAIN T.entity, NEW s \in DOMAIN T.scope,
         get_entity(T, Symbol(T, e), Space(T, e)) = Null => T.link[e] = Null
  PROVE  Recording(T, record_entity(T, s, e))
<1> DEFINE R == record_entity(T, s, e)
           p == get_entity(T, T.entity[e].symbol, "normal")
<1>1. IF Merges(T, s, e, p) THEN Merged(T, R, p)
      ELSE \E V : Mark(T, V, s, e) /\ Enlisted(V, R, e, s) /\ Table(V) /\ Chained(V)
    BY RecordEntityIs DEF Good
<1>2. Good(R)
    BY GoodRecord
<1> HIDE DEF R, p
<1>3. T.env \in Seq(EntryType)
    BY DEF Good, Table, Shape
<1>4. CASE Merges(T, s, e, p)
    <2>1. Merged(T, R, p)
        BY <1>1, <1>4
    <2>2. /\ R.env = T.env /\ R.label = T.label /\ R.scope = T.scope
          /\ DOMAIN R.entity = DOMAIN T.entity
        BY <2>1 DEF Merged, EntitySet, Touched
    <2>3. ASSUME NEW x \in DOMAIN T.entity
          PROVE  R.entity[x].own = T.entity[x].own /\ R.entity[x].kind = T.entity[x].kind
        <3>1. CASE x = p
            BY <3>1, <2>1 DEF Merged, EntitySet
        <3>2. CASE x # p
            BY <3>2, <2>1 DEF Merged, EntitySet
        <3> QED BY <3>1, <3>2
    <2> QED BY <2>2, <2>3, <1>2 DEF Recording, R
<1>5. CASE ~Merges(T, s, e, p)
    <2>1. PICK V : Mark(T, V, s, e) /\ Enlisted(V, R, e, s)
        BY <1>1, <1>5
    <2>2. /\ V.env = T.env /\ V.label = T.label /\ V.scope = T.scope
          /\ DOMAIN V.entity = DOMAIN T.entity
        BY <2>1 DEF Mark, EntitySet, Touched
    <2>3. /\ R.env = Append(T.env, Entry(V, e)) /\ R.label = T.label /\ R.entity = V.entity
          /\ DOMAIN R.scope = DOMAIN T.scope
        BY <2>1, <2>2 DEF Enlisted
    <2>4. Len(R.env) = Len(T.env) + 1
        BY <2>3, <1>3
    <2>5. ASSUME NEW x \in DOMAIN T.entity
          PROVE  R.entity[x].own = T.entity[x].own /\ R.entity[x].kind = T.entity[x].kind
        <3>1. CASE x = e
            BY <3>1, <2>1, <2>3 DEF Mark, EntitySet
        <3>2. CASE x # e
            BY <3>2, <2>1, <2>3 DEF Mark, EntitySet
        <3> QED BY <3>1, <3>2
    <2> QED BY <2>2, <2>3, <2>4, <2>5, <1>2 DEF Recording, R
<1> QED BY <1>4, <1>5

\* record_entity() of the function keeps the list of its parameters.
LEMMA RecordKeeps ==
  ASSUME NEW T, Good(T), NEW nd \in DOMAIN T.entity, T.link[nd] = Null,
         NEW s \in DOMAIN T.scope, NEW own, own # s, NEW L, ListPart(T, own, L), Ready(T, L, 0)
  PROVE  LET R == record_entity(T, s, nd)
         IN Linked(R.scope[own].entities, R.next, L) /\ Ready(R, L, 0)
<1> DEFINE R == record_entity(T, s, nd)
           p == get_entity(T, T.entity[nd].symbol, "normal")
<1>1. IF Merges(T, s, nd, p) THEN Merged(T, R, p)
      ELSE \E V : Mark(T, V, s, nd) /\ Enlisted(V, R, nd, s) /\ Table(V) /\ Chained(V)
    BY RecordEntityIs DEF Good
<1> HIDE DEF R, p
<1>2. /\ Linked(T.scope[own].entities, T.next, L) /\ own \in DOMAIN T.scope
      /\ \A k \in DOMAIN L : T.scope[s].last_entity # L[k]
    BY DEF ListPart
<1>3. /\ Table(T) /\ Chained(T) /\ T.next \in Seq(Nat) /\ DOMAIN T.next = DOMAIN T.entity
    BY DEF Good, Table, Shape
<1>4. L \in Seq(DOMAIN T.entity) /\ \A k \in DOMAIN L : L[k] \in DOMAIN T.next
    <2>1. L \in Seq(DOMAIN T.next)
        BY <1>2 DEF Linked
    <2> QED BY <2>1, <1>3
<1>5. \A V : Touched(T, V) => Ready(V, L, 0)
    <2>1. ASSUME NEW V, Touched(T, V)
          PROVE  Ready(V, L, 0)
        <3>1. Alike(T, V, {}) /\ Off(T, {}) /\ Table(V)
            BY <2>1, <1>3, TouchedMeans
        <3>2. Shape(T) /\ Shape(V)
            BY <3>1, <1>3 DEF Table
        <3> QED BY <3>1, <3>2, <1>3, <1>4, ReadyAlike
    <2> QED BY <2>1
<1>6. CASE Merges(T, s, nd, p)
    <2>1. Touched(T, R) /\ R.next = T.next /\ R.scope = T.scope
        BY <1>1, <1>6 DEF Merged, EntitySet
    <2> QED BY <2>1, <1>2, <1>5 DEF R
<1>7. CASE ~Merges(T, s, nd, p)
    <2>1. PICK V : Mark(T, V, s, nd) /\ Enlisted(V, R, nd, s) /\ Table(V) /\ Chained(V)
        BY <1>1, <1>7
    <2>2. Touched(T, V) /\ V.next = T.next /\ V.scope = T.scope /\ DOMAIN V.entity = DOMAIN T.entity
        BY <2>1 DEF Mark, EntitySet
    <2>3. Ready(R, L, 0)
        <3>1. Ready(V, L, 0) /\ L \in Seq(DOMAIN V.entity) /\ nd \in DOMAIN V.entity
            BY <2>2, <1>4, <1>5
        <3>2. Table(R) /\ Pushed(V, R, nd) /\ R.entity = V.entity
            BY <2>1 DEF Enlisted
        <3> QED BY <3>1, <3>2, <2>1, ReadyPushed
    <2>4. Extended(V, R, s, nd)
        BY <2>1, <2>2, EnlistedExtends DEF Table
    <2>5. Linked(R.scope[own].entities, R.next, L)
        <3>1. R.scope[own].entities = T.scope[own].entities
            BY <2>2, <2>4, <1>2 DEF Extended
        <3>2. \A k \in DOMAIN L : R.next[L[k]] = T.next[L[k]]
            BY <2>2, <2>4, <1>2, <1>4 DEF Extended
        <3>3. DOMAIN T.next \subseteq DOMAIN R.next
            BY <2>2, <2>4 DEF Extended
        <3> QED BY <3>1, <3>2, <3>3, <1>2, <1>3, LinkedKept
    <2> QED BY <2>3, <2>5 DEF R
<1> QED BY <1>6, <1>7

\* The copy of a scope.
LEMMA ScopeCopied ==
  ASSUME NEW T, Good(T), NEW s \in DOMAIN T.scope, NEW from \in DOMAIN T.scope
  PROVE  LET U == [T EXCEPT !.scope[s] = T.scope[from]]
         IN /\ Touched(T, U) /\ Good(U) /\ U.entity = T.entity /\ U.next = T.next
            /\ U.aborted = T.aborted /\ DOMAIN U.scope = DOMAIN T.scope
            /\ \A x \in DOMAIN T.scope : U.scope[x] = IF x = s THEN T.scope[from] ELSE T.scope[x]
<1> DEFINE U == [T EXCEPT !.scope[s] = T.scope[from]]
           Q == [T.scope EXCEPT ![s] = T.scope[from]]
<1>1. Shape(T) /\ T.scope \in Seq(ScopeType) /\ T.scope[from] \in ScopeType
    BY DEF Good, Table, Shape
<1>2. ScopePut(T, U, Q)
    BY <1>1 DEF ScopePut, Shape
<1>3. /\ Q \in Seq(ScopeType) /\ DOMAIN Q = DOMAIN T.scope /\ Len(Q) = Len(T.scope)
      /\ \A x \in DOMAIN T.scope : Q[x] = IF x = s THEN T.scope[from] ELSE T.scope[x]
    BY <1>1, SeqExceptIn
<1> HIDE DEF Q, U
<1>4. /\ Touched(T, U) /\ U.entity = T.entity /\ U.next = T.next /\ U.scope = Q
      /\ U.aborted = T.aborted
    BY <1>1, <1>2, <1>3, ScopePutIs
<1>5. Good(U)
    <2>1. \A x \in DOMAIN U.scope : U.scope[x].last_entity \in 0 .. Len(T.entity)
        BY <1>3, <1>4 DEF Good, OwnsOK
    <2>2. Len(T.scope) <= Len(U.scope)
        <3>1. Len(T.scope) \in Nat
            BY <1>1
        <3> QED BY <3>1, <1>3, <1>4
    <2> QED BY <2>1, <2>2, <1>4, GoodTouched
<1> QED BY <1>3, <1>4, <1>5 DEF U

LEMMA GoodScopePush ==
  ASSUME NEW T, Good(T), NEW s \in DOMAIN T.scope, NEW around \in DOMAIN T.scope
  PROVE  /\ ScopePushed(T, scope_push(T, s, around), s, around)
         /\ Good(scope_push(T, s, around))
<1> DEFINE U == scope_push(T, s, around)
<1>1. ScopePushed(T, U, s, around)
    BY ScopePushIs DEF Good, Table
<1> HIDE DEF U
<1>2. /\ Touched(T, U) /\ U.entity = T.entity /\ Len(U.scope) = Len(T.scope)
      /\ T.scope \in Seq(ScopeType) /\ U.scope \in Seq(ScopeType)
    BY <1>1 DEF ScopePushed, Good, Table, Shape, Touched
<1>3. DOMAIN U.scope = DOMAIN T.scope /\ Len(T.scope) <= Len(U.scope)
    BY <1>2
<1>4. ASSUME NEW x \in DOMAIN U.scope
      PROVE  U.scope[x].last_entity \in 0 .. Len(T.entity)
    <2>1. U.scope[x].last_entity = T.scope[x].last_entity
        <3>1. CASE x = s
            BY <3>1, <1>1, <1>3 DEF ScopePushed
        <3>2. CASE x # s
            BY <3>2, <1>1, <1>3 DEF ScopePushed
        <3> QED BY <3>1, <3>2
    <2> QED BY <2>1, <1>3 DEF Good, OwnsOK
<1>5. Good(U)
    BY <1>2, <1>3, <1>4, GoodTouched
<1> QED BY <1>1, <1>5 DEF U

LEMMA GoodNewScope ==
  ASSUME NEW T, Good(T), NEW around \in DOMAIN T.scope
  PROVE  LET U == scope_push([T EXCEPT !.scope = Append(@, NewScope)], Len(T.scope) + 1, around)
         IN /\ Good(U) /\ Touched(T, U) /\ U.entity = T.entity /\ U.next = T.next
            /\ U.aborted = T.aborted
            /\ Len(U.scope) = Len(T.scope) + 1 /\ Len(T.scope) + 1 \in DOMAIN U.scope
            /\ DOMAIN T.scope \subseteq DOMAIN U.scope
            /\ \A x \in DOMAIN T.scope : U.scope[x] = T.scope[x]
            /\ U.scope[Len(T.scope) + 1] = [entities |-> Null, last_entity |-> Null,
                                            depth |-> T.scope[around].depth + 1]
<1> DEFINE U == scope_push([T EXCEPT !.scope = Append(@, NewScope)], Len(T.scope) + 1, around)
           new == [entities |-> Null, last_entity |-> Null, depth |-> T.scope[around].depth + 1]
<1>1. /\ Touched(T, U) /\ U.entity = T.entity /\ U.next = T.next /\ U.aborted = T.aborted
      /\ U.scope = Append(T.scope, new)
    BY NewScopeIs DEF Good, Table
<1>2. new.last_entity = 0
    BY DEF Null
<1> HIDE DEF U, new
<1>3. T.scope \in Seq(ScopeType)
    BY DEF Good, Table, Shape
<1>4. /\ Len(U.scope) = Len(T.scope) + 1 /\ Len(T.scope) + 1 \in DOMAIN U.scope
      /\ DOMAIN T.scope \subseteq DOMAIN U.scope
      /\ (\A x \in DOMAIN T.scope : U.scope[x] = T.scope[x])
      /\ U.scope[Len(T.scope) + 1] = new
      /\ \A x \in DOMAIN U.scope : x \in DOMAIN T.scope \/ x = Len(T.scope) + 1
      /\ Len(T.scope) <= Len(U.scope)
    BY <1>1, <1>3
<1>5. Len(T.entity) \in Nat
    BY DEF Good, Table, Shape
<1>6. \A x \in DOMAIN U.scope : U.scope[x].last_entity \in 0 .. Len(T.entity)
    <2>1. \A x \in DOMAIN T.scope : T.scope[x].last_entity \in 0 .. Len(T.entity)
        BY DEF Good, OwnsOK
    <2>2. 0 \in 0 .. Len(T.entity)
        BY <1>5
    <2> QED BY <2>1, <2>2, <1>2, <1>4
<1>7. Good(U)
    BY <1>1, <1>4, <1>6, GoodTouched
<1> QED BY <1>1, <1>4, <1>7 DEF U, new

LEMMA DefineIs ==
  ASSUME NEW T, Good(T), NEW nd \in DOMAIN T.entity, T.entity[nd].kind = "function",
         T.link[nd] = Null, NEW s \in DOMAIN T.scope, T.entity[nd].own # s,
         NEW L, ListPart(T, T.entity[nd].own, L), Ready(T, L, 0)
  PROVE  LET f   == Recorded(T, s, nd)
             R   == record_entity(T, s, nd)
             own == R.entity[f].own
             C   == [R EXCEPT !.scope[own] = R.scope[R.entity[nd].own]]
             S   == scope_push(C, own, s)
             P   == PushParameters(S, f, R.entity[nd].own)
             B   == scope_push([P EXCEPT !.scope = Append(@, NewScope)], Len(P.scope) + 1, own)
         IN /\ f \in DOMAIN T.entity /\ own \in DOMAIN T.scope /\ Recording(T, R)
            /\ Good(S) /\ Good(P) /\ SameTable(S, P) /\ Len(P.env) = Len(R.env) + Len(L)
            /\ S.label = R.label /\ DOMAIN P.scope = DOMAIN T.scope
            /\ DOMAIN P.entity = DOMAIN T.entity
            /\ Good(B) /\ Touched(P, B) /\ DOMAIN P.scope \subseteq DOMAIN B.scope
            /\ Len(P.scope) + 1 \in DOMAIN B.scope
            /\ \E w : ParametersPushed(S, P, w, L, own, R.entity[nd].own)
<1> DEFINE f == Recorded(T, s, nd)
           R == record_entity(T, s, nd)
           own == R.entity[f].own
           from == R.entity[nd].own
           C == [R EXCEPT !.scope[own] = R.scope[from]]
           S == scope_push(C, own, s)
           P == PushParameters(S, f, from)
           B == scope_push([P EXCEPT !.scope = Append(@, NewScope)], Len(P.scope) + 1, own)
           p == get_entity(T, T.entity[nd].symbol, "normal")
<1>1. Recording(T, R)
    BY RecordingIs
<1>2. Linked(R.scope[T.entity[nd].own].entities, R.next, L) /\ Ready(R, L, 0)
    BY RecordKeeps
<1>3. f \in DOMAIN T.entity /\ T.entity[f].kind = "function"
    <2>1. f = IF Merges(T, s, nd, p) THEN p ELSE nd
        BY DEF Recorded
    <2>2. ASSUME Merges(T, s, nd, p)
          PROVE  p \in DOMAIN T.entity /\ T.entity[p].kind = "function"
        <3>1. p # Null /\ T.entity[p].kind = T.entity[nd].kind
            BY <2>2 DEF Merges
        <3>2. Shape(T) /\ Chained(T) /\ T.entity[nd].symbol \in Symbols
            <4>1. Shape(T) /\ Chained(T)
                BY DEF Good, Table
            <4> QED BY <4>1, EntityFacts DEF Symbol
        <3>3. p \in DOMAIN T.entity
            BY <3>1, <3>2, MeaningNamed
        <3> QED BY <3>1, <3>3
    <2> QED BY <2>1, <2>2
<1> HIDE DEF f, R
<1>4. /\ Good(R) /\ DOMAIN R.scope = DOMAIN T.scope /\ DOMAIN R.entity = DOMAIN T.entity
      /\ \A x \in DOMAIN T.entity : R.entity[x].own = T.entity[x].own /\ R.entity[x].kind = T.entity[x].kind
    BY <1>1 DEF Recording
<1>5. own \in DOMAIN R.scope /\ from \in DOMAIN R.scope /\ from = T.entity[nd].own
    <2>1. \A x \in DOMAIN R.entity : R.entity[x].kind = "function" => R.entity[x].own \in DOMAIN R.scope
        <3>1. /\ \A x \in DOMAIN R.entity :
                   /\ R.entity[x].own \in 0 .. Len(R.scope)
                   /\ R.entity[x].kind \in Owners <=> R.entity[x].own # Null
              /\ DOMAIN R.scope = 1 .. Len(R.scope) /\ Len(R.scope) \in Nat
            BY <1>4 DEF Good, OwnsOK, Table, Shape
        <3>2. "function" \in Owners
            BY DEF Owners
        <3> QED BY <3>1, <3>2 DEF Null
    <2> QED BY <2>1, <1>3, <1>4
<1> HIDE DEF own, from
<1>6. /\ Touched(R, C) /\ Good(C) /\ C.entity = R.entity /\ C.next = R.next
      /\ DOMAIN C.scope = DOMAIN R.scope /\ C.scope[own] = R.scope[from]
    BY <1>4, <1>5, ScopeCopied
<1> HIDE DEF C
<1>7. /\ ScopePushed(C, S, own, s) /\ Good(S)
    <2>1. own \in DOMAIN C.scope /\ s \in DOMAIN C.scope
        BY <1>4, <1>5, <1>6
    <2> QED BY <2>1, <1>6, GoodScopePush
<1> HIDE DEF S
<1>8. /\ S.entity = R.entity /\ S.next = R.next /\ S.scope[own].entities = R.scope[from].entities
      /\ S.link = R.link /\ S.env = R.env /\ S.label = R.label
      /\ DOMAIN S.scope = DOMAIN T.scope /\ Touched(C, S)
    <2>1. /\ Touched(C, S) /\ S.entity = C.entity /\ S.next = C.next
          /\ Len(S.scope) = Len(C.scope)
          /\ S.scope[own] = [entities |-> C.scope[own].entities, last_entity |-> C.scope[own].last_entity,
                             depth |-> C.scope[s].depth + 1]
        BY <1>5, <1>6, <1>7 DEF ScopePushed
    <2>2. DOMAIN S.scope = DOMAIN C.scope
        <3>1. S.scope \in Seq(ScopeType) /\ C.scope \in Seq(ScopeType)
            BY <1>6, <1>7 DEF Good, Table, Shape
        <3> QED BY <3>1, <2>1
    <2> QED BY <2>1, <2>2, <1>4, <1>6 DEF Touched
<1>9. Linked(S.scope[S.entity[f].own].entities, S.next, L)
    <2>1. S.entity[f].own = own
        BY <1>8 DEF own
    <2> QED BY <2>1, <1>2, <1>5, <1>8
<1>10. Ready(S, L, 0)
    <2>1. L \in Seq(DOMAIN R.entity)
        <3>1. Linked(T.scope[T.entity[nd].own].entities, T.next, L)
            BY DEF ListPart
        <3>2. L \in Seq(DOMAIN T.next) /\ DOMAIN T.next = DOMAIN T.entity
            BY <3>1 DEF Linked, Good, Table, Shape
        <3> QED BY <3>2, <1>4
    <2>2. Alike(R, C, {}) /\ Off(R, {}) /\ Table(R) /\ Chained(R) /\ Table(C)
        BY <1>4, <1>6, TouchedMeans DEF Good
    <2>3. Ready(C, L, 0)
        BY <2>1, <2>2, <1>2, ReadyAlike DEF Table
    <2>4. Alike(C, S, {}) /\ Off(C, {}) /\ Table(C) /\ Chained(C) /\ Table(S)
        BY <1>6, <1>7, <1>8, TouchedMeans DEF Good
    <2>5. L \in Seq(DOMAIN C.entity)
        BY <2>1, <1>6
    <2> QED BY <2>3, <2>4, <2>5, ReadyAlike DEF Table
<1>11. PICK w : ParametersPushed(S, P, w, L, S.entity[f].own, from)
    <2>1. f \in DOMAIN S.entity
        BY <1>3, <1>4, <1>8
    <2>2. Table(S) /\ Chained(S)
        BY <1>7 DEF Good
    <2> QED BY <2>1, <2>2, <1>9, <1>10, PushParametersAre
<1> HIDE DEF P
<1>12. Good(P) /\ SameTable(S, P) /\ Len(P.env) = Len(S.env) + Len(L)
    <2>1. Len(L) \in Nat
        <3>1. L \in Seq(DOMAIN S.next)
            BY <1>9 DEF Linked
        <3> QED BY <3>1
    <2>2. Len(L) \in 0 .. Len(L)
        BY <2>1
    <2>3. w[Len(L)] = P
        BY <1>11 DEF ParametersPushed
    <2>4. PICK o : o = S.entity[f].own
        OBVIOUS
    <2>5. ParametersPushed(S, P, w, L, o, from) /\ Good(S)
        BY <2>4, <1>7, <1>11
    <2>6. \A i \in 0 .. Len(L) : Good(w[i]) /\ SameTable(S, w[i]) /\ Len(w[i].env) = Len(S.env) + i
        BY <2>1, <2>5, GoodParametersPushed
    <2> QED BY <2>2, <2>3, <2>6
<1>13. DOMAIN P.scope = DOMAIN T.scope /\ DOMAIN P.entity = DOMAIN T.entity
    BY <1>4, <1>8, <1>12 DEF SameTable
<1>14. /\ Good(B) /\ Touched(P, B) /\ DOMAIN P.scope \subseteq DOMAIN B.scope
       /\ Len(P.scope) + 1 \in DOMAIN B.scope
    BY <1>4, <1>5, <1>12, <1>13, GoodNewScope
<1>15. S.entity[f].own = own
    BY <1>8 DEF own
<1> HIDE DEF B
<1>16. \E v : ParametersPushed(S, P, v, L, own, from)
    BY <1>11, <1>15
<1> QED BY <1>1, <1>3, <1>4, <1>5, <1>7, <1>8, <1>12, <1>13, <1>14, <1>16
        DEF f, R, own, from, C, S, P, B

\* An entity has its members, or its body.
LEMMA CompleteIs ==
  ASSUME NEW T, Shape(T), NEW e
  PROVE  \E parent : /\ EntitySet(T, [T EXCEPT !.entity[e].complete = TRUE], e, parent, TRUE, T.aborted)
                     /\ e \in DOMAIN T.entity => parent = T.entity[e].parent_scope
<1> DEFINE U == [T EXCEPT !.entity[e].complete = TRUE]
           new == [T.entity[e] EXCEPT !.complete = TRUE]
           parent == IF e \in DOMAIN T.entity THEN T.entity[e].parent_scope ELSE 0
<1>1. Put(T, U, e, new, T.aborted)
    <2>1. U.entity = [T.entity EXCEPT ![e] = new]
        BY DEF Shape
    <2> HIDE DEF new
    <2> QED BY <2>1 DEF Shape, Put
<1>2. parent \in Nat /\ T.aborted \in BOOLEAN
    <2>1. e \in DOMAIN T.entity => T.entity[e] \in EntityType
        BY DEF Shape
    <2> QED BY <2>1 DEF EntityType, Shape
<1>3. e \in DOMAIN T.entity =>
        new = [kind |-> T.entity[e].kind, symbol |-> T.entity[e].symbol,
               parent_scope |-> parent, own |-> T.entity[e].own, complete |-> TRUE]
    <2>1. SUFFICES ASSUME e \in DOMAIN T.entity
                   PROVE  new = [kind |-> T.entity[e].kind, symbol |-> T.entity[e].symbol,
                                 parent_scope |-> parent, own |-> T.entity[e].own, complete |-> TRUE]
        OBVIOUS
    <2>2. T.entity[e] \in EntityType /\ parent = T.entity[e].parent_scope
        BY <2>1 DEF Shape
    <2> HIDE DEF parent
    <2>3. PICK x : x = T.entity[e]
        OBVIOUS
    <2>4. x \in EntityType /\ new = [x EXCEPT !.complete = TRUE] /\ parent = x.parent_scope
        BY <2>2, <2>3
    <2>5. [x EXCEPT !.complete = TRUE] = [kind |-> x.kind, symbol |-> x.symbol,
             parent_scope |-> x.parent_scope, own |-> x.own, complete |-> TRUE]
        <3>1. PICK c : c = TRUE
            OBVIOUS
        <3>2. [x EXCEPT !.complete = c] = [kind |-> x.kind, symbol |-> x.symbol,
                 parent_scope |-> x.parent_scope, own |-> x.own, complete |-> c]
            <4> x \in EntityType
                BY <2>4
            <4> QED BY ONLY x \in EntityType DEF EntityType
        <3> QED BY <3>1, <3>2
    <2> QED BY <2>3, <2>4, <2>5
<1> HIDE DEF new, parent, U
<1>4. EntitySet(T, U, e, parent, TRUE, T.aborted)
    <2>1. TRUE \in BOOLEAN
        OBVIOUS
    <2> QED BY <2>1, <1>1, <1>2, <1>3, EntitySetIs
<1> QED BY <1>4 DEF U, parent

-----------------------------------------------------------------------------
(***************************************************************************)
(* What a declaration does to the table.                                   *)
(***************************************************************************)
Larger(T, U) ==
  /\ Good(U)
  /\ Len(T.env) <= Len(U.env) /\ Len(T.label) <= Len(U.label)
  /\ DOMAIN T.scope \subseteq DOMAIN U.scope /\ DOMAIN T.entity \subseteq DOMAIN U.entity

LEMMA Lengths ==
  ASSUME NEW T, Good(T)
  PROVE  /\ Len(T.env) \in Nat /\ DOMAIN T.env = 1 .. Len(T.env)
         /\ Len(T.label) \in Nat /\ DOMAIN T.label = 1 .. Len(T.label)
         /\ Len(T.entity) \in Nat /\ DOMAIN T.entity = 1 .. Len(T.entity)
         /\ Len(T.scope) \in Nat /\ DOMAIN T.scope = 1 .. Len(T.scope)
         /\ T.env \in Seq(EntryType) /\ T.label \in Seq(EntryType) /\ Shape(T) /\ Table(T) /\ Chained(T)
BY DEF Good, Table, Shape

LEMMA LargerTrans ==
  ASSUME NEW T, Good(T), NEW U, NEW V, Larger(T, U), Larger(U, V)
  PROVE  Larger(T, V)
<1>1. Good(U) /\ Good(V)
    BY DEF Larger
<1>2. /\ Len(T.env) \in Nat /\ Len(U.env) \in Nat /\ Len(V.env) \in Nat
      /\ Len(T.label) \in Nat /\ Len(U.label) \in Nat /\ Len(V.label) \in Nat
    BY <1>1, Lengths
<1>3. Len(T.env) <= Len(V.env) /\ Len(T.label) <= Len(V.label)
    BY <1>2 DEF Larger
<1> QED BY <1>1, <1>3 DEF Larger

LEMMA LargerSame ==
  ASSUME NEW T, Good(T), NEW U, Good(U), U.env = T.env, U.label = T.label,
         DOMAIN T.scope \subseteq DOMAIN U.scope, DOMAIN T.entity \subseteq DOMAIN U.entity
  PROVE  Larger(T, U)
<1>1. Len(T.env) \in Nat /\ Len(T.label) \in Nat
    BY Lengths
<1> QED BY <1>1 DEF Larger

LEMMA LargerSet ==
  ASSUME NEW T, Good(T), NEW U, NEW x, NEW parent, NEW complete, NEW aborted,
         EntitySet(T, U, x, parent, complete, aborted)
  PROVE  Larger(T, U)
<1>1. Good(U)
    BY GoodEntitySet
<1>2. U.env = T.env /\ U.label = T.label /\ U.scope = T.scope /\ DOMAIN U.entity = DOMAIN T.entity
    BY DEF EntitySet, Touched
<1> QED BY <1>1, <1>2, LargerSame

LEMMA LargerAllocate ==
  ASSUME NEW T, Good(T), NEW kind \in Kinds, NEW symbol \in Symbols, NEW parent \in Nat
  PROVE  /\ Larger(T, Allocate(T, kind, symbol, parent))
         /\ Good(Allocate(T, kind, symbol, parent))
<1> DEFINE U == Allocate(T, kind, symbol, parent)
<1>1. Good(U) /\ Allocated(T, U, kind, symbol, parent)
    BY FreshAllocated
<1> HIDE DEF U
<1>2. U.env = T.env /\ U.label = T.label /\ Len(U.entity) = Len(T.entity) + 1
    BY <1>1 DEF Allocated
<1>3. DOMAIN T.entity \subseteq DOMAIN U.entity
    <2>1. /\ DOMAIN T.entity = 1 .. Len(T.entity) /\ DOMAIN U.entity = 1 .. Len(U.entity)
          /\ Len(T.entity) \in Nat
        BY <1>1, Lengths
    <2> QED BY <2>1, <1>2
<1>4. DOMAIN T.scope \subseteq DOMAIN U.scope
    <2>1. U.scope = Append(T.scope, NewScope) \/ U.scope = T.scope
        BY <1>1 DEF Allocated
    <2>2. T.scope \in Seq(ScopeType)
        BY DEF Good, Table, Shape
    <2>3. CASE U.scope = Append(T.scope, NewScope)
        BY <2>2, <2>3
    <2>4. CASE U.scope = T.scope
        BY <2>4
    <2> QED BY <2>1, <2>3, <2>4
<1>5. Larger(T, U)
    BY <1>1, <1>2, <1>3, <1>4, LargerSame
<1> QED BY <1>1, <1>5 DEF U

LEMMA LargerAppend ==
  ASSUME NEW T, Good(T), NEW s \in DOMAIN T.scope, NEW e \in DOMAIN T.entity
  PROVE  Appended(T, append_entity(T, s, e), s, e) /\ Larger(T, append_entity(T, s, e))
<1> DEFINE U == append_entity(T, s, e)
<1>1. Appended(T, U, s, e)
    <2>1. Shape(T) /\ e \in Nat
        BY EntityFacts DEF Good, Table
    <2> QED BY <2>1, AppendEntityIs
<1> HIDE DEF U
<1>2. Good(U)
    BY <1>1, GoodAppended
<1>3. U.env = T.env /\ U.label = T.label /\ U.entity = T.entity /\ DOMAIN U.scope = DOMAIN T.scope
    BY <1>1 DEF Appended, Touched
<1>4. Larger(T, U)
    BY <1>2, <1>3, LargerSame
<1> QED BY <1>1, <1>4 DEF U

LEMMA LargerEnlist ==
  ASSUME NEW T, Good(T), NEW s \in DOMAIN T.scope, NEW e, FreshEntity(T, e)
  PROVE  /\ Enlisted(T, Enlist(T, e, s), e, s) /\ Larger(T, Enlist(T, e, s))
         /\ Enlist(T, e, s).entity = T.entity
<1> DEFINE U == Enlist(T, e, s)
<1>1. e \in DOMAIN T.entity /\ T.link[e] = Null
    BY DEF FreshEntity, Hidden
<1>2. Enlisted(T, U, e, s) /\ Good(U)
    BY <1>1, GoodEnlist
<1> HIDE DEF U
<1>3. /\ U.env = Append(T.env, Entry(T, e)) /\ U.label = T.label /\ U.entity = T.entity
      /\ DOMAIN U.scope = DOMAIN T.scope
    BY <1>2 DEF Enlisted
<1>4. Len(U.env) = Len(T.env) + 1 /\ Len(T.env) \in Nat /\ Len(T.label) \in Nat
    BY <1>3, Lengths
<1>5. Larger(T, U)
    BY <1>2, <1>3, <1>4 DEF Larger
<1> QED BY <1>2, <1>3, <1>5 DEF U

LEMMA LargerRecord ==
  ASSUME NEW T, Good(T), NEW s \in DOMAIN T.scope, NEW e, FreshEntity(T, e)
  PROVE  Larger(T, record_entity(T, s, e))
<1> DEFINE U == record_entity(T, s, e)
<1>1. e \in DOMAIN T.entity /\ T.link[e] = Null
    BY DEF FreshEntity, Hidden
<1>2. Recording(T, U)
    BY <1>1, RecordingIs
<1> HIDE DEF U
<1>3. Len(T.env) \in Nat /\ Len(T.label) \in Nat
    BY Lengths
<1>4. Larger(T, U)
    BY <1>2, <1>3 DEF Recording, Larger
<1> QED BY <1>4 DEF U

LEMMA LargerStackPush ==
  ASSUME NEW T, Good(T), NEW e, FreshEntity(T, e)
  PROVE  Larger(T, stack_push(T, "label", e)) /\ Larger(T, environment_push(T, e))
<1>1. e \in DOMAIN T.entity /\ T.link[e] = Null
    BY DEF FreshEntity, Hidden
<1>2. Larger(T, stack_push(T, "label", e))
    <2> DEFINE U == stack_push(T, "label", e)
    <2>1. Good(U)
        BY <1>1, GoodStackPush
    <2>2. /\ U.env = T.env /\ U.entity = T.entity /\ U.scope = T.scope
          /\ U.label = Append(T.label, Entry(T, e))
        BY <1>1, PushFields DEF Good
    <2> HIDE DEF U
    <2>3. Len(U.label) = Len(T.label) + 1 /\ Len(T.env) \in Nat /\ Len(T.label) \in Nat
        BY <2>2, Lengths
    <2>4. Larger(T, U)
        BY <2>1, <2>2, <2>3 DEF Larger
    <2> QED BY <2>4 DEF U
<1>3. Larger(T, environment_push(T, e))
    <2> DEFINE U == environment_push(T, e)
    <2>1. EnvPushed(T, U, e) /\ Good(U)
        BY <1>1, GoodEnvironmentPush
    <2>2. /\ U.label = T.label /\ U.entity = T.entity /\ U.scope = T.scope
          /\ U.env = Append(T.env, Entry(T, e))
        BY <2>1 DEF EnvPushed
    <2> HIDE DEF U
    <2>3. Len(U.env) = Len(T.env) + 1 /\ Len(T.env) \in Nat /\ Len(T.label) \in Nat
        BY <2>2, Lengths
    <2>4. Larger(T, U)
        BY <2>1, <2>2, <2>3 DEF Larger
    <2> QED BY <2>4 DEF U
<1> QED BY <1>2, <1>3

\* The table stays good, and what HeadList() says of a head whose parameters
\* are in the scope s, if there is one.
Keeps(T, U, s) ==
  /\ Larger(T, U)
  /\ \A top, nd, L : HeadList(T, top, s, nd, L) => \E M : HeadList(U, top, s, nd, M)

LEMMA KeepsTrans ==
  ASSUME NEW T, Good(T), NEW s, NEW U, NEW V, Keeps(T, U, s), Keeps(U, V, s)
  PROVE  Keeps(T, V, s)
<1>1. Larger(T, V)
    BY LargerTrans DEF Keeps
<1>2. ASSUME NEW top, NEW nd, NEW L, HeadList(T, top, s, nd, L)
      PROVE  \E M : HeadList(V, top, s, nd, M)
    <2>1. PICK N : HeadList(U, top, s, nd, N)
        BY <1>2 DEF Keeps
    <2> QED BY <2>1 DEF Keeps
<1> QED BY <1>1, <1>2 DEF Keeps

LEMMA KeepsSelf ==
  ASSUME NEW T, Good(T), NEW s
  PROVE  Keeps(T, T, s)
<1>1. Larger(T, T)
    BY LargerSame
<1> QED BY <1>1 DEF Keeps

LEMMA KeepsSet ==
  ASSUME NEW T, Good(T), NEW U, NEW x, NEW parent, NEW complete, NEW aborted,
         EntitySet(T, U, x, parent, complete, aborted), NEW s
  PROVE  Keeps(T, U, s)
<1>1. Larger(T, U)
    BY LargerSet
<1>2. ASSUME NEW top, NEW nd, NEW L, HeadList(T, top, s, nd, L)
      PROVE  HeadList(U, top, s, nd, L)
    BY <1>2, HeadEntitySet
<1> QED BY <1>1, <1>2 DEF Keeps

\* An entity is allocated and recorded,
LEMMA KeepsRecord ==
  ASSUME NEW T, Good(T), NEW kind \in Kinds, NEW symbol \in Symbols, NEW parent \in Nat,
         NEW s \in DOMAIN T.scope
  PROVE  Keeps(T, record_entity(Allocate(T, kind, symbol, parent), s, Fresh(T)), s)
<1> DEFINE V == Allocate(T, kind, symbol, parent)
           e == Fresh(T)
           U == record_entity(V, s, e)
<1>1. Good(V) /\ Larger(T, V) /\ FreshEntity(V, e)
    BY FreshAllocated, LargerAllocate
<1>2. \A top, nd, L : HeadList(T, top, s, nd, L) =>
        HeadList(V, top, s, nd, L) /\ e # nd /\ \A k \in DOMAIN L : L[k] # e
    BY HeadAllocate
<1> HIDE DEF V, e
<1>3. Larger(V, U)
    <2>1. s \in DOMAIN V.scope
        BY <1>1 DEF Larger
    <2> QED BY <2>1, <1>1, LargerRecord
<1>4. Larger(T, U)
    BY <1>1, <1>3, LargerTrans
<1>5. ASSUME NEW top, NEW nd, NEW L, HeadList(T, top, s, nd, L)
      PROVE  \E M : HeadList(U, top, s, nd, M)
    <2>1. HeadList(V, top, s, nd, L) /\ e # nd /\ \A k \in DOMAIN L : L[k] # e
        BY <1>2, <1>5
    <2> QED BY <2>1, <1>1, HeadRecord
<1> HIDE DEF U
<1>6. Keeps(T, U, s)
    BY <1>4, <1>5 DEF Keeps
<1> QED BY <1>6 DEF U, V, e

\* or enlisted,
LEMMA KeepsEnlist ==
  ASSUME NEW T, Good(T), NEW kind \in Kinds, NEW symbol \in Symbols, NEW parent \in Nat,
         NEW s \in DOMAIN T.scope
  PROVE  LET U == Enlist(Allocate(T, kind, symbol, parent), Fresh(T), s)
         IN /\ Keeps(T, U, s) /\ Fresh(T) \in DOMAIN U.entity
            /\ U.entity[Fresh(T)].kind = kind
            /\ U.entity[Fresh(T)].own # Null => U.entity[Fresh(T)].own \in DOMAIN U.scope
<1> DEFINE V == Allocate(T, kind, symbol, parent)
           e == Fresh(T)
           U == Enlist(V, e, s)
<1>1. Good(V) /\ Larger(T, V) /\ FreshEntity(V, e) /\ Allocated(T, V, kind, symbol, parent)
    BY FreshAllocated, LargerAllocate
<1>2. \A top, nd, L : HeadList(T, top, s, nd, L) =>
        HeadList(V, top, s, nd, L) /\ e # nd /\ \A k \in DOMAIN L : L[k] # e
    BY HeadAllocate
<1>3. V.entity[e].kind = kind
    BY <1>1 DEF Allocated
<1> HIDE DEF V, e
<1>4. Larger(V, U) /\ Enlisted(V, U, e, s) /\ U.entity = V.entity
    <2>1. s \in DOMAIN V.scope
        BY <1>1 DEF Larger
    <2> QED BY <2>1, <1>1, LargerEnlist
<1> HIDE DEF U
<1>5. Larger(T, U)
    BY <1>1, <1>4, LargerTrans
<1>6. ASSUME NEW top, NEW nd, NEW L, HeadList(T, top, s, nd, L)
      PROVE  \E M : HeadList(U, top, s, nd, M)
    <2>1. HeadList(V, top, s, nd, L) /\ e # nd /\ \A k \in DOMAIN L : L[k] # e
        BY <1>2, <1>6
    <2> QED BY <2>1, <1>1, <1>4, HeadEnlist
<1>7. Keeps(T, U, s)
    BY <1>5, <1>6 DEF Keeps
<1>8. e \in DOMAIN U.entity /\ U.entity[e].kind = kind
    BY <1>1, <1>3, <1>4 DEF FreshEntity, Hidden
<1>9. U.entity[e].own # Null => U.entity[e].own \in DOMAIN U.scope
    <2>1. Good(U)
        BY <1>4 DEF Larger
    <2>2. U.entity[e].own \in 0 .. Len(U.scope)
        BY <2>1, <1>8 DEF Good, OwnsOK
    <2>3. DOMAIN U.scope = 1 .. Len(U.scope) /\ Len(U.scope) \in Nat
        BY <2>1, Lengths
    <2> QED BY <2>2, <2>3 DEF Null
<1> QED BY <1>7, <1>8, <1>9 DEF U, V, e

\* The scopes of entities are different scopes.
LEMMA OtherOwn ==
  ASSUME NEW T, Good(T), NEW e \in DOMAIN T.entity, T.entity[e].kind # "function",
         T.entity[e].own # Null
  PROVE  /\ T.entity[e].own \in DOMAIN T.scope
         /\ \A top, s, nd, L : HeadList(T, top, s, nd, L) => s # T.entity[e].own
<1>1. T.entity[e].own \in DOMAIN T.scope
    <2>1. T.entity[e].own \in 0 .. Len(T.scope)
        BY DEF Good, OwnsOK
    <2>2. DOMAIN T.scope = 1 .. Len(T.scope) /\ Len(T.scope) \in Nat
        BY Lengths
    <2> QED BY <2>1, <2>2 DEF Null
<1>2. ASSUME NEW top, NEW s, NEW nd, NEW L, HeadList(T, top, s, nd, L), s = T.entity[e].own
      PROVE  FALSE
    <2>1. T.entity[nd].kind = "function" /\ T.entity[nd].own = s /\ nd \in DOMAIN T.entity
        BY <1>2 DEF HeadList, Hidden
    <2>2. nd = e
        BY <2>1, <1>2 DEF Good, OwnsOK
    <2> QED BY <2>1, <2>2
<1> QED BY <1>1, <1>2

\* or appended to the members of a struct,
LEMMA KeepsMember ==
  ASSUME NEW T, Good(T), NEW e \in DOMAIN T.entity, T.entity[e].kind # "function",
         T.entity[e].own # Null, NEW symbol \in Symbols, NEW s
  PROVE  LET own == T.entity[e].own
         IN Keeps(T, append_entity(Allocate(T, "member", symbol, own), own, Fresh(T)), s)
<1> DEFINE own == T.entity[e].own
           V == Allocate(T, "member", symbol, own)
           m == Fresh(T)
           U == append_entity(V, own, m)
<1>1. own \in DOMAIN T.scope /\ \A top, nd, L : HeadList(T, top, s, nd, L) => s # own
    BY OtherOwn
<1> HIDE DEF own
<1>2. "member" \in Kinds /\ own \in Nat
    <2>1. DOMAIN T.scope = 1 .. Len(T.scope) /\ Len(T.scope) \in Nat
        BY Lengths
    <2> QED BY <2>1, <1>1 DEF Kinds
<1>3. Good(V) /\ Larger(T, V) /\ FreshEntity(V, m)
    BY <1>2, FreshAllocated, LargerAllocate
<1>4. \A top, nd, L : HeadList(T, top, s, nd, L) =>
        HeadList(V, top, s, nd, L) /\ m # nd /\ \A k \in DOMAIN L : L[k] # m
    BY <1>2, HeadAllocate
<1> HIDE DEF V, m
<1>5. Appended(V, U, own, m) /\ Larger(V, U) /\ own \in DOMAIN V.scope
    <2>1. own \in DOMAIN V.scope /\ m \in DOMAIN V.entity
        BY <1>1, <1>3 DEF Larger, FreshEntity, Hidden
    <2> QED BY <2>1, <1>3, LargerAppend
<1> HIDE DEF U
<1>6. Larger(T, U)
    BY <1>3, <1>5, LargerTrans
<1>7. ASSUME NEW top, NEW nd, NEW L, HeadList(T, top, s, nd, L)
      PROVE  HeadList(U, top, s, nd, L)
    <2>1. HeadList(V, top, s, nd, L) /\ \A k \in DOMAIN L : L[k] # m
        BY <1>4, <1>7
    <2>2. own # s
        BY <1>1, <1>7
    <2> QED BY <2>1, <2>2, <1>3, <1>5, HeadMember
<1>8. Keeps(T, U, s)
    BY <1>6, <1>7 DEF Keeps
<1> QED BY <1>8 DEF U, V, m, own

\* and a struct loses its members.
LEMMA KeepsEmptied ==
  ASSUME NEW T, Good(T), NEW e \in DOMAIN T.entity, T.entity[e].kind # "function",
         T.entity[e].own # Null, NEW s
  PROVE  LET U == [T EXCEPT !.scope[T.entity[e].own].entities = Null]
         IN Keeps(T, U, s) /\ U.entity = T.entity
<1> DEFINE own == T.entity[e].own
           U == [T EXCEPT !.scope[own].entities = Null]
           new == [entities |-> Null, last_entity |-> T.scope[own].last_entity,
                   depth |-> T.scope[own].depth]
           Q == [T.scope EXCEPT ![own] = new]
<1>1. own \in DOMAIN T.scope /\ \A top, nd, L : HeadList(T, top, s, nd, L) => s # own
    BY OtherOwn
<1> HIDE DEF own
<1>2. Shape(T) /\ T.scope \in Seq(ScopeType) /\ T.scope[own] \in ScopeType
    BY <1>1 DEF Good, Table, Shape
<1>3. new \in ScopeType /\ new = [T.scope[own] EXCEPT !.entities = Null]
    <2>1. PICK c : c = T.scope[own]
        OBVIOUS
    <2>2. c \in ScopeType /\ Null \in Nat
        BY <2>1, <1>2 DEF Null
    <2>3. [c EXCEPT !.entities = Null]
            = [entities |-> Null, last_entity |-> c.last_entity, depth |-> c.depth]
        BY <2>2 DEF ScopeType
    <2>4. [entities |-> Null, last_entity |-> c.last_entity, depth |-> c.depth] \in ScopeType
        BY <2>2 DEF ScopeType
    <2> QED BY <2>1, <2>3, <2>4
<1>4. ScopePut(T, U, Q)
    <2> HIDE DEF new
    <2>1. U.scope = Q
        BY <1>3, <1>2 DEF Shape
    <2> HIDE DEF Q
    <2> QED BY <2>1, <1>2 DEF ScopePut, Shape
<1>5. /\ Q \in Seq(ScopeType) /\ DOMAIN Q = DOMAIN T.scope /\ Len(Q) = Len(T.scope)
      /\ \A x \in DOMAIN T.scope : Q[x] = IF x = own THEN new ELSE T.scope[x]
    <2> HIDE DEF new
    <2> QED BY <1>2, <1>3, SeqExceptIn
<1> HIDE DEF Q, U
<1>6. /\ Touched(T, U) /\ U.entity = T.entity /\ U.next = T.next /\ U.scope = Q
    BY <1>2, <1>4, <1>5, ScopePutIs
<1>7. \A x \in DOMAIN T.scope : /\ U.scope[x].last_entity = T.scope[x].last_entity
                                /\ x # own => U.scope[x].entities = T.scope[x].entities
    BY <1>5, <1>6
<1> HIDE DEF new
<1>8. Good(U) /\ Table(T) /\ Chained(T) /\ Len(T.scope) \in Nat
    <2>1. \A x \in DOMAIN U.scope : U.scope[x].last_entity \in 0 .. Len(T.entity)
        BY <1>5, <1>6, <1>7 DEF Good, OwnsOK
    <2>2. Len(T.scope) <= Len(U.scope) /\ Len(T.scope) \in Nat
        BY <1>2, <1>5, <1>6
    <2> QED BY <2>1, <2>2, <1>6, GoodTouched DEF Good
<1>9. Larger(T, U)
    <2>1. U.env = T.env /\ U.label = T.label
        BY <1>6 DEF Touched
    <2> QED BY <2>1, <1>5, <1>6, <1>8, LargerSame
<1>10. ASSUME NEW top, NEW nd, NEW L, HeadList(T, top, s, nd, L)
       PROVE  HeadList(U, top, s, nd, L)
    <2>1. ListPart(T, s, L) /\ s # own
        BY <1>1, <1>10 DEF HeadList
    <2>2. Shape(T) /\ Shape(U) /\ s \in DOMAIN U.scope /\ U.scope[s].entities = T.scope[s].entities
        BY <2>1, <1>2, <1>5, <1>6, <1>7 DEF ListPart, Touched
    <2>3. ListPart(U, s, L)
        BY <2>1, <2>2, <1>5, <1>6, <1>7, ListKept
    <2>4. Table(U) /\ Alike(T, U, {}) /\ U.env = T.env
        BY <1>6, <1>8, TouchedMeans DEF Touched
    <2> QED BY <2>3, <2>4, <1>6, <1>10, HeadKept
<1>11. Keeps(T, U, s)
    BY <1>9, <1>10 DEF Keeps
<1> QED BY <1>6, <1>11 DEF U, own

=============================================================================
