----------------------- MODULE EntityScopesRefinement -----------------------
(***************************************************************************)
(* EntityScopes implements LexicalScoping: what a name means is the        *)
(* innermost declaration, and the two stacks always hold what the names    *)
(* will mean when the scopes that are open are closed.                     *)
(***************************************************************************)
EXTENDS EntityScopesProofs

-----------------------------------------------------------------------------
(***************************************************************************)
(* What the names mean, now and later, in any table.                       *)
(***************************************************************************)
AllNames == Symbols \X NameSpaces

Mean(T, n) == get_entity(T, n[1], n[2])

\* LabelTop() and After() of the constructs stk over the table T.
FunctionsUpTo(stk, k) == { i \in 1 .. k : stk[i].what = "function" }

LabelTopOf(T, stk, k) ==
  IF FunctionsUpTo(stk, k) = {} THEN Len(T.label)
  ELSE stk[Max(FunctionsUpTo(stk, k))].label_top

Later(T, stk, k, n) ==
  Undone(Undone(Mean(T, n), T.env, stk[k].top, n), T.label, LabelTopOf(T, stk, k), n)

(***************************************************************************)
(* The invariant of the stacks.                                            *)
(***************************************************************************)
\* Every name with an entry means something: there is an entity to be
\* replaced. Only the first entry of a name remembers that it meant nothing.
Steady(T, stack) ==
  /\ \A i \in DOMAIN stack : Mean(T, Name(stack[i])) # Null
  /\ \A i, j \in DOMAIN stack :
       i < j /\ Name(stack[i]) = Name(stack[j]) => stack[j].old_entity # Null

IsLocal(T, e) == e \in DOMAIN T.entity /\ T.entity[e].kind = "local_label"

\* While the environment has an entry of a label, the label is a local one,
\* and still is when the younger entries of it have been put back.
Locals(T) ==
  /\ \A i \in DOMAIN T.env :
       T.env[i].namespc = "label" => IsLocal(T, Mean(T, Name(T.env[i])))
  /\ \A i, j \in DOMAIN T.env :
       i < j /\ T.env[i].namespc = "label" /\ Name(T.env[i]) = Name(T.env[j])
         => IsLocal(T, T.env[j].old_entity)

\* A name with entries on both stacks: that of the environment is younger,
\* and in the same function or in one inside it.
Apart(T, stk) ==
  \A i \in DOMAIN T.label, j \in DOMAIN T.env :
    Name(T.label[i]) = Name(T.env[j]) =>
      /\ T.env[j].old_entity # Null
      /\ \A k \in DOMAIN stk :
           k > 1 /\ stk[k].what = "function" /\ j <= stk[k - 1].top => i <= stk[k].label_top

Disciplined(T, stk) ==
  Steady(T, T.env) /\ Steady(T, T.label) /\ Locals(T) /\ Apart(T, stk)

\* A current function has a construct; so has the function around it. The
\* body of a function is directly inside it.
Enclosed(stk, cf) ==
  /\ cf # Null => \E k \in DOMAIN stk : stk[k].what = "function"
  /\ \A k \in DOMAIN stk :
       stk[k].what = "function" /\ stk[k].old_function # Null
         => \E l \in DOMAIN stk : k < l /\ stk[l].what = "function"
  /\ \A k \in DOMAIN stk : stk[k].what = "function" => k > 1 /\ stk[k - 1].what = "block"

\* A function is not defined before the end of its head.
Pending(T, stk) ==
  \A k \in DOMAIN stk : stk[k].what = "kr" => ~T.entity[stk[k].declared].complete

\* No label is on the list of a scope.
Listable(T, x) == x # Null => x \in DOMAIN T.entity /\ Space(T, x) # "label"

Listing(T) ==
  /\ \A y \in DOMAIN T.next : Listable(T, T.next[y])
  /\ \A s \in DOMAIN T.scope : Listable(T, T.scope[s].entities)

StackInv ==
  /\ ScopeInv
  /\ Listing(table)
  /\ Disciplined(table, open)
  /\ Enclosed(open, current_function)
  /\ Pending(table, open)
  /\ Len(table.entity) <= MaxEntities

-----------------------------------------------------------------------------
(***************************************************************************)
(* What remains of a name when the entries above top are put back.         *)
(***************************************************************************)
LEMMA Least ==
  ASSUME NEW S, S \subseteq Nat, S # {}
  PROVE  \E m \in S : \A x \in S : m <= x
<1> SUFFICES ASSUME \A m \in S : \E x \in S : ~(m <= x) PROVE FALSE
  OBVIOUS
<1> DEFINE Q == { n \in Nat : \A x \in S : n <= x }
<1>1. 0 \in Q
  OBVIOUS
<1>2. ASSUME NEW n \in Nat, n \in Q PROVE n + 1 \in Q
  <2>1. n \notin S
    BY <1>2
  <2>2. \A x \in S : n + 1 <= x
    BY <1>2, <2>1
  <2> QED BY <2>2
<1>3. \A n \in Nat : n \in Q
  <2> HIDE DEF Q
  <2> QED BY <1>1, <1>2, Induction
<1>4. PICK x : x \in S
  OBVIOUS
<1>5. x + 1 \in Q
  BY <1>3, <1>4
<1> QED BY <1>4, <1>5

LEMMA Greatest ==
  ASSUME NEW k \in Nat, NEW S, S \subseteq 0 .. k, S # {}
  PROVE  \E m \in S : \A x \in S : x <= m
<1> DEFINE R == { k - x : x \in S }
<1>1. R \subseteq Nat /\ R # {}
  <2>1. \A x \in S : k - x \in Nat
    OBVIOUS
  <2>2. PICK x : x \in S
    OBVIOUS
  <2> QED BY <2>1, <2>2
<1>2. PICK r \in R : \A x \in R : r <= x
  <2> HIDE DEF R
  <2> QED BY <1>1, Least
<1>3. PICK m \in S : r = k - m
  BY <1>2
<1>4. ASSUME NEW x \in S PROVE x <= m
  <2>1. r <= k - x
    BY <1>2
  <2> QED BY <2>1, <1>3
<1> QED BY <1>4

Oldest(stack, top, n, i) ==
  /\ i \in top + 1 .. Len(stack) /\ Name(stack[i]) = n
  /\ \A j \in top + 1 .. Len(stack) : Name(stack[j]) = n => i <= j

Absent(stack, top, n) == \A i \in top + 1 .. Len(stack) : Name(stack[i]) # n

LEMMA UndoneCases ==
  ASSUME NEW stack, NEW top \in Nat, NEW n
  PROVE  Absent(stack, top, n) \/ \E i : Oldest(stack, top, n, i)
<1> SUFFICES ASSUME ~Absent(stack, top, n) PROVE \E i : Oldest(stack, top, n, i)
  OBVIOUS
<1> DEFINE S == { i \in top + 1 .. Len(stack) : Name(stack[i]) = n }
<1>1. S # {} /\ S \subseteq Nat
  BY DEF Absent
<1>2. PICK i \in S : \A j \in S : i <= j
  <2> HIDE DEF S
  <2> QED BY <1>1, Least
<1> QED BY <1>2 DEF Oldest

LEMMA UndoneIs ==
  ASSUME NEW stack, NEW top \in Nat, NEW n, NEW e
  PROVE  /\ Absent(stack, top, n) => Undone(e, stack, top, n) = e
         /\ \A i : Oldest(stack, top, n, i) => Undone(e, stack, top, n) = stack[i].old_entity
<1> DEFINE S == { i \in top + 1 .. Len(stack) : Name(stack[i]) = n }
<1>1. Undone(e, stack, top, n) = IF S = {} THEN e ELSE stack[Min(S)].old_entity
  BY DEF Undone
<1>2. Absent(stack, top, n) => S = {}
  BY DEF Absent
<1>3. ASSUME NEW i, Oldest(stack, top, n, i) PROVE S # {} /\ Min(S) = i
  <2>1. i \in S /\ \A j \in S : i <= j
    BY <1>3 DEF Oldest
  <2>2. S \subseteq Nat
    OBVIOUS
  <2> HIDE DEF S
  <2>3. \A j \in S : (\A x \in S : j <= x) => j = i
    BY <2>1, <2>2
  <2>4. Min(S) = i
    BY <2>1, <2>3 DEF Min
  <2> QED BY <2>1, <2>4
<1> HIDE DEF S
<1> QED BY <1>1, <1>2, <1>3

LEMMA UndoneEmpty ==
  ASSUME NEW stack, Len(stack) \in Nat, NEW n, NEW e
  PROVE  Undone(e, stack, Len(stack), n) = e
<1>1. Absent(stack, Len(stack), n)
  BY DEF Absent
<1> QED BY <1>1, UndoneIs

LEMMA UndoneAppend ==
  ASSUME NEW stack \in Seq(EntryType), NEW entry \in EntryType, NEW top \in 0 .. Len(stack),
         NEW n, NEW e
  PROVE  Undone(e, Append(stack, entry), top, n)
           = IF Name(entry) = n /\ Absent(stack, top, n) THEN entry.old_entity
             ELSE Undone(e, stack, top, n)
<1> DEFINE q == Append(stack, entry)
<1>1. PICK m : m = Len(stack)
  OBVIOUS
<1>2. /\ m \in Nat /\ Len(q) = m + 1 /\ top \in 0 .. m /\ top \in Nat
      /\ q[m + 1] = entry /\ \A i \in 1 .. m : q[i] = stack[i]
  BY <1>1
<1> HIDE DEF q
<1>3. CASE Absent(stack, top, n) /\ Name(entry) = n
  <2>1. Oldest(q, top, n, m + 1)
    BY <1>1, <1>2, <1>3 DEF Oldest, Absent
  <2>2. Undone(e, q, top, n) = entry.old_entity
    BY <1>2, <2>1, UndoneIs
  <2> QED BY <1>3, <2>2 DEF q
<1>4. CASE Absent(stack, top, n) /\ Name(entry) # n
  <2>1. Absent(q, top, n)
    BY <1>1, <1>2, <1>4 DEF Absent
  <2>2. Undone(e, q, top, n) = e /\ Undone(e, stack, top, n) = e
    BY <1>2, <1>4, <2>1, UndoneIs
  <2> QED BY <1>4, <2>2 DEF q
<1>5. CASE ~Absent(stack, top, n)
  <2>1. PICK i : Oldest(stack, top, n, i)
    BY <1>2, <1>5, UndoneCases
  <2>2. Oldest(q, top, n, i) /\ q[i] = stack[i]
    BY <1>1, <1>2, <2>1 DEF Oldest
  <2>3. Undone(e, q, top, n) = stack[i].old_entity /\ Undone(e, stack, top, n) = stack[i].old_entity
    BY <1>2, <2>1, <2>2, UndoneIs
  <2> QED BY <1>5, <2>3 DEF q
<1> QED BY <1>3, <1>4, <1>5

\* Putting back the entries above a, then those above b.
LEMMA UndoneTwice ==
  ASSUME NEW stack \in Seq(EntryType), NEW a \in 0 .. Len(stack), NEW b \in 0 .. a, NEW n, NEW e
  PROVE  Undone(Undone(e, stack, a, n), SubSeq(stack, 1, a), b, n) = Undone(e, stack, b, n)
<1> DEFINE q == SubSeq(stack, 1, a)
           d == Undone(e, stack, a, n)
<1>1. PICK m : m = Len(stack)
  OBVIOUS
<1>2. /\ m \in Nat /\ Len(q) = a /\ a \in 0 .. m /\ b \in 0 .. a /\ a \in Nat /\ b \in Nat
      /\ \A i \in 1 .. a : q[i] = stack[i]
  BY <1>1
<1> HIDE DEF q, d
<1>3. CASE Absent(q, b, n)
  <2>1. Undone(d, q, b, n) = d
    BY <1>2, <1>3, UndoneIs
  <2>2. CASE Absent(stack, a, n)
    <3>1. Absent(stack, b, n)
      BY <1>1, <1>2, <1>3, <2>2 DEF Absent
    <3>2. d = e /\ Undone(e, stack, b, n) = e
      BY <1>2, <2>2, <3>1, UndoneIs DEF d
    <3> QED BY <2>1, <3>2 DEF q, d
  <2>3. CASE ~Absent(stack, a, n)
    <3>1. PICK i : Oldest(stack, a, n, i)
      BY <1>2, <2>3, UndoneCases
    <3>2. Oldest(stack, b, n, i)
      <4>1. i \in b + 1 .. m /\ Name(stack[i]) = n
        BY <1>1, <1>2, <3>1 DEF Oldest
      <4>2. ASSUME NEW j \in b + 1 .. m, Name(stack[j]) = n PROVE i <= j
        <5>1. CASE j <= a
          BY <5>1, <4>2, <1>2, <1>3 DEF Absent
        <5>2. CASE ~(j <= a)
          BY <5>2, <4>2, <1>1, <1>2, <3>1 DEF Oldest
        <5> QED BY <5>1, <5>2
      <4> QED BY <1>1, <4>1, <4>2 DEF Oldest
    <3>3. d = stack[i].old_entity /\ Undone(e, stack, b, n) = stack[i].old_entity
      BY <1>2, <3>1, <3>2, UndoneIs DEF d
    <3> QED BY <2>1, <3>3 DEF q, d
  <2> QED BY <2>2, <2>3
<1>4. CASE ~Absent(q, b, n)
  <2>1. PICK i : Oldest(q, b, n, i)
    BY <1>2, <1>4, UndoneCases
  <2>2. i \in 1 .. a /\ q[i] = stack[i]
    BY <1>2, <2>1 DEF Oldest
  <2>3. Oldest(stack, b, n, i)
    <3>1. i \in b + 1 .. m /\ Name(stack[i]) = n
      BY <1>2, <2>1, <2>2 DEF Oldest
    <3>2. ASSUME NEW j \in b + 1 .. m, Name(stack[j]) = n PROVE i <= j
      <4>1. CASE j <= a
        <5>1. q[j] = stack[j] /\ j \in b + 1 .. Len(q)
          BY <4>1, <1>2
        <5> QED BY <5>1, <3>2, <2>1 DEF Oldest
      <4>2. CASE ~(j <= a)
        BY <4>2, <2>2, <1>2
      <4> QED BY <4>1, <4>2
    <3> QED BY <1>1, <3>1, <3>2 DEF Oldest
  <2>4. Undone(d, q, b, n) = q[i].old_entity /\ Undone(e, stack, b, n) = stack[i].old_entity
    BY <1>2, <2>1, <2>3, UndoneIs
  <2> QED BY <2>2, <2>4 DEF q, d
<1> QED BY <1>3, <1>4

-----------------------------------------------------------------------------
(***************************************************************************)
(* What declarations keep. The m entities they add at most may change what *)
(* the names N mean, but not what any name will mean after the constructs  *)
(* that are open.                                                          *)
(***************************************************************************)
SameLater(T, U, stk) ==
  \A k \in DOMAIN stk : \A n \in AllNames : Later(U, stk, k, n) = Later(T, stk, k, n)

Changes(T, U, N) ==
  \A n \in AllNames : Mean(U, n) # Mean(T, n) => n \in N /\ Mean(U, n) \in DOMAIN U.entity

\* No entity becomes another one, and no function gets a body.
Kept(T, U) ==
  \A x \in DOMAIN T.entity :
    /\ U.entity[x].kind = T.entity[x].kind
    /\ T.entity[x].kind = "function" => U.entity[x].complete = T.entity[x].complete

Grown(T, U, N, m) ==
  /\ Larger(T, U) /\ Len(U.entity) <= Len(T.entity) + m /\ Kept(T, U)
  /\ Listing(T) => Listing(U)
  /\ Changes(T, U, N)
  /\ \A stk : Nested(T, stk) /\ Disciplined(T, stk) => Disciplined(U, stk) /\ SameLater(T, U, stk)

\* The pointers of U are those of T, or lead to a new entity e.
LEMMA ListingKept ==
  ASSUME NEW T, NEW U, DOMAIN T.entity \subseteq DOMAIN U.entity, Kept(T, U), Listing(T),
         NEW e, Listable(U, e),
         \A y \in DOMAIN U.next :
           U.next[y] \in {Null, e} \/ (y \in DOMAIN T.next /\ U.next[y] = T.next[y]),
         \A s \in DOMAIN U.scope :
           \/ U.scope[s].entities \in {Null, e}
           \/ \E x \in DOMAIN T.scope : U.scope[s].entities = T.scope[x].entities
  PROVE  Listing(U)
<1>1. \A x : Listable(T, x) => Listable(U, x)
  BY DEF Listable, Kept, Space
<1>2. Listable(U, Null)
  BY DEF Listable
<1> QED BY <1>1, <1>2 DEF Listing

LEMMA GrownTrans ==
  ASSUME NEW T, Good(T), NEW U, NEW V, NEW N, NEW M, NEW a \in Nat, NEW b \in Nat,
         Grown(T, U, N, a), Grown(U, V, M, b)
  PROVE  Grown(T, V, N \cup M, a + b)
<1>1. Larger(T, U) /\ Larger(U, V) /\ Larger(T, V)
  BY LargerTrans DEF Grown
<1>2. Good(U) /\ Good(V) /\ DOMAIN U.entity \subseteq DOMAIN V.entity
  BY <1>1 DEF Larger
<1>3. Len(V.entity) <= Len(T.entity) + (a + b)
  <2>1. /\ Len(T.entity) \in Nat /\ Len(U.entity) \in Nat /\ Len(V.entity) \in Nat
        /\ Len(U.entity) <= Len(T.entity) + a /\ Len(V.entity) <= Len(U.entity) + b
    BY <1>2, Lengths DEF Grown
  <2>2. PICK x, y, z : x = Len(T.entity) /\ y = Len(U.entity) /\ z = Len(V.entity)
    OBVIOUS
  <2>3. x \in Nat /\ y \in Nat /\ z \in Nat /\ y <= x + a /\ z <= y + b
    BY <2>1, <2>2
  <2>4. z <= x + (a + b)
    BY ONLY <2>3, a \in Nat, b \in Nat
  <2> QED BY <2>2, <2>4
<1>4. Changes(T, V, N \cup M)
  BY <1>2 DEF Grown, Changes
<1>5. ASSUME NEW stk, Nested(T, stk), Disciplined(T, stk)
      PROVE  Disciplined(V, stk) /\ SameLater(T, V, stk)
  <2>1. Disciplined(U, stk) /\ SameLater(T, U, stk)
    BY <1>5 DEF Grown
  <2>2. Nested(U, stk)
    BY <1>1, <1>5, NestedLarger
  <2>3. Disciplined(V, stk) /\ SameLater(U, V, stk)
    BY <2>1, <2>2 DEF Grown
  <2> QED BY <2>1, <2>3 DEF SameLater
<1>6. Kept(T, V)
  <2>1. Kept(T, U) /\ Kept(U, V) /\ DOMAIN T.entity \subseteq DOMAIN U.entity
    BY <1>1 DEF Grown, Larger
  <2> QED BY ONLY <2>1 DEF Kept
<1> QED BY <1>1, <1>3, <1>4, <1>5, <1>6 DEF Grown

LEMMA GrownWider ==
  ASSUME NEW T, Good(T), NEW U, NEW N, NEW M, NEW a \in Nat, NEW b \in Nat,
         Grown(T, U, N, a), N \subseteq M, a <= b
  PROVE  Grown(T, U, M, b)
<1>1. Len(U.entity) <= Len(T.entity) + b
  <2>1. Len(T.entity) \in Nat /\ Len(U.entity) \in Nat /\ Len(U.entity) <= Len(T.entity) + a
    BY Lengths DEF Grown, Larger
  <2>2. PICK x, y : x = Len(T.entity) /\ y = Len(U.entity)
    OBVIOUS
  <2> QED BY <2>1, <2>2
<1> QED BY <1>1 DEF Grown, Changes

\* The name of an entry, and of an entity.
LEMMA EntryNames ==
  /\ \A entry \in EntryType : Name(entry) \in AllNames
  /\ \A n \in AllNames : n = << n[1], n[2] >> /\ n[1] \in Symbols /\ n[2] \in NameSpaces
BY DEF EntryType, AllNames, Name

LEMMA StackEntries ==
  ASSUME NEW T, Good(T)
  PROVE  /\ \A i \in DOMAIN T.env : T.env[i] \in EntryType /\ Name(T.env[i]) \in AllNames
         /\ \A i \in DOMAIN T.label : T.label[i] \in EntryType /\ Name(T.label[i]) \in AllNames
<1>1. T.env \in Seq(EntryType) /\ T.label \in Seq(EntryType)
  BY Lengths
<1>2. \A q \in Seq(EntryType) : \A i \in DOMAIN q : q[i] \in EntryType
  OBVIOUS
<1> QED BY <1>1, <1>2, EntryNames

LEMMA MeanNamed ==
  ASSUME NEW T, Good(T), NEW n \in AllNames, Mean(T, n) # Null
  PROVE  Mean(T, n) \in DOMAIN T.entity /\ NameOf(T, Mean(T, n)) = n
<1>1. n[1] \in Symbols /\ n[2] \in NameSpaces /\ n = << n[1], n[2] >>
  BY EntryNames
<1>2. Shape(T) /\ Chained(T)
  BY Lengths
<1>3. /\ Mean(T, n) \in DOMAIN T.entity
      /\ Symbol(T, Mean(T, n)) = n[1] /\ Space(T, Mean(T, n)) = n[2]
  BY <1>1, <1>2, MeaningNamed DEF Mean
<1> QED BY <1>1, <1>3 DEF NameOf

\* What only changes the fields that no lookup reads keeps all of this.
LEMMA SameMeanings ==
  ASSUME NEW T, Good(T), NEW U, U.env = T.env, U.label = T.label,
         \A n \in AllNames : Mean(U, n) = Mean(T, n),
         DOMAIN T.entity \subseteq DOMAIN U.entity,
         \A x \in DOMAIN T.entity : U.entity[x].kind = T.entity[x].kind
  PROVE  \A stk : /\ Disciplined(T, stk) => Disciplined(U, stk)
                  /\ SameLater(T, U, stk)
<1>1. \A e : IsLocal(T, e) => IsLocal(U, e)
  BY DEF IsLocal
<1>2. ASSUME NEW stk, Disciplined(T, stk) PROVE Disciplined(U, stk)
  <2>1. Steady(U, U.env)
    BY <1>2, StackEntries DEF Disciplined, Steady
  <2>2. Steady(U, U.label)
    BY <1>2, StackEntries DEF Disciplined, Steady
  <2>3. Locals(U)
    <3>1. \A i \in DOMAIN T.env : Mean(U, Name(T.env[i])) = Mean(T, Name(T.env[i]))
      BY StackEntries
    <3> QED BY <3>1, <1>1, <1>2 DEF Disciplined, Locals
  <2>4. Apart(U, stk)
    BY <1>2 DEF Disciplined, Apart
  <2> QED BY <2>1, <2>2, <2>3, <2>4 DEF Disciplined
<1>3. ASSUME NEW stk PROVE SameLater(T, U, stk)
  BY DEF SameLater, Later, LabelTopOf
<1> QED BY <1>2, <1>3

\* Tables with the same names and stacks.
LEMMA GrownSame ==
  ASSUME NEW T, Good(T), NEW U, Larger(T, U), U.env = T.env, U.label = T.label,
         \A n \in AllNames : Mean(U, n) = Mean(T, n),
         Kept(T, U), Listing(T) => Listing(U),
         NEW m \in Nat, Len(U.entity) <= Len(T.entity) + m
  PROVE  Grown(T, U, {}, m)
<1>1. Good(U) /\ DOMAIN T.entity \subseteq DOMAIN U.entity
  BY DEF Larger
<1>2. Changes(T, U, {})
  BY DEF Changes
<1>3. \A x \in DOMAIN T.entity : U.entity[x].kind = T.entity[x].kind
  BY DEF Kept
<1>4. \A stk : (Disciplined(T, stk) => Disciplined(U, stk)) /\ SameLater(T, U, stk)
  BY <1>1, <1>3, SameMeanings
<1> QED BY <1>2, <1>4 DEF Grown

LEMMA GrownSelf ==
  ASSUME NEW T, Good(T)
  PROVE  Grown(T, T, {}, 0)
<1>1. Larger(T, T)
  BY LargerSame
<1>2. Len(T.entity) <= Len(T.entity) + 0
  BY Lengths
<1>3. Kept(T, T)
  BY DEF Kept
<1> QED BY <1>1, <1>2, <1>3, GrownSame

\* A local label, or anything that is not a label, is pushed.
LEMMA GrownPush ==
  ASSUME NEW T, Good(T), NEW U, Larger(T, U), NEW e \in DOMAIN T.entity, Pushed(T, U, e),
         U.entity = T.entity, U.env = Append(T.env, Entry(T, e)), U.label = T.label,
         Space(T, e) = "label" => T.entity[e].kind = "local_label",
         Listing(T) => Listing(U)
  PROVE  Grown(T, U, { NameOf(T, e) }, 0)
<1> DEFINE n == NameOf(T, e)
           new == Entry(T, e)
           m == Len(T.env)
<1>1. /\ Good(U) /\ e \in DOMAIN U.entity /\ e # Null
      /\ Symbol(T, e) \in Symbols /\ Space(T, e) \in NameSpaces
  BY EntityFacts, Lengths DEF Larger
<1>2. /\ T.env \in Seq(EntryType) /\ m \in Nat /\ DOMAIN T.env = 1 .. m
      /\ T.label \in Seq(EntryType)
  BY Lengths
<1>3. /\ new \in EntryType /\ Name(new) = n /\ new.old_entity = Mean(T, n) /\ n \in AllNames
      /\ new.namespc = n[2] /\ n[2] = Space(T, e)
  <2>1. Mean(T, n) \in Nat
    BY <1>1, MeaningType, Lengths DEF Mean, NameOf
  <2> QED BY <1>1, <2>1 DEF Entry, EntryType, Name, NameOf, Mean, AllNames
<1>4. \A x \in AllNames : Mean(U, x) = IF x = n THEN e ELSE Mean(T, x)
  <2>1. ASSUME NEW x \in AllNames
        PROVE  Mean(U, x) = IF x = n THEN e ELSE Mean(T, x)
    <3>1. x[1] \in Symbols /\ x[2] \in NameSpaces /\ x = << x[1], x[2] >>
      BY EntryNames
    <3>2. Mean(U, x) = IF x[1] = Symbol(T, e) /\ x[2] = Space(T, e) THEN e ELSE Mean(T, x)
      BY <3>1 DEF Pushed, Mean
    <3>3. x = n <=> x[1] = Symbol(T, e) /\ x[2] = Space(T, e)
      BY <3>1 DEF NameOf
    <3> QED BY <3>2, <3>3
  <2> QED BY <2>1
<1>5. /\ U.env \in Seq(EntryType) /\ DOMAIN U.env = 1 .. m + 1 /\ U.env[m + 1] = new
      /\ \A i \in 1 .. m : U.env[i] = T.env[i] /\ i # m + 1 /\ Name(T.env[i]) \in AllNames
      /\ \A i \in 1 .. m + 1 : i \in 1 .. m \/ i = m + 1
  <2>1. \A i \in DOMAIN T.env : Name(T.env[i]) \in AllNames
    BY StackEntries
  <2>2. PICK q, k : q = T.env /\ k = m
    OBVIOUS
  <2> HIDE DEF new, m, n
  <2>3. /\ q \in Seq(EntryType) /\ k \in Nat /\ Len(q) = k /\ U.env = Append(q, new) /\ new \in EntryType
    BY <1>2, <1>3, <2>2 DEF m, new
  <2>4. /\ U.env \in Seq(EntryType) /\ DOMAIN U.env = 1 .. k + 1 /\ U.env[k + 1] = new
        /\ \A i \in 1 .. k : U.env[i] = q[i] /\ i # k + 1
        /\ \A i \in 1 .. k + 1 : i \in 1 .. k \/ i = k + 1
    BY ONLY <2>3
  <2> QED BY <1>2, <2>1, <2>2, <2>4
<1>6. \A i \in DOMAIN T.label : Name(T.label[i]) \in AllNames
  BY StackEntries
<1>7. Changes(T, U, {n})
  BY <1>1, <1>4 DEF Changes
<1>8. \A x : IsLocal(T, x) <=> IsLocal(U, x)
  BY DEF IsLocal
<1> HIDE DEF new, n, m
<1>9. ASSUME NEW stk, Nested(T, stk), Disciplined(T, stk)
      PROVE  Disciplined(U, stk) /\ SameLater(T, U, stk)
  <2>1. Steady(T, T.env) /\ Steady(T, T.label) /\ Locals(T) /\ Apart(T, stk)
    BY <1>9 DEF Disciplined
  <2>2. Steady(U, U.env)
    <3>1. ASSUME NEW i \in 1 .. m + 1 PROVE Mean(U, Name(U.env[i])) # Null
      <4>1. CASE i \in 1 .. m
        BY <4>1, <1>1, <1>2, <1>4, <1>5, <2>1 DEF Steady
      <4>2. CASE i = m + 1
        BY <4>2, <1>1, <1>3, <1>4, <1>5
      <4> QED BY <4>1, <4>2, <1>5
    <3>2. ASSUME NEW i \in 1 .. m + 1, NEW j \in 1 .. m + 1, i < j, Name(U.env[i]) = Name(U.env[j])
          PROVE  U.env[j].old_entity # Null
      <4>0. i \in 1 .. m
        BY <3>2, <1>2
      <4>1. CASE j \in 1 .. m
        BY <4>0, <4>1, <3>2, <1>2, <1>5, <2>1 DEF Steady
      <4>2. CASE j = m + 1
        <5>1. Name(T.env[i]) = n /\ U.env[j].old_entity = Mean(T, n)
          BY <4>0, <4>2, <3>2, <1>3, <1>5
        <5>2. Mean(T, Name(T.env[i])) # Null
          BY <4>0, <1>2, <2>1 DEF Steady
        <5> QED BY <5>1, <5>2
      <4> QED BY <4>1, <4>2, <1>5
    <3> QED BY <3>1, <3>2, <1>5 DEF Steady
  <2>3. Steady(U, U.label)
    BY <1>1, <1>4, <1>6, <2>1 DEF Steady
  <2>4. Locals(U)
    <3>1. ASSUME NEW i \in 1 .. m + 1, U.env[i].namespc = "label"
          PROVE  IsLocal(U, Mean(U, Name(U.env[i])))
      <4>1. CASE Name(U.env[i]) = n
        <5>1. n[2] = "label"
          BY <4>1, <3>1 DEF Name
        <5>2. IsLocal(U, e)
          BY <5>1, <1>1, <1>3 DEF IsLocal
        <5> QED BY <4>1, <5>2, <1>3, <1>4
      <4>2. CASE Name(U.env[i]) # n
        <5>1. i \in 1 .. m
          BY <4>2, <1>3, <1>5
        <5>2. IsLocal(T, Mean(T, Name(T.env[i])))
          BY <5>1, <3>1, <1>2, <1>5, <2>1 DEF Locals
        <5> QED BY <4>2, <5>1, <5>2, <1>4, <1>5, <1>8
      <4> QED BY <4>1, <4>2
    <3>2. ASSUME NEW i \in 1 .. m + 1, NEW j \in 1 .. m + 1, i < j,
                 U.env[i].namespc = "label", Name(U.env[i]) = Name(U.env[j])
          PROVE  IsLocal(U, U.env[j].old_entity)
      <4>0. i \in 1 .. m
        BY <3>2, <1>2
      <4>1. CASE j \in 1 .. m
        BY <4>0, <4>1, <3>2, <1>2, <1>5, <1>8, <2>1 DEF Locals
      <4>2. CASE j = m + 1
        <5>1. Name(T.env[i]) = n /\ U.env[j].old_entity = Mean(T, n) /\ T.env[i].namespc = "label"
          BY <4>0, <4>2, <3>2, <1>3, <1>5
        <5>2. IsLocal(T, Mean(T, Name(T.env[i])))
          BY <4>0, <5>1, <1>2, <2>1 DEF Locals
        <5> QED BY <5>1, <5>2, <1>8
      <4> QED BY <4>1, <4>2, <1>5
    <3> QED BY <3>1, <3>2, <1>5 DEF Locals
  <2>5. Apart(U, stk)
    <3> SUFFICES ASSUME NEW i \in DOMAIN T.label, NEW j \in 1 .. m + 1,
                        Name(T.label[i]) = Name(U.env[j])
                 PROVE  /\ U.env[j].old_entity # Null
                        /\ \A k \in DOMAIN stk :
                             k > 1 /\ stk[k].what = "function" /\ j <= stk[k - 1].top
                               => i <= stk[k].label_top
      BY <1>5 DEF Apart
    <3>1. CASE j \in 1 .. m
      BY <3>1, <1>2, <1>5, <2>1 DEF Apart
    <3>2. CASE j = m + 1
      <4>1. Name(T.label[i]) = n /\ U.env[j].old_entity = Mean(T, n)
        BY <3>2, <1>3, <1>5
      <4>2. Mean(T, n) # Null
        BY <4>1, <2>1 DEF Steady
      <4>3. ASSUME NEW k \in DOMAIN stk, k > 1 PROVE ~(j <= stk[k - 1].top)
        <5>1. stk \in Seq(OpenType) /\ \A l \in DOMAIN stk : stk[l].top <= m
          BY <1>9 DEF Nested, m
        <5>2. k - 1 \in DOMAIN stk
          BY <5>1, <4>3
        <5>3. stk[k - 1] \in OpenType
          BY <5>1, <5>2
        <5>4. stk[k - 1].top \in Nat /\ stk[k - 1].top <= m
          BY <5>1, <5>2, <5>3 DEF OpenType
        <5> QED BY <5>4, <3>2, <1>2
      <4> QED BY <4>1, <4>2, <4>3
    <3> QED BY <3>1, <3>2, <1>5
  <2>6. SameLater(T, U, stk)
    <3>1. ASSUME NEW k \in DOMAIN stk, NEW x \in AllNames
          PROVE  Later(U, stk, k, x) = Later(T, stk, k, x)
      <4>1. stk[k].top \in 0 .. Len(T.env)
        <5>1. stk \in Seq(OpenType) /\ \A l \in DOMAIN stk : stk[l].top <= Len(T.env)
          BY <1>9 DEF Nested
        <5>2. stk[k] \in OpenType
          BY <5>1
        <5>3. stk[k].top \in Nat /\ stk[k].top <= Len(T.env) /\ Len(T.env) \in Nat
          BY <5>1, <5>2, Lengths DEF OpenType
        <5> QED BY <5>3
      <4>2. Undone(Mean(U, x), U.env, stk[k].top, x) = Undone(Mean(T, x), T.env, stk[k].top, x)
        <5>1. PICK p \in 0 .. Len(T.env) : p = stk[k].top
          BY <4>1
        <5>2. U.env = Append(T.env, new)
          BY DEF new
        <5>3. Undone(Mean(U, x), U.env, p, x) = IF Name(new) = x /\ Absent(T.env, p, x) THEN new.old_entity
                                                ELSE Undone(Mean(U, x), T.env, p, x)
          BY <5>2, <1>2, <1>3, UndoneAppend
        <5>4. p \in Nat
          BY <1>2
        <5>5. ASSUME x = n
              PROVE  Undone(Mean(U, x), U.env, p, x) = Undone(Mean(T, x), T.env, p, x)
          <6>1. CASE Absent(T.env, p, x)
            <7>1. Undone(Mean(U, x), U.env, p, x) = Mean(T, x)
              BY <5>3, <5>5, <6>1, <1>3
            <7>2. Undone(Mean(T, x), T.env, p, x) = Mean(T, x)
              BY <5>4, <6>1, UndoneIs
            <7> QED BY <7>1, <7>2
          <6>2. CASE ~Absent(T.env, p, x)
            <7>1. PICK i : Oldest(T.env, p, x, i)
              BY <5>4, <6>2, UndoneCases
            <7>2. Undone(Mean(U, x), U.env, p, x) = Undone(Mean(U, x), T.env, p, x)
              BY <5>3, <6>2
            <7>3. \A d : Undone(d, T.env, p, x) = T.env[i].old_entity
              <8>1. ASSUME NEW d PROVE Undone(d, T.env, p, x) = T.env[i].old_entity
                BY <5>4, <7>1, UndoneIs
              <8> QED BY <8>1
            <7> QED BY <7>2, <7>3
          <6> QED BY <6>1, <6>2
        <5>6. ASSUME x # n
              PROVE  Undone(Mean(U, x), U.env, p, x) = Undone(Mean(T, x), T.env, p, x)
          <6>1. Name(new) # x /\ Mean(U, x) = Mean(T, x)
            BY <5>6, <1>3, <1>4
          <6> QED BY <5>3, <6>1
        <5>7. Undone(Mean(U, x), U.env, p, x) = Undone(Mean(T, x), T.env, p, x)
          BY <5>5, <5>6
        <5> QED BY <5>1, <5>7
      <4> QED BY <4>2 DEF Later, LabelTopOf
    <3> QED BY <3>1 DEF SameLater
  <2> QED BY <2>2, <2>3, <2>4, <2>5, <2>6 DEF Disciplined
<1>10. Len(U.entity) <= Len(T.entity) + 0
  BY Lengths
<1>11. Kept(T, U)
  BY DEF Kept
<1> QED BY <1>7, <1>9, <1>10, <1>11 DEF Grown, n

\* Only fields other than the lists and stacks change.
LEMMA GrownTouched ==
  ASSUME NEW T, Good(T), NEW U, Larger(T, U), Touched(T, U), Kept(T, U), Listing(T) => Listing(U)
  PROVE  Grown(T, U, {}, 0)
<1>1. U.env = T.env /\ U.label = T.label /\ Len(U.entity) = Len(T.entity)
  BY DEF Touched
<1>2. \A n \in AllNames : Mean(U, n) = Mean(T, n)
  <2>1. \A r \in Symbols, n \in NameSpaces : get_entity(U, r, n) = get_entity(T, r, n)
    BY TouchedMeans, Lengths
  <2> QED BY <2>1, EntryNames DEF Mean
<1>3. Len(U.entity) <= Len(T.entity) + 0
  BY <1>1, Lengths
<1> QED BY <1>1, <1>2, <1>3, GrownSame

LEMMA GrownSet ==
  ASSUME NEW T, Good(T), NEW U, NEW x, NEW parent, NEW complete, NEW aborted,
         EntitySet(T, U, x, parent, complete, aborted),
         x \in DOMAIN T.entity /\ T.entity[x].kind = "function" => complete = T.entity[x].complete
  PROVE  Grown(T, U, {}, 0)
<1>1. Larger(T, U)
  BY LargerSet
<1>2. Touched(T, U)
  BY DEF EntitySet
<1>3. Kept(T, U)
  <2> SUFFICES ASSUME NEW y \in DOMAIN T.entity
               PROVE  /\ U.entity[y].kind = T.entity[y].kind
                      /\ T.entity[y].kind = "function" => U.entity[y].complete = T.entity[y].complete
    BY DEF Kept
  <2>1. CASE y = x
    BY <2>1 DEF EntitySet
  <2>2. CASE y # x
    BY <2>2 DEF EntitySet
  <2> QED BY <2>1, <2>2
<1>4. Listing(T) => Listing(U)
  <2>1. U.next = T.next /\ U.scope = T.scope /\ DOMAIN U.entity = DOMAIN T.entity
    BY DEF EntitySet
  <2>2. Listable(U, Null)
    BY DEF Listable
  <2> QED BY <1>3, <2>1, <2>2, ListingKept
<1> QED BY <1>1, <1>2, <1>3, <1>4, GrownTouched

\* An entity that nothing means yet.
LEMMA GrownAllocate ==
  ASSUME NEW T, Good(T), NEW kind \in Kinds, NEW symbol \in Symbols, NEW parent \in Nat
  PROVE  Grown(T, Allocate(T, kind, symbol, parent), {}, 1)
<1> DEFINE U == Allocate(T, kind, symbol, parent)
<1>1. Larger(T, U)
  BY LargerAllocate
<1>2. Allocated(T, U, kind, symbol, parent)
  BY AllocateIs, Lengths
<1> HIDE DEF U
<1>3. U.env = T.env /\ U.label = T.label /\ Len(U.entity) = Len(T.entity) + 1
  BY <1>2 DEF Allocated
<1>4. \A n \in AllNames : Mean(U, n) = Mean(T, n)
  BY <1>2, EntryNames DEF Mean, Allocated
<1>5. Kept(T, U)
  BY <1>2 DEF Allocated, Kept
<1>6. Len(U.entity) <= Len(T.entity) + 1
  BY <1>3, Lengths
<1>7. Listing(T) => Listing(U)
  <2>1. DOMAIN T.entity \subseteq DOMAIN U.entity /\ Listable(U, Null)
    BY <1>1 DEF Larger, Listable
  <2>2. ASSUME NEW y \in DOMAIN U.next
        PROVE  U.next[y] = Null \/ (y \in DOMAIN T.next /\ U.next[y] = T.next[y])
    <3>1. y \in DOMAIN T.entity \/ y = Fresh(T)
      <4>1. PICK k : k = Len(T.entity)
        OBVIOUS
      <4>2. k \in Nat /\ DOMAIN U.next = 1 .. k + 1 /\ DOMAIN T.entity = 1 .. k /\ Fresh(T) = k + 1
        BY <1>1, <1>3, <4>1, Lengths DEF Larger, Shape, Fresh
      <4> QED BY <4>2
    <3>2. DOMAIN T.entity = DOMAIN T.next
      BY Lengths DEF Shape
    <3> QED BY <1>2, <3>1, <3>2 DEF Allocated
  <2>3. ASSUME NEW x \in DOMAIN U.scope
        PROVE  U.scope[x].entities = Null \/ (x \in DOMAIN T.scope /\ U.scope[x] = T.scope[x])
    <3>1. CASE kind \in Owners
      <4>1. U.scope = Append(T.scope, NewScope) /\ T.scope \in Seq(ScopeType)
        BY <1>2, <3>1, Lengths DEF Allocated, Shape
      <4>2. \A c : \A q \in Seq(ScopeType) : /\ DOMAIN Append(q, c) = 1 .. Len(q) + 1
                                             /\ Append(q, c)[Len(q) + 1] = c
                                             /\ \A i \in 1 .. Len(q) : Append(q, c)[i] = q[i] /\ i \in DOMAIN q
                                             /\ \A i \in 1 .. Len(q) + 1 : i \in 1 .. Len(q) \/ i = Len(q) + 1
        OBVIOUS
      <4>3. NewScope.entities = Null
        BY DEF NewScope
      <4>4. /\ DOMAIN U.scope = 1 .. Len(T.scope) + 1 /\ U.scope[Len(T.scope) + 1] = NewScope
            /\ \A i \in 1 .. Len(T.scope) : U.scope[i] = T.scope[i] /\ i \in DOMAIN T.scope
            /\ \A i \in 1 .. Len(T.scope) + 1 : i \in 1 .. Len(T.scope) \/ i = Len(T.scope) + 1
        BY <4>1, <4>2
      <4> QED BY <4>3, <4>4
    <3>2. CASE kind \notin Owners
      BY <1>2, <3>2 DEF Allocated
    <3> QED BY <3>1, <3>2
  <2>4. /\ \A y \in DOMAIN U.next :
             U.next[y] \in {Null, Null} \/ (y \in DOMAIN T.next /\ U.next[y] = T.next[y])
        /\ \A s \in DOMAIN U.scope :
             \/ U.scope[s].entities \in {Null, Null}
             \/ \E x \in DOMAIN T.scope : U.scope[s].entities = T.scope[x].entities
    BY <2>2, <2>3
  <2> QED BY <1>5, <2>1, <2>4, ListingKept
<1>8. Grown(T, U, {}, 1)
  BY <1>1, <1>3, <1>4, <1>5, <1>6, <1>7, GrownSame
<1> QED BY <1>8 DEF U

LEMMA GrownEnvPushed ==
  ASSUME NEW T, Good(T), NEW U, Good(U), NEW e \in DOMAIN T.entity, EnvPushed(T, U, e),
         Space(T, e) = "label" => T.entity[e].kind = "local_label"
  PROVE  Grown(T, U, { NameOf(T, e) }, 0)
<1>1. /\ Pushed(T, U, e) /\ U.entity = T.entity /\ U.scope = T.scope
      /\ U.env = Append(T.env, Entry(T, e)) /\ U.label = T.label
  BY DEF EnvPushed
<1>2. Len(U.env) = Len(T.env) + 1
  BY <1>1, Lengths
<1>3. Larger(T, U)
  BY <1>1, <1>2, Lengths DEF Larger
<1>4. Listing(T) => Listing(U)
  <2>1. U.next = T.next
    BY DEF EnvPushed
  <2> QED BY <1>1, <2>1 DEF Listing, Listable, Space
<1> QED BY <1>1, <1>3, <1>4, GrownPush

LEMMA GrownEnlisted ==
  ASSUME NEW T, Good(T), NEW U, NEW e \in DOMAIN T.entity, NEW s \in DOMAIN T.scope,
         Enlisted(T, U, e, s), Space(T, e) # "label"
  PROVE  Grown(T, U, { NameOf(T, e) }, 0)
<1>1. /\ Pushed(T, U, e) /\ U.entity = T.entity /\ DOMAIN U.scope = DOMAIN T.scope
      /\ U.env = Append(T.env, Entry(T, e)) /\ U.label = T.label
  BY DEF Enlisted
<1>2. Good(U)
  BY GoodEnlisted
<1>3. Len(U.env) = Len(T.env) + 1
  BY <1>1, Lengths
<1>4. Larger(T, U)
  BY <1>1, <1>2, <1>3, Lengths DEF Larger
<1>5. Listing(T) => Listing(U)
  <2>1. Kept(T, U) /\ Listable(U, e)
    BY <1>1 DEF Kept, Listable, Space
  <2>2. DOMAIN U.next = DOMAIN T.next
    BY <1>1, <1>2, Lengths DEF Shape
  <2>3. /\ \A y \in DOMAIN U.next :
             U.next[y] \in {Null, e} \/ (y \in DOMAIN T.next /\ U.next[y] = T.next[y])
        /\ \A x \in DOMAIN U.scope :
             \/ U.scope[x].entities \in {Null, e}
             \/ \E z \in DOMAIN T.scope : U.scope[x].entities = T.scope[z].entities
    <3>1. ASSUME NEW x \in DOMAIN U.scope
          PROVE  U.scope[x].entities = e \/ U.scope[x].entities = T.scope[x].entities
      <4>1. CASE x = s
        BY <1>1, <4>1 DEF Enlisted
      <4>2. CASE x # s
        BY <1>1, <4>2 DEF Enlisted
      <4> QED BY <4>1, <4>2
    <3>2. ASSUME NEW y \in DOMAIN U.next PROVE U.next[y] = e \/ U.next[y] = T.next[y]
      BY <2>2 DEF Enlisted
    <3> QED BY <1>1, <2>2, <3>1, <3>2
  <2> QED BY <1>1, <2>1, <2>3, ListingKept
<1> QED BY <1>1, <1>4, <1>5, GrownPush

LEMMA GrownRecord ==
  ASSUME NEW T, Good(T), NEW e \in DOMAIN T.entity, NEW s \in DOMAIN T.scope, T.link[e] = Null,
         Space(T, e) # "label"
  PROVE  Grown(T, record_entity(T, s, e), { NameOf(T, e) }, 0)
<1> DEFINE U == record_entity(T, s, e)
           p == get_entity(T, T.entity[e].symbol, "normal")
<1>1. IF Merges(T, s, e, p) THEN Merged(T, U, p)
      ELSE \E V : Mark(T, V, s, e) /\ Enlisted(V, U, e, s) /\ Table(V) /\ Chained(V)
  BY RecordEntityIs, Lengths
<1> HIDE DEF U, p
<1>2. CASE Merges(T, s, e, p)
  <2>1. EntitySet(T, U, p, T.entity[p].parent_scope,
                  T.entity[p].complete \/ T.entity[p].kind = "parameter", T.aborted)
    BY <1>1, <1>2 DEF Merged
  <2>2. p \in DOMAIN T.entity /\ T.entity[p].kind = "function"
          => (T.entity[p].complete \/ T.entity[p].kind = "parameter") = T.entity[p].complete
    <3>1. ASSUME p \in DOMAIN T.entity, T.entity[p].kind = "function"
          PROVE  (T.entity[p].complete \/ T.entity[p].kind = "parameter") = T.entity[p].complete
      <4>1. T.entity[p].complete \in BOOLEAN
        BY <3>1, EntityFacts, Lengths DEF EntityType
      <4> QED BY <3>1, <4>1
    <3> QED BY <3>1
  <2>3. Grown(T, U, {}, 0)
    BY <2>1, <2>2, GrownSet
  <2>4. Grown(T, U, { NameOf(T, e) }, 0)
    BY <2>3, GrownWider
  <2> QED BY <2>4 DEF U
<1>3. CASE ~Merges(T, s, e, p)
  <2>1. PICK V : Mark(T, V, s, e) /\ Enlisted(V, U, e, s) /\ Table(V) /\ Chained(V)
    BY <1>1, <1>3
  <2>2. PICK aborted : EntitySet(T, V, e, s, T.entity[e].complete, aborted)
    BY <2>1 DEF Mark
  <2>3. Grown(T, V, {}, 0)
    BY <2>2, GrownSet
  <2>4. Good(V) /\ e \in DOMAIN V.entity /\ s \in DOMAIN V.scope
    BY <2>3 DEF Grown, Larger
  <2>5. Space(V, e) = Space(T, e) /\ NameOf(V, e) = NameOf(T, e)
    BY <2>2 DEF EntitySet, Touched, NameOf
  <2>6. Grown(V, U, { NameOf(T, e) }, 0)
    BY <2>1, <2>4, <2>5, GrownEnlisted
  <2>7. Grown(T, U, {} \cup { NameOf(T, e) }, 0 + 0)
    BY <2>3, <2>6, GrownTrans
  <2>8. Grown(T, U, { NameOf(T, e) }, 0)
    BY <2>7, GrownWider
  <2> QED BY <2>8 DEF U
<1> QED BY <1>2, <1>3

-----------------------------------------------------------------------------
(***************************************************************************)
(* The declarations.                                                       *)
(***************************************************************************)
\* An entity is allocated and recorded,
LEMMA GrownNew ==
  ASSUME NEW T, Good(T), NEW kind \in Kinds, NameSpaceOf[kind] = "normal", NEW symbol \in Symbols,
         NEW s \in DOMAIN T.scope
  PROVE  Grown(T, record_entity(Allocate(T, kind, symbol, Null), s, Fresh(T)),
               { << symbol, "normal" >> }, 1)
<1> DEFINE U == Allocate(T, kind, symbol, Null)
           e == Fresh(T)
           n == << symbol, "normal" >>
<1>1. Grown(T, U, {}, 1)
  BY GrownAllocate DEF Null
<1>2. Allocated(T, U, kind, symbol, Null) /\ FreshEntity(U, e)
  BY FreshAllocated DEF Null
<1> HIDE DEF U, e
<1>3. Good(U) /\ s \in DOMAIN U.scope
  BY <1>1 DEF Grown, Larger
<1>4. e \in DOMAIN U.entity /\ U.link[e] = Null
  BY <1>2 DEF FreshEntity, Hidden
<1>5. Space(U, e) = "normal" /\ Symbol(U, e) = symbol /\ NameOf(U, e) = n
  BY <1>2 DEF Allocated, Space, Symbol, NameOf, e
<1>6. Grown(U, record_entity(U, s, e), { n }, 0)
  <2>1. Grown(U, record_entity(U, s, e), { NameOf(U, e) }, 0)
    BY <1>3, <1>4, <1>5, GrownRecord
  <2> QED BY <2>1, <1>5
<1>7. Grown(T, record_entity(U, s, e), {} \cup { n }, 1 + 0)
  BY <1>1, <1>6, GrownTrans
<1>8. Grown(T, record_entity(U, s, e), { n }, 1)
  BY <1>7, GrownWider
<1> QED BY <1>8 DEF U, e

\* or enlisted,
LEMMA GrownEnlist ==
  ASSUME NEW T, Good(T), NEW kind \in Kinds, NameSpaceOf[kind] # "label", NEW symbol \in Symbols,
         NEW parent \in Nat, NEW s \in DOMAIN T.scope
  PROVE  Grown(T, Enlist(Allocate(T, kind, symbol, parent), Fresh(T), s),
               { << symbol, NameSpaceOf[kind] >> }, 1)
<1> DEFINE U == Allocate(T, kind, symbol, parent)
           e == Fresh(T)
           n == << symbol, NameSpaceOf[kind] >>
<1>1. Grown(T, U, {}, 1)
  BY GrownAllocate
<1>2. Allocated(T, U, kind, symbol, parent) /\ FreshEntity(U, e)
  BY FreshAllocated
<1> HIDE DEF U, e
<1>3. Good(U) /\ s \in DOMAIN U.scope
  BY <1>1 DEF Grown, Larger
<1>4. e \in DOMAIN U.entity
  BY <1>2 DEF FreshEntity, Hidden
<1>5. Space(U, e) = NameSpaceOf[kind] /\ Symbol(U, e) = symbol /\ NameOf(U, e) = n
  BY <1>2 DEF Allocated, Space, Symbol, NameOf, e
<1>6. Enlisted(U, Enlist(U, e, s), e, s)
  BY <1>2, <1>3, LargerEnlist
<1>7. Grown(U, Enlist(U, e, s), { n }, 0)
  <2>1. Grown(U, Enlist(U, e, s), { NameOf(U, e) }, 0)
    BY <1>3, <1>4, <1>5, <1>6, GrownEnlisted
  <2> QED BY <2>1, <1>5
<1>8. Grown(T, Enlist(U, e, s), {} \cup { n }, 1 + 0)
  BY <1>1, <1>7, GrownTrans
<1>9. Grown(T, Enlist(U, e, s), { n }, 1)
  BY <1>8, GrownWider
<1> QED BY <1>9 DEF U, e

\* or appended to a list only,
LEMMA GrownAppended ==
  ASSUME NEW T, Good(T), NEW kind \in Kinds, NEW symbol \in Symbols, NEW parent \in Nat,
         NEW s \in DOMAIN T.scope, NameSpaceOf[kind] # "label"
  PROVE  Grown(T, append_entity(Allocate(T, kind, symbol, parent), s, Fresh(T)), {}, 1)
<1> DEFINE U == Allocate(T, kind, symbol, parent)
           e == Fresh(T)
           V == append_entity(U, s, e)
<1>1. Grown(T, U, {}, 1)
  BY GrownAllocate
<1>2. Allocated(T, U, kind, symbol, parent) /\ FreshEntity(U, e)
  BY FreshAllocated
<1> HIDE DEF U, e
<1>3. Good(U) /\ s \in DOMAIN U.scope
  BY <1>1 DEF Grown, Larger
<1>4. e \in DOMAIN U.entity
  BY <1>2 DEF FreshEntity, Hidden
<1>5. Appended(U, V, s, e) /\ Larger(U, V)
  BY <1>3, <1>4, LargerAppend
<1> HIDE DEF V
<1>6. Kept(U, V)
  BY <1>5 DEF Appended, Kept
<1>a. Listing(U) => Listing(V)
  <2>1. Listable(V, e) /\ V.entity = U.entity
    BY <1>2, <1>4, <1>5 DEF Listable, Space, Allocated, Appended, e
  <2>2. DOMAIN V.next = DOMAIN U.next /\ DOMAIN V.scope = DOMAIN U.scope
    BY <1>3, <1>5, Lengths DEF Shape, Larger, Appended
  <2>3. /\ \A y \in DOMAIN V.next :
             V.next[y] \in {Null, e} \/ (y \in DOMAIN U.next /\ V.next[y] = U.next[y])
        /\ \A x \in DOMAIN V.scope :
             \/ V.scope[x].entities \in {Null, e}
             \/ \E z \in DOMAIN U.scope : V.scope[x].entities = U.scope[z].entities
    <3>1. ASSUME NEW x \in DOMAIN V.scope
          PROVE  V.scope[x].entities = e \/ V.scope[x].entities = U.scope[x].entities
      <4>1. CASE x = s
        BY <1>5, <2>2, <4>1 DEF Appended
      <4>2. CASE x # s
        BY <1>5, <2>2, <4>2 DEF Appended
      <4> QED BY <4>1, <4>2
    <3>2. ASSUME NEW y \in DOMAIN V.next PROVE V.next[y] = e \/ V.next[y] = U.next[y]
      BY <1>5, <2>2 DEF Appended
    <3> QED BY <2>2, <3>1, <3>2
  <2> QED BY <1>6, <2>1, <2>3, ListingKept
<1>7. Grown(U, V, {}, 0)
  BY <1>3, <1>5, <1>6, <1>a, GrownTouched DEF Appended
<1>8. Grown(T, V, {} \cup {}, 1 + 0)
  BY <1>1, <1>7, GrownTrans
<1>9. Grown(T, V, {}, 1)
  BY <1>8, GrownWider
<1> QED BY <1>9 DEF U, e, V

\* and a struct or an enum becomes complete.
LEMMA GrownComplete ==
  ASSUME NEW T, Good(T), NEW e, e \in DOMAIN T.entity => T.entity[e].kind # "function"
  PROVE  Grown(T, [T EXCEPT !.entity[e].complete = TRUE], {}, 0)
<1>1. PICK parent : EntitySet(T, [T EXCEPT !.entity[e].complete = TRUE], e, parent, TRUE, T.aborted)
  BY CompleteIs, Lengths
<1> QED BY <1>1, GrownSet

LEMMA GrownMember ==
  ASSUME NEW T, Good(T), NEW e \in DOMAIN T.entity, T.entity[e].kind = "struct",
         NEW symbol \in Symbols
  PROVE  LET own == T.entity[e].own
             A   == append_entity(Allocate(T, "member", symbol, own), own, Fresh(T))
         IN Grown(T, [A EXCEPT !.entity[e].complete = TRUE], {}, 1)
<1> DEFINE own == T.entity[e].own
           A == append_entity(Allocate(T, "member", symbol, own), own, Fresh(T))
           U == [A EXCEPT !.entity[e].complete = TRUE]
<1>1. T.entity[e].kind # "function" /\ T.entity[e].own # Null
  BY DEF Good, OwnsOK, Owners
<1>2. own \in DOMAIN T.scope /\ own \in Nat
  BY <1>1, OtherOwn, Lengths
<1> HIDE DEF own
<1>3. Grown(T, A, {}, 1)
  BY <1>2, GrownAppended DEF Kinds, NameSpaceOf
<1> HIDE DEF A
<1>4. Good(A) /\ A.entity[e].kind = "struct"
  BY <1>3 DEF Grown, Larger, Kept
<1>5. Grown(A, U, {}, 0)
  BY <1>4, GrownComplete
<1> HIDE DEF U
<1>6. Grown(T, U, {} \cup {}, 1 + 0)
  BY <1>3, <1>5, GrownTrans
<1>7. Grown(T, U, {}, 1)
  BY <1>6, GrownWider
<1> QED BY <1>7 DEF U, A, own

LEMMA GrownEmptied ==
  ASSUME NEW T, Good(T), NEW e \in DOMAIN T.entity, T.entity[e].kind # "function",
         T.entity[e].own # Null
  PROVE  Grown(T, [T EXCEPT !.scope[T.entity[e].own].entities = Null], {}, 0)
<1> DEFINE own == T.entity[e].own
           U == [T EXCEPT !.scope[own].entities = Null]
<1>1. Keeps(T, U, Null) /\ U.entity = T.entity
  BY KeepsEmptied
<1>2. /\ U.head = T.head /\ U.link = T.link /\ U.env = T.env /\ U.label = T.label
      /\ U.next = T.next
      /\ DOMAIN U.scope = DOMAIN T.scope
      /\ \A x \in DOMAIN T.scope : U.scope[x].entities \in {Null, T.scope[x].entities}
  <2>1. Shape(T) /\ \A x \in DOMAIN T.scope : T.scope[x] \in ScopeType
    BY Lengths DEF Shape
  <2>2. U.scope = [T.scope EXCEPT ![own].entities = Null]
    BY <2>1 DEF Shape
  <2>3. U.head = T.head /\ U.link = T.link /\ U.env = T.env /\ U.label = T.label /\ U.next = T.next
    BY <2>1 DEF Shape
  <2>4. ASSUME NEW x \in DOMAIN T.scope PROVE U.scope[x].entities \in {Null, T.scope[x].entities}
    <3> HIDE DEF U
    <3>1. CASE x = own
      <4>1. U.scope[x] = [T.scope[x] EXCEPT !.entities = Null]
        BY <2>2, <3>1
      <4>2. T.scope[x] \in ScopeType
        BY <2>1
      <4> QED BY <4>1, <4>2 DEF ScopeType
    <3>2. CASE x # own
      BY <2>2, <3>2
    <3> QED BY <3>1, <3>2
  <2> HIDE DEF U
  <2> QED BY <2>2, <2>3, <2>4
<1> HIDE DEF U
<1>3. Larger(T, U) /\ Shape(U)
  BY <1>1, Lengths DEF Keeps, Larger
<1>4. Touched(T, U)
  BY <1>1, <1>2, <1>3 DEF Touched, Symbol, Space
<1>5. Kept(T, U)
  BY <1>1 DEF Kept
<1>6. Listing(T) => Listing(U)
  <2>1. Listable(U, Null)
    BY DEF Listable
  <2> QED BY <1>1, <1>2, <1>5, <2>1, ListingKept
<1>7. Grown(T, U, {}, 0)
  BY <1>3, <1>4, <1>5, <1>6, GrownTouched
<1> QED BY <1>7 DEF U

LEMMA GrownSpecifier ==
  ASSUME Good(table), current_scope \in DOMAIN table.scope, NEW s \in Symbols, NEW how,
         CompoundSpecifier(s, how)
  PROVE  Grown(table, table', { << s, "tag" >> }, 2)
<1> DEFINE known   == get_tag(s, "struct")
           shadows == known # Null /\ table.entity[known].parent_scope # current_scope
                                   /\ how \in {"define", "forward"}
           new     == known = Null \/ shadows
           e       == IF new THEN Fresh(table) ELSE known
           again   == ~new /\ table.entity[e].complete /\ how = "define"
           N       == Enlist(Allocate(table, "struct", s, current_scope), e, current_scope)
           Z       == [table EXCEPT !.scope[table.entity[e].own].entities = Null]
           T       == IF new THEN N ELSE IF again THEN Z ELSE table
           own     == T.entity[e].own
           A       == append_entity(Allocate(T, "member", s, own), own, Fresh(T))
           n       == << s, "tag" >>
<1>1. table' = IF how = "define" THEN [A EXCEPT !.entity[e].complete = TRUE] ELSE T
  BY DEF CompoundSpecifier
<1>a. current_scope \in Nat
  BY Lengths
<1>2. Grown(table, T, { n }, 1) /\ e \in DOMAIN T.entity /\ T.entity[e].kind = "struct"
  <2>1. CASE new
    <3>0. e = Fresh(table)
      BY <2>1
    <3>1. /\ Grown(table, N, { n }, 1) /\ Fresh(table) \in DOMAIN N.entity
          /\ N.entity[Fresh(table)].kind = "struct"
      <4> DEFINE M == Enlist(Allocate(table, "struct", s, current_scope), Fresh(table), current_scope)
      <4>1. Keeps(table, M, current_scope) /\ Fresh(table) \in DOMAIN M.entity
            /\ M.entity[Fresh(table)].kind = "struct"
        BY <1>a, KeepsEnlist DEF Kinds
      <4>2. Grown(table, M, { n }, 1)
        <5>1. NameSpaceOf["struct"] = "tag" /\ "struct" \in Kinds
          BY DEF NameSpaceOf, Kinds
        <5> HIDE DEF M
        <5>2. Grown(table, M, { << s, NameSpaceOf["struct"] >> }, 1)
          BY <1>a, <5>1, GrownEnlist DEF M
        <5> QED BY <5>1, <5>2
      <4> HIDE DEF e
      <4>3. M = N
        BY <3>0
      <4> HIDE DEF M, N, n
      <4> QED
        BY <4>1, <4>2, <4>3
    <3>2. T = N /\ e = Fresh(table)
      BY <2>1
    <3> HIDE DEF N, T, e
    <3> QED
      BY <3>1, <3>2
  <2>2. CASE ~new
    <3>1. known # Null /\ e = known
      BY <2>2
    <3>2. known \in DOMAIN table.entity /\ table.entity[known].kind = "struct"
      BY <3>1, TagIs
    <3>3. table.entity[known].kind # "function" /\ table.entity[known].own # Null
      BY <3>2 DEF Good, OwnsOK, Owners
    <3>4. Grown(table, Z, {}, 0) /\ Z.entity = table.entity
      <4>1. e \in DOMAIN table.entity /\ table.entity[e].kind # "function" /\ table.entity[e].own # Null
        BY <3>1, <3>2, <3>3
      <4> HIDE DEF e
      <4>2. Keeps(table, Z, current_scope) /\ Z.entity = table.entity
        BY <4>1, KeepsEmptied
      <4>3. Grown(table, Z, {}, 0)
        BY <4>1, GrownEmptied
      <4> QED BY <4>2, <4>3
    <3>5. Grown(table, table, {}, 0)
      BY GrownSelf
    <3>6. T = Z \/ T = table
      BY <2>2
    <3> HIDE DEF T, Z, known, e
    <3>7. Grown(table, T, {}, 0) /\ T.entity = table.entity
      BY <3>4, <3>5, <3>6
    <3>8. Grown(table, T, { n }, 1)
      BY <3>7, GrownWider
    <3> QED
      BY <3>1, <3>2, <3>7, <3>8
  <2> QED
    BY <2>1, <2>2
<1> HIDE DEF T, e, n
<1>3. Good(T)
  BY <1>2 DEF Grown, Larger
<1>4. Grown(T, [A EXCEPT !.entity[e].complete = TRUE], {}, 1)
  BY <1>2, <1>3, GrownMember
<1>5. Grown(table, [A EXCEPT !.entity[e].complete = TRUE], { n }, 2)
  <2> DEFINE V == [A EXCEPT !.entity[e].complete = TRUE]
  <2>1. Grown(T, V, {}, 1)
    BY <1>4
  <2> HIDE DEF V
  <2>2. Grown(table, V, { n } \cup {}, 1 + 1)
    BY <1>2, <2>1, GrownTrans
  <2>3. Grown(table, V, { n }, 2)
    BY <2>2, GrownWider
  <2> QED
    BY <2>3 DEF V
<1>6. Grown(table, T, { n }, 2)
  BY <1>2, GrownWider
<1>7. Grown(table, table', { n }, 2)
  BY <1>1, <1>5, <1>6
<1> QED
  BY <1>7 DEF n

\* An enum, and its enumerator if it has one.
LEMMA GrownEnum ==
  ASSUME Good(table), current_scope \in DOMAIN table.scope, "again" \notin dialect,
         NEW s \in Symbols, NEW v, v = <<>> \/ \E m \in Symbols : v = << m >>,
         EnumSpecifier(s, v)
  PROVE  \E m \in Symbols : Grown(table, table', { << s, "tag" >>, << m, "normal" >> }, 2)
<1> DEFINE known == get_tag(s, "enum")
           new   == known = Null \/ table.entity[known].parent_scope # current_scope
           e     == IF new THEN Fresh(table) ELSE known
           T     == Enlist(IF new THEN Allocate(table, "enum", s, current_scope) ELSE table,
                           e, current_scope)
           N     == Enlist(Allocate(table, "enum", s, current_scope), Fresh(table), current_scope)
           M     == [T EXCEPT !.entity[e].complete = TRUE]
           w == CHOOSE with : with = [i \in 0 .. Len(v) |->
                  IF i = 0 THEN M
                  ELSE record_entity(Allocate(with[i - 1], "enum_value", v[i], Null),
                                     current_scope, Fresh(with[i - 1]))]
<1>1. table' = w[Len(v)] /\ new
  BY DEF EnumSpecifier
<1>2. e = Fresh(table)
  BY <1>1
<1>3. T = N
  <2>1. T = Enlist(Allocate(table, "enum", s, current_scope), e, current_scope)
    BY <1>1
  <2> HIDE DEF e, new
  <2> QED BY <1>2, <2>1
<1>4. Grown(table, M, { << s, "tag" >> }, 1)
  <2> DEFINE K == [N EXCEPT !.entity[e].complete = TRUE]
  <2>0. M = K
    <3> HIDE DEF T, N, e
    <3> QED BY <1>3
  <2>1. current_scope \in Nat /\ "enum" \in Kinds /\ NameSpaceOf["enum"] = "tag"
    BY Lengths DEF Kinds, NameSpaceOf
  <2>2. Keeps(table, N, current_scope) /\ N.entity[Fresh(table)].kind = "enum"
    BY <2>1, KeepsEnlist
  <2>3. Grown(table, N, { << s, NameSpaceOf["enum"] >> }, 1)
    BY <2>1, GrownEnlist
  <2> HIDE DEF N, M, e
  <2>4. Good(N) /\ N.entity[e].kind # "function"
    BY <2>2, <1>2 DEF Keeps, Larger
  <2>5. Grown(N, K, {}, 0)
    BY <2>4, GrownComplete
  <2> HIDE DEF K
  <2>6. Grown(table, K, { << s, NameSpaceOf["enum"] >> } \cup {}, 1 + 0)
    BY <2>3, <2>5, GrownTrans
  <2>7. Grown(table, K, { << s, "tag" >> }, 1)
    BY <2>1, <2>6, GrownWider
  <2> QED BY <2>0, <2>7
<1> HIDE DEF M
<1>5. IsEnumerating(w, M, v, current_scope)
  <2>1. \E g : IsEnumerating(g, M, v, current_scope)
    <3>1. Len(v) \in Nat
      OBVIOUS
    <3> QED BY <3>1, EnumeratingExists
  <2>2. w = CHOOSE g : IsEnumerating(g, M, v, current_scope)
    BY DEF IsEnumerating
  <2> HIDE DEF w
  <2> QED BY <2>1, <2>2
<1> HIDE DEF w
<1>6. Good(M) /\ current_scope \in DOMAIN M.scope
  BY <1>4 DEF Grown, Larger
<1>7. CASE v = <<>>
  <2>1. Len(v) = 0 /\ w[0] = M
    BY <1>5, <1>7 DEF IsEnumerating
  <2>2. Grown(table, M, { << s, "tag" >>, << s, "normal" >> }, 2)
    BY <1>4, GrownWider
  <2>3. table' = M
    BY <1>1, <2>1
  <2>4. Grown(table, table', { << s, "tag" >>, << s, "normal" >> }, 2)
    BY <2>2, <2>3
  <2> QED BY <2>4
<1>8. ASSUME NEW m \in Symbols, v = << m >>
      PROVE  Grown(table, table', { << s, "tag" >>, << m, "normal" >> }, 2)
  <2> DEFINE R == record_entity(Allocate(M, "enum_value", m, Null), current_scope, Fresh(M))
  <2>1. Len(v) = 1 /\ v[1] = m
    BY <1>8
  <2>2. w[0] = M /\ w[1] = record_entity(Allocate(w[0], "enum_value", v[1], Null),
                                         current_scope, Fresh(w[0]))
    <3>1. w = [i \in 0 .. 1 |->
                IF i = 0 THEN M
                ELSE record_entity(Allocate(w[i - 1], "enum_value", v[i], Null),
                                   current_scope, Fresh(w[i - 1]))]
      BY <1>5, <2>1 DEF IsEnumerating
    <3>2. w[0] = M
      BY <3>1
    <3>3. w[1] = record_entity(Allocate(w[1 - 1], "enum_value", v[1], Null),
                               current_scope, Fresh(w[1 - 1]))
      BY <3>1
    <3>4. 1 - 1 = 0
      OBVIOUS
    <3> QED BY <3>2, <3>3, <3>4
  <2>3. table' = R
    BY <1>1, <2>1, <2>2
  <2>4. "enum_value" \in Kinds /\ NameSpaceOf["enum_value"] = "normal"
    BY DEF Kinds, NameSpaceOf
  <2>5. Grown(M, R, { << m, "normal" >> }, 1)
    BY <1>6, <2>4, GrownNew
  <2> HIDE DEF R
  <2>6. Grown(table, R, { << s, "tag" >> } \cup { << m, "normal" >> }, 1 + 1)
    BY <1>4, <2>5, GrownTrans
  <2>7. Grown(table, R, { << s, "tag" >>, << m, "normal" >> }, 2)
    BY <2>6, GrownWider
  <2> QED BY <2>3, <2>7
<1> QED BY <1>7, <1>8

LEMMA GrownLocalLabel ==
  ASSUME Good(table), current_scope \in DOMAIN table.scope, NEW s \in Symbols, LocalLabel(s)
  PROVE  Grown(table, table', { << s, "label" >> }, 1)
<1> DEFINE U == Allocate(table, "local_label", s, current_scope)
           e == Fresh(table)
           V == environment_push(U, e)
           n == << s, "label" >>
<1>1. table' = V /\ current_scope \in Nat
  BY Lengths DEF LocalLabel
<1>2. Grown(table, U, {}, 1) /\ Allocated(table, U, "local_label", s, current_scope) /\ FreshEntity(U, e)
  BY <1>1, GrownAllocate, FreshAllocated DEF Kinds
<1> HIDE DEF U, e
<1>3. Good(U) /\ e \in DOMAIN U.entity /\ U.link[e] = Null
  BY <1>2 DEF Grown, Larger, FreshEntity, Hidden
<1>4. U.entity[e].kind = "local_label" /\ NameOf(U, e) = n
  BY <1>2 DEF Allocated, Space, Symbol, NameOf, NameSpaceOf, e
<1>5. EnvPushed(U, V, e) /\ Good(V)
  BY <1>3, GoodEnvironmentPush
<1> HIDE DEF V
<1>6. Grown(U, V, { n }, 0)
  <2>1. Grown(U, V, { NameOf(U, e) }, 0)
    BY <1>3, <1>4, <1>5, GrownEnvPushed
  <2> QED BY <2>1, <1>4
<1>7. Grown(table, V, {} \cup { n }, 1 + 0)
  BY <1>2, <1>6, GrownTrans
<1>8. Grown(table, V, { n }, 1)
  BY <1>7, GrownWider
<1> QED BY <1>1, <1>8

\* scope_push(), of a new scope or not.
LEMMA GrownScopePush ==
  ASSUME NEW T, Good(T), NEW s \in DOMAIN T.scope, NEW around \in DOMAIN T.scope
  PROVE  Grown(T, scope_push(T, s, around), {}, 0)
<1> DEFINE U == scope_push(T, s, around)
<1>1. ScopePushed(T, U, s, around) /\ Good(U)
  BY GoodScopePush
<1> HIDE DEF U
<1>2. Touched(T, U) /\ U.entity = T.entity /\ Len(U.scope) = Len(T.scope)
  BY <1>1 DEF ScopePushed
<1>3. Larger(T, U) /\ Kept(T, U)
  <2>1. U.env = T.env /\ U.label = T.label
    BY <1>2 DEF Touched
  <2>2. DOMAIN U.scope = DOMAIN T.scope
    BY <1>1, <1>2, Lengths
  <2> QED BY <1>1, <1>2, <2>1, <2>2, LargerSame DEF Kept
<1>4. Listing(T) => Listing(U)
  <2>1. /\ U.next = T.next /\ DOMAIN U.scope = DOMAIN T.scope /\ Listable(U, Null)
        /\ \A x \in DOMAIN T.scope : U.scope[x].entities = T.scope[x].entities
    <3>1. DOMAIN U.scope = DOMAIN T.scope
      BY <1>1, <1>2, Lengths
    <3>2. ASSUME NEW x \in DOMAIN T.scope PROVE U.scope[x].entities = T.scope[x].entities
      <4>1. CASE x = s
        BY <1>1, <4>1 DEF ScopePushed
      <4>2. CASE x # s
        BY <1>1, <4>2 DEF ScopePushed
      <4> QED BY <4>1, <4>2
    <3> QED BY <1>1, <3>1, <3>2 DEF ScopePushed, Listable
  <2> QED BY <1>2, <1>3, <2>1, ListingKept
<1>5. Grown(T, U, {}, 0)
  BY <1>2, <1>3, <1>4, GrownTouched
<1> QED BY <1>5 DEF U

LEMMA GrownNewScope ==
  ASSUME NEW T, Good(T), NEW around \in DOMAIN T.scope
  PROVE  LET s == Len(T.scope) + 1
             U == scope_push([T EXCEPT !.scope = Append(@, NewScope)], s, around)
         IN Grown(T, U, {}, 0) /\ s \in DOMAIN U.scope
<1> DEFINE s == Len(T.scope) + 1
           U == scope_push([T EXCEPT !.scope = Append(@, NewScope)], s, around)
<1>1. /\ Good(U) /\ Touched(T, U) /\ U.entity = T.entity /\ s \in DOMAIN U.scope
      /\ DOMAIN T.scope \subseteq DOMAIN U.scope /\ U.next = T.next
      /\ \A x \in DOMAIN T.scope : U.scope[x] = T.scope[x]
      /\ U.scope[s].entities = Null /\ Len(U.scope) = s
  <2>1. /\ Good(U) /\ Touched(T, U) /\ U.entity = T.entity /\ s \in DOMAIN U.scope
        /\ DOMAIN T.scope \subseteq DOMAIN U.scope /\ U.next = T.next
        /\ \A x \in DOMAIN T.scope : U.scope[x] = T.scope[x]
        /\ U.scope[s] = [entities |-> Null, last_entity |-> Null, depth |-> T.scope[around].depth + 1]
        /\ Len(U.scope) = s
    BY GoodNewScope
  <2> HIDE DEF U, s
  <2>2. U.scope[s].entities = Null
    BY <2>1
  <2> QED BY <2>1, <2>2
<1>a. \A x \in DOMAIN U.scope : x \in DOMAIN T.scope \/ x = s
  <2>1. PICK k : k = Len(T.scope)
    OBVIOUS
  <2>2. k \in Nat /\ DOMAIN T.scope = 1 .. k /\ s = k + 1
    BY <2>1, Lengths
  <2> HIDE DEF U, s
  <2>3. DOMAIN U.scope = 1 .. k + 1
    BY <1>1, <2>2, Lengths
  <2> QED BY <2>2, <2>3
<1> HIDE DEF U, s
<1>2. Larger(T, U) /\ Kept(T, U)
  <2>1. U.env = T.env /\ U.label = T.label
    BY <1>1 DEF Touched
  <2> QED BY <1>1, <2>1, LargerSame DEF Kept
<1>3. Listing(T) => Listing(U)
  <2>1. Listable(U, Null)
    BY DEF Listable
  <2>2. /\ \A y \in DOMAIN U.next :
             U.next[y] \in {Null, Null} \/ (y \in DOMAIN T.next /\ U.next[y] = T.next[y])
        /\ \A x \in DOMAIN U.scope :
             \/ U.scope[x].entities \in {Null, Null}
             \/ \E z \in DOMAIN T.scope : U.scope[x].entities = T.scope[z].entities
    BY <1>1, <1>a
  <2> QED BY <1>1, <1>2, <2>1, <2>2, ListingKept
<1>4. Grown(T, U, {}, 0)
  BY <1>1, <1>2, <1>3, GrownTouched
<1> QED BY <1>1, <1>4 DEF U, s

-----------------------------------------------------------------------------
(***************************************************************************)
(* A function declarator, and what follows it.                             *)
(***************************************************************************)
PlainNames == Symbols \X {"normal", "tag"}

LEMMA ListedNames ==
  ASSUME NEW T, Listing(T), NEW s \in DOMAIN T.scope, NEW L, Linked(T.scope[s].entities, T.next, L)
  PROVE  \A k \in DOMAIN L : L[k] \in DOMAIN T.next /\ (L[k] # Null => Space(T, L[k]) # "label")
<1>1. L \in Seq(DOMAIN T.next) /\ Len(L) \in Nat /\ DOMAIN L = 1 .. Len(L)
  BY DEF Linked
<1>2. \A k \in DOMAIN L : L[k] \in DOMAIN T.next
  BY <1>1
<1>3. ASSUME NEW k \in DOMAIN L PROVE Listable(T, L[k])
  <2>1. CASE k = 1
    <3>1. L # <<>> /\ T.scope[s].entities = L[1]
      BY <1>1, <1>3, <2>1 DEF Linked
    <3> QED BY <2>1, <3>1 DEF Listing
  <2>2. CASE k # 1
    <3>1. k - 1 \in DOMAIN L /\ k - 1 # Len(L) /\ k - 1 + 1 = k
      <4>1. PICK m : m = Len(L)
        OBVIOUS
      <4>2. m \in Nat /\ k \in 1 .. m /\ k # 1
        BY <1>1, <1>3, <2>2, <4>1
      <4>3. k - 1 \in 1 .. m /\ k - 1 # m /\ k - 1 + 1 = k
        BY ONLY <4>2
      <4> QED BY <1>1, <4>1, <4>3
    <3>2. T.next[L[k - 1]] = L[k]
      <4>1. T.next[L[k - 1]] = IF k - 1 = Len(L) THEN Null ELSE L[k - 1 + 1]
        BY <3>1 DEF Linked
      <4> QED BY <3>1, <4>1
    <3>3. L[k - 1] \in DOMAIN T.next
      BY <1>2, <3>1
    <3> QED BY <3>2, <3>3 DEF Listing
  <2> QED BY <2>1, <2>2
<1> QED BY <1>2, <1>3 DEF Listable

LEMMA GrownDeclarator ==
  ASSUME Good(table), NEW s \in Symbols, NEW q \in Seq(Symbols)
  PROVE  Grown(table, Declarator(s, q), {}, 1 + Len(q))
<1> DEFINE own == Len(table.scope) + 1
           U == Declarator(s, q)
           w == CHOOSE w : w = [i \in 0 .. Len(q) |->
                  IF i = 0 THEN Allocate(table, "function", s, Null)
                  ELSE append_entity(Allocate(w[i - 1], "parameter", q[i], Null),
                                     own, Fresh(w[i - 1]))]
<1>1. U = w[Len(q)]
  BY DEF Declarator
<1>2. IsDeclaring(w, table, s, q)
  <2>1. \E g : IsDeclaring(g, table, s, q)
    <3>1. Len(q) \in Nat
      OBVIOUS
    <3> QED BY <3>1, DeclaringExists
  <2>2. w = CHOOSE g : IsDeclaring(g, table, s, q)
    BY DEF IsDeclaring
  <2> HIDE DEF w
  <2> QED BY <2>1, <2>2
<1> HIDE DEF w, U
<1> DEFINE n == Len(q)
           S == { i \in 0 .. n : Grown(table, w[i], {}, 1 + i) /\ own \in DOMAIN w[i].scope }
<1>3. n \in Nat /\ DOMAIN q = 1 .. n
  OBVIOUS
<1>4. 0 \in S
  <2> DEFINE A == Allocate(table, "function", s, Null)
  <2>1. w[0] = A /\ 0 \in 0 .. n
    BY <1>2, <1>3 DEF IsDeclaring
  <2>2. "function" \in Kinds /\ Null \in Nat
    BY DEF Kinds, Null
  <2>3. Grown(table, A, {}, 1)
    BY <2>2, GrownAllocate
  <2>4. Declares(table, A, s, q, 0)
    BY DeclaringStart
  <2> HIDE DEF A
  <2>5. own \in DOMAIN A.scope
    BY <2>4 DEF Declares, ListPart
  <2>6. 1 + 0 = 1
    OBVIOUS
  <2> HIDE DEF own
  <2> QED BY <2>1, <2>3, <2>5, <2>6
<1>5. ASSUME NEW i \in 0 .. n, i \in S, i # n
      PROVE  i + 1 \in S
  <2>1. i \in Nat /\ i + 1 \in 0 .. n /\ i + 1 # 0 /\ i + 1 - 1 = i /\ i + 1 \in DOMAIN q
    <3>1. PICK m : m = n
      OBVIOUS
    <3>2. m \in Nat /\ i \in 0 .. m /\ i # m
      BY <3>1, <1>3, <1>5
    <3>3. i \in Nat /\ i + 1 \in 0 .. m /\ i + 1 # 0 /\ i + 1 - 1 = i /\ i + 1 \in 1 .. m
      BY ONLY <3>2
    <3> QED BY <3>1, <3>3, <1>3
  <2>2. PICK W : W = w[i]
    OBVIOUS
  <2> DEFINE V == append_entity(Allocate(W, "parameter", q[i + 1], Null), own, Fresh(W))
  <2>3. Grown(table, W, {}, 1 + i) /\ own \in DOMAIN W.scope
    BY <2>2, <1>5
  <2>4. w[i + 1] = V
    <3>1. w[i + 1] = IF i + 1 = 0 THEN Allocate(table, "function", s, Null)
                     ELSE append_entity(Allocate(w[i + 1 - 1], "parameter", q[i + 1], Null),
                                        own, Fresh(w[i + 1 - 1]))
      BY <2>1, <1>2 DEF IsDeclaring
    <3> QED BY <3>1, <2>1, <2>2
  <2>5. Grown(W, V, {}, 1)
    <3>1. Good(W)
      BY <2>3 DEF Grown, Larger
    <3>2. q[i + 1] \in Symbols /\ Null \in Nat /\ "parameter" \in Kinds /\ NameSpaceOf["parameter"] # "label"
      BY <2>1 DEF Null, Kinds, NameSpaceOf
    <3> QED BY <2>3, <3>1, <3>2, GrownAppended
  <2> HIDE DEF V, own
  <2>6. Grown(table, V, {} \cup {}, (1 + i) + 1)
    <3>1. 1 + i \in Nat /\ 1 \in Nat
      BY <2>1
    <3> QED BY <2>3, <2>5, <3>1, GrownTrans
  <2>7. Grown(table, V, {}, 1 + (i + 1))
    <3>1. (1 + i) + 1 \in Nat /\ 1 + (i + 1) \in Nat /\ (1 + i) + 1 <= 1 + (i + 1) /\ {} \cup {} \subseteq {}
      BY <2>1
    <3> QED BY <2>6, <3>1, GrownWider
  <2>8. own \in DOMAIN V.scope
    BY <2>3, <2>5 DEF Grown, Larger
  <2> QED BY <2>1, <2>4, <2>7, <2>8
<1>6. \A i \in 0 .. n : i \in S
  <2> HIDE DEF S
  <2> QED BY <1>3, <1>4, <1>5, Upwards
<1>7. n \in S
  <2> HIDE DEF S
  <2> QED BY <1>3, <1>6
<1> QED BY <1>1, <1>7 DEF U

LEMMA GrownParameterPushed ==
  ASSUME NEW T, Good(T), NEW U, NEW p \in DOMAIN T.entity, NEW own, NEW declared,
         ParameterPushed(T, U, p, own, declared), Space(T, p) # "label"
  PROVE  Grown(T, U, PlainNames, 0)
<1>1. PICK V : /\ EntitySet(T, V, p, own, T.entity[p].complete,
                            T.aborted \/ T.entity[p].parent_scope \notin {Null, declared, own})
               /\ EnvPushed(V, U, p)
  BY DEF ParameterPushed
<1>2. Grown(T, V, {}, 0)
  BY <1>1, GrownSet
<1>3. Good(V) /\ Good(U) /\ p \in DOMAIN V.entity
  BY <1>1, <1>2, GoodParameterPushed DEF Grown, Larger
<1>4. Space(V, p) = Space(T, p)
  BY <1>2 DEF Grown, Kept, Space
<1>5. Grown(V, U, { NameOf(V, p) }, 0)
  BY <1>1, <1>3, <1>4, GrownEnvPushed
<1>6. NameOf(V, p) \in PlainNames
  <2>1. Symbol(V, p) \in Symbols /\ Space(V, p) \in NameSpaces
    BY <1>3, EntityFacts, Lengths
  <2> QED BY <2>1, <1>4 DEF NameOf, PlainNames, NameSpaces
<1>7. Grown(T, U, {} \cup { NameOf(V, p) }, 0 + 0)
  BY <1>2, <1>5, GrownTrans
<1> QED BY <1>6, <1>7, GrownWider

LEMMA GrownParameters ==
  ASSUME NEW T, Good(T), NEW U, NEW w, NEW L \in Seq(DOMAIN T.entity), NEW own, NEW declared,
         ParametersPushed(T, U, w, L, own, declared),
         \A k \in DOMAIN L : Space(T, L[k]) # "label"
  PROVE  Grown(T, U, PlainNames, 0)
<1> DEFINE n == Len(L)
           S == { i \in 0 .. n : Grown(T, w[i], PlainNames, 0) }
<1>1. n \in Nat /\ DOMAIN L = 1 .. n
  OBVIOUS
<1>2. 0 \in S
  <2>1. w[0] = T
    BY DEF ParametersPushed
  <2>a. 0 \in 0 .. n
    BY <1>1
  <2>2. Grown(T, T, PlainNames, 0)
    <3>1. Grown(T, T, {}, 0)
      BY GrownSelf
    <3> QED BY <3>1, GrownWider
  <2> QED BY <2>1, <2>a, <2>2
<1>3. ASSUME NEW i \in 0 .. n, i \in S, i # n
      PROVE  i + 1 \in S
  <2>1. i + 1 \in 0 .. n /\ i + 1 \in DOMAIN L
    <3>1. PICK m : m = n
      OBVIOUS
    <3>2. m \in Nat /\ i \in 0 .. m /\ i # m
      BY <3>1, <1>1, <1>3
    <3>3. i + 1 \in 0 .. m /\ i + 1 \in 1 .. m
      BY ONLY <3>2
    <3> QED BY <3>1, <3>3, <1>1
  <2>2. PICK W, V, p : W = w[i] /\ V = w[i + 1] /\ p = L[i + 1]
    OBVIOUS
  <2>3. Grown(T, W, PlainNames, 0)
    BY <2>2, <1>3
  <2>4. Good(W) /\ p \in DOMAIN T.entity /\ p \in DOMAIN W.entity /\ Space(W, p) # "label"
    <3>1. p \in DOMAIN T.entity /\ Space(T, p) # "label"
      BY <2>1, <2>2
    <3>2. Good(W) /\ DOMAIN T.entity \subseteq DOMAIN W.entity /\ Kept(T, W)
      BY <2>3 DEF Grown, Larger
    <3> QED BY <3>1, <3>2 DEF Kept, Space
  <2>5. ParameterPushed(W, V, p, own, declared)
    BY <1>3, <2>2 DEF ParametersPushed
  <2>6. Grown(W, V, PlainNames, 0)
    BY <2>4, <2>5, GrownParameterPushed
  <2>7. Grown(T, V, PlainNames \cup PlainNames, 0 + 0)
    BY <2>3, <2>6, GrownTrans
  <2>8. Grown(T, V, PlainNames, 0)
    BY <2>7, GrownWider
  <2> QED BY <2>1, <2>2, <2>8
<1>4. \A i \in 0 .. n : i \in S
  <2> HIDE DEF S
  <2> QED BY <1>1, <1>2, <1>3, Upwards
<1>5. n \in S
  <2> HIDE DEF S
  <2> QED BY <1>1, <1>4
<1> QED BY <1>5 DEF ParametersPushed

\* The function is recorded, its parameters are pushed, its body is opened. A
\* function that has a body already has been declared before.
LEMMA GrownDefined ==
  ASSUME NEW T, Good(T), NEW nd \in DOMAIN T.entity, T.entity[nd].kind = "function",
         T.link[nd] = Null, NEW s \in DOMAIN T.scope, T.entity[nd].own # s,
         NEW L, ListPart(T, T.entity[nd].own, L), Ready(T, L, 0), Listing(T)
  PROVE  LET f   == Recorded(T, s, nd)
             R   == record_entity(T, s, nd)
             own == R.entity[f].own
             C   == [R EXCEPT !.scope[own] = R.scope[R.entity[nd].own]]
             S   == scope_push(C, own, s)
             P   == PushParameters(S, f, R.entity[nd].own)
             B   == scope_push([P EXCEPT !.scope = Append(@, NewScope)], Len(P.scope) + 1, own)
         IN /\ Grown(T, R, { NameOf(T, nd) }, 0)
            /\ Grown(R, P, PlainNames, 0) /\ Grown(R, B, PlainNames, 0)
            /\ ~T.entity[nd].complete /\ R.entity[f].complete
                 => Grown(T, R, {}, 0) /\ R.env = T.env /\ R.label = T.label
<1> DEFINE f == Recorded(T, s, nd)
           R == record_entity(T, s, nd)
           own == R.entity[f].own
           from == R.entity[nd].own
           C == [R EXCEPT !.scope[own] = R.scope[from]]
           S == scope_push(C, own, s)
           P == PushParameters(S, f, from)
           B == scope_push([P EXCEPT !.scope = Append(@, NewScope)], Len(P.scope) + 1, own)
           p == get_entity(T, T.entity[nd].symbol, "normal")
<1>1. /\ f \in DOMAIN T.entity /\ own \in DOMAIN T.scope /\ Recording(T, R)
      /\ Good(P) /\ DOMAIN P.scope = DOMAIN T.scope
      /\ \E w : ParametersPushed(S, P, w, L, own, R.entity[nd].own)
  <2>1. /\ f \in DOMAIN T.entity /\ own \in DOMAIN T.scope /\ Recording(T, R)
        /\ Good(S) /\ Good(P) /\ SameTable(S, P) /\ Len(P.env) = Len(R.env) + Len(L)
        /\ S.label = R.label /\ DOMAIN P.scope = DOMAIN T.scope
        /\ DOMAIN P.entity = DOMAIN T.entity
        /\ Good(B) /\ Touched(P, B) /\ DOMAIN P.scope \subseteq DOMAIN B.scope
        /\ Len(P.scope) + 1 \in DOMAIN B.scope
        /\ \E w : ParametersPushed(S, P, w, L, own, R.entity[nd].own)
    BY DefineIs
  <2> HIDE DEF f, R, own, from, C, S, P, B
  <2> QED BY <2>1
<1>2. Space(T, nd) = "normal"
  BY DEF Space, NameSpaceOf
<1>3. Grown(T, R, { NameOf(T, nd) }, 0)
  BY <1>2, GrownRecord
<1>4. ~T.entity[nd].complete /\ R.entity[f].complete
        => Grown(T, R, {}, 0) /\ R.env = T.env /\ R.label = T.label
  <2> SUFFICES ASSUME ~T.entity[nd].complete, R.entity[f].complete
               PROVE  Grown(T, R, {}, 0) /\ R.env = T.env /\ R.label = T.label
    OBVIOUS
  <2>1. IF Merges(T, s, nd, p) THEN Merged(T, R, p)
        ELSE \E V : Mark(T, V, s, nd) /\ Enlisted(V, R, nd, s) /\ Table(V) /\ Chained(V)
    BY RecordEntityIs, Lengths
  <2>2. f = IF Merges(T, s, nd, p) THEN p ELSE nd
    BY DEF Recorded
  <2> HIDE DEF f, R, own, from, C, S, P, B, p
  <2>3. Merges(T, s, nd, p)
    <3> SUFFICES ASSUME ~Merges(T, s, nd, p) PROVE FALSE
      OBVIOUS
    <3>1. f = nd
      BY <2>2
    <3>2. R.entity[nd].complete = T.entity[nd].complete
      BY <1>3 DEF Grown, Kept
    <3> QED BY <3>1, <3>2
  <2>4. EntitySet(T, R, p, T.entity[p].parent_scope,
                  T.entity[p].complete \/ T.entity[p].kind = "parameter", T.aborted)
    BY <2>1, <2>3 DEF Merged
  <2>5. p \in DOMAIN T.entity /\ T.entity[p].kind = "function"
          => (T.entity[p].complete \/ T.entity[p].kind = "parameter") = T.entity[p].complete
    <3>1. ASSUME p \in DOMAIN T.entity, T.entity[p].kind = "function"
          PROVE  (T.entity[p].complete \/ T.entity[p].kind = "parameter") = T.entity[p].complete
      <4>1. T.entity[p].complete \in BOOLEAN
        BY <3>1, EntityFacts, Lengths DEF EntityType
      <4> QED BY <3>1, <4>1
    <3> QED BY <3>1
  <2>6. Grown(T, R, {}, 0)
    BY <2>4, <2>5, GrownSet
  <2> QED BY <2>4, <2>6 DEF EntitySet, Touched
<1>5. /\ Good(R) /\ DOMAIN R.scope = DOMAIN T.scope /\ DOMAIN R.entity = DOMAIN T.entity
      /\ from = T.entity[nd].own
  <2> HIDE DEF f, R, own, C, S, P, B
  <2> QED BY <1>1 DEF Recording
<1>6. from \in DOMAIN T.scope
  BY <1>5 DEF ListPart
<1>7. /\ L \in Seq(DOMAIN T.entity)
      /\ \A k \in DOMAIN L : Space(T, L[k]) # "label"
  <2>1. Linked(T.scope[T.entity[nd].own].entities, T.next, L) /\ T.entity[nd].own \in DOMAIN T.scope
    BY DEF ListPart
  <2>2. DOMAIN T.next = DOMAIN T.entity /\ L \in Seq(DOMAIN T.next)
    BY <2>1, Lengths DEF Linked, Shape
  <2>3. \A k \in DOMAIN L : L[k] \in DOMAIN T.next /\ (L[k] # Null => Space(T, L[k]) # "label")
    BY <2>1, ListedNames
  <2>4. \A x \in DOMAIN T.entity : x # Null
    BY EntityFacts, Lengths
  <2> QED BY <2>2, <2>3, <2>4
<1> HIDE DEF f, R, own, from
<1>8. /\ Touched(R, C) /\ Good(C) /\ C.entity = R.entity /\ C.next = R.next
      /\ DOMAIN C.scope = DOMAIN R.scope
      /\ \A x \in DOMAIN R.scope : C.scope[x] = IF x = own THEN R.scope[from] ELSE R.scope[x]
  BY <1>1, <1>5, <1>6, ScopeCopied
<1> HIDE DEF C
<1>9. Grown(R, C, {}, 0)
  <2>1. Larger(R, C)
    BY <1>5, <1>8, LargerSame DEF Touched
  <2>2. Kept(R, C)
    BY <1>8 DEF Kept
  <2>3. Listing(R) => Listing(C)
    <3>1. Listable(C, Null)
      BY DEF Listable
    <3>2. from \in DOMAIN R.scope /\ own \in DOMAIN R.scope
      BY <1>1, <1>5, <1>6
    <3>3. \A x \in DOMAIN C.scope : \E z \in DOMAIN R.scope : C.scope[x].entities = R.scope[z].entities
      <4> SUFFICES ASSUME NEW x \in DOMAIN C.scope
                   PROVE  \E z \in DOMAIN R.scope : C.scope[x].entities = R.scope[z].entities
        OBVIOUS
      <4>1. CASE x = own
        BY <1>8, <3>2, <4>1
      <4>2. CASE x # own
        BY <1>8, <3>2, <4>2
      <4> QED BY <4>1, <4>2
    <3> QED BY <1>8, <2>2, <3>1, <3>3, ListingKept
  <2> QED BY <1>5, <1>8, <2>1, <2>2, <2>3, GrownTouched
<1>10. Grown(C, S, {}, 0)
  <2>1. own \in DOMAIN C.scope /\ s \in DOMAIN C.scope
    BY <1>1, <1>5, <1>8
  <2> QED BY <1>8, <2>1, GrownScopePush
<1> HIDE DEF S
<1>11. Good(S) /\ Kept(T, R) /\ Kept(R, C) /\ Kept(C, S)
       /\ DOMAIN R.entity \subseteq DOMAIN C.entity /\ DOMAIN C.entity \subseteq DOMAIN S.entity
  BY <1>3, <1>9, <1>10 DEF Grown, Larger
<1>12. /\ L \in Seq(DOMAIN S.entity)
       /\ \A k \in DOMAIN L : Space(S, L[k]) # "label"
  <2>1. DOMAIN T.entity \subseteq DOMAIN S.entity
    BY <1>5, <1>11
  <2>2. \A x \in DOMAIN T.entity : Space(S, x) = Space(T, x)
    BY <1>5, <1>11 DEF Kept, Space
  <2>3. L \in Seq(DOMAIN S.entity)
    <3>1. \A A, D : A \subseteq D => \A q \in Seq(A) : q \in Seq(D)
      OBVIOUS
    <3> QED BY <3>1, <2>1, <1>7
  <2>4. \A k \in DOMAIN L : L[k] \in DOMAIN T.entity
    BY <1>7
  <2> QED BY <2>2, <2>3, <2>4, <1>7
<1> HIDE DEF P
<1>13. Grown(S, P, PlainNames, 0)
  <2>1. PICK w : ParametersPushed(S, P, w, L, own, R.entity[nd].own)
    BY <1>1
  <2> QED BY <1>11, <1>12, <2>1, GrownParameters
<1>14. Grown(R, P, PlainNames, 0)
  <2>1. Grown(R, S, {} \cup {}, 0 + 0)
    BY <1>5, <1>9, <1>10, GrownTrans
  <2>2. Grown(R, S, {}, 0)
    BY <1>5, <2>1, GrownWider
  <2>3. Grown(R, P, {} \cup PlainNames, 0 + 0)
    BY <1>5, <1>13, <2>2, GrownTrans
  <2> QED BY <1>5, <2>3, GrownWider
<1>15. Grown(P, B, {}, 0)
  <2>1. own \in DOMAIN P.scope
    BY <1>1
  <2> QED BY <1>1, <2>1, GrownNewScope
<1> HIDE DEF B
<1>16. Grown(R, B, PlainNames, 0)
  <2>1. Grown(R, B, PlainNames \cup {}, 0 + 0)
    BY <1>5, <1>14, <1>15, GrownTrans
  <2> QED BY <1>5, <2>1, GrownWider
<1> QED BY <1>3, <1>4, <1>14, <1>16 DEF f, R, own, from, C, S, P, B

-----------------------------------------------------------------------------
(***************************************************************************)
(* The end of a construct.                                                 *)
(***************************************************************************)
LEMMA UndoneDown ==
  ASSUME NEW stack, Len(stack) \in Nat, NEW i \in 0 .. Len(stack), i # Len(stack), NEW n, NEW e
  PROVE  Undone(e, stack, i, n) = IF Name(stack[i + 1]) = n THEN stack[i + 1].old_entity
                                  ELSE Undone(e, stack, i + 1, n)
<1>1. PICK m : m = Len(stack)
  OBVIOUS
<1>2. m \in Nat /\ i \in 0 .. m /\ i # m /\ i \in Nat /\ i + 1 \in Nat
  BY <1>1
<1>3. CASE Name(stack[i + 1]) = n
  <2>1. Oldest(stack, i, n, i + 1)
    BY <1>1, <1>2, <1>3 DEF Oldest
  <2>2. Undone(e, stack, i, n) = stack[i + 1].old_entity
    BY <1>2, <2>1, UndoneIs
  <2> QED BY <1>3, <2>2
<1>4. CASE Name(stack[i + 1]) # n
  <2>1. CASE Absent(stack, i + 1, n)
    <3>1. Absent(stack, i, n)
      <4> SUFFICES ASSUME NEW j \in i + 1 .. Len(stack) PROVE Name(stack[j]) # n
        BY DEF Absent
      <4>1. CASE j = i + 1
        BY <1>4, <4>1
      <4>2. CASE j # i + 1
        BY <1>1, <1>2, <2>1, <4>2 DEF Absent
      <4> QED BY <4>1, <4>2
    <3>2. Undone(e, stack, i, n) = e /\ Undone(e, stack, i + 1, n) = e
      BY <1>2, <2>1, <3>1, UndoneIs
    <3> QED BY <1>4, <3>2
  <2>2. CASE ~Absent(stack, i + 1, n)
    <3>1. PICK j : Oldest(stack, i + 1, n, j)
      BY <1>2, <2>2, UndoneCases
    <3>2. Oldest(stack, i, n, j)
      <4>1. j \in i + 1 .. m /\ Name(stack[j]) = n
        BY <1>1, <1>2, <3>1 DEF Oldest
      <4>2. ASSUME NEW k \in i + 1 .. m, Name(stack[k]) = n PROVE j <= k
        <5>1. k # i + 1
          BY <1>4, <4>2
        <5>2. k \in i + 1 + 1 .. Len(stack)
          BY <1>1, <1>2, <4>2, <5>1
        <5> QED BY <3>1, <4>2, <5>2 DEF Oldest
      <4> QED BY <1>1, <4>1, <4>2 DEF Oldest
    <3>3. Undone(e, stack, i, n) = stack[j].old_entity /\ Undone(e, stack, i + 1, n) = stack[j].old_entity
      BY <1>2, <3>1, <3>2, UndoneIs
    <3> QED BY <1>4, <3>3
  <2> QED BY <2>1, <2>2
<1> QED BY <1>3, <1>4

\* Putting entries back never finds a name without an entity, and what was
\* there before is there again.
LEMMA SteadyUndone ==
  ASSUME NEW T, NEW stack \in Seq(EntryType), Steady(T, stack), NEW i \in DOMAIN stack,
         NEW top \in Nat, i <= top, NEW n, n = Name(stack[i])
  PROVE  Undone(Mean(T, n), stack, top, n) # Null
<1>1. CASE Absent(stack, top, n)
  <2>1. Undone(Mean(T, n), stack, top, n) = Mean(T, n)
    BY <1>1, UndoneIs
  <2> QED BY <2>1 DEF Steady
<1>2. CASE ~Absent(stack, top, n)
  <2>1. PICK j : Oldest(stack, top, n, j)
    BY <1>2, UndoneCases
  <2>2. Undone(Mean(T, n), stack, top, n) = stack[j].old_entity
    BY <2>1, UndoneIs
  <2>3. j \in DOMAIN stack /\ i < j /\ Name(stack[j]) = n
    <3>1. PICK m : m = Len(stack)
      OBVIOUS
    <3>2. m \in Nat /\ DOMAIN stack = 1 .. m /\ i \in 1 .. m /\ j \in top + 1 .. m /\ Name(stack[j]) = n
      BY <2>1, <3>1 DEF Oldest
    <3> QED BY <3>2
  <2> QED BY <2>2, <2>3 DEF Steady
<1> QED BY <1>1, <1>2

LEMMA PopUndoes ==
  ASSUME NEW T, Good(T), NEW which \in {"env", "label"}, Steady(T, StackOf(T, which)),
         NEW top \in 0 .. Len(StackOf(T, which))
  PROVE  \A n \in AllNames : Mean(stack_pop_to(T, which, top), n)
                               = Undone(Mean(T, n), StackOf(T, which), top, n)
<1> DEFINE stack == StackOf(T, which)
           P == stack_pop_to(T, which, top)
<1>0. /\ Table(T) /\ Chained(T) /\ stack \in Seq(EntryType)
      /\ \A i \in DOMAIN stack : EntryOK(T, stack[i])
  BY Lengths, StackOfType
<1>1. PICK f : IsUndoing(f, T, stack, top) /\ Ended(T, P, f[top], which, top)
  BY <1>0, PopToIs
<1>2. PICK m : m = Len(stack)
  OBVIOUS
<1> HIDE DEF stack, P
<1>3. m \in Nat /\ top \in 0 .. m /\ top \in Nat /\ DOMAIN stack = 1 .. m
  BY <1>0, <1>2 DEF stack
<1>4. /\ f[m] = T
      /\ \A i \in top .. m : i # m => f[i] = PopOne(f[i + 1], stack[i + 1])
      /\ \A i \in top .. m : Restored(T, f[i])
  <2>1. stack \in Seq(EntryType) /\ top \in 0 .. Len(stack) /\ IsUndoing(f, T, stack, top)
        /\ \A i \in DOMAIN stack : EntryOK(T, stack[i])
    BY <1>0, <1>1, <1>2, <1>3 DEF stack
  <2>2. PICK q \in Seq(EntryType) : q = stack
    BY <2>1
  <2>3. top \in 0 .. Len(q) /\ IsUndoing(f, T, q, top)
    BY <2>1, <2>2
  <2>4. /\ f[Len(q)] = T
        /\ \A i \in top .. Len(q) : i # Len(q) => f[i] = PopOne(f[i + 1], q[i + 1])
    <3>1. f[Len(q)] = T
      BY ONLY <2>3, q \in Seq(EntryType), UndoingStep
    <3>2. \A i \in top .. Len(q) : i # Len(q) => f[i] = PopOne(f[i + 1], q[i + 1])
      BY ONLY <2>3, q \in Seq(EntryType) DEF IsUndoing
    <3> QED BY <3>1, <3>2
  <2>5. \A i \in top .. Len(stack) : Restored(T, f[i])
    BY <1>0, <2>1, UndoingFields
  <2> QED BY <1>2, <2>2, <2>4, <2>5
<1> DEFINE S == { i \in top .. m : \A n \in AllNames : Mean(f[i], n) = Undone(Mean(T, n), stack, i, n) }
<1>5. m \in S
  <2>1. m \in top .. m
    BY <1>3
  <2>2. \A n \in AllNames : Undone(Mean(T, n), stack, m, n) = Mean(T, n)
    BY <1>2, <1>3, UndoneEmpty
  <2> QED BY <2>1, <2>2, <1>4
<1>6. ASSUME NEW i \in top .. m, i + 1 \in S, i # m
      PROVE  i \in S
  <2>1. i + 1 \in top .. m /\ i + 1 \in DOMAIN stack /\ i \in 0 .. m /\ i + 1 \in Nat
    BY ONLY <1>3, <1>6, i \in top .. m
  <2>2. PICK V, entry : V = f[i + 1] /\ entry = stack[i + 1]
    OBVIOUS
  <2>3. Table(V) /\ Chained(V) /\ V.entity = T.entity
    BY <1>4, <2>1, <2>2 DEF Restored
  <2>4. entry \in EntryType /\ EntryOK(V, entry)
    <3>1. entry \in EntryType
      <4>1. \A q \in Seq(EntryType) : \A k \in DOMAIN q : q[k] \in EntryType
        OBVIOUS
      <4> QED BY <4>1, <1>0, <2>1, <2>2 DEF stack
    <3>2. EntryOK(T, entry)
      BY <1>0, <2>1, <2>2 DEF stack
    <3> QED BY <3>1, <3>2, <2>3 DEF EntryOK, Symbol, Space
  <2>5. f[i] = PopOne(V, entry) /\ Popped(V, PopOne(V, entry), entry)
    <3>1. f[i] = PopOne(V, entry)
      BY <1>4, <1>6, <2>2
    <3> QED BY <2>3, <2>4, <3>1, PopMeans
  <2>6. ASSUME NEW n \in AllNames
        PROVE  Mean(f[i], n) = Undone(Mean(T, n), stack, i, n)
    <3>1. n[1] \in Symbols /\ n[2] \in NameSpaces /\ n = << n[1], n[2] >>
      BY EntryNames
    <3>2. Mean(V, n) = Undone(Mean(T, n), stack, i + 1, n)
      BY <1>6, <2>2
    <3>3. Undone(Mean(T, n), stack, i, n) = IF Name(stack[i + 1]) = n THEN stack[i + 1].old_entity
                                            ELSE Undone(Mean(T, n), stack, i + 1, n)
      <4>1. Len(stack) \in Nat /\ i \in 0 .. Len(stack) /\ i # Len(stack)
        BY <1>2, <1>3, <1>6, <2>1
      <4> QED BY <4>1, UndoneDown
    <3>4. Mean(f[i], n) = IF n[1] = entry.symbol /\ n[2] = entry.namespc /\ Mean(V, n) # Null
                          THEN entry.old_entity ELSE Mean(V, n)
      BY <2>5, <3>1 DEF Popped, Mean
    <3>5. Name(entry) = n <=> n[1] = entry.symbol /\ n[2] = entry.namespc
      BY <3>1 DEF Name
    <3>6. CASE Name(entry) = n
      <4>1. Mean(V, n) # Null
        <5>1. i + 1 <= i + 1 /\ Steady(T, stack) /\ stack \in Seq(EntryType)
          BY <1>0, <2>1 DEF stack
        <5>2. n = Name(stack[i + 1])
          BY <2>2, <3>6
        <5>3. Undone(Mean(T, n), stack, i + 1, n) # Null
          BY <2>1, <5>1, <5>2, SteadyUndone
        <5> QED BY <3>2, <5>3
      <4> QED BY <2>2, <3>3, <3>4, <3>5, <3>6, <4>1
    <3>7. CASE Name(entry) # n
      BY <2>2, <3>2, <3>3, <3>4, <3>5, <3>7
    <3> QED BY <3>6, <3>7
  <2> QED BY <2>6
<1>7. \A i \in top .. m : i \in S
  <2>1. \A i \in top .. m : i + 1 \in S /\ i # m => i \in S
    BY <1>6
  <2> HIDE DEF S
  <2> QED BY <1>3, <1>5, <2>1, Downwards
<1>8. \A n \in AllNames : Mean(f[top], n) = Undone(Mean(T, n), stack, top, n)
  <2>1. top \in top .. m
    BY <1>3
  <2> QED BY <1>7, <2>1
<1>9. \A n \in AllNames : Mean(P, n) = Mean(f[top], n)
  <2>1. top \in top .. m
    BY <1>3
  <2>2. Restored(T, f[top])
    BY <1>4, <2>1
  <2>3. Shape(f[top]) /\ Chained(f[top]) /\ Shape(P)
    BY <1>1, <2>2 DEF Restored, Ended, Table
  <2>4. P.head = f[top].head /\ P.link = f[top].link /\ P.entity = f[top].entity
    BY <1>1, <2>2 DEF Restored, Ended
  <2>5. \A r \in Symbols, n \in NameSpaces : get_entity(P, r, n) = get_entity(f[top], r, n)
    BY <2>3, <2>4, SameLists
  <2> QED BY <2>5, EntryNames DEF Mean
<1> QED BY <1>8, <1>9 DEF P, stack

\* The environment is put back up to top.
LEMMA EnvPopped ==
  ASSUME NEW T, Good(T), NEW stk, Disciplined(T, stk), NEW top \in 0 .. Len(T.env),
         NEW P, P = stack_pop_to(T, "env", top)
  PROVE  /\ Good(P) /\ P.entity = T.entity /\ P.next = T.next /\ P.scope = T.scope
         /\ P.env = SubSeq(T.env, 1, top) /\ P.label = T.label
         /\ Len(P.env) = top /\ DOMAIN P.env = 1 .. top
         /\ \A i \in 1 .. top : i \in DOMAIN T.env /\ P.env[i] = T.env[i]
         /\ \A n \in AllNames : Mean(P, n) = Undone(Mean(T, n), T.env, top, n)
         /\ Disciplined(P, stk)
<1>0. /\ Table(T) /\ Chained(T) /\ StackOf(T, "env") = T.env /\ T.env \in Seq(EntryType)
      /\ T.label \in Seq(EntryType) /\ top \in Nat
      /\ Steady(T, T.env) /\ Steady(T, T.label) /\ Locals(T) /\ Apart(T, stk)
  BY Lengths DEF StackOf, Disciplined
<1>1. /\ Good(P) /\ P.entity = T.entity /\ P.next = T.next /\ P.scope = T.scope
      /\ P.env = SubSeq(T.env, 1, top) /\ P.label = T.label
  <2>1. /\ Good(P) /\ P.entity = T.entity /\ P.next = T.next /\ P.scope = T.scope
    BY <1>0, GoodPopTo
  <2>2. P.env = SubSeq(T.env, 1, top) /\ P.label = T.label
    BY <1>0, PopToKeeps
  <2> QED BY <2>1, <2>2
<1>2. /\ Len(P.env) = top /\ DOMAIN P.env = 1 .. top
      /\ \A i \in 1 .. top : i \in DOMAIN T.env /\ P.env[i] = T.env[i]
  <2>1. /\ Len(P.env) = top /\ DOMAIN P.env = 1 .. top
        /\ \A i \in 1 .. top : P.env[i] = T.env[i]
    BY <1>0, <1>1, PrefixSeq
  <2>2. \A i \in 1 .. top : i \in DOMAIN T.env
    <3>1. PICK m : m = Len(T.env)
      OBVIOUS
    <3>2. m \in Nat /\ DOMAIN T.env = 1 .. m /\ top \in 0 .. m
      BY <1>0, <3>1
    <3> QED BY <3>2
  <2> QED BY <2>1, <2>2
<1>3. \A n \in AllNames : Mean(P, n) = Undone(Mean(T, n), T.env, top, n)
  <2>1. Steady(T, StackOf(T, "env")) /\ top \in 0 .. Len(StackOf(T, "env"))
    BY <1>0
  <2> QED BY <1>0, <2>1, PopUndoes
<1>4. \A i \in DOMAIN T.env : Name(T.env[i]) \in AllNames
  BY StackEntries
<1>5. \A i \in DOMAIN T.label : Name(T.label[i]) \in AllNames
  BY StackEntries
<1>6. Steady(P, P.env)
  <2>1. ASSUME NEW i \in 1 .. top PROVE Mean(P, Name(P.env[i])) # Null
    <3>1. i \in DOMAIN T.env /\ P.env[i] = T.env[i] /\ Name(T.env[i]) \in AllNames
      BY <1>2, <1>4
    <3>2. i <= top
      BY <1>0
    <3>3. Undone(Mean(T, Name(T.env[i])), T.env, top, Name(T.env[i])) # Null
      BY <1>0, <3>1, <3>2, SteadyUndone
    <3> QED BY <1>3, <3>1, <3>3
  <2>2. ASSUME NEW i \in 1 .. top, NEW j \in 1 .. top, i < j, Name(P.env[i]) = Name(P.env[j])
        PROVE  P.env[j].old_entity # Null
    BY <1>0, <1>2, <2>2 DEF Steady
  <2> QED BY <1>2, <2>1, <2>2 DEF Steady
\* The name of an entry of the environment that is put back, and what it means.
<1>7. ASSUME NEW n \in AllNames
      PROVE  \/ Absent(T.env, top, n) /\ Mean(P, n) = Mean(T, n)
             \/ \E j \in DOMAIN T.env : /\ j \in top + 1 .. Len(T.env) /\ Name(T.env[j]) = n
                                        /\ Mean(P, n) = T.env[j].old_entity
  <2>1. CASE Absent(T.env, top, n)
    <3>1. Undone(Mean(T, n), T.env, top, n) = Mean(T, n)
      BY <1>0, <2>1, UndoneIs
    <3> QED BY <1>3, <2>1, <3>1
  <2>2. CASE ~Absent(T.env, top, n)
    <3>1. PICK j : Oldest(T.env, top, n, j)
      BY <1>0, <2>2, UndoneCases
    <3>2. Undone(Mean(T, n), T.env, top, n) = T.env[j].old_entity
      BY <1>0, <3>1, UndoneIs
    <3>3. j \in top + 1 .. Len(T.env) /\ Name(T.env[j]) = n
      BY <3>1 DEF Oldest
    <3>4. j \in DOMAIN T.env
      <4>1. PICK m : m = Len(T.env)
        OBVIOUS
      <4>2. m \in Nat /\ DOMAIN T.env = 1 .. m /\ j \in top + 1 .. m
        BY <1>0, <3>3, <4>1
      <4> QED BY <1>0, <4>2
    <3> QED BY <1>3, <3>2, <3>3, <3>4
  <2> QED BY <2>1, <2>2
<1>8. Steady(P, P.label)
  <2>1. ASSUME NEW i \in DOMAIN T.label PROVE Mean(P, Name(T.label[i])) # Null
    <3>1. Name(T.label[i]) \in AllNames /\ Mean(T, Name(T.label[i])) # Null
      BY <1>0, <1>5 DEF Steady
    <3>2. \A j \in DOMAIN T.env : Name(T.label[i]) = Name(T.env[j]) => T.env[j].old_entity # Null
      BY <1>0 DEF Apart
    <3> QED BY <1>7, <3>1, <3>2
  <2> QED BY <1>0, <1>1, <2>1 DEF Steady
<1>9. Locals(P)
  <2>1. \A e : IsLocal(P, e) <=> IsLocal(T, e)
    BY <1>1 DEF IsLocal
  <2>2. ASSUME NEW i \in 1 .. top, P.env[i].namespc = "label"
        PROVE  IsLocal(P, Mean(P, Name(P.env[i])))
    <3>1. i \in DOMAIN T.env /\ P.env[i] = T.env[i] /\ Name(T.env[i]) \in AllNames
      BY <1>2, <1>4
    <3>2. IsLocal(T, Mean(T, Name(T.env[i])))
      BY <1>0, <2>2, <3>1 DEF Locals
    <3>3. \A j \in DOMAIN T.env : i < j /\ Name(T.env[j]) = Name(T.env[i]) => IsLocal(T, T.env[j].old_entity)
      BY <1>0, <2>2, <3>1 DEF Locals
    <3>4. \A j \in top + 1 .. Len(T.env) : i < j
      <4>1. PICK m : m = Len(T.env)
        OBVIOUS
      <4>2. m \in Nat /\ i \in 1 .. top
        BY <1>0, <4>1
      <4>3. \A j \in top + 1 .. m : i < j
        BY ONLY <4>2, top \in Nat
      <4> QED BY <4>1, <4>3
    <3> QED BY <1>7, <2>1, <3>1, <3>2, <3>3, <3>4
  <2>3. ASSUME NEW i \in 1 .. top, NEW j \in 1 .. top, i < j, P.env[i].namespc = "label",
               Name(P.env[i]) = Name(P.env[j])
        PROVE  IsLocal(P, P.env[j].old_entity)
    BY <1>0, <1>2, <2>1, <2>3 DEF Locals
  <2> QED BY <1>2, <2>2, <2>3 DEF Locals
<1>10. Apart(P, stk)
  <2>1. /\ P.label = T.label /\ Apart(T, stk)
        /\ \A j \in DOMAIN P.env : j \in DOMAIN T.env /\ P.env[j] = T.env[j]
    BY <1>0, <1>1, <1>2
  <2> QED BY ONLY <2>1 DEF Apart
<1> QED BY <1>1, <1>2, <1>3, <1>6, <1>8, <1>9, <1>10 DEF Disciplined

\* The labels are put back up to top; no name with an entry there is in the
\* environment any more.
LEMMA LabelPopped ==
  ASSUME NEW T, Good(T), NEW stk, Disciplined(T, stk), NEW top \in 0 .. Len(T.label),
         \A i \in top + 1 .. Len(T.label), j \in DOMAIN T.env : Name(T.label[i]) # Name(T.env[j]),
         NEW P, P = stack_pop_to(T, "label", top)
  PROVE  /\ Good(P) /\ P.entity = T.entity /\ P.next = T.next /\ P.scope = T.scope
         /\ P.label = SubSeq(T.label, 1, top) /\ P.env = T.env
         /\ Len(P.label) = top /\ DOMAIN P.label = 1 .. top
         /\ \A i \in 1 .. top : i \in DOMAIN T.label /\ P.label[i] = T.label[i]
         /\ \A n \in AllNames : Mean(P, n) = Undone(Mean(T, n), T.label, top, n)
         /\ Disciplined(P, stk)
<1>0. /\ Table(T) /\ Chained(T) /\ StackOf(T, "label") = T.label /\ T.env \in Seq(EntryType)
      /\ T.label \in Seq(EntryType) /\ top \in Nat
      /\ Steady(T, T.env) /\ Steady(T, T.label) /\ Locals(T) /\ Apart(T, stk)
  BY Lengths DEF StackOf, Disciplined
<1>1. /\ Good(P) /\ P.entity = T.entity /\ P.next = T.next /\ P.scope = T.scope
      /\ P.label = SubSeq(T.label, 1, top) /\ P.env = T.env
  <2>1. /\ Good(P) /\ P.entity = T.entity /\ P.next = T.next /\ P.scope = T.scope
    BY <1>0, GoodPopTo
  <2>2. P.label = SubSeq(T.label, 1, top) /\ P.env = T.env
    BY <1>0, PopToKeeps
  <2> QED BY <2>1, <2>2
<1>2. /\ Len(P.label) = top /\ DOMAIN P.label = 1 .. top
      /\ \A i \in 1 .. top : i \in DOMAIN T.label /\ P.label[i] = T.label[i]
  <2>1. /\ Len(P.label) = top /\ DOMAIN P.label = 1 .. top
        /\ \A i \in 1 .. top : P.label[i] = T.label[i]
    BY <1>0, <1>1, PrefixSeq
  <2>2. \A i \in 1 .. top : i \in DOMAIN T.label
    <3>1. PICK m : m = Len(T.label)
      OBVIOUS
    <3>2. m \in Nat /\ DOMAIN T.label = 1 .. m /\ top \in 0 .. m
      BY <1>0, <3>1
    <3> QED BY <3>2
  <2> QED BY <2>1, <2>2
<1>3. \A n \in AllNames : Mean(P, n) = Undone(Mean(T, n), T.label, top, n)
  <2>1. Steady(T, StackOf(T, "label")) /\ top \in 0 .. Len(StackOf(T, "label"))
    BY <1>0
  <2> QED BY <1>0, <2>1, PopUndoes
<1>4. \A i \in DOMAIN T.env : Name(T.env[i]) \in AllNames
  BY StackEntries
<1>5. \A i \in DOMAIN T.label : Name(T.label[i]) \in AllNames
  BY StackEntries
\* What is in the environment means the same.
<1>6. \A j \in DOMAIN T.env : Mean(P, Name(T.env[j])) = Mean(T, Name(T.env[j]))
  <2> SUFFICES ASSUME NEW j \in DOMAIN T.env
               PROVE  Mean(P, Name(T.env[j])) = Mean(T, Name(T.env[j]))
    OBVIOUS
  <2>1. Absent(T.label, top, Name(T.env[j]))
    BY DEF Absent
  <2>2. Undone(Mean(T, Name(T.env[j])), T.label, top, Name(T.env[j])) = Mean(T, Name(T.env[j]))
    BY <1>0, <2>1, UndoneIs
  <2> QED BY <1>3, <1>4, <2>2
<1>7. Steady(P, P.env)
  BY <1>0, <1>1, <1>6 DEF Steady
<1>8. Steady(P, P.label)
  <2>1. ASSUME NEW i \in 1 .. top PROVE Mean(P, Name(P.label[i])) # Null
    <3>1. i \in DOMAIN T.label /\ P.label[i] = T.label[i] /\ Name(T.label[i]) \in AllNames
      BY <1>2, <1>5
    <3>2. i <= top
      BY <1>0
    <3>3. Undone(Mean(T, Name(T.label[i])), T.label, top, Name(T.label[i])) # Null
      BY <1>0, <3>1, <3>2, SteadyUndone
    <3> QED BY <1>3, <3>1, <3>3
  <2>2. ASSUME NEW i \in 1 .. top, NEW j \in 1 .. top, i < j, Name(P.label[i]) = Name(P.label[j])
        PROVE  P.label[j].old_entity # Null
    BY <1>0, <1>2, <2>2 DEF Steady
  <2> QED BY <1>2, <2>1, <2>2 DEF Steady
<1>9. Locals(P)
  <2>1. \A e : IsLocal(P, e) <=> IsLocal(T, e)
    BY <1>1 DEF IsLocal
  <2> QED BY <1>0, <1>1, <1>6, <2>1 DEF Locals
<1>10. Apart(P, stk)
  <2>1. /\ P.env = T.env /\ Apart(T, stk)
        /\ \A i \in DOMAIN P.label : i \in DOMAIN T.label /\ P.label[i] = T.label[i]
    BY <1>0, <1>1, <1>2
  <2> QED BY ONLY <2>1 DEF Apart
<1> QED BY <1>1, <1>2, <1>3, <1>7, <1>8, <1>9, <1>10 DEF Disciplined

\* stk has one construct more than tail; where it is a function, tail's labels
\* end where its own begin.
Within(U, stk, T, tail) ==
  /\ stk \in Seq(OpenType) /\ tail \in Seq(OpenType) /\ Len(stk) = Len(tail) + 1
  /\ \A j \in DOMAIN tail : stk[j + 1] = tail[j]
  /\ \/ stk[1].what # "function" /\ Len(U.label) = Len(T.label)
     \/ stk[1].what = "function" /\ stk[1].label_top = Len(T.label)

\* A construct around others: its function, or one that opens when the label
\* stack is as high as it is now.
LEMMA LabelTopShift ==
  ASSUME NEW T, NEW U, NEW stk, NEW tail, Within(U, stk, T, tail)
  PROVE  \A k \in DOMAIN tail : LabelTopOf(U, stk, k + 1) = LabelTopOf(T, tail, k)
<1> SUFFICES ASSUME NEW k \in DOMAIN tail
             PROVE  LabelTopOf(U, stk, k + 1) = LabelTopOf(T, tail, k)
  OBVIOUS
<1> /\ stk \in Seq(OpenType) /\ tail \in Seq(OpenType) /\ Len(stk) = Len(tail) + 1
    /\ \A j \in DOMAIN tail : stk[j + 1] = tail[j]
    /\ \/ stk[1].what # "function" /\ Len(U.label) = Len(T.label)
       \/ stk[1].what = "function" /\ stk[1].label_top = Len(T.label)
  BY DEF Within
<1>1. PICK n : n = Len(tail)
  OBVIOUS
<1>2. n \in Nat /\ DOMAIN tail = 1 .. n /\ DOMAIN stk = 1 .. n + 1 /\ k \in 1 .. n
  BY <1>1
<1> DEFINE F == FunctionsUpTo(tail, k)
           G == FunctionsUpTo(stk, k + 1)
<1>3. /\ \A i : i \in F <=> i \in 1 .. k /\ tail[i].what = "function"
      /\ \A i : i \in G <=> i \in 1 .. k + 1 /\ stk[i].what = "function"
  BY DEF FunctionsUpTo
<1> HIDE DEF F, G
<1>4. \A i \in 1 .. k : /\ i + 1 \in 1 .. k + 1 /\ i + 1 # 1 /\ stk[i + 1] = tail[i]
                        /\ (i \in F <=> i + 1 \in G)
  <2> SUFFICES ASSUME NEW i \in 1 .. k
               PROVE  /\ i + 1 \in 1 .. k + 1 /\ i + 1 # 1 /\ stk[i + 1] = tail[i]
                      /\ (i \in F <=> i + 1 \in G)
    OBVIOUS
  <2>1. i + 1 \in 1 .. k + 1 /\ i + 1 # 1 /\ i \in 1 .. n
    BY ONLY <1>2, i \in 1 .. k
  <2>2. stk[i + 1] = tail[i]
    BY <1>2, <2>1
  <2> QED BY <1>3, <2>1, <2>2
<1>5. \A i \in 1 .. k + 1 : i # 1 => i - 1 \in 1 .. k /\ i = (i - 1) + 1
  BY ONLY <1>2
<1>6. CASE F # {}
  <2>1. F \subseteq 0 .. k /\ k \in Nat
    BY <1>2, <1>3
  <2>2. PICK m \in F : \A x \in F : x <= m
    BY <1>6, <2>1, Greatest
  <2>3. m \in 1 .. k
    BY <1>3
  <2>4. Max(F) = m
    <3>1. \A j \in F : (\A x \in F : x <= j) => j = m
      BY <2>1, <2>2
    <3> QED BY <2>2, <3>1 DEF Max
  <2>5. m + 1 \in G /\ \A x \in G : x <= m + 1
    <3>1. m + 1 \in G
      BY <1>4, <2>3
    <3>2. ASSUME NEW x \in G PROVE x <= m + 1
      <4>1. x \in 1 .. k + 1
        BY <1>3
      <4>2. CASE x = 1
        BY <2>3, <4>2
      <4>3. CASE x # 1
        <5>1. x - 1 \in 1 .. k /\ x = (x - 1) + 1
          BY <1>5, <4>1, <4>3
        <5>2. x - 1 \in F
          BY <1>4, <5>1
        <5>3. x - 1 <= m
          BY <2>2, <5>2
        <5> QED BY ONLY <4>1, <5>3, <2>3, <1>2
      <4> QED BY <4>2, <4>3
    <3> QED BY <3>1, <3>2
  <2>6. Max(G) = m + 1
    <3>1. G \subseteq 1 .. k + 1
      BY <1>3
    <3>2. \A j \in G : (\A x \in G : x <= j) => j = m + 1
      BY <1>2, <2>3, <2>5, <3>1
    <3> QED BY <2>5, <3>2 DEF Max
  <2>7. stk[m + 1] = tail[m] /\ G # {}
    BY <1>4, <2>3, <2>5
  <2>8. LabelTopOf(T, tail, k) = tail[m].label_top
    BY <1>6, <2>4 DEF LabelTopOf, F
  <2>9. LabelTopOf(U, stk, k + 1) = stk[m + 1].label_top
    BY <2>6, <2>7 DEF LabelTopOf, G
  <2> QED BY <2>7, <2>8, <2>9
<1>7. CASE F = {}
  <2>1. LabelTopOf(T, tail, k) = Len(T.label)
    BY <1>7 DEF LabelTopOf, F
  <2>2. \A i \in G : i = 1
    BY <1>3, <1>4, <1>5, <1>7
  <2>3. CASE stk[1].what # "function"
    <3>1. G = {}
      BY <1>3, <2>2, <2>3
    <3>2. LabelTopOf(U, stk, k + 1) = Len(U.label)
      BY <3>1 DEF LabelTopOf, G
    <3> QED BY <2>1, <2>3, <3>2
  <2>4. CASE stk[1].what = "function"
    <3>1. 1 \in 1 .. k + 1
      BY <1>2
    <3>2. G = {1}
      BY <1>3, <2>2, <2>4, <3>1
    <3>3. Max(G) = 1
      BY <3>2 DEF Max
    <3>4. G # {}
      BY <3>2
    <3>5. LabelTopOf(U, stk, k + 1) = stk[1].label_top
      BY <3>3, <3>4 DEF LabelTopOf, G
    <3> QED BY <2>1, <2>4, <3>5
  <2> QED BY <2>3, <2>4
<1> QED BY <1>6, <1>7

\* The innermost construct of all.
LEMMA LabelTopFirst ==
  ASSUME NEW T, NEW stk
  PROVE  LabelTopOf(T, stk, 1) = IF stk[1].what = "function" THEN stk[1].label_top ELSE Len(T.label)
<1> DEFINE G == FunctionsUpTo(stk, 1)
<1>1. \A i : i \in G <=> i = 1 /\ stk[i].what = "function"
  BY DEF FunctionsUpTo
<1> HIDE DEF G
<1>2. CASE stk[1].what = "function"
  <2>1. G = {1} /\ G # {}
    BY <1>1, <1>2
  <2>2. Max(G) = 1
    BY <2>1 DEF Max
  <2> QED BY <1>2, <2>1, <2>2 DEF LabelTopOf, G
<1>3. CASE stk[1].what # "function"
  <2>1. G = {}
    BY <1>1, <1>3
  <2> QED BY <1>3, <2>1 DEF LabelTopOf, G
<1> QED BY <1>2, <1>3

LEMMA ApartTail ==
  ASSUME NEW T, NEW stk \in Seq(OpenType), stk # <<>>, Disciplined(T, stk)
  PROVE  Disciplined(T, Tail(stk))
<1>1. \A k \in DOMAIN Tail(stk) : k \in Nat /\ k + 1 \in DOMAIN stk /\ Tail(stk)[k] = stk[k + 1]
  BY TailIs
<1>2. Apart(T, Tail(stk))
  <2> SUFFICES ASSUME NEW i \in DOMAIN T.label, NEW j \in DOMAIN T.env,
                      Name(T.label[i]) = Name(T.env[j])
               PROVE  /\ T.env[j].old_entity # Null
                      /\ \A k \in DOMAIN Tail(stk) :
                           k > 1 /\ Tail(stk)[k].what = "function" /\ j <= Tail(stk)[k - 1].top
                             => i <= Tail(stk)[k].label_top
    BY DEF Apart
  <2>1. /\ T.env[j].old_entity # Null
        /\ \A k \in DOMAIN stk : k > 1 /\ stk[k].what = "function" /\ j <= stk[k - 1].top
                                   => i <= stk[k].label_top
    BY DEF Apart, Disciplined
  <2>2. ASSUME NEW k \in DOMAIN Tail(stk), k > 1, Tail(stk)[k].what = "function",
               j <= Tail(stk)[k - 1].top
        PROVE  i <= Tail(stk)[k].label_top
    <3>1. k \in Nat /\ k + 1 \in DOMAIN stk /\ Tail(stk)[k] = stk[k + 1]
      BY <1>1
    <3>2. Tail(stk)[k - 1] = stk[k]
      <4>1. DOMAIN Tail(stk) = 1 .. Len(stk) - 1 /\ Len(stk) \in Nat
        BY TailIs
      <4>2. k - 1 \in DOMAIN Tail(stk) /\ (k - 1) + 1 = k
        BY <2>2, <3>1, <4>1
      <4> QED BY <1>1, <4>2
    <3>3. k + 1 > 1 /\ (k + 1) - 1 = k
      BY <3>1
    <3> QED BY <2>1, <2>2, <3>1, <3>2, <3>3
  <2> QED BY <2>1, <2>2
<1> QED BY <1>2 DEF Disciplined

\* The end of a construct that is not a function: what the names will mean
\* then is what they mean.
LEMMA Closed ==
  ASSUME NEW T, Good(T), NEW stk, Nested(T, stk), stk # <<>>, stk[1].what # "function",
         Disciplined(T, stk)
  PROVE  LET P == stack_pop_to(T, "env", stk[1].top)
         IN /\ Good(P) /\ P.entity = T.entity /\ P.next = T.next /\ P.scope = T.scope
            /\ Disciplined(P, Tail(stk))
            /\ \A n \in AllNames : Mean(P, n) = Later(T, stk, 1, n)
            /\ \A k \in DOMAIN Tail(stk), n \in AllNames :
                 Later(P, Tail(stk), k, n) = Later(T, stk, k + 1, n)
<1> DEFINE top == stk[1].top
           P == stack_pop_to(T, "env", top)
           tail == Tail(stk)
<1>1. /\ stk \in Seq(OpenType) /\ tail \in Seq(OpenType) /\ 1 \in DOMAIN stk
      /\ Len(stk) = Len(tail) + 1 /\ DOMAIN tail = 1 .. Len(stk) - 1
      /\ \A k \in DOMAIN tail : k \in Nat /\ k + 1 \in DOMAIN stk /\ tail[k] = stk[k + 1]
  <2>1. stk \in Seq(OpenType)
    BY DEF Nested
  <2>2. /\ Len(stk) \in Nat /\ Len(tail) = Len(stk) - 1 /\ tail \in Seq(OpenType) /\ 1 \in DOMAIN stk
        /\ DOMAIN tail = 1 .. Len(stk) - 1
        /\ \A k \in DOMAIN tail : k \in Nat /\ k + 1 \in DOMAIN stk /\ tail[k] = stk[k + 1]
    BY <2>1, TailIs
  <2> QED BY <2>1, <2>2
<1>2. /\ T.env \in Seq(EntryType) /\ T.label \in Seq(EntryType)
      /\ Len(T.env) \in Nat /\ Len(T.label) \in Nat
  BY Lengths
<1>3. \A k \in DOMAIN stk : stk[k].top \in 0 .. Len(T.env)
  <2>1. \A q \in Seq(OpenType) : \A k \in DOMAIN q : q[k] \in OpenType
    OBVIOUS
  <2>2. \A c \in OpenType : c.top \in Nat
    BY DEF OpenType
  <2>3. \A k \in DOMAIN stk : stk[k].top <= Len(T.env)
    BY DEF Nested
  <2> QED BY <1>1, <1>2, <2>1, <2>2, <2>3
<1>4. top \in 0 .. Len(T.env)
  BY <1>1, <1>3
<1> HIDE DEF top
<1>5. /\ Good(P) /\ P.entity = T.entity /\ P.next = T.next /\ P.scope = T.scope
      /\ P.env = SubSeq(T.env, 1, top) /\ P.label = T.label
      /\ \A n \in AllNames : Mean(P, n) = Undone(Mean(T, n), T.env, top, n)
      /\ Disciplined(P, stk)
  BY <1>4, EnvPopped
<1> HIDE DEF P
<1>6. Disciplined(P, tail)
  BY <1>1, <1>5, ApartTail
<1>7. ASSUME NEW n \in AllNames PROVE Mean(P, n) = Later(T, stk, 1, n)
  <2>1. LabelTopOf(T, stk, 1) = Len(T.label)
    BY LabelTopFirst
  <2>2. Undone(Undone(Mean(T, n), T.env, top, n), T.label, Len(T.label), n)
          = Undone(Mean(T, n), T.env, top, n)
    BY <1>2, UndoneEmpty
  <2> QED BY <1>5, <2>1, <2>2 DEF Later, top
<1> HIDE DEF tail
<1>8. ASSUME NEW k \in DOMAIN tail, NEW n \in AllNames
      PROVE  Later(P, tail, k, n) = Later(T, stk, k + 1, n)
  <2>1. LabelTopOf(T, stk, k + 1) = LabelTopOf(P, tail, k)
    <3>1. \/ stk[1].what # "function" /\ Len(T.label) = Len(P.label)
          \/ stk[1].what = "function" /\ stk[1].label_top = Len(P.label)
      BY <1>5
    <3>2. /\ stk \in Seq(OpenType) /\ tail \in Seq(OpenType) /\ Len(stk) = Len(tail) + 1
          /\ \A j \in DOMAIN tail : stk[j + 1] = tail[j]
      BY <1>1
    <3>3. Within(T, stk, P, tail)
      BY ONLY <3>1, <3>2 DEF Within
    <3>4. \A j \in DOMAIN tail : LabelTopOf(T, stk, j + 1) = LabelTopOf(P, tail, j)
      BY ONLY <3>3, LabelTopShift
    <3> QED BY <3>4
  <2>2. PICK b : b = stk[k + 1].top
    OBVIOUS
  <2>3. b \in 0 .. top /\ tail[k].top = b
    <3>1. k + 1 \in DOMAIN stk /\ 1 < k + 1 /\ tail[k] = stk[k + 1]
      BY <1>1
    <3>2. b <= top
      BY <1>1, <2>2, <3>1 DEF Nested, top
    <3>3. b \in Nat /\ top \in Nat
      BY <1>2, <1>3, <1>4, <2>2, <3>1
    <3> QED BY <2>2, <3>1, <3>2, <3>3
  <2>4. Undone(Undone(Mean(T, n), T.env, top, n), SubSeq(T.env, 1, top), b, n)
          = Undone(Mean(T, n), T.env, b, n)
    BY <1>2, <1>4, <2>3, UndoneTwice
  <2> QED BY <1>5, <2>1, <2>2, <2>3, <2>4 DEF Later
<1> QED BY <1>5, <1>6, <1>7, <1>8 DEF P, top, tail

\* The tops of the constructs, and the label tops.
LEMMA TopRange ==
  ASSUME NEW T, Good(T), NEW stk, Nested(T, stk)
  PROVE  \A k \in DOMAIN stk : /\ stk[k].top \in 0 .. Len(T.env)
                               /\ stk[k].label_top \in 0 .. Len(T.label)
                               /\ LabelTopOf(T, stk, k) \in 0 .. Len(T.label)
<1>1. Len(T.env) \in Nat /\ Len(T.label) \in Nat /\ stk \in Seq(OpenType)
  BY Lengths DEF Nested
<1>2. \A k \in DOMAIN stk : stk[k].top \in 0 .. Len(T.env) /\ stk[k].label_top \in 0 .. Len(T.label)
  <2>1. \A q \in Seq(OpenType) : \A k \in DOMAIN q : q[k] \in OpenType
    OBVIOUS
  <2>2. \A c \in OpenType : c.top \in Nat /\ c.label_top \in Nat
    BY DEF OpenType
  <2>3. \A k \in DOMAIN stk : stk[k].top <= Len(T.env) /\ stk[k].label_top <= Len(T.label)
    BY DEF Nested
  <2> QED BY <1>1, <2>1, <2>2, <2>3
<1>3. ASSUME NEW k \in DOMAIN stk PROVE LabelTopOf(T, stk, k) \in 0 .. Len(T.label)
  <2> DEFINE F == FunctionsUpTo(stk, k)
  <2>1. CASE F = {}
    BY <1>1, <2>1 DEF LabelTopOf
  <2>2. CASE F # {}
    <3>1. PICK n : n = Len(stk)
      OBVIOUS
    <3>2. n \in Nat /\ DOMAIN stk = 1 .. n /\ k \in 1 .. n /\ k \in Nat
      BY <1>1, <3>1
    <3>3. F \subseteq 0 .. k /\ F \subseteq 1 .. n
      BY <3>2 DEF FunctionsUpTo
    <3> HIDE DEF F
    <3>4. PICK m \in F : \A x \in F : x <= m
      BY <2>2, <3>2, <3>3, Greatest
    <3>5. \A j \in F : (\A x \in F : x <= j) => j = m
      BY <3>2, <3>3, <3>4
    <3>6. Max(F) = m
      BY <3>4, <3>5 DEF Max
    <3>7. LabelTopOf(T, stk, k) = stk[m].label_top
      BY <2>2, <3>6 DEF LabelTopOf, F
    <3> QED BY <1>2, <3>2, <3>3, <3>7
  <2> QED BY <2>1, <2>2
<1> QED BY <1>2, <1>3

\* The end of a function: its body, its labels and its parameters. Labels
\* outlive the blocks, but what is put back to before the function is what
\* the names meant there.
LEMMA Returned ==
  ASSUME NEW T, Good(T), NEW stk, Nested(T, stk), Len(stk) >= 2, stk[1].what # "function",
         stk[2].what = "function", Disciplined(T, stk)
  PROVE  LET A == stack_pop_to(T, "env", stk[1].top)
             B == stack_pop_to(A, "label", stk[2].label_top)
             C == stack_pop_to(B, "env", stk[2].top)
         IN /\ Good(C) /\ C.entity = T.entity /\ C.next = T.next /\ C.scope = T.scope
            /\ Nested(C, Tail(Tail(stk))) /\ Disciplined(C, Tail(Tail(stk)))
            /\ \A n \in AllNames : Mean(C, n) = Later(T, stk, 2, n)
            /\ \A k \in DOMAIN Tail(Tail(stk)), n \in AllNames :
                 Later(C, Tail(Tail(stk)), k, n) = Later(T, stk, k + 2, n)
<1> DEFINE a == stk[1].top
           l == stk[2].label_top
           b == stk[2].top
           A == stack_pop_to(T, "env", a)
           B == stack_pop_to(A, "label", l)
           C == stack_pop_to(B, "env", b)
           tail == Tail(stk)
           rest == Tail(tail)
<1>1. /\ stk \in Seq(OpenType) /\ stk # <<>> /\ 1 \in DOMAIN stk /\ 2 \in DOMAIN stk
      /\ tail \in Seq(OpenType) /\ Len(stk) = Len(tail) + 1 /\ tail # <<>>
      /\ \A k \in DOMAIN tail : k \in Nat /\ k + 1 \in DOMAIN stk /\ stk[k + 1] = tail[k]
  <2>1. stk \in Seq(OpenType)
    BY DEF Nested
  <2>2. Len(stk) \in Nat /\ DOMAIN stk = 1 .. Len(stk)
    BY <2>1
  <2>3. stk # <<>> /\ 1 \in DOMAIN stk /\ 2 \in DOMAIN stk
    BY <2>2
  <2>4. /\ tail \in Seq(OpenType) /\ Len(tail) = Len(stk) - 1
        /\ \A k \in DOMAIN tail : k \in Nat /\ k + 1 \in DOMAIN stk /\ tail[k] = stk[k + 1]
    BY <2>1, <2>3, TailIs
  <2> HIDE DEF tail
  <2>5. tail # <<>>
    BY <2>2, <2>4
  <2> QED BY <2>1, <2>2, <2>3, <2>4, <2>5
<1> HIDE DEF tail
<1>2. /\ rest \in Seq(OpenType) /\ Len(tail) = Len(rest) + 1 /\ 1 \in DOMAIN tail
      /\ \A k \in DOMAIN rest : k \in Nat /\ k + 1 \in DOMAIN tail /\ tail[k + 1] = rest[k]
  <2>1. /\ rest \in Seq(OpenType) /\ Len(tail) \in Nat /\ Len(rest) = Len(tail) - 1 /\ 1 \in DOMAIN tail
        /\ \A k \in DOMAIN rest : k \in Nat /\ k + 1 \in DOMAIN tail /\ rest[k] = tail[k + 1]
    BY <1>1, TailIs
  <2> QED BY <2>1
<1> HIDE DEF rest
<1>3. tail[1] = stk[2]
  BY <1>1, <1>2
<1>4. /\ T.env \in Seq(EntryType) /\ T.label \in Seq(EntryType)
      /\ a \in 0 .. Len(T.env) /\ b \in 0 .. Len(T.env) /\ l \in 0 .. Len(T.label) /\ b <= a
      /\ a \in Nat /\ b \in Nat /\ l \in Nat
  <2>1. /\ T.env \in Seq(EntryType) /\ T.label \in Seq(EntryType)
        /\ Len(T.env) \in Nat /\ Len(T.label) \in Nat
    BY Lengths
  <2>2. a \in 0 .. Len(T.env) /\ b \in 0 .. Len(T.env) /\ l \in 0 .. Len(T.label)
    BY <1>1, TopRange
  <2>3. b <= a
    BY <1>1 DEF Nested
  <2> QED BY <2>1, <2>2, <2>3
<1>5. stk[1].what # "function" /\ tail[1].what = "function" /\ tail[1].label_top = l /\ tail[1].top = b
  BY <1>3
<1>6. \A i \in DOMAIN T.label, j \in DOMAIN T.env :
        Name(T.label[i]) = Name(T.env[j]) /\ j <= a => i <= l
  <2>1. \A i \in DOMAIN T.label, j \in DOMAIN T.env :
          Name(T.label[i]) = Name(T.env[j]) =>
            \A k \in DOMAIN stk : k > 1 /\ stk[k].what = "function" /\ j <= stk[k - 1].top
                                    => i <= stk[k].label_top
    BY DEF Disciplined, Apart
  <2>2. 2 > 1 /\ 2 - 1 = 1
    OBVIOUS
  <2> QED BY <1>1, <2>1, <2>2
<1> HIDE DEF a, b, l
<1>7. /\ Good(A) /\ A.entity = T.entity /\ A.next = T.next /\ A.scope = T.scope
      /\ A.env = SubSeq(T.env, 1, a) /\ A.label = T.label
      /\ Len(A.env) = a /\ DOMAIN A.env = 1 .. a
      /\ \A i \in 1 .. a : i \in DOMAIN T.env /\ A.env[i] = T.env[i]
      /\ \A n \in AllNames : Mean(A, n) = Undone(Mean(T, n), T.env, a, n)
      /\ Disciplined(A, stk)
  BY <1>4, EnvPopped
<1> HIDE DEF A, B, C
\* No name with a label to be put back is in the environment.
<1>8. \A i \in l + 1 .. Len(A.label), j \in DOMAIN A.env : Name(A.label[i]) # Name(A.env[j])
  <2> SUFFICES ASSUME NEW i \in l + 1 .. Len(A.label), NEW j \in DOMAIN A.env,
                      Name(A.label[i]) = Name(A.env[j])
               PROVE  FALSE
    OBVIOUS
  <2>1. j \in DOMAIN T.env /\ A.env[j] = T.env[j] /\ j <= a
    BY <1>4, <1>7
  <2>2. i \in DOMAIN T.label /\ ~(i <= l)
    <3>1. PICK m : m = Len(T.label)
      OBVIOUS
    <3>2. m \in Nat /\ DOMAIN T.label = 1 .. m /\ i \in l + 1 .. m
      BY <1>4, <1>7, <3>1
    <3> QED BY ONLY <1>4, <3>2
  <2> QED BY <1>6, <1>7, <2>1, <2>2
<1>9. /\ Good(B) /\ B.entity = A.entity /\ B.next = A.next /\ B.scope = A.scope
      /\ B.label = SubSeq(A.label, 1, l) /\ B.env = A.env /\ Len(B.label) = l
      /\ \A n \in AllNames : Mean(B, n) = Undone(Mean(A, n), A.label, l, n)
      /\ Disciplined(B, stk)
  <2>1. /\ l \in 0 .. Len(A.label) /\ Good(A) /\ Disciplined(A, stk)
        /\ B = stack_pop_to(A, "label", l)
    BY <1>4, <1>7 DEF B
  <2> QED BY ONLY <1>8, <2>1, LabelPopped
<1>10. /\ Good(C) /\ C.entity = B.entity /\ C.next = B.next /\ C.scope = B.scope
       /\ C.env = SubSeq(B.env, 1, b) /\ C.label = B.label /\ Len(C.env) = b
       /\ \A n \in AllNames : Mean(C, n) = Undone(Mean(B, n), B.env, b, n)
       /\ Disciplined(C, stk)
  <2>1. /\ b \in 0 .. Len(B.env) /\ Good(B) /\ Disciplined(B, stk)
        /\ C = stack_pop_to(B, "env", b)
    BY <1>4, <1>7, <1>9 DEF C
  <2> QED BY ONLY <2>1, EnvPopped
<1>11. /\ C.entity = T.entity /\ C.next = T.next /\ C.scope = T.scope
       /\ C.env = SubSeq(A.env, 1, b) /\ C.label = SubSeq(T.label, 1, l) /\ Len(C.label) = l
  BY <1>7, <1>9, <1>10
<1>12. Disciplined(C, rest)
  <2>1. Disciplined(C, tail)
    BY <1>1, <1>10, ApartTail DEF tail
  <2> QED BY <1>1, <2>1, ApartTail DEF rest
<1>13. Nested(C, rest)
  <2>1. Nested(A, tail)
    <3>1. /\ stk # <<>> /\ stk[1].top <= Len(A.env) /\ stk[1].label_top <= Len(A.label)
          /\ DOMAIN T.scope \subseteq DOMAIN A.scope /\ DOMAIN T.entity \subseteq DOMAIN A.entity
      <4>1. stk[1].top = Len(A.env) /\ Len(A.env) \in Nat
        BY <1>4, <1>7 DEF a
      <4>2. stk[1].label_top <= Len(T.label)
        BY <1>1 DEF Nested
      <4>3. stk[1].top <= Len(A.env)
        BY <4>1
      <4>4. stk[1].label_top <= Len(A.label)
        BY <1>7, <4>2
      <4> QED BY <1>1, <1>7, <4>3, <4>4
    <3> QED BY <1>7, <3>1, NestedClosed DEF tail
  <2>2. /\ tail # <<>> /\ tail[1].top <= Len(C.env) /\ tail[1].label_top <= Len(C.label)
        /\ DOMAIN A.scope \subseteq DOMAIN C.scope /\ DOMAIN A.entity \subseteq DOMAIN C.entity
    <3>1. tail # <<>>
      BY ONLY <1>1
    <3>2. b \in Nat /\ l \in Nat
      BY ONLY <1>4
    <3>3. b <= b /\ l <= l
      BY ONLY <3>2
    <3>4. tail[1].top = b /\ Len(C.env) = b
      BY ONLY <1>5, <1>10
    <3>5. tail[1].label_top = l /\ Len(C.label) = l
      BY ONLY <1>5, <1>11
    <3>6. A.scope = C.scope /\ A.entity = C.entity
      BY ONLY <1>7, <1>11
    <3> QED BY ONLY <3>1, <3>3, <3>4, <3>5, <3>6
  <2> QED BY <1>7, <1>10, <2>1, <2>2, NestedClosed DEF rest
\* What is left after the names above c have been put back, in either order.
<1>15. ASSUME NEW n \in AllNames, NEW c \in 0 .. b
       PROVE  Undone(Mean(C, n), C.env, c, n)
                = Undone(Undone(Mean(T, n), T.env, c, n), T.label, l, n)
  <2> DEFINE x == Mean(T, n)
  <2>1. c \in Nat /\ c \in 0 .. a /\ b \in 0 .. Len(A.env) /\ A.env \in Seq(EntryType)
    BY <1>4, <1>7, Lengths
  <2>2. Undone(Mean(C, n), C.env, c, n) = Undone(Mean(B, n), A.env, c, n)
    BY <1>9, <1>10, <1>11, <2>1, UndoneTwice
  <2>3. Mean(B, n) = Undone(Undone(x, T.env, a, n), T.label, l, n)
    BY <1>7, <1>9
  <2>4. Undone(Undone(x, T.env, a, n), A.env, c, n) = Undone(x, T.env, c, n)
    BY <1>4, <1>7, <2>1, UndoneTwice
  <2>5. CASE Absent(T.label, l, n)
    <3>1. \A e : Undone(e, T.label, l, n) = e
      BY <1>4, <2>5, UndoneIs
    <3> QED BY <2>2, <2>3, <2>4, <3>1
  <2>6. CASE ~Absent(T.label, l, n)
    <3>1. PICK i : Oldest(T.label, l, n, i)
      BY <1>4, <2>6, UndoneCases
    <3>2. \A e : Undone(e, T.label, l, n) = T.label[i].old_entity
      BY <1>4, <3>1, UndoneIs
    <3>3. Absent(A.env, c, n)
      <4> SUFFICES ASSUME NEW j \in c + 1 .. Len(A.env), Name(A.env[j]) = n PROVE FALSE
        BY DEF Absent
      <4>1. PICK i0 \in l + 1 .. Len(T.label) : Name(T.label[i0]) = n
        BY <2>6 DEF Absent
      <4>2. j \in DOMAIN A.env
        BY ONLY <1>7, <2>1, j \in c + 1 .. Len(A.env)
      <4>3. Name(A.label[i0]) # Name(A.env[j]) /\ A.label = T.label
        BY <1>7, <1>8, <4>1, <4>2
      <4> QED BY <4>1, <4>3
    <3>4. Undone(Mean(B, n), A.env, c, n) = Mean(B, n)
      BY <2>1, <3>3, UndoneIs
    <3> QED BY <2>2, <2>3, <3>2, <3>4
  <2> QED BY <2>5, <2>6
<1>16. \A k \in DOMAIN rest : LabelTopOf(T, stk, k + 2) = LabelTopOf(C, rest, k)
  <2>1. \A k \in DOMAIN tail : LabelTopOf(T, stk, k + 1) = LabelTopOf(T, tail, k)
    <3>1. \/ stk[1].what # "function" /\ Len(T.label) = Len(T.label)
          \/ stk[1].what = "function" /\ stk[1].label_top = Len(T.label)
      BY <1>5
    <3>2. /\ stk \in Seq(OpenType) /\ tail \in Seq(OpenType) /\ Len(stk) = Len(tail) + 1
          /\ \A j \in DOMAIN tail : stk[j + 1] = tail[j]
      BY <1>1
    <3>3. Within(T, stk, T, tail)
      BY ONLY <3>1, <3>2 DEF Within
    <3> QED BY ONLY <3>3, LabelTopShift
  <2>2. \A k \in DOMAIN rest : LabelTopOf(T, tail, k + 1) = LabelTopOf(C, rest, k)
    <3>1. \/ tail[1].what # "function" /\ Len(T.label) = Len(C.label)
          \/ tail[1].what = "function" /\ tail[1].label_top = Len(C.label)
      BY <1>5, <1>11
    <3>2. /\ tail \in Seq(OpenType) /\ rest \in Seq(OpenType) /\ Len(tail) = Len(rest) + 1
          /\ \A j \in DOMAIN rest : tail[j + 1] = rest[j]
      BY <1>1, <1>2
    <3>3. Within(T, tail, C, rest)
      BY ONLY <3>1, <3>2 DEF Within
    <3> QED BY ONLY <3>3, LabelTopShift
  <2> SUFFICES ASSUME NEW k \in DOMAIN rest
               PROVE  LabelTopOf(T, stk, k + 2) = LabelTopOf(C, rest, k)
    OBVIOUS
  <2>3. k \in Nat /\ k + 1 \in DOMAIN tail
    BY <1>2
  <2>4. LabelTopOf(T, stk, (k + 1) + 1) = LabelTopOf(C, rest, k)
    BY <2>1, <2>2, <2>3
  <2>5. (k + 1) + 1 = k + 2
    BY <2>3
  <2> QED BY <2>4, <2>5
<1>17. ASSUME NEW n \in AllNames PROVE Mean(C, n) = Later(T, stk, 2, n)
  <2>1. LabelTopOf(T, stk, 2) = l
    <3>1. \A k \in DOMAIN tail : LabelTopOf(T, stk, k + 1) = LabelTopOf(T, tail, k)
      <4>1. \/ stk[1].what # "function" /\ Len(T.label) = Len(T.label)
            \/ stk[1].what = "function" /\ stk[1].label_top = Len(T.label)
        BY <1>5
      <4>2. /\ stk \in Seq(OpenType) /\ tail \in Seq(OpenType) /\ Len(stk) = Len(tail) + 1
            /\ \A j \in DOMAIN tail : stk[j + 1] = tail[j]
        BY <1>1
      <4>3. Within(T, stk, T, tail)
        BY ONLY <4>1, <4>2 DEF Within
      <4> QED BY ONLY <4>3, LabelTopShift
    <3>2. LabelTopOf(T, stk, 1 + 1) = LabelTopOf(T, tail, 1)
      BY <1>2, <3>1
    <3>3. 1 + 1 = 2
      OBVIOUS
    <3>4. LabelTopOf(T, tail, 1) = tail[1].label_top
      BY <1>5, LabelTopFirst
    <3> QED BY <1>5, <3>2, <3>3, <3>4
  <2>2. Undone(Mean(C, n), C.env, b, n) = Mean(C, n)
    <3>1. Len(C.env) \in Nat
      BY <1>4, <1>10
    <3>2. Undone(Mean(C, n), C.env, Len(C.env), n) = Mean(C, n)
      BY <3>1, UndoneEmpty
    <3> QED BY <1>10, <3>2
  <2>3. b \in 0 .. b
    BY <1>4
  <2> QED BY <1>15, <2>1, <2>2, <2>3 DEF Later, b
<1>18. ASSUME NEW k \in DOMAIN rest, NEW n \in AllNames
       PROVE  Later(C, rest, k, n) = Later(T, stk, k + 2, n)
  <2>1. k \in Nat /\ k + 2 \in DOMAIN stk /\ stk[k + 2] = rest[k]
    <3>1. k \in Nat /\ k + 1 \in DOMAIN tail /\ tail[k + 1] = rest[k]
      BY <1>2
    <3>2. (k + 1) + 1 \in DOMAIN stk /\ stk[(k + 1) + 1] = tail[k + 1]
      BY <1>1, <3>1
    <3>3. (k + 1) + 1 = k + 2
      BY <3>1
    <3> QED BY <3>1, <3>2, <3>3
  <2>2. PICK c : c = rest[k].top
    OBVIOUS
  <2>3. PICK d : d = LabelTopOf(C, rest, k)
    OBVIOUS
  <2>4. c \in 0 .. b /\ d \in 0 .. l
    <3>1. rest[k].top \in 0 .. Len(C.env) /\ LabelTopOf(C, rest, k) \in 0 .. Len(C.label)
      BY <1>10, <1>13, TopRange
    <3> QED BY <1>10, <1>11, <2>2, <2>3, <3>1
  <2>5. PICK y : y = Undone(Mean(T, n), T.env, c, n)
    OBVIOUS
  <2>6. Undone(Mean(C, n), C.env, c, n) = Undone(y, T.label, l, n)
    BY <1>15, <2>4, <2>5
  <2>7. Undone(Undone(y, T.label, l, n), C.label, d, n) = Undone(y, T.label, d, n)
    BY <1>4, <1>11, <2>4, UndoneTwice
  <2>8. LabelTopOf(T, stk, k + 2) = d
    BY <1>16, <2>3
  <2> QED BY <2>1, <2>2, <2>3, <2>5, <2>6, <2>7, <2>8 DEF Later
<1> QED BY <1>10, <1>11, <1>12, <1>13, <1>17, <1>18 DEF A, B, C, a, b, l, rest, tail

-----------------------------------------------------------------------------
(***************************************************************************)
(* The start of a construct.                                               *)
(***************************************************************************)
LEMMA Opened ==
  ASSUME NEW T, Good(T), NEW stk, Nested(T, stk), Disciplined(T, stk), NEW c \in OpenType,
         c.top = Len(T.env), c.label_top = Len(T.label), c.old_scope \in DOMAIN T.scope,
         c.old_function \in {Null} \cup DOMAIN T.entity,
         stk # <<>> /\ stk[1].what = "function" => stk[1].label_top = Len(T.label)
  PROVE  LET new == << c >> \o stk
         IN /\ Nested(T, new) /\ Disciplined(T, new)
            /\ \A n \in AllNames : Later(T, new, 1, n) = Mean(T, n)
            /\ \A k \in DOMAIN stk, n \in AllNames : Later(T, new, k + 1, n) = Later(T, stk, k, n)
<1> DEFINE new == << c >> \o stk
<1>1. /\ T.env \in Seq(EntryType) /\ T.label \in Seq(EntryType)
      /\ Len(T.env) \in Nat /\ Len(T.label) \in Nat /\ stk \in Seq(OpenType)
  BY Lengths DEF Nested
<1>2. /\ new \in Seq(OpenType) /\ Len(new) = Len(stk) + 1 /\ DOMAIN new = 1 .. Len(stk) + 1
      /\ new[1] = c /\ \A k \in 1 .. Len(stk) + 1 : k # 1 => k - 1 \in DOMAIN stk /\ new[k] = stk[k - 1]
  BY <1>1, Prepended
<1>3. Nested(T, new)
  <2>1. Larger(T, T)
    BY GrownSelf DEF Grown
  <2>2. Len(T.env) <= c.top /\ c.top <= Len(T.env) /\ Len(T.label) <= c.label_top /\ c.label_top <= Len(T.label)
    BY <1>1
  <2> QED BY <2>1, <2>2, NestedOpened
<1> HIDE DEF new
<1>4. \A k \in DOMAIN stk : k \in Nat /\ new[k + 1] = stk[k] /\ k + 1 \in DOMAIN new
  <2> SUFFICES ASSUME NEW k \in DOMAIN stk
               PROVE  k \in Nat /\ new[k + 1] = stk[k] /\ k + 1 \in DOMAIN new
    OBVIOUS
  <2>1. DOMAIN stk = 1 .. Len(stk) /\ Len(stk) \in Nat
    BY <1>1
  <2>2. k \in Nat /\ k + 1 \in 1 .. Len(stk) + 1 /\ k + 1 # 1 /\ (k + 1) - 1 = k
    BY <2>1
  <2> QED BY <1>2, <2>2
<1>5. Apart(T, new)
  <2>1. Apart(T, stk)
    BY DEF Disciplined
  <2> SUFFICES ASSUME NEW i \in DOMAIN T.label, NEW j \in DOMAIN T.env,
                      Name(T.label[i]) = Name(T.env[j])
               PROVE  /\ T.env[j].old_entity # Null
                      /\ \A k \in DOMAIN new :
                           k > 1 /\ new[k].what = "function" /\ j <= new[k - 1].top
                             => i <= new[k].label_top
    BY DEF Apart
  <2>2. /\ T.env[j].old_entity # Null
        /\ \A k \in DOMAIN stk : k > 1 /\ stk[k].what = "function" /\ j <= stk[k - 1].top
                                   => i <= stk[k].label_top
    BY <2>1 DEF Apart
  <2>3. ASSUME NEW k \in DOMAIN new, k > 1, new[k].what = "function", j <= new[k - 1].top
        PROVE  i <= new[k].label_top
    <3>1. DOMAIN new = 1 .. Len(stk) + 1 /\ Len(stk) \in Nat /\ DOMAIN stk = 1 .. Len(stk)
      BY <1>1, <1>2
    <3>2. k # 1 /\ k - 1 \in DOMAIN stk /\ new[k] = stk[k - 1] /\ k \in Nat
      BY <1>2, <2>3, <3>1
    <3>3. CASE k = 2
      <4>1. stk[1].what = "function" /\ stk # <<>> /\ new[k] = stk[1]
        <5>1. k - 1 = 1
          BY <3>3
        <5> QED BY <2>3, <3>1, <3>2, <5>1
      <4>2. i <= Len(T.label)
        BY <1>1
      <4> QED BY <4>1, <4>2
    <3>4. CASE k # 2
      <4>1. k - 1 \in 1 .. Len(stk) + 1 /\ k - 1 # 1 /\ k - 1 > 1
        BY <2>3, <3>1, <3>2, <3>4
      <4>2. new[k - 1] = stk[(k - 1) - 1]
        BY <1>2, <4>1
      <4> QED BY <2>2, <2>3, <3>2, <4>1, <4>2
    <3> QED BY <3>3, <3>4
  <2> QED BY <2>2, <2>3
<1>6. ASSUME NEW n \in AllNames PROVE Later(T, new, 1, n) = Mean(T, n)
  <2>1. LabelTopOf(T, new, 1) = Len(T.label)
    BY <1>2, LabelTopFirst
  <2>2. /\ Undone(Mean(T, n), T.env, Len(T.env), n) = Mean(T, n)
        /\ Undone(Mean(T, n), T.label, Len(T.label), n) = Mean(T, n)
    BY <1>1, UndoneEmpty
  <2> QED BY <1>2, <2>1, <2>2 DEF Later
<1>7. ASSUME NEW k \in DOMAIN stk, NEW n \in AllNames
      PROVE  Later(T, new, k + 1, n) = Later(T, stk, k, n)
  <2>1. \/ new[1].what # "function" /\ Len(T.label) = Len(T.label)
        \/ new[1].what = "function" /\ new[1].label_top = Len(T.label)
    BY <1>2
  <2>2. /\ new \in Seq(OpenType) /\ stk \in Seq(OpenType) /\ Len(new) = Len(stk) + 1
        /\ \A j \in DOMAIN stk : new[j + 1] = stk[j]
    BY <1>1, <1>2, <1>4
  <2>3. Within(T, new, T, stk)
    BY ONLY <2>1, <2>2 DEF Within
  <2>4. \A j \in DOMAIN stk : LabelTopOf(T, new, j + 1) = LabelTopOf(T, stk, j)
    BY ONLY <2>3, LabelTopShift
  <2> QED BY <1>4, <2>4 DEF Later
<1>8. Disciplined(T, new)
  BY <1>5 DEF Disciplined
<1> QED BY <1>3, <1>6, <1>7, <1>8 DEF new

-----------------------------------------------------------------------------
(***************************************************************************)
(* What LexicalScoping sees of a table and of the constructs that are open. *)
(***************************************************************************)
Vis(T) == [n \in AllNames |-> Mean(T, n)]

Window(env, c) == [env |-> env, function |-> c.what = "function"]
Prefixed(r, e, q) == r = << e >> \o q

Out(T, stk) ==
  [k \in DOMAIN stk |-> Window([n \in AllNames |-> Later(T, stk, k, n)], stk[k])]

LEMMA Mapped ==
  /\ visible = Vis(table) /\ outer = Out(table, open)
  /\ visible' = Vis(table') /\ outer' = Out(table', open')
<1>1. visible = Vis(table) /\ visible' = Vis(table')
  BY DEF visible, Vis, AllNames, Mean
<1>2. outer = Out(table, open)
  BY DEF outer, Out, After, AllNames, Mean, Later, LabelTop, LabelTopOf, FunctionsUpTo, Window
<1>3. outer' = Out(table', open')
  BY DEF outer, Out, After, AllNames, Mean, Later, LabelTop, LabelTopOf, FunctionsUpTo, Window
<1> QED BY <1>1, <1>2, <1>3

LEMMA FunctionIsSeq ==
  ASSUME NEW S, NEW n \in Nat, NEW f, f \in [1 .. n -> S]
  PROVE  f \in Seq(S) /\ Len(f) = n
OBVIOUS

\* The windows into the later meanings form a sequence.
LEMMA OutIs ==
  ASSUME NEW T, NEW stk \in Seq(OpenType)
  PROVE  /\ DOMAIN Out(T, stk) = 1 .. Len(stk) /\ Len(stk) \in Nat
         /\ Cardinality(DOMAIN Out(T, stk)) = Len(stk)
         /\ \A S : (\A k \in DOMAIN stk : Out(T, stk)[k] \in S)
                     => Out(T, stk) \in Seq(S) /\ Len(Out(T, stk)) = Len(stk)
<1>1. DOMAIN Out(T, stk) = 1 .. Len(stk) /\ Len(stk) \in Nat
  BY DEF Out
<1>2. Cardinality(DOMAIN Out(T, stk)) = Len(stk)
  BY <1>1, IntervalSize
<1>3. ASSUME NEW S, \A k \in DOMAIN stk : Out(T, stk)[k] \in S
      PROVE  Out(T, stk) \in Seq(S) /\ Len(Out(T, stk)) = Len(stk)
  <2>1. Out(T, stk) \in [1 .. Len(stk) -> S]
    BY <1>1, <1>3 DEF Out
  <2> QED BY <1>1, <2>1, FunctionIsSeq
<1> QED BY <1>1, <1>2, <1>3

LEMMA OutSame ==
  ASSUME NEW T, NEW U, NEW stk, SameLater(T, U, stk)
  PROVE  Out(U, stk) = Out(T, stk)
<1>1. \A k \in DOMAIN stk :
        [n \in AllNames |-> Later(U, stk, k, n)] = [n \in AllNames |-> Later(T, stk, k, n)]
  BY DEF SameLater
<1> QED BY <1>1 DEF Out

\* A construct more than before.
LEMMA OutOpened ==
  ASSUME NEW T, NEW U, NEW stk \in Seq(OpenType), NEW c \in OpenType, NEW W,
         NEW new, new = << c >> \o stk,
         \A n \in AllNames : Later(U, new, 1, n) = Mean(W, n),
         \A k \in DOMAIN stk, n \in AllNames : Later(U, new, k + 1, n) = Later(T, stk, k, n)
  PROVE  Prefixed(Out(U, new), Window(Vis(W), c), Out(T, stk))
<1> PICK e : e = Window(Vis(W), c)
  OBVIOUS
<1> DEFINE q == Out(T, stk)
           S == { q[k] : k \in DOMAIN stk } \cup {e}
           r == << e >> \o q
<1>1. /\ new \in Seq(OpenType) /\ Len(new) = Len(stk) + 1 /\ DOMAIN new = 1 .. Len(stk) + 1
      /\ new[1] = c /\ \A k \in 1 .. Len(stk) + 1 : k # 1 => k - 1 \in DOMAIN stk /\ new[k] = stk[k - 1]
  BY Prepended
<1>2. /\ q \in Seq(S) /\ Len(q) = Len(stk) /\ Len(stk) \in Nat /\ DOMAIN stk = 1 .. Len(stk)
  <2>1. \A k \in DOMAIN stk : q[k] \in S
    OBVIOUS
  <2> HIDE DEF S
  <2> QED BY <2>1, OutIs
<1>3. e \in S
  OBVIOUS
<1> HIDE DEF S, q
<1>4. /\ r \in Seq(S) /\ Len(r) = Len(stk) + 1 /\ DOMAIN r = 1 .. Len(stk) + 1
      /\ r[1] = e /\ \A k \in 1 .. Len(stk) + 1 : k # 1 => r[k] = q[k - 1]
  <2>1. /\ r \in Seq(S) /\ Len(r) = Len(q) + 1 /\ DOMAIN r = 1 .. Len(q) + 1
        /\ r[1] = e /\ \A k \in 1 .. Len(q) + 1 : k # 1 => r[k] = q[k - 1]
    BY <1>2, <1>3, Prepended
  <2> QED BY <1>2, <2>1
<1> HIDE DEF r
<1>5. DOMAIN Out(U, new) = 1 .. Len(stk) + 1
  BY <1>1 DEF Out
<1>6. ASSUME NEW k \in 1 .. Len(stk) + 1 PROVE Out(U, new)[k] = r[k]
  <2>1. Out(U, new)[k] = Window([n \in AllNames |-> Later(U, new, k, n)], new[k])
    BY <1>1 DEF Out
  <2>2. CASE k = 1
    <3>1. [n \in AllNames |-> Later(U, new, 1, n)] = Vis(W)
      BY DEF Vis
    <3> QED BY <1>1, <1>4, <2>1, <2>2, <3>1
  <2>3. CASE k # 1
    <3>1. PICK j : j = k - 1
      OBVIOUS
    <3>2. j \in DOMAIN stk /\ k = j + 1 /\ new[k] = stk[j] /\ r[k] = q[j]
      <4>1. j \in DOMAIN stk /\ new[k] = stk[j] /\ r[k] = q[j]
        BY <1>1, <1>4, <2>3, <3>1
      <4>2. k = j + 1
        BY <1>2, <3>1
      <4> QED BY <4>1, <4>2
    <3>3. \A n \in AllNames : Later(U, new, j + 1, n) = Later(T, stk, j, n)
      BY <3>2
    <3>4. q[j] = Window([n \in AllNames |-> Later(T, stk, j, n)], stk[j])
      BY <3>2 DEF q, Out
    <3>5. [n \in AllNames |-> Later(U, new, k, n)] = [n \in AllNames |-> Later(T, stk, j, n)]
      BY <3>2, <3>3
    <3> QED BY <2>1, <3>2, <3>4, <3>5
  <2> QED BY <2>2, <2>3
<1>7. Out(U, new) = r
  <2>1. Out(U, new) = [k \in 1 .. Len(stk) + 1 |-> Out(U, new)[k]]
    BY <1>5 DEF Out
  <2>2. r = [k \in 1 .. Len(stk) + 1 |-> r[k]]
    BY <1>4
  <2> QED BY <1>6, <2>1, <2>2
<1> QED BY <1>7 DEF r, q, Prefixed

LEMMA HeadTail ==
  ASSUME NEW S, NEW e \in S, NEW q \in Seq(S)
  PROVE  Head(<< e >> \o q) = e /\ Tail(<< e >> \o q) = q
<1> DEFINE r == << e >> \o q
<1>1. /\ r \in Seq(S) /\ Len(r) = Len(q) + 1 /\ Len(q) \in Nat /\ r[1] = e
      /\ \A k \in 1 .. Len(q) + 1 : k # 1 => r[k] = q[k - 1]
  BY Prepended
<1> HIDE DEF r
<1>2. r # <<>>
  BY <1>1
<1>3. /\ Tail(r) \in Seq(S) /\ Len(Tail(r)) = Len(q) /\ Head(r) = e
      /\ \A k \in DOMAIN Tail(r) : k \in Nat /\ Tail(r)[k] = r[k + 1]
  <2>1. /\ Tail(r) \in Seq(S) /\ Len(Tail(r)) = Len(r) - 1 /\ Head(r) = r[1]
        /\ \A k \in DOMAIN Tail(r) : k \in Nat /\ Tail(r)[k] = r[k + 1]
    BY <1>1, <1>2, TailIs
  <2> QED BY <1>1, <2>1
<1>4. PICK t \in Seq(S) : t = Tail(r)
  BY <1>3
<1>5. \A k \in 1 .. Len(q) : t[k] = q[k]
  <2> SUFFICES ASSUME NEW k \in 1 .. Len(q) PROVE t[k] = q[k]
    OBVIOUS
  <2>1. k \in DOMAIN t
    BY <1>3, <1>4
  <2>2. t[k] = r[k + 1]
    BY <1>3, <1>4, <2>1
  <2>3. k + 1 \in 1 .. Len(q) + 1 /\ k + 1 # 1 /\ (k + 1) - 1 = k
    BY <1>1
  <2> QED BY <1>1, <2>2, <2>3
<1>6. t = q
  BY <1>3, <1>4, <1>5
<1> QED BY <1>3, <1>4, <1>6 DEF r

LEMMA Rebuilt ==
  ASSUME NEW S, NEW q \in Seq(S), q # <<>>
  PROVE  q = << q[1] >> \o Tail(q)
<1>1. /\ Tail(q) \in Seq(S) /\ Len(q) \in Nat /\ q[1] \in S /\ Len(Tail(q)) = Len(q) - 1
      /\ \A k \in DOMAIN Tail(q) : k \in Nat /\ Tail(q)[k] = q[k + 1]
      /\ DOMAIN Tail(q) = 1 .. Len(q) - 1 /\ Len(q) # 0
  BY TailIs
<1>2. PICK t \in Seq(S) : t = Tail(q)
  BY <1>1
<1> DEFINE r == << q[1] >> \o t
<1>3. /\ r \in Seq(S) /\ Len(r) = Len(t) + 1 /\ r[1] = q[1]
      /\ \A k \in 1 .. Len(t) + 1 : k # 1 => k - 1 \in DOMAIN t /\ r[k] = t[k - 1]
  BY <1>1, Prepended
<1> HIDE DEF r
<1>4. Len(t) + 1 = Len(q) /\ \A k \in DOMAIN t : t[k] = q[k + 1]
  BY <1>1, <1>2
<1>5. \A k \in 1 .. Len(q) : r[k] = q[k]
  <2> SUFFICES ASSUME NEW k \in 1 .. Len(q), k # 1 PROVE r[k] = q[k]
    BY <1>3
  <2>1. k - 1 \in DOMAIN t /\ r[k] = t[k - 1] /\ (k - 1) + 1 = k
    BY <1>3, <1>4
  <2> QED BY <1>4, <2>1
<1>6. r = q
  <2>1. r \in Seq(S) /\ q \in Seq(S) /\ Len(r) = Len(q)
    BY <1>3, <1>4
  <2> QED BY ONLY <1>5, <2>1
<1> QED BY <1>2, <1>6 DEF r

LEMMA VisDeclares ==
  ASSUME NEW T, NEW U, Good(U), NEW N, Changes(T, U, N), Len(U.entity) <= MaxEntities
  PROVE  \A n \in AllNames : Vis(U)[n] = Vis(T)[n] \/ (n \in N /\ Vis(U)[n] \in 1 .. MaxEntities)
<1>1. DOMAIN U.entity = 1 .. Len(U.entity) /\ Len(U.entity) \in Nat
  BY Lengths DEF Shape
<1>2. DOMAIN U.entity \subseteq 1 .. MaxEntities
  <2>1. MaxEntities \in Nat
    BY EntityScopesAssumption
  <2> QED BY <1>1, <2>1
<1> QED BY <1>2 DEF Changes, Vis

LEMMA SizeOfOuter ==
  ASSUME NEW S
  PROVE  Scoping!Cardinality(S) = Cardinality(S)
BY DEF Scoping!Cardinality, Cardinality

\* A declaration.
LEMMA DeclareStep ==
  ASSUME Good(table), Nested(table, open), Disciplined(table, open), NEW N, NEW m,
         Grown(table, table', N, m), UNCHANGED open, Len(table'.entity) <= MaxEntities,
         NEW D \in Scoping!Declarations, N \subseteq D
  PROVE  Scoping!Next
<1>1. Good(table') /\ Changes(table, table', N) /\ SameLater(table, table', open)
  BY DEF Grown, Larger
<1>2. outer' = outer
  <2>1. Out(table', open) = Out(table, open)
    BY <1>1, OutSame
  <2> QED BY <2>1, Mapped
<1>3. \A n \in AllNames : visible'[n] = visible[n] \/ (n \in D /\ visible'[n] \in 1 .. MaxEntities)
  BY <1>1, VisDeclares, Mapped
<1>4. Scoping!Opened = 0
  <2>1. open \in Seq(OpenType)
    BY DEF Nested
  <2>2. Cardinality(DOMAIN outer) \in Nat
    BY <2>1, OutIs, Mapped
  <2> QED BY <1>2, <2>2, SizeOfOuter DEF Scoping!Opened
<1>5. Scoping!Declares(visible', visible, D)
  BY <1>3 DEF Scoping!Declares, Scoping!Names, Scoping!NameSpaces, AllNames, NameSpaces
<1> QED BY <1>2, <1>4, <1>5 DEF Scoping!Next, Scoping!Declare

\* The number of scopes of LexicalScoping.
LEMMA OpenedIs ==
  ASSUME open \in Seq(OpenType), open' \in Seq(OpenType)
  PROVE  Scoping!Opened = Len(open') - Len(open)
<1>1. Cardinality(DOMAIN outer) = Len(open) /\ Cardinality(DOMAIN outer') = Len(open')
  BY OutIs, Mapped
<1> QED BY <1>1, SizeOfOuter DEF Scoping!Opened

LEMMA NotFunction ==
  ASSUME NEW env, NEW c, c.what # "function"
  PROVE  Window(env, c) = [env |-> env, function |-> FALSE]
<1>1. (c.what = "function") = FALSE
  OBVIOUS
<1> QED BY <1>1 DEF Window

LEMMA IsFunction ==
  ASSUME NEW env, NEW c, c.what = "function"
  PROVE  Window(env, c) = [env |-> env, function |-> TRUE]
<1>1. (c.what = "function") = TRUE
  OBVIOUS
<1> QED BY <1>1 DEF Window

\* A construct is opened over T; then U grows, which may declare names in it.
LEMMA OpenedGrown ==
  ASSUME NEW T, Good(T), NEW stk, Nested(T, stk), Disciplined(T, stk), NEW c \in OpenType,
         c.top = Len(T.env), c.label_top = Len(T.label), c.old_scope \in DOMAIN T.scope,
         c.old_function \in {Null} \cup DOMAIN T.entity,
         stk # <<>> /\ stk[1].what = "function" => stk[1].label_top = Len(T.label),
         NEW U, NEW N, NEW m, Grown(T, U, N, m)
  PROVE  /\ Nested(U, << c >> \o stk) /\ Disciplined(U, << c >> \o stk)
         /\ Prefixed(Out(U, << c >> \o stk), Window(Vis(T), c), Out(T, stk))
<1> DEFINE new == << c >> \o stk
<1>1. stk \in Seq(OpenType)
  BY DEF Nested
<1>2. /\ Nested(T, new) /\ Disciplined(T, new)
      /\ \A n \in AllNames : Later(T, new, 1, n) = Mean(T, n)
      /\ \A k \in DOMAIN stk, n \in AllNames : Later(T, new, k + 1, n) = Later(T, stk, k, n)
  BY Opened
<1>3. Disciplined(U, new) /\ SameLater(T, U, new) /\ Larger(T, U)
  <2> HIDE DEF new
  <2> QED BY <1>2 DEF Grown
<1>4. Nested(U, new)
  <2> HIDE DEF new
  <2> QED BY <1>2, <1>3, NestedLarger
<1>5. /\ DOMAIN new = 1 .. Len(stk) + 1 /\ Len(stk) \in Nat /\ DOMAIN stk = 1 .. Len(stk)
  BY <1>1, Prepended
<1>6. \A k \in DOMAIN new, n \in AllNames : Later(U, new, k, n) = Later(T, new, k, n)
  <2> HIDE DEF new
  <2> QED BY <1>3 DEF SameLater
<1>7. \A n \in AllNames : Later(U, new, 1, n) = Mean(T, n)
  <2>1. 1 \in DOMAIN new
    BY <1>5
  <2> HIDE DEF new
  <2> QED BY <1>2, <1>6, <2>1
<1>8. \A k \in DOMAIN stk, n \in AllNames : Later(U, new, k + 1, n) = Later(T, stk, k, n)
  <2>1. \A k \in DOMAIN stk : k + 1 \in DOMAIN new
    BY <1>5
  <2> HIDE DEF new
  <2> QED BY <1>2, <1>6, <2>1
<1>9. Prefixed(Out(U, new), Window(Vis(T), c), Out(T, stk))
  <2>1. PICK v : v = << c >> \o stk
    OBVIOUS
  <2>2. /\ \A n \in AllNames : Later(U, v, 1, n) = Mean(T, n)
        /\ \A k \in DOMAIN stk, n \in AllNames : Later(U, v, k + 1, n) = Later(T, stk, k, n)
    BY <1>7, <1>8, <2>1
  <2>3. Prefixed(Out(U, v), Window(Vis(T), c), Out(T, stk))
    BY ONLY <1>1, <2>1, <2>2, c \in OpenType, OutOpened
  <2> QED BY <2>1, <2>3
<1> QED BY <1>3, <1>4, <1>9

\* A block or the head of an old-style definition is opened.
LEMMA OpenStep ==
  ASSUME Good(table), Nested(table, open), Disciplined(table, open), NEW c \in OpenType,
         c.what # "function",
         c.top = Len(table.env), c.label_top = Len(table.label),
         c.old_scope \in DOMAIN table.scope, c.old_function \in {Null} \cup DOMAIN table.entity,
         open # <<>> => open[1].what # "function",
         NEW N, N \subseteq PlainNames, NEW m, Grown(table, table', N, m),
         Len(table'.entity) <= MaxEntities, open' = << c >> \o open
  PROVE  Scoping!Next /\ Disciplined(table', open')
<1>1. /\ Nested(table', << c >> \o open) /\ Disciplined(table', << c >> \o open)
      /\ Prefixed(Out(table', << c >> \o open), Window(Vis(table), c), Out(table, open))
  BY OpenedGrown
<1>2. outer' = << [env |-> visible, function |-> FALSE] >> \o outer
  BY <1>1, Mapped, NotFunction DEF Prefixed
<1>3. Good(table') /\ Changes(table, table', N)
  BY DEF Grown, Larger
<1>4. \A n \in AllNames : visible'[n] = visible[n] \/ (n \in PlainNames /\ visible'[n] \in 1 .. MaxEntities)
  BY <1>3, VisDeclares, Mapped
<1>5. Scoping!Declares(visible', visible, Scoping!Parameters)
  BY <1>4 DEF Scoping!Declares, Scoping!Names, Scoping!NameSpaces, Scoping!Parameters,
              AllNames, NameSpaces, PlainNames
<1>6. Scoping!Opened = 1
  <2>1. open \in Seq(OpenType)
    BY DEF Nested
  <2>2. open' \in Seq(OpenType) /\ Len(open') = Len(open) + 1 /\ Len(open) \in Nat
    BY <2>1, Prepended
  <2>3. Scoping!Opened = Len(open') - Len(open)
    BY <2>1, <2>2, OpenedIs
  <2> QED BY <2>2, <2>3
<1>7. Scoping!Open
  BY <1>2, <1>5, <1>6 DEF Scoping!Open, Scoping!Enter
<1> QED BY <1>1, <1>7 DEF Scoping!Next

\* A namespace is opened, over the table E in which it has been declared.
LEMMA OpenNamedStep ==
  ASSUME Good(table), Nested(table, open), Disciplined(table, open), NEW c \in OpenType,
         c.what # "function", NEW s \in Symbols,
         NEW E, NEW a, NEW b, Grown(table, E, { << s, "normal" >> }, a), Grown(E, table', {}, b),
         c.top = Len(E.env), c.label_top = Len(E.label), c.old_scope \in DOMAIN E.scope,
         c.old_function \in {Null} \cup DOMAIN E.entity,
         open # <<>> => open[1].what # "function",
         Len(table'.entity) <= MaxEntities, open' = << c >> \o open
  PROVE  Scoping!Next /\ Disciplined(table', open')
<1>1. /\ Good(E) /\ Disciplined(E, open) /\ SameLater(table, E, open)
      /\ Larger(table, E) /\ Larger(E, table') /\ Good(table') /\ Nested(E, open)
  <2>1. /\ Good(E) /\ Disciplined(E, open) /\ SameLater(table, E, open)
        /\ Larger(table, E) /\ Larger(E, table') /\ Good(table')
    BY DEF Grown, Larger
  <2> QED BY <2>1, NestedLarger
<1>2. /\ Nested(table', << c >> \o open) /\ Disciplined(table', << c >> \o open)
      /\ Prefixed(Out(table', << c >> \o open), Window(Vis(E), c), Out(E, open))
  BY <1>1, OpenedGrown
<1>3. Out(E, open) = Out(table, open)
  BY <1>1, OutSame
<1>4. \A n \in AllNames : Mean(table', n) = Mean(E, n)
  BY DEF Grown, Changes
<1>5. Vis(E) = Vis(table')
  BY <1>4 DEF Vis
<1>6. outer' = << [env |-> visible', function |-> FALSE] >> \o outer
  BY <1>2, <1>3, <1>5, Mapped, NotFunction DEF Prefixed
<1>7. Changes(table, table', { << s, "normal" >> })
  <2>1. Changes(table, E, { << s, "normal" >> }) /\ DOMAIN E.entity \subseteq DOMAIN table'.entity
    BY <1>1 DEF Grown, Larger
  <2> QED BY <1>4, <2>1 DEF Changes
<1>8. Scoping!Declares(visible', visible, { << s, "normal" >> })
  <2>1. \A n \in AllNames : visible'[n] = visible[n]
                            \/ (n \in { << s, "normal" >> } /\ visible'[n] \in 1 .. MaxEntities)
    BY <1>1, <1>7, VisDeclares, Mapped
  <2> QED BY <2>1 DEF Scoping!Declares, Scoping!Names, Scoping!NameSpaces, AllNames, NameSpaces
<1>9. Scoping!Opened = 1
  <2>1. open \in Seq(OpenType)
    BY DEF Nested
  <2>2. open' \in Seq(OpenType) /\ Len(open') = Len(open) + 1 /\ Len(open) \in Nat
    BY <2>1, Prepended
  <2>3. Scoping!Opened = Len(open') - Len(open)
    BY <2>1, <2>2, OpenedIs
  <2> QED BY <2>2, <2>3
<1>10. Scoping!OpenNamed
  BY <1>6, <1>8, <1>9 DEF Scoping!OpenNamed, Scoping!Enter
<1> QED BY <1>2, <1>10 DEF Scoping!Next

-----------------------------------------------------------------------------
(***************************************************************************)
(* The end of a construct, as LexicalScoping sees it.                      *)
(***************************************************************************)
\* The windows of the constructs that stay open.
LEMMA OutTail ==
  ASSUME NEW T, NEW U, NEW stk \in Seq(OpenType), stk # <<>>,
         \A n \in AllNames : Mean(U, n) = Later(T, stk, 1, n),
         \A k \in DOMAIN Tail(stk), n \in AllNames :
           Later(U, Tail(stk), k, n) = Later(T, stk, k + 1, n)
  PROVE  Vis(U) = Head(Out(T, stk)).env /\ Out(U, Tail(stk)) = Tail(Out(T, stk))
<1> DEFINE q == Out(T, stk)
           S == { q[k] : k \in DOMAIN stk }
<1>1. /\ Tail(stk) \in Seq(OpenType) /\ Len(stk) \in Nat /\ Len(stk) # 0 /\ DOMAIN stk = 1 .. Len(stk)
      /\ DOMAIN Tail(stk) = 1 .. Len(stk) - 1
      /\ \A k \in DOMAIN Tail(stk) : /\ k \in Nat /\ k + 1 \in DOMAIN stk
                                     /\ Tail(stk)[k] = stk[k + 1]
  BY TailIs
<1>2. q \in Seq(S) /\ Len(q) = Len(stk)
  <2>1. \A k \in DOMAIN stk : q[k] \in S
    OBVIOUS
  <2> HIDE DEF S
  <2> QED BY <2>1, OutIs
<1> HIDE DEF S, q
<1>3. /\ Head(q) = q[1] /\ DOMAIN Tail(q) = 1 .. Len(stk) - 1 /\ Tail(q) \in Seq(S)
      /\ \A k \in DOMAIN Tail(q) : Tail(q)[k] = q[k + 1]
  <2>1. q # <<>>
    BY <1>1, <1>2
  <2>2. /\ Head(q) = q[1] /\ DOMAIN Tail(q) = 1 .. Len(q) - 1 /\ Tail(q) \in Seq(S)
        /\ \A k \in DOMAIN Tail(q) : Tail(q)[k] = q[k + 1]
    BY <1>2, <2>1, TailIs
  <2> QED BY <1>2, <2>2
<1>4. \A k \in DOMAIN stk : q[k] = Window([n \in AllNames |-> Later(T, stk, k, n)], stk[k])
  BY DEF q, Out
<1>5. Vis(U) = q[1].env
  <2>1. 1 \in DOMAIN stk
    BY <1>1
  <2>2. q[1] = Window([n \in AllNames |-> Later(T, stk, 1, n)], stk[1])
    BY <1>4, <2>1
  <2>3. q[1].env = [n \in AllNames |-> Later(T, stk, 1, n)]
    BY <2>2 DEF Window
  <2> QED BY <2>3 DEF Vis
<1>6. Out(U, Tail(stk)) = Tail(q)
  <2> DEFINE V == Out(U, Tail(stk))
  <2>1. V = [k \in 1 .. Len(stk) - 1
               |-> Window([n \in AllNames |-> Later(U, Tail(stk), k, n)], Tail(stk)[k])]
    BY <1>1 DEF Out
  <2>2. ASSUME NEW k \in 1 .. Len(stk) - 1
        PROVE  Window([n \in AllNames |-> Later(U, Tail(stk), k, n)], Tail(stk)[k]) = Tail(q)[k]
    <3>1. k \in DOMAIN Tail(stk) /\ k + 1 \in DOMAIN stk /\ Tail(stk)[k] = stk[k + 1]
          /\ Tail(q)[k] = q[k + 1]
      BY <1>1, <1>3
    <3>2. PICK j : j = k + 1
      OBVIOUS
    <3>3. \A n \in AllNames : Later(U, Tail(stk), k, n) = Later(T, stk, j, n)
      BY <3>1, <3>2
    <3>4. q[j] = Window([n \in AllNames |-> Later(T, stk, j, n)], stk[j])
      BY <1>4, <3>1, <3>2
    <3>5. [n \in AllNames |-> Later(U, Tail(stk), k, n)] = [n \in AllNames |-> Later(T, stk, j, n)]
      BY <3>3
    <3> QED BY <3>1, <3>2, <3>4, <3>5
  <2>3. Tail(q) = [k \in 1 .. Len(stk) - 1 |-> Tail(q)[k]]
    <3>1. PICK w \in Seq(S) : w = Tail(q)
      BY <1>3
    <3>2. w = [k \in DOMAIN w |-> w[k]]
      OBVIOUS
    <3> QED BY <1>3, <3>1, <3>2
  <2> QED BY <2>1, <2>2, <2>3
<1> QED BY <1>3, <1>5, <1>6 DEF q

\* A construct is closed, and what its window shows is visible again.
LEMMA CloseStep ==
  ASSUME open \in Seq(OpenType), open # <<>>, open' = Tail(open),
         \A n \in AllNames : Mean(table', n) = Later(table, open, 1, n),
         \A k \in DOMAIN Tail(open), n \in AllNames :
           Later(table', Tail(open), k, n) = Later(table, open, k + 1, n)
  PROVE  Scoping!Next
<1>1. visible' = Head(outer).env /\ outer' = Tail(outer)
  <2>1. Vis(table') = Head(Out(table, open)).env /\ Out(table', Tail(open)) = Tail(Out(table, open))
    BY OutTail
  <2> QED BY <2>1, Mapped
<1>2. Scoping!Opened = -1
  <2>1. Tail(open) \in Seq(OpenType) /\ Len(Tail(open)) = Len(open) - 1 /\ Len(open) \in Nat
    BY TailIs
  <2>2. Scoping!Opened = Len(open') - Len(open)
    BY <2>1, OpenedIs
  <2> QED BY <2>1, <2>2
<1> QED BY <1>1, <1>2 DEF Scoping!Next, Scoping!Close

\* A sequence without its first two elements.
LEMMA TwoOff ==
  ASSUME NEW S, NEW q \in Seq(S), Len(q) >= 2
  PROVE  /\ Tail(Tail(q)) \in Seq(S) /\ Len(q) \in Nat /\ DOMAIN q = 1 .. Len(q)
         /\ Len(Tail(Tail(q))) = Len(q) - 2 /\ DOMAIN Tail(Tail(q)) = 1 .. Len(q) - 2
         /\ \A k \in DOMAIN Tail(Tail(q)) : /\ k \in Nat /\ k + 2 \in DOMAIN q
                                             /\ Tail(Tail(q))[k] = q[k + 2]
<1>1. PICK r \in Seq(S) : r = Tail(q)
  <2>1. q # <<>>
    OBVIOUS
  <2>2. Tail(q) \in Seq(S)
    BY <2>1, TailIs
  <2> QED BY <2>2
<1>2. /\ Len(q) \in Nat /\ DOMAIN q = 1 .. Len(q) /\ Len(r) = Len(q) - 1 /\ q # <<>>
      /\ \A k \in DOMAIN r : k \in Nat /\ k + 1 \in DOMAIN q /\ r[k] = q[k + 1]
      /\ DOMAIN r = 1 .. Len(q) - 1
  <2>1. q # <<>>
    OBVIOUS
  <2> QED BY <1>1, <2>1, TailIs
<1>3. r # <<>>
  BY <1>2
<1>4. /\ Tail(r) \in Seq(S) /\ Len(Tail(r)) = Len(r) - 1 /\ DOMAIN Tail(r) = 1 .. Len(r) - 1
      /\ \A k \in DOMAIN Tail(r) : k \in Nat /\ k + 1 \in DOMAIN r /\ Tail(r)[k] = r[k + 1]
  BY <1>3, TailIs
<1>5. Len(Tail(r)) = Len(q) - 2 /\ DOMAIN Tail(r) = 1 .. Len(q) - 2
  <2>1. Len(r) - 1 = Len(q) - 2
    BY <1>2
  <2> QED BY <1>4, <2>1
<1>6. ASSUME NEW k \in DOMAIN Tail(r)
      PROVE  k \in Nat /\ k + 2 \in DOMAIN q /\ Tail(r)[k] = q[k + 2]
  <2>1. PICK j : j = k + 1
    OBVIOUS
  <2>2. k \in Nat /\ j \in DOMAIN r /\ Tail(r)[k] = r[j]
    BY <1>4, <2>1
  <2>3. j + 1 \in DOMAIN q /\ r[j] = q[j + 1] /\ j + 1 = k + 2
    BY <1>2, <2>1, <2>2
  <2> QED BY <2>2, <2>3
<1> QED BY <1>1, <1>2, <1>4, <1>5, <1>6

\* The body and the function are closed.
LEMMA ReturnStep ==
  ASSUME open \in Seq(OpenType), Len(open) >= 2, open[2].what = "function",
         open' = Tail(Tail(open)),
         \A n \in AllNames : Mean(table', n) = Later(table, open, 2, n),
         \A k \in DOMAIN Tail(Tail(open)), n \in AllNames :
           Later(table', Tail(Tail(open)), k, n) = Later(table, open, k + 2, n)
  PROVE  Scoping!Next
<1> DEFINE q == Out(table, open)
           S == { q[k] : k \in DOMAIN open }
           tail == Tail(Tail(open))
<1>1. /\ tail \in Seq(OpenType) /\ Len(open) \in Nat /\ DOMAIN open = 1 .. Len(open)
      /\ Len(tail) = Len(open) - 2 /\ DOMAIN tail = 1 .. Len(open) - 2
      /\ \A k \in DOMAIN tail : k \in Nat /\ k + 2 \in DOMAIN open /\ tail[k] = open[k + 2]
  BY TwoOff
<1>2. q \in Seq(S) /\ Len(q) = Len(open)
  <2>1. \A k \in DOMAIN open : q[k] \in S
    OBVIOUS
  <2> HIDE DEF S
  <2> QED BY <2>1, OutIs
<1> HIDE DEF S, q
<1>3. /\ DOMAIN Tail(Tail(q)) = 1 .. Len(open) - 2
      /\ Tail(Tail(q)) \in Seq(S)
      /\ \A k \in DOMAIN Tail(Tail(q)) : Tail(Tail(q))[k] = q[k + 2]
  <2>1. Len(q) >= 2
    BY <1>2
  <2>2. /\ DOMAIN Tail(Tail(q)) = 1 .. Len(q) - 2 /\ Tail(Tail(q)) \in Seq(S)
        /\ \A k \in DOMAIN Tail(Tail(q)) : Tail(Tail(q))[k] = q[k + 2]
    BY <1>2, <2>1, TwoOff
  <2> QED BY <1>2, <2>2
<1>4. \A k \in DOMAIN open : q[k] = Window([n \in AllNames |-> Later(table, open, k, n)], open[k])
  BY DEF q, Out
<1>5. 2 \in DOMAIN open
  BY <1>1
<1>6. q[2].function /\ Vis(table') = q[2].env
  <2>1. q[2] = Window([n \in AllNames |-> Later(table, open, 2, n)], open[2])
    BY <1>4, <1>5
  <2>2. q[2].env = [n \in AllNames |-> Later(table, open, 2, n)]
    BY <2>1 DEF Window
  <2>3. q[2].function = (open[2].what = "function")
    BY <2>1 DEF Window
  <2>4. q[2].function = TRUE
    BY <2>3
  <2> QED BY <2>2, <2>4 DEF Vis
<1> HIDE DEF tail
<1>7. Out(table', tail) = Tail(Tail(q))
  <2>1. Out(table', tail) = [k \in 1 .. Len(open) - 2
               |-> Window([n \in AllNames |-> Later(table', tail, k, n)], tail[k])]
    BY <1>1 DEF Out
  <2>2. ASSUME NEW k \in 1 .. Len(open) - 2
        PROVE  Window([n \in AllNames |-> Later(table', tail, k, n)], tail[k]) = Tail(Tail(q))[k]
    <3>1. k \in DOMAIN tail /\ k + 2 \in DOMAIN open /\ tail[k] = open[k + 2]
          /\ Tail(Tail(q))[k] = q[k + 2]
      BY <1>1, <1>3
    <3>2. PICK j : j = k + 2
      OBVIOUS
    <3>3. \A n \in AllNames : Later(table', tail, k, n) = Later(table, open, j, n)
      BY <3>1, <3>2 DEF tail
    <3>4. q[j] = Window([n \in AllNames |-> Later(table, open, j, n)], open[j])
      BY <1>4, <3>1, <3>2
    <3>5. [n \in AllNames |-> Later(table', tail, k, n)] = [n \in AllNames |-> Later(table, open, j, n)]
      BY <3>3
    <3> QED BY <3>1, <3>2, <3>4, <3>5
  <2>3. Tail(Tail(q)) = [k \in 1 .. Len(open) - 2 |-> Tail(Tail(q))[k]]
    <3>1. PICK w \in Seq(S) : w = Tail(Tail(q))
      BY <1>3
    <3>2. w = [k \in DOMAIN w |-> w[k]]
      OBVIOUS
    <3> QED BY <1>3, <3>1, <3>2
  <2> QED BY <2>1, <2>2, <2>3
<1>8. outer = q /\ visible' = q[2].env /\ outer' = Tail(Tail(q))
  BY <1>6, <1>7, Mapped DEF q, tail
<1>9. Scoping!Opened = -2
  <2>1. open' \in Seq(OpenType) /\ Len(open') = Len(open) - 2
    BY <1>1 DEF tail
  <2>2. Scoping!Opened = Len(open') - Len(open)
    BY <2>1, OpenedIs
  <2> QED BY <1>1, <2>1, <2>2
<1> QED BY <1>6, <1>8, <1>9 DEF Scoping!Next, Scoping!CloseFunction

-----------------------------------------------------------------------------
(***************************************************************************)
(* The start of the body of a function, as LexicalScoping sees it.         *)
(***************************************************************************)
Twofold(o, x, y, q) == o = << x >> \o << y >> \o q

LEMMA TwoWindows ==
  ASSUME NEW S, NEW x \in S, NEW y \in S, NEW q \in Seq(S), NEW p, NEW o,
         Prefixed(p, y, q), Prefixed(o, x, p)
  PROVE  o[2] = y /\ Twofold(o, x, y, q)
<1>1. p = << y >> \o q /\ o = << x >> \o p
  BY DEF Prefixed
<1>2. /\ p \in Seq(S) /\ Len(p) = Len(q) + 1 /\ Len(q) \in Nat /\ p[1] = y
      /\ \A k \in 1 .. Len(q) + 1 : k # 1 => k - 1 \in DOMAIN q /\ p[k] = q[k - 1]
  BY <1>1, Prepended
<1>3. /\ o \in Seq(S) /\ Len(o) = Len(p) + 1 /\ o[1] = x
      /\ \A k \in 1 .. Len(p) + 1 : k # 1 => k - 1 \in DOMAIN p /\ o[k] = p[k - 1]
  BY <1>1, <1>2, Prepended
<1>4. o[2] = y
  <2>1. 2 \in 1 .. Len(p) + 1 /\ 2 - 1 = 1
    BY <1>2
  <2> QED BY <1>2, <1>3, <2>1
<1>5. << x >> \o << y >> = << x, y >>
  <2>1. << y >> \in Seq(S) /\ Len(<< y >>) = 1 /\ << y >>[1] = y
    OBVIOUS
  <2>2. PICK z \in Seq(S) : z = << y >>
    BY <2>1
  <2>3. PICK w : w = << x >> \o z
    OBVIOUS
  <2>4. /\ w \in Seq(S) /\ Len(w) = Len(z) + 1 /\ w[1] = x
        /\ \A k \in 1 .. Len(z) + 1 : k # 1 => k - 1 \in DOMAIN z /\ w[k] = z[k - 1]
    BY <2>2, <2>3, Prepended
  <2>5. Len(z) = 1 /\ z[1] = y
    BY <2>1, <2>2
  <2>6. w \in Seq(S) /\ Len(w) = 2 /\ w[1] = x /\ w[2] = y
    <3>1. 2 \in 1 .. Len(z) + 1 /\ 2 - 1 = 1
      BY <2>5
    <3> QED BY <2>4, <2>5, <3>1
  <2>7. w = << x, y >>
    BY ONLY <2>6
  <2> QED BY <2>2, <2>3, <2>7
<1>6. << x, y >> \o q = << x >> \o (<< y >> \o q)
  BY PrependTwo
<1> QED BY <1>1, <1>4, <1>5, <1>6 DEF Twofold

LEMMA BodyStep ==
  ASSUME NEW T, Good(T), NEW rest, Nested(T, rest), Disciplined(T, rest),
         rest # <<>> => rest[1].what # "function",
         NEW R, NEW s \in Symbols, NEW m, Grown(T, R, { << s, "normal" >> }, m),
         Grown(R, table', PlainNames, 0), Len(table'.label) = Len(R.label),
         NEW b \in OpenType, NEW c \in OpenType, b.what # "function", c.what = "function",
         c.top = Len(R.env), c.label_top = Len(R.label),
         c.old_scope \in DOMAIN R.scope, c.old_function \in {Null} \cup DOMAIN R.entity,
         b.top = Len(table'.env), b.label_top = Len(table'.label),
         b.old_scope \in DOMAIN table'.scope, b.old_function \in {Null} \cup DOMAIN table'.entity,
         open' = << b, c >> \o rest, Len(table'.entity) <= MaxEntities
  PROVE  /\ Disciplined(table', open') /\ Scoping!Define(Vis(T), Out(T, rest))
         /\ open' \in Seq(OpenType) /\ Len(open') = Len(rest) + 2 /\ Len(rest) \in Nat
<1>1. /\ Good(R) /\ Disciplined(R, rest) /\ SameLater(T, R, rest) /\ Larger(T, R)
      /\ Changes(T, R, { << s, "normal" >> })
  BY DEF Grown, Larger
<1>2. Nested(R, rest) /\ rest \in Seq(OpenType)
  <2>1. Nested(R, rest)
    BY <1>1, NestedLarger
  <2> QED BY <2>1 DEF Nested
<1>3. PICK B, o : B = table' /\ o = open'
  OBVIOUS
<1>4. /\ Good(B) /\ Larger(R, B) /\ Changes(R, B, PlainNames)
  BY <1>3 DEF Grown, Larger
<1>5. PICK mid : mid = << c >> \o rest
  OBVIOUS
<1>6. /\ Nested(B, mid) /\ Disciplined(B, mid)
      /\ Prefixed(Out(B, mid), Window(Vis(R), c), Out(R, rest))
  <2>1. rest # <<>> /\ rest[1].what = "function" => rest[1].label_top = Len(R.label)
    OBVIOUS
  <2>2. /\ Nested(B, << c >> \o rest) /\ Disciplined(B, << c >> \o rest)
        /\ Prefixed(Out(B, << c >> \o rest), Window(Vis(R), c), Out(R, rest))
    BY <1>1, <1>2, <1>3, <2>1, OpenedGrown
  <2> QED BY <1>5, <2>2
<1>7. /\ mid \in Seq(OpenType) /\ Len(mid) = Len(rest) + 1 /\ Len(rest) \in Nat /\ mid[1] = c
  BY <1>2, <1>5, Prepended
<1>8. mid[1].label_top = Len(B.label)
  BY <1>3, <1>7
<1>9. o = << b >> \o mid
  <2>1. << b, c >> \o rest = << b >> \o (<< c >> \o rest)
    <3>1. rest \in Seq(OpenType) /\ b \in OpenType /\ c \in OpenType
      BY <1>2
    <3> QED BY ONLY <3>1, PrependTwo
  <2> QED BY <1>3, <1>5, <2>1
<1>10. /\ Nested(B, << b >> \o mid) /\ Disciplined(B, << b >> \o mid)
       /\ Prefixed(Out(B, << b >> \o mid), Window(Vis(B), b), Out(B, mid))
  <2>1. Grown(B, B, {}, 0)
    BY <1>4, GrownSelf
  <2>2. /\ b.top = Len(B.env) /\ b.label_top = Len(B.label) /\ b.old_scope \in DOMAIN B.scope
        /\ b.old_function \in {Null} \cup DOMAIN B.entity
    BY <1>3
  <2> QED BY <1>4, <1>6, <1>8, <2>1, <2>2, OpenedGrown
<1>11. Out(R, rest) = Out(T, rest)
  BY <1>1, OutSame
<1>12. /\ Window(Vis(R), c) = [env |-> Vis(R), function |-> TRUE]
       /\ Window(Vis(B), b) = [env |-> Vis(B), function |-> FALSE]
  BY IsFunction, NotFunction
<1>13. /\ Prefixed(Out(B, mid), [env |-> Vis(R), function |-> TRUE], Out(T, rest))
       /\ Prefixed(Out(B, o), [env |-> Vis(B), function |-> FALSE], Out(B, mid))
  BY <1>6, <1>9, <1>10, <1>11, <1>12
<1>14. /\ Out(B, o)[2] = [env |-> Vis(R), function |-> TRUE]
       /\ Twofold(Out(B, o), [env |-> Vis(B), function |-> FALSE], [env |-> Vis(R), function |-> TRUE],
                  Out(T, rest))
  <2> DEFINE q == Out(T, rest)
             x == [env |-> Vis(B), function |-> FALSE]
             y == [env |-> Vis(R), function |-> TRUE]
             S == { q[k] : k \in DOMAIN rest } \cup {x, y}
  <2>1. x \in S /\ y \in S /\ \A k \in DOMAIN rest : q[k] \in S
    OBVIOUS
  <2> HIDE DEF S, x, y
  <2>2. q \in Seq(S)
    BY <1>2, <2>1, OutIs
  <2>3. Prefixed(Out(B, mid), y, q) /\ Prefixed(Out(B, o), x, Out(B, mid))
    BY <1>13 DEF x, y
  <2> HIDE DEF q
  <2>4. Out(B, o)[2] = y /\ Twofold(Out(B, o), x, y, q)
    BY <2>1, <2>2, <2>3, TwoWindows
  <2> QED BY <2>4 DEF x, y, q
<1>15. outer' = Out(B, o) /\ visible' = Vis(B)
  BY <1>3, Mapped
<1>16. outer'[2].env = Vis(R)
  BY <1>14, <1>15
<1>17. Len(B.entity) <= MaxEntities /\ Len(R.entity) <= MaxEntities
  <2>1. Len(B.entity) <= MaxEntities /\ Len(R.entity) \in Nat /\ Len(B.entity) \in Nat
        /\ DOMAIN R.entity = 1 .. Len(R.entity) /\ DOMAIN B.entity = 1 .. Len(B.entity)
        /\ MaxEntities \in Nat
    BY <1>1, <1>3, <1>4, Lengths, EntityScopesAssumption
  <2>2. DOMAIN R.entity \subseteq DOMAIN B.entity
    BY <1>4 DEF Larger
  <2>3. PICK i \in Nat, j \in Nat : i = Len(R.entity) /\ j = Len(B.entity)
    BY <2>1
  <2>4. \A k \in 1 .. i : k \in 1 .. j
    BY <2>1, <2>2, <2>3
  <2>5. i <= j
    BY ONLY i \in Nat, j \in Nat, <2>4
  <2> QED BY <2>1, <2>3, <2>5
<1>18. Scoping!Declares(Vis(R), Vis(T), { << s, "normal" >> })
  <2>1. \A n \in AllNames : Vis(R)[n] = Vis(T)[n]
                            \/ (n \in { << s, "normal" >> } /\ Vis(R)[n] \in 1 .. MaxEntities)
    BY <1>1, <1>17, VisDeclares
  <2> QED BY <2>1 DEF Scoping!Declares, Scoping!Names, Scoping!NameSpaces, AllNames, NameSpaces
<1>19. Scoping!Declares(Vis(B), Vis(R), Scoping!Parameters)
  <2>1. \A n \in AllNames : Vis(B)[n] = Vis(R)[n]
                            \/ (n \in PlainNames /\ Vis(B)[n] \in 1 .. MaxEntities)
    BY <1>4, <1>17, VisDeclares
  <2> QED BY <2>1 DEF Scoping!Declares, Scoping!Names, Scoping!NameSpaces, Scoping!Parameters,
                      AllNames, NameSpaces, PlainNames
<1>20. Scoping!Define(Vis(T), Out(T, rest))
  <2>1. outer' = Scoping!Enter(visible', FALSE) \o Scoping!Enter(outer'[2].env, TRUE)
                   \o Out(T, rest)
    BY <1>14, <1>15, <1>16 DEF Twofold, Scoping!Enter
  <2>2. \E r \in Symbols : Scoping!Declares(outer'[2].env, Vis(T), { << r, "normal" >> })
    BY <1>16, <1>18
  <2>3. Scoping!Declares(visible', outer'[2].env, Scoping!Parameters)
    BY <1>15, <1>16, <1>19
  <2> QED BY <2>1, <2>2, <2>3 DEF Scoping!Define
<1>21. o \in Seq(OpenType) /\ Len(o) = Len(mid) + 1
  BY <1>7, <1>9, Prepended
<1>22. Disciplined(table', open')
  BY <1>3, <1>9, <1>10
<1>23. open' \in Seq(OpenType) /\ Len(open') = Len(rest) + 2 /\ Len(rest) \in Nat
  BY <1>3, <1>7, <1>21
<1> QED BY <1>20, <1>22, <1>23

\* What DefineFunction() leaves: a function that has a body already changes
\* nothing that a name means,
FunctionAgain(T, R, P, U, rest, stk, cf) ==
  /\ Grown(T, R, {}, 0) /\ Grown(R, P, PlainNames, 0)
  /\ U = stack_pop_to(P, "env", Len(R.env)) /\ stk = rest /\ cf = current_function

\* the body of another one is opened.
FunctionOpened(T, R, U, n, b, c, rest, stk, cf) ==
  /\ Grown(T, R, { n }, 0) /\ Grown(R, U, PlainNames, 0) /\ Len(U.label) = Len(R.label)
  /\ b \in OpenType /\ c \in OpenType /\ b.what = "block" /\ c.what = "function"
  /\ c.top = Len(R.env) /\ c.label_top = Len(R.label) /\ c.old_scope \in DOMAIN R.scope
  /\ b.top = Len(U.env) /\ b.label_top = Len(U.label) /\ b.old_scope \in DOMAIN U.scope
  /\ b.old_function = current_function /\ c.old_function = current_function
  /\ stk = << b, c >> \o rest

LEMMA DefinedAs ==
  ASSUME NEW T, Good(T), NEW nd \in DOMAIN T.entity, T.entity[nd].kind = "function",
         T.link[nd] = Null, NEW s \in DOMAIN T.scope, T.entity[nd].own # s,
         NEW L, ListPart(T, T.entity[nd].own, L), Ready(T, L, 0), Listing(T),
         ~T.entity[nd].complete,
         NEW rest, DefineFunction(T, nd, s, rest),
         current_function \in Nat, current_scope \in Nat
  PROVE  \E R : \/ \E P : FunctionAgain(T, R, P, table', rest, open', current_function')
                \/ \E b, c : FunctionOpened(T, R, table', NameOf(T, nd), b, c, rest, open',
                                            current_function')
<1> DEFINE f   == Recorded(T, s, nd)
           R   == record_entity(T, s, nd)
           own == R.entity[f].own
           C   == [R EXCEPT !.scope[own] = R.scope[R.entity[nd].own]]
           S   == scope_push(C, own, s)
           P   == PushParameters(S, f, R.entity[nd].own)
           body == Len(P.scope) + 1
           B   == scope_push([P EXCEPT !.scope = Append(@, NewScope)], body, own)
           b   == [Construct("block", body, B) EXCEPT !.old_scope = own]
           c   == [Construct("function", own, R) EXCEPT !.old_scope = s]
<1>1. IF R.entity[f].complete
      THEN /\ table' = stack_pop_to(P, "env", Len(R.env))
           /\ current_scope' = s /\ open' = rest /\ UNCHANGED current_function
      ELSE /\ table' = B /\ current_function' = f /\ current_scope' = body
           /\ open' = << b, c >> \o rest
  BY DEF DefineFunction
<1>2. /\ f \in DOMAIN T.entity /\ own \in DOMAIN T.scope /\ Recording(T, R)
      /\ Good(P) /\ SameTable(S, P) /\ S.label = R.label /\ DOMAIN P.scope = DOMAIN T.scope
      /\ Good(B) /\ Touched(P, B) /\ DOMAIN P.scope \subseteq DOMAIN B.scope
      /\ body \in DOMAIN B.scope
  <2>1. /\ f \in DOMAIN T.entity /\ own \in DOMAIN T.scope /\ Recording(T, R)
        /\ Good(S) /\ Good(P) /\ SameTable(S, P) /\ Len(P.env) = Len(R.env) + Len(L)
        /\ S.label = R.label /\ DOMAIN P.scope = DOMAIN T.scope
        /\ DOMAIN P.entity = DOMAIN T.entity
        /\ Good(B) /\ Touched(P, B) /\ DOMAIN P.scope \subseteq DOMAIN B.scope
        /\ Len(P.scope) + 1 \in DOMAIN B.scope
        /\ \E w : ParametersPushed(S, P, w, L, own, R.entity[nd].own)
    BY DefineIs
  <2> HIDE DEF f, R, own, C, S, P, B
  <2> QED BY <2>1
<1>3. /\ Grown(T, R, { NameOf(T, nd) }, 0)
      /\ Grown(R, P, PlainNames, 0) /\ Grown(R, B, PlainNames, 0)
      /\ R.entity[f].complete => Grown(T, R, {}, 0)
  <2>1. /\ Grown(T, R, { NameOf(T, nd) }, 0)
        /\ Grown(R, P, PlainNames, 0)
        /\ Grown(R, scope_push([P EXCEPT !.scope = Append(@, NewScope)], Len(P.scope) + 1, own),
                 PlainNames, 0)
        /\ ~T.entity[nd].complete /\ R.entity[f].complete
             => Grown(T, R, {}, 0) /\ R.env = T.env /\ R.label = T.label
    BY GrownDefined
  <2>2. Grown(R, B, PlainNames, 0)
    BY <2>1
  <2> HIDE DEF f, R, own, C, S, P, B
  <2> QED BY <2>1, <2>2
<1> HIDE DEF f, R, own, C, S, P, body, B
<1>4. CASE R.entity[f].complete
  <2>1. FunctionAgain(T, R, P, table', rest, open', current_function')
    BY <1>1, <1>3, <1>4 DEF FunctionAgain
  <2> QED BY <2>1
<1>5. CASE ~R.entity[f].complete
  <2>1. /\ table' = B /\ open' = << b, c >> \o rest
    BY <1>1, <1>5
  <2>2. Good(R) /\ R.label = T.label /\ DOMAIN R.scope = DOMAIN T.scope
    BY <1>2 DEF Recording
  <2>3. B.label = R.label
    BY <1>2 DEF Touched, SameTable
  <2>4. own \in Nat /\ s \in Nat /\ body \in Nat
    BY <1>2, Lengths
  <2>5. /\ b \in OpenType /\ b.what = "block" /\ b.old_scope = own /\ b.top = Len(B.env)
        /\ b.label_top = Len(B.label) /\ b.old_function = current_function
    <3> DEFINE d == Construct("block", body, B)
    <3>1. /\ d \in OpenType /\ d.what = "block" /\ d.top = Len(B.env)
          /\ d.label_top = Len(B.label) /\ d.old_function = current_function
      BY <1>2, <2>4, ConstructIs
    <3> HIDE DEF d
    <3> QED BY <2>4, <3>1, OpenedAs DEF d
  <2>6. /\ c \in OpenType /\ c.what = "function" /\ c.old_scope = s /\ c.top = Len(R.env)
        /\ c.label_top = Len(R.label) /\ c.old_function = current_function
    <3> DEFINE d == Construct("function", own, R)
    <3>1. /\ d \in OpenType /\ d.what = "function" /\ d.top = Len(R.env)
          /\ d.label_top = Len(R.label) /\ d.old_function = current_function
      BY <2>2, <2>4, ConstructIs
    <3> HIDE DEF d
    <3> QED BY <2>4, <3>1, OpenedAs DEF d
  <2> HIDE DEF b, c
  <2>7. own \in DOMAIN B.scope /\ s \in DOMAIN R.scope
    BY <1>2, <2>2
  <2>8. FunctionOpened(T, R, B, NameOf(T, nd), b, c, rest, open', current_function')
    BY <1>3, <2>1, <2>3, <2>5, <2>6, <2>7 DEF FunctionOpened
  <2> QED BY <2>1, <2>8
<1> QED BY <1>4, <1>5

\* Only the lists matter.
LEMMA ListingSame ==
  ASSUME NEW T, NEW U, U.entity = T.entity, U.next = T.next, U.scope = T.scope, Listing(T)
  PROVE  Listing(U)
BY DEF Listing, Listable, Space

\* Parameters that are pushed and taken back at once.
LEMMA PutBack ==
  ASSUME NEW R, Good(R), NEW rest, Nested(R, rest), Disciplined(R, rest), Listing(R),
         rest # <<>> => rest[1].what # "function", NEW P, NEW N, NEW m, Grown(R, P, N, m),
         NEW Q, Q = stack_pop_to(P, "env", Len(R.env))
  PROVE  /\ Good(Q) /\ Q.entity = P.entity /\ Listing(Q) /\ Disciplined(Q, rest)
         /\ \A n \in AllNames : Mean(Q, n) = Mean(R, n)
         /\ SameLater(R, Q, rest)
<1> DEFINE c == [what |-> "block", scope |-> 0, old_scope |-> File, top |-> Len(R.env),
                 label_top |-> Len(R.label), old_function |-> Null, declared |-> Null]
<1>1. Len(R.env) \in Nat /\ Len(R.label) \in Nat /\ File \in DOMAIN R.scope
  BY Lengths DEF Good, OwnsOK
<1>2. /\ c \in OpenType /\ c.what = "block" /\ c.top = Len(R.env) /\ c.label_top = Len(R.label)
      /\ c.old_scope \in DOMAIN R.scope /\ c.old_function \in {Null} \cup DOMAIN R.entity
  BY <1>1 DEF OpenType, File, Null
<1> HIDE DEF c
<1>3. rest \in Seq(OpenType)
  BY DEF Nested
<1>4. PICK new : new = << c >> \o rest
  OBVIOUS
<1>5. /\ Nested(R, new) /\ Disciplined(R, new)
      /\ \A n \in AllNames : Later(R, new, 1, n) = Mean(R, n)
      /\ \A k \in DOMAIN rest, n \in AllNames : Later(R, new, k + 1, n) = Later(R, rest, k, n)
  <2>1. rest # <<>> /\ rest[1].what = "function" => rest[1].label_top = Len(R.label)
    OBVIOUS
  <2>2. /\ Nested(R, << c >> \o rest) /\ Disciplined(R, << c >> \o rest)
        /\ \A n \in AllNames : Later(R, << c >> \o rest, 1, n) = Mean(R, n)
        /\ \A k \in DOMAIN rest, n \in AllNames :
             Later(R, << c >> \o rest, k + 1, n) = Later(R, rest, k, n)
    BY <1>2, <2>1, Opened
  <2> QED BY <1>4, <2>2
<1>6. /\ new # <<>> /\ new[1] = c /\ Tail(new) = rest
      /\ DOMAIN new = 1 .. Len(rest) + 1 /\ Len(rest) \in Nat /\ DOMAIN rest = 1 .. Len(rest)
  <2>1. /\ new \in Seq(OpenType) /\ Len(new) = Len(rest) + 1 /\ new[1] = c
        /\ DOMAIN new = 1 .. Len(rest) + 1 /\ Len(rest) \in Nat /\ DOMAIN rest = 1 .. Len(rest)
    BY <1>2, <1>3, <1>4, Prepended
  <2>2. Tail(<< c >> \o rest) = rest
    BY <1>2, <1>3, HeadTail
  <2>3. new # <<>>
    BY <2>1
  <2> QED BY <1>4, <2>1, <2>2, <2>3
<1>7. /\ Good(P) /\ Disciplined(P, new) /\ SameLater(R, P, new) /\ Larger(R, P) /\ Listing(P)
  BY <1>5 DEF Grown, Larger
<1>8. Nested(P, new)
  BY <1>5, <1>7, NestedLarger
<1>9. new[1].what # "function" /\ new[1].top = Len(R.env)
  BY <1>2, <1>6
<1>10. /\ Good(Q) /\ Q.entity = P.entity /\ Q.next = P.next /\ Q.scope = P.scope
       /\ Disciplined(Q, rest)
       /\ \A n \in AllNames : Mean(Q, n) = Later(P, new, 1, n)
       /\ \A k \in DOMAIN rest, n \in AllNames : Later(Q, rest, k, n) = Later(P, new, k + 1, n)
  <2> DEFINE V == stack_pop_to(P, "env", new[1].top)
  <2>1. /\ Good(V) /\ V.entity = P.entity /\ V.next = P.next /\ V.scope = P.scope
        /\ Disciplined(V, Tail(new))
        /\ \A n \in AllNames : Mean(V, n) = Later(P, new, 1, n)
        /\ \A k \in DOMAIN Tail(new), n \in AllNames :
             Later(V, Tail(new), k, n) = Later(P, new, k + 1, n)
    BY <1>6, <1>7, <1>8, <1>9, Closed
  <2>2. V = Q
    BY <1>9
  <2> HIDE DEF V
  <2> QED BY <1>6, <2>1, <2>2
<1>11. Listing(Q)
  BY <1>7, <1>10, ListingSame
<1>12. \A n \in AllNames : Mean(Q, n) = Mean(R, n)
  <2>1. 1 \in DOMAIN new
    BY <1>6
  <2> QED BY <1>5, <1>7, <1>10, <2>1 DEF SameLater
<1>13. SameLater(R, Q, rest)
  <2>1. \A k \in DOMAIN rest : k + 1 \in DOMAIN new
    BY <1>6
  <2>2. ASSUME NEW k \in DOMAIN rest, NEW n \in AllNames PROVE Later(Q, rest, k, n) = Later(R, rest, k, n)
    <3>1. PICK j \in DOMAIN new : j = k + 1
      BY <2>1
    <3>2. Later(Q, rest, k, n) = Later(P, new, j, n) /\ Later(R, new, j, n) = Later(R, rest, k, n)
      BY <1>5, <1>10, <3>1
    <3>3. Later(P, new, j, n) = Later(R, new, j, n)
      BY <1>7 DEF SameLater
    <3> QED BY <3>2, <3>3
  <2> QED BY <2>2 DEF SameLater
<1> QED BY <1>10, <1>11, <1>12, <1>13

-----------------------------------------------------------------------------
(***************************************************************************)
(* A label.                                                                *)
(***************************************************************************)
LabelPut(T, U, e) ==
  /\ e \in DOMAIN T.entity /\ Pushed(T, U, e) /\ Larger(T, U)
  /\ U.entity = T.entity /\ U.next = T.next /\ U.scope = T.scope
  /\ U.env = T.env /\ U.label = Append(T.label, Entry(T, e))

\* The new meaning is there up to the end of the function, the others as long
\* as before.
LEMMA LabelPushed ==
  ASSUME NEW T, Good(T), NEW U, NEW e, LabelPut(T, U, e), NEW n, n = NameOf(T, e),
         NEW stk, Nested(T, stk), Disciplined(T, stk),
         \A i \in DOMAIN T.env : Name(T.env[i]) # n
  PROVE  /\ Disciplined(U, stk)
         /\ \A x \in AllNames : Mean(U, x) = IF x = n THEN e ELSE Mean(T, x)
         /\ \A k \in DOMAIN stk, x \in AllNames :
              Later(U, stk, k, x) = IF FunctionsUpTo(stk, k) = {} /\ x = n THEN e
                                    ELSE Later(T, stk, k, x)
<1> DEFINE new == Entry(T, e)
<1>0. /\ e \in DOMAIN T.entity /\ Pushed(T, U, e) /\ Good(U) /\ U.entity = T.entity
      /\ U.env = T.env /\ U.label = Append(T.label, new)
  BY DEF LabelPut, Larger
<1>1. e # Null /\ Symbol(T, e) \in Symbols /\ Space(T, e) \in NameSpaces
  BY <1>0, EntityFacts, Lengths
<1>2. PICK q, m : q = T.label /\ m = Len(T.label)
  OBVIOUS
<1>3. q \in Seq(EntryType) /\ m \in Nat /\ DOMAIN q = 1 .. m /\ Len(q) = m
  BY <1>2, Lengths
<1>4. /\ new \in EntryType /\ Name(new) = n /\ new.old_entity = Mean(T, n) /\ n \in AllNames
  <2>1. Mean(T, n) \in Nat
    BY <1>1, MeaningType, Lengths DEF Mean, NameOf
  <2> QED BY <1>1, <2>1 DEF Entry, EntryType, Name, NameOf, Mean, AllNames
<1>5. \A x \in AllNames : Mean(U, x) = IF x = n THEN e ELSE Mean(T, x)
  <2>1. ASSUME NEW x \in AllNames
        PROVE  Mean(U, x) = IF x = n THEN e ELSE Mean(T, x)
    <3>1. x[1] \in Symbols /\ x[2] \in NameSpaces /\ x = << x[1], x[2] >>
      BY EntryNames
    <3>2. Mean(U, x) = IF x[1] = Symbol(T, e) /\ x[2] = Space(T, e) THEN e ELSE Mean(T, x)
      BY <1>0, <3>1 DEF Pushed, Mean
    <3>3. x = n <=> x[1] = Symbol(T, e) /\ x[2] = Space(T, e)
      BY <3>1 DEF NameOf
    <3> QED BY <3>2, <3>3
  <2> QED BY <2>1
<1> HIDE DEF new
<1>6. /\ U.label \in Seq(EntryType) /\ DOMAIN U.label = 1 .. m + 1 /\ U.label[m + 1] = new
      /\ Len(U.label) = m + 1
      /\ \A i \in 1 .. m : U.label[i] = q[i] /\ i # m + 1 /\ Name(q[i]) \in AllNames
      /\ \A i \in 1 .. m + 1 : i \in 1 .. m \/ i = m + 1
  <2>1. \A i \in DOMAIN q : Name(q[i]) \in AllNames
    BY <1>2, StackEntries
  <2>2. /\ U.label = Append(q, new) /\ new \in EntryType
    BY <1>0, <1>2, <1>4
  <2>3. /\ U.label \in Seq(EntryType) /\ DOMAIN U.label = 1 .. m + 1 /\ U.label[m + 1] = new
        /\ Len(U.label) = m + 1
        /\ \A i \in 1 .. m : U.label[i] = q[i] /\ i # m + 1
        /\ \A i \in 1 .. m + 1 : i \in 1 .. m \/ i = m + 1
    BY ONLY <1>3, <2>2
  <2> QED BY <1>3, <2>1, <2>3
<1>7. \A i \in DOMAIN T.env : Name(T.env[i]) \in AllNames /\ Name(T.env[i]) # n
  BY StackEntries
<1>8. \A x : IsLocal(T, x) <=> IsLocal(U, x)
  BY <1>0 DEF IsLocal
<1>9. Steady(T, T.env) /\ Steady(T, q) /\ Locals(T) /\ Apart(T, stk)
  BY <1>2 DEF Disciplined
<1>10. Steady(U, U.env)
  BY <1>0, <1>5, <1>7, <1>9 DEF Steady
<1>11. Steady(U, U.label)
  <2>1. ASSUME NEW i \in 1 .. m + 1 PROVE Mean(U, Name(U.label[i])) # Null
    <3>1. CASE i \in 1 .. m
      BY <3>1, <1>1, <1>3, <1>5, <1>6, <1>9 DEF Steady
    <3>2. CASE i = m + 1
      BY <3>2, <1>1, <1>4, <1>5, <1>6
    <3> QED BY <3>1, <3>2, <1>6
  <2>2. ASSUME NEW i \in 1 .. m + 1, NEW j \in 1 .. m + 1, i < j, Name(U.label[i]) = Name(U.label[j])
        PROVE  U.label[j].old_entity # Null
    <3>0. i \in 1 .. m
      BY <2>2, <1>3
    <3>1. CASE j \in 1 .. m
      BY <3>0, <3>1, <2>2, <1>3, <1>6, <1>9 DEF Steady
    <3>2. CASE j = m + 1
      <4>1. Name(q[i]) = n /\ U.label[j].old_entity = Mean(T, n)
        BY <3>0, <3>2, <2>2, <1>4, <1>6
      <4>2. Mean(T, Name(q[i])) # Null
        BY <3>0, <1>3, <1>9 DEF Steady
      <4> QED BY <4>1, <4>2
    <3> QED BY <3>1, <3>2, <1>6
  <2> QED BY <2>1, <2>2, <1>6 DEF Steady
<1>12. Locals(U)
  BY <1>0, <1>5, <1>7, <1>8, <1>9 DEF Locals
<1>13. Apart(U, stk)
  <2> SUFFICES ASSUME NEW i \in 1 .. m + 1, NEW j \in DOMAIN T.env,
                      Name(U.label[i]) = Name(T.env[j])
               PROVE  /\ T.env[j].old_entity # Null
                      /\ \A k \in DOMAIN stk :
                           k > 1 /\ stk[k].what = "function" /\ j <= stk[k - 1].top
                             => i <= stk[k].label_top
    BY <1>0, <1>6 DEF Apart
  <2>1. i \in 1 .. m
    BY <1>4, <1>6, <1>7
  <2>2. i \in DOMAIN T.label /\ Name(T.label[i]) = Name(T.env[j])
    BY <1>2, <1>3, <1>6, <2>1
  <2> QED BY <1>9, <2>2 DEF Apart
<1>14. ASSUME NEW k \in DOMAIN stk, NEW x \in AllNames
       PROVE  Later(U, stk, k, x) = IF FunctionsUpTo(stk, k) = {} /\ x = n THEN e
                                    ELSE Later(T, stk, k, x)
  <2>1. PICK p \in Nat : p = stk[k].top
    <3>1. stk \in Seq(OpenType)
      BY DEF Nested
    <3>2. stk[k] \in OpenType
      BY <3>1
    <3> QED BY <3>2 DEF OpenType
  <2>2. x = n => \A d : Undone(d, T.env, p, x) = d
    <3>1. ASSUME x = n, NEW d PROVE Undone(d, T.env, p, x) = d
      <4>1. Absent(T.env, p, x)
        <5>1. DOMAIN T.env = 1 .. Len(T.env) /\ Len(T.env) \in Nat
          BY Lengths
        <5>2. \A i \in p + 1 .. Len(T.env) : i \in 1 .. Len(T.env)
          BY <5>1
        <5> QED BY <1>7, <3>1, <5>1, <5>2 DEF Absent
      <4> QED BY <4>1, UndoneIs
    <3> QED BY <3>1
  <2>3. PICK v, w : /\ v = Undone(Mean(U, x), U.env, stk[k].top, x)
                    /\ w = Undone(Mean(T, x), T.env, stk[k].top, x)
    OBVIOUS
  <2>4. /\ x = n => v = e /\ w = Mean(T, n)
        /\ x # n => v = w
    <3>1. v = Undone(Mean(U, x), T.env, p, x) /\ w = Undone(Mean(T, x), T.env, p, x)
      BY <1>0, <2>1, <2>3
    <3>2. x = n => v = Mean(U, x) /\ w = Mean(T, x)
      BY <2>2, <3>1
    <3> QED BY <1>5, <3>1, <3>2
  <2>5. /\ Later(U, stk, k, x) = Undone(v, U.label, LabelTopOf(U, stk, k), x)
        /\ Later(T, stk, k, x) = Undone(w, q, LabelTopOf(T, stk, k), x)
    BY <1>2, <2>3 DEF Later
  <2>6. CASE FunctionsUpTo(stk, k) = {}
    <3>1. LabelTopOf(U, stk, k) = Len(U.label) /\ LabelTopOf(T, stk, k) = Len(q)
      BY <1>2, <2>6 DEF LabelTopOf
    <3>2. Undone(v, U.label, Len(U.label), x) = v /\ Undone(w, q, Len(q), x) = w
      BY <1>3, <1>6, UndoneEmpty
    <3>3. Later(U, stk, k, x) = v /\ Later(T, stk, k, x) = w
      BY <2>5, <3>1, <3>2
    <3> QED BY <2>4, <2>6, <3>3
  <2>7. CASE FunctionsUpTo(stk, k) # {}
    <3>1. PICK t \in 0 .. Len(q) : t = LabelTopOf(T, stk, k)
      BY <1>2, TopRange
    <3>2. LabelTopOf(U, stk, k) = t
      BY <2>7, <3>1 DEF LabelTopOf
    <3>3. t \in Nat
      BY <1>3
    <3>4. Undone(v, U.label, t, x) = IF Name(new) = x /\ Absent(q, t, x) THEN new.old_entity
                                     ELSE Undone(v, q, t, x)
      <4>1. U.label = Append(q, new)
        BY <1>0, <1>2
      <4> QED BY <1>3, <1>4, <4>1, UndoneAppend
    <3>5. ASSUME x = n PROVE Undone(v, U.label, t, x) = Undone(w, q, t, x)
      <4>1. CASE Absent(q, t, x)
        <5>1. Undone(w, q, t, x) = w
          BY <3>3, <4>1, UndoneIs
        <5>2. Undone(v, U.label, t, x) = Mean(T, n)
          BY <1>4, <3>4, <3>5, <4>1
        <5> QED BY <2>4, <3>5, <5>1, <5>2
      <4>2. CASE ~Absent(q, t, x)
        <5>1. PICK i : Oldest(q, t, x, i)
          BY <3>3, <4>2, UndoneCases
        <5>2. Undone(v, q, t, x) = q[i].old_entity
          BY <3>3, <5>1, UndoneIs
        <5>3. Undone(w, q, t, x) = q[i].old_entity
          BY <3>3, <5>1, UndoneIs
        <5> QED BY <3>4, <4>2, <5>2, <5>3
      <4> QED BY <4>1, <4>2
    <3>6. ASSUME x # n PROVE Undone(v, U.label, t, x) = Undone(w, q, t, x)
      BY <1>4, <2>4, <3>4, <3>6
    <3>7. Later(U, stk, k, x) = Later(T, stk, k, x)
      BY <2>5, <3>1, <3>2, <3>5, <3>6
    <3> QED BY <2>7, <3>7
  <2> QED BY <2>6, <2>7
<1> QED BY <1>5, <1>10, <1>11, <1>12, <1>13, <1>14 DEF Disciplined

(***************************************************************************)
(* Where the functions stand on the list of open constructs, and whether   *)
(* the function of a head has a body, when that list changes.              *)
(***************************************************************************)
LEMMA EnclosedOpened ==
  ASSUME NEW stk \in Seq(OpenType), NEW cf, Enclosed(stk, cf), NEW c \in OpenType,
         c.what # "function"
  PROVE  Enclosed(<< c >> \o stk, cf)
<1>1. PICK new : new = << c >> \o stk
  OBVIOUS
<1>2. /\ DOMAIN new = 1 .. Len(stk) + 1 /\ new[1] = c
      /\ \A k \in 1 .. Len(stk) + 1 : k # 1 => k - 1 \in DOMAIN stk /\ new[k] = stk[k - 1]
  BY <1>1, Prepended
<1>3. Len(stk) \in Nat /\ DOMAIN stk = 1 .. Len(stk)
  OBVIOUS
<1>4. \A k \in DOMAIN stk : k + 1 \in DOMAIN new /\ new[k + 1] = stk[k]
  BY <1>2, <1>3
<1>5. \A k \in DOMAIN new : new[k].what = "function" =>
        k # 1 /\ k - 1 \in DOMAIN stk /\ new[k] = stk[k - 1]
  BY <1>2
<1>6. ASSUME cf # Null PROVE \E k \in DOMAIN new : new[k].what = "function"
  <2>1. PICK k \in DOMAIN stk : stk[k].what = "function"
    BY <1>6 DEF Enclosed
  <2> QED BY <1>4, <2>1
<1>7. ASSUME NEW k \in DOMAIN new, new[k].what = "function", new[k].old_function # Null
      PROVE  \E l \in DOMAIN new : k < l /\ new[l].what = "function"
  <2>1. PICK j : j = k - 1
    OBVIOUS
  <2>2. j \in DOMAIN stk /\ stk[j].what = "function" /\ stk[j].old_function # Null
    BY <1>5, <1>7, <2>1
  <2>3. PICK l \in DOMAIN stk : j < l /\ stk[l].what = "function"
    BY <2>2 DEF Enclosed
  <2>4. l + 1 \in DOMAIN new /\ new[l + 1].what = "function"
    BY <1>4, <2>3
  <2>5. k < l + 1
    BY <1>2, <1>3, <2>1, <2>3
  <2> QED BY <2>4, <2>5
<1>8. ASSUME NEW k \in DOMAIN new, new[k].what = "function"
      PROVE  k > 1 /\ new[k - 1].what = "block"
  <2>1. PICK j : j = k - 1
    OBVIOUS
  <2>2. j \in DOMAIN stk /\ stk[j].what = "function"
    BY <1>5, <1>8, <2>1
  <2>3. j > 1 /\ stk[j - 1].what = "block"
    BY <2>2 DEF Enclosed
  <2>4. j - 1 \in DOMAIN stk /\ j - 1 + 1 = j /\ k > 1
    BY <1>2, <1>3, <2>1, <2>2, <2>3
  <2>5. new[j] = stk[j - 1]
    BY <1>4, <2>4
  <2> QED BY <2>1, <2>3, <2>4, <2>5
<1> QED BY <1>1, <1>6, <1>7, <1>8 DEF Enclosed

LEMMA EnclosedClosed ==
  ASSUME NEW stk \in Seq(OpenType), NEW cf, Enclosed(stk, cf), stk # <<>>,
         Len(stk) >= 2 => stk[2].what # "function"
  PROVE  Enclosed(Tail(stk), cf)
<1>1. PICK new : new = Tail(stk)
  OBVIOUS
<1>2. /\ Len(stk) \in Nat /\ Len(stk) # 0 /\ DOMAIN stk = 1 .. Len(stk)
      /\ DOMAIN new = 1 .. Len(stk) - 1
      /\ \A k \in DOMAIN new : k \in Nat /\ k + 1 \in DOMAIN stk /\ new[k] = stk[k + 1]
  BY <1>1, TailIs
<1>3. \A k \in DOMAIN stk : k # 1 => k - 1 \in DOMAIN new /\ new[k - 1] = stk[k]
  <2>1. TAKE k \in DOMAIN stk
  <2>2. HAVE k # 1
  <2>3. PICK j : j = k - 1
    OBVIOUS
  <2>4. j \in DOMAIN new /\ j + 1 = k
    BY <1>2, <2>2, <2>3
  <2> QED BY <1>2, <2>3, <2>4
<1>4. ASSUME cf # Null PROVE \E k \in DOMAIN new : new[k].what = "function"
  <2>1. PICK k \in DOMAIN stk : stk[k].what = "function"
    BY <1>4 DEF Enclosed
  <2>2. k > 1
    BY <2>1 DEF Enclosed
  <2> QED BY <1>3, <2>1, <2>2
<1>5. ASSUME NEW k \in DOMAIN new, new[k].what = "function", new[k].old_function # Null
      PROVE  \E l \in DOMAIN new : k < l /\ new[l].what = "function"
  <2>1. PICK j : j = k + 1
    OBVIOUS
  <2>2. j \in DOMAIN stk /\ stk[j].what = "function" /\ stk[j].old_function # Null
    BY <1>2, <1>5, <2>1
  <2>3. PICK l \in DOMAIN stk : j < l /\ stk[l].what = "function"
    BY <2>2 DEF Enclosed
  <2>4. l # 1 /\ k < l - 1
    BY <1>2, <2>1, <2>3
  <2> QED BY <1>3, <2>3, <2>4
<1>6. ASSUME NEW k \in DOMAIN new, new[k].what = "function"
      PROVE  k > 1 /\ new[k - 1].what = "block"
  <2>1. PICK j : j = k + 1
    OBVIOUS
  <2>2. j \in DOMAIN stk /\ stk[j].what = "function"
    BY <1>2, <1>6, <2>1
  <2>3. j > 1 /\ stk[j - 1].what = "block"
    BY <2>2 DEF Enclosed
  <2>4. k # 1
    <3>1. SUFFICES ASSUME k = 1 PROVE FALSE
      OBVIOUS
    <3>2. j = 2 /\ Len(stk) >= 2
      BY <1>2, <2>1, <2>2, <3>1
    <3> QED BY <2>2, <3>2
  <2>5. k > 1 /\ k \in DOMAIN stk /\ j - 1 = k
    BY <1>2, <2>1, <2>2, <2>4
  <2>6. new[k - 1] = stk[k]
    BY <1>3, <2>4, <2>5
  <2> QED BY <2>3, <2>5, <2>6
<1> QED BY <1>1, <1>4, <1>5, <1>6 DEF Enclosed

LEMMA EnclosedReturned ==
  ASSUME NEW stk \in Seq(OpenType), NEW cf, Enclosed(stk, cf), Len(stk) >= 2,
         stk[2].what = "function"
  PROVE  Enclosed(Tail(Tail(stk)), stk[2].old_function)
<1>1. PICK new : new = Tail(Tail(stk))
  OBVIOUS
<1>2. /\ Len(stk) \in Nat /\ DOMAIN stk = 1 .. Len(stk)
      /\ DOMAIN new = 1 .. Len(stk) - 2
      /\ \A k \in DOMAIN new : k \in Nat /\ k + 2 \in DOMAIN stk /\ new[k] = stk[k + 2]
  BY <1>1, TwoOff
<1>3. \A k \in DOMAIN stk : k > 2 => k - 2 \in DOMAIN new /\ new[k - 2] = stk[k]
  <2>1. TAKE k \in DOMAIN stk
  <2>2. HAVE k > 2
  <2>3. PICK j : j = k - 2
    OBVIOUS
  <2>4. j \in DOMAIN new /\ j + 2 = k
    BY <1>2, <2>2, <2>3
  <2> QED BY <1>2, <2>3, <2>4
<1>4. ASSUME stk[2].old_function # Null PROVE \E k \in DOMAIN new : new[k].what = "function"
  <2>1. 2 \in DOMAIN stk
    BY <1>2
  <2>2. PICK k \in DOMAIN stk : 2 < k /\ stk[k].what = "function"
    BY <1>4, <2>1 DEF Enclosed
  <2>3. k > 2
    BY <1>2, <2>2
  <2> QED BY <1>3, <2>2, <2>3
<1>5. ASSUME NEW k \in DOMAIN new, new[k].what = "function", new[k].old_function # Null
      PROVE  \E l \in DOMAIN new : k < l /\ new[l].what = "function"
  <2>1. PICK j : j = k + 2
    OBVIOUS
  <2>2. j \in DOMAIN stk /\ stk[j].what = "function" /\ stk[j].old_function # Null
    BY <1>2, <1>5, <2>1
  <2>3. PICK l \in DOMAIN stk : j < l /\ stk[l].what = "function"
    BY <2>2 DEF Enclosed
  <2>4. l > 2 /\ k < l - 2
    BY <1>2, <2>1, <2>3
  <2> QED BY <1>3, <2>3, <2>4
<1>6. ASSUME NEW k \in DOMAIN new, new[k].what = "function"
      PROVE  k > 1 /\ new[k - 1].what = "block"
  <2>1. PICK j : j = k + 2
    OBVIOUS
  <2>2. j \in DOMAIN stk /\ stk[j].what = "function"
    BY <1>2, <1>6, <2>1
  <2>3. stk[j - 1].what = "block"
    BY <2>2 DEF Enclosed
  <2>4. k # 1
    <3>1. SUFFICES ASSUME k = 1 PROVE FALSE
      OBVIOUS
    <3>2. j - 1 = 2
      BY <2>1, <3>1
    <3>3. stk[2].what = "block"
      BY <2>3, <3>2
    <3> QED BY <3>3
  <2>5. PICK i : i = k + 1
    OBVIOUS
  <2>6. k > 1 /\ i \in DOMAIN stk /\ i > 2 /\ j - 1 = i /\ i - 2 = k - 1
    BY <1>2, <2>1, <2>2, <2>4, <2>5
  <2>7. new[k - 1] = stk[i]
    BY <1>3, <2>6
  <2> QED BY <2>3, <2>6, <2>7
<1> QED BY <1>1, <1>4, <1>5, <1>6 DEF Enclosed

LEMMA EnclosedBody ==
  ASSUME NEW stk \in Seq(OpenType), NEW cf, Enclosed(stk, cf), NEW b \in OpenType,
         NEW c \in OpenType, b.what = "block", c.what = "function", c.old_function = cf, NEW nf
  PROVE  Enclosed(<< b, c >> \o stk, nf)
<1>1. PICK new : new = << b, c >> \o stk
  OBVIOUS
<1>2. PICK p : p = << c >> \o stk
  OBVIOUS
<1>3. new = << b >> \o p
  <2>1. << b, c >> \o stk = << b >> \o (<< c >> \o stk)
    <3>1. b \in OpenType /\ c \in OpenType /\ stk \in Seq(OpenType)
      OBVIOUS
    <3> QED BY ONLY <3>1, PrependTwo
  <2> QED BY <1>1, <1>2, <2>1
<1>4. /\ p \in Seq(OpenType) /\ Len(p) = Len(stk) + 1
      /\ DOMAIN p = 1 .. Len(stk) + 1 /\ p[1] = c
      /\ \A k \in 1 .. Len(stk) + 1 : k # 1 => k - 1 \in DOMAIN stk /\ p[k] = stk[k - 1]
  BY <1>2, Prepended
<1>5. /\ DOMAIN new = 1 .. Len(p) + 1 /\ new[1] = b
      /\ \A k \in 1 .. Len(p) + 1 : k # 1 => k - 1 \in DOMAIN p /\ new[k] = p[k - 1]
  BY <1>3, <1>4, Prepended
<1>6. Len(stk) \in Nat /\ DOMAIN stk = 1 .. Len(stk)
  OBVIOUS
<1>7. DOMAIN new = 1 .. Len(stk) + 2 /\ new[1] = b /\ new[2] = c
  BY <1>4, <1>5, <1>6
<1>8. \A k \in DOMAIN new : k > 2 => k - 2 \in DOMAIN stk /\ new[k] = stk[k - 2]
  <2>1. TAKE k \in DOMAIN new
  <2>2. HAVE k > 2
  <2>3. PICK j : j = k - 1
    OBVIOUS
  <2>4. k # 1 /\ k \in 1 .. Len(p) + 1 /\ j \in 1 .. Len(stk) + 1 /\ j # 1 /\ j - 1 = k - 2
    BY <1>4, <1>6, <1>7, <2>2, <2>3
  <2>5. new[k] = p[j]
    BY <1>5, <2>3, <2>4
  <2>6. j - 1 \in DOMAIN stk /\ p[j] = stk[j - 1]
    BY <1>4, <2>4
  <2> QED BY <2>4, <2>5, <2>6
<1>9. \A k \in DOMAIN stk : k + 2 \in DOMAIN new /\ new[k + 2] = stk[k]
  <2>1. TAKE k \in DOMAIN stk
  <2>2. PICK j : j = k + 2
    OBVIOUS
  <2>3. j \in DOMAIN new /\ j > 2 /\ j - 2 = k
    BY <1>6, <1>7, <2>2
  <2> QED BY <1>8, <2>2, <2>3
<1>10. 2 \in DOMAIN new
  BY <1>6, <1>7
<1>11. ASSUME NEW k \in DOMAIN new, new[k].what = "function", new[k].old_function # Null
       PROVE  \E l \in DOMAIN new : k < l /\ new[l].what = "function"
  <2>1. k # 1
    BY <1>7, <1>11
  <2>2. CASE k = 2
    <3>1. cf # Null
      BY <1>7, <1>11, <2>2
    <3>2. PICK l \in DOMAIN stk : stk[l].what = "function"
      BY <3>1 DEF Enclosed
    <3>3. 2 < l + 2
      BY <1>6
    <3> QED BY <1>9, <2>2, <3>2, <3>3
  <2>3. CASE k > 2
    <3>1. PICK j : j = k - 2
      OBVIOUS
    <3>2. j \in DOMAIN stk /\ stk[j].what = "function" /\ stk[j].old_function # Null
      BY <1>8, <1>11, <2>3, <3>1
    <3>3. PICK l \in DOMAIN stk : j < l /\ stk[l].what = "function"
      BY <3>2 DEF Enclosed
    <3>4. k < l + 2
      BY <1>6, <1>7, <3>1, <3>3
    <3> QED BY <1>9, <3>3, <3>4
  <2>4. k = 2 \/ k > 2
    BY <1>6, <1>7, <2>1
  <2> QED BY <2>2, <2>3, <2>4
<1>12. ASSUME NEW k \in DOMAIN new, new[k].what = "function"
       PROVE  k > 1 /\ new[k - 1].what = "block"
  <2>1. k # 1
    BY <1>7, <1>12
  <2>2. CASE k = 2
    BY <1>7, <2>2
  <2>3. CASE k > 2
    <3>1. PICK j : j = k - 2
      OBVIOUS
    <3>2. j \in DOMAIN stk /\ stk[j].what = "function"
      BY <1>8, <1>12, <2>3, <3>1
    <3>3. j > 1 /\ stk[j - 1].what = "block"
      BY <3>2 DEF Enclosed
    <3>4. PICK i : i = k - 1
      OBVIOUS
    <3>5. i \in DOMAIN new /\ i > 2 /\ i - 2 = j - 1 /\ k > 1
      BY <1>6, <1>7, <3>1, <3>2, <3>3, <3>4
    <3>6. new[i] = stk[j - 1]
      BY <1>8, <3>5
    <3> QED BY <3>3, <3>4, <3>5, <3>6
  <2>4. k = 2 \/ k > 2
    BY <1>6, <1>7, <2>1
  <2> QED BY <2>2, <2>3, <2>4
<1>13. \E k \in DOMAIN new : new[k].what = "function"
  BY <1>7, <1>10
<1>14. Enclosed(new, nf)
  BY ONLY <1>11, <1>12, <1>13 DEF Enclosed
<1> QED BY <1>1, <1>14

\* Only the innermost construct can be a head.
LEMMA PendingStays ==
  ASSUME NEW T, NEW cs, NEW cf, NEW stk, Inv(T, cs, cf, stk), Pending(T, stk), NEW U, Kept(T, U)
  PROVE  Pending(U, stk)
<1>1. Headed(T, stk, cs)
  BY DEF Inv
<1>2. ASSUME NEW k \in DOMAIN stk, stk[k].what = "kr"
      PROVE  ~U.entity[stk[k].declared].complete
  <2>1. PICK L : HeadList(T, stk[k].top, cs, stk[k].declared, L)
    BY <1>1, <1>2 DEF Headed
  <2>2. stk[k].declared \in DOMAIN T.entity /\ T.entity[stk[k].declared].kind = "function"
    BY <2>1 DEF HeadList, Hidden
  <2>3. U.entity[stk[k].declared].complete = T.entity[stk[k].declared].complete
    BY <2>2 DEF Kept
  <2> QED BY <1>2, <2>3 DEF Pending
<1> QED BY <1>2 DEF Pending

LEMMA PendingNone ==
  ASSUME NEW U, NEW stk, NoHead(stk)
  PROVE  Pending(U, stk)
  BY DEF NoHead, Pending

LEMMA PendingOpened ==
  ASSUME NEW stk \in Seq(OpenType), NoHead(stk), NEW c \in OpenType, NEW U,
         c.what = "kr" => ~U.entity[c.declared].complete
  PROVE  Pending(U, << c >> \o stk)
<1>1. PICK new : new = << c >> \o stk
  OBVIOUS
<1>2. /\ DOMAIN new = 1 .. Len(stk) + 1 /\ new[1] = c
      /\ \A k \in 1 .. Len(stk) + 1 : k # 1 => k - 1 \in DOMAIN stk /\ new[k] = stk[k - 1]
  BY <1>1, Prepended
<1>3. ASSUME NEW k \in DOMAIN new, new[k].what = "kr" PROVE ~U.entity[new[k].declared].complete
  <2>1. k = 1
    BY <1>2, <1>3 DEF NoHead
  <2> QED BY <1>2, <1>3, <2>1
<1> QED BY <1>1, <1>3 DEF Pending

(***************************************************************************)
(* What is shown of each step: it implements one of the abstract           *)
(* specification, or changes nothing there, and it keeps the invariant.    *)
(***************************************************************************)
Follows ==
  /\ Listing(table') /\ Disciplined(table', open') /\ Enclosed(open', current_function')
  /\ Pending(table', open') /\ Len(table'.entity) <= MaxEntities
  /\ Scoping!Next \/ UNCHANGED << visible, outer >>

LEMMA StackTypes ==
  ASSUME StackInv
  PROVE  /\ Good(table) /\ Shape(table) /\ current_scope \in DOMAIN table.scope /\ current_scope \in Nat
         /\ current_function \in {Null} \cup DOMAIN table.entity /\ current_function \in Nat
         /\ Nested(table, open) /\ open \in Seq(OpenType)
         /\ Inv(table, current_scope, current_function, open)
         /\ Listing(table) /\ Disciplined(table, open) /\ Enclosed(open, current_function)
         /\ Pending(table, open) /\ Len(table.entity) <= MaxEntities
         /\ Len(table.entity) \in Nat
         /\ (open # <<>> => open[1].what # "function")
<1>1. ScopeInv /\ Listing(table) /\ Disciplined(table, open) /\ Enclosed(open, current_function)
      /\ Pending(table, open) /\ Len(table.entity) <= MaxEntities
  BY DEF StackInv
<1>2. /\ Good(table) /\ Shape(table) /\ current_scope \in DOMAIN table.scope /\ current_scope \in Nat
      /\ current_function \in {Null} \cup DOMAIN table.entity /\ current_function \in Nat
      /\ Nested(table, open) /\ open \in Seq(OpenType)
  BY <1>1, InvTypes
<1>3. Inv(table, current_scope, current_function, open)
  BY <1>1 DEF ScopeInv
<1>4. Len(table.entity) \in Nat
  BY <1>2, Lengths
<1>5. ASSUME open # <<>> PROVE open[1].what # "function"
  <2>1. 1 \in DOMAIN open
    BY <1>2, <1>5, TailIs
  <2> QED BY <1>1, <2>1 DEF Enclosed
<1> QED BY <1>1, <1>2, <1>3, <1>4, <1>5

LEMMA Roomy ==
  ASSUME NEW a \in Nat, NEW b, Room(a, b), Len(table.entity) \in Nat, NEW m \in Nat, m <= a,
         NEW n \in Nat, n <= Len(table.entity) + m
  PROVE  n <= MaxEntities
<1>1. Len(table.entity) + a <= MaxEntities
  BY DEF Room
<1> QED BY <1>1, EntityScopesAssumption

\* A step that declares names in the current scope.
LEMMA StayFollows ==
  ASSUME StackInv, NEW N, NEW m \in Nat, Grown(table, table', N, m), NEW a \in Nat, NEW b,
         Room(a, b), m <= a,
         UNCHANGED << current_function, open >>, NEW D \in Scoping!Declarations, N \subseteq D
  PROVE  Follows
<1>1. /\ Good(table) /\ Nested(table, open) /\ Listing(table) /\ Disciplined(table, open)
      /\ Enclosed(open, current_function) /\ Pending(table, open)
      /\ Inv(table, current_scope, current_function, open) /\ Len(table.entity) \in Nat
  BY StackTypes
<1>2. /\ Larger(table, table') /\ Len(table'.entity) <= Len(table.entity) + m
      /\ Kept(table, table') /\ Listing(table') /\ Disciplined(table', open)
  BY <1>1 DEF Grown
<1>3. Len(table'.entity) \in Nat
  <2>1. Good(table')
    BY <1>2 DEF Larger
  <2> QED BY <2>1, Lengths
<1>4. Len(table'.entity) <= MaxEntities
  BY <1>1, <1>2, <1>3, Roomy
<1>5. open' = open /\ current_function' = current_function
  OBVIOUS
<1>6. Scoping!Next
  BY <1>1, <1>4, <1>5, DeclareStep
<1>7. Pending(table', open)
  BY <1>1, <1>2, PendingStays
<1> QED BY <1>1, <1>2, <1>4, <1>5, <1>6, <1>7 DEF Follows

LEMMA DeclarationSets ==
  /\ \A s \in Symbols, namespc \in NameSpaces : {<< s, namespc >>} \in Scoping!Declarations
  /\ \A s, m \in Symbols : {<< s, "tag" >>, << m, "normal" >>} \in Scoping!Declarations
<1>1. \A s \in Symbols, namespc \in NameSpaces : << s, namespc >> \in Scoping!Names
  BY DEF Scoping!Names, Scoping!NameSpaces, NameSpaces
<1>2. ASSUME NEW n \in Scoping!Names PROVE {n} \in Scoping!Declarations
  BY DEF Scoping!Declarations
<1>3. ASSUME NEW s \in Symbols, NEW m \in Symbols
      PROVE  {<< s, "tag" >>, << m, "normal" >>} \in Scoping!Declarations
  BY DEF Scoping!Declarations
<1> QED BY <1>1, <1>2, <1>3

LEMMA FollowsRecord ==
  ASSUME StackInv, NEW kind \in Kinds, NameSpaceOf[kind] = "normal", NEW s \in Symbols,
         NEW b, Room(1, b),
         table' = record_entity(Allocate(table, kind, s, Null), current_scope, Fresh(table)),
         UNCHANGED << current_scope, current_function, open >>
  PROVE  Follows
<1>1. Good(table) /\ current_scope \in DOMAIN table.scope
  BY StackTypes
<1>2. Grown(table, table', { << s, "normal" >> }, 1)
  BY <1>1, GrownNew
<1>3. { << s, "normal" >> } \in Scoping!Declarations
  BY DeclarationSets DEF NameSpaces
<1>4. 1 \in Nat /\ 1 <= 1 /\ UNCHANGED << current_function, open >>
  OBVIOUS
<1> QED BY <1>2, <1>3, <1>4, StayFollows

LEMMA FollowsDeclare ==
  ASSUME StackInv, NEW s \in Symbols, NEW kind \in {"variable", "typedef", "function"},
         Declare(s, kind)
  PROVE  Follows
<1>1. kind \in Kinds /\ NameSpaceOf[kind] = "normal"
  BY DEF Kinds, NameSpaceOf
<1>2. PICK b : b = IF kind = "function" THEN 1 ELSE 0
  OBVIOUS
<1>3. /\ Room(1, b)
      /\ table' = record_entity(Allocate(table, kind, s, Null), current_scope, Fresh(table))
      /\ UNCHANGED << current_scope, current_function, open >>
  BY <1>2 DEF Declare
<1> QED BY <1>1, <1>3, FollowsRecord

LEMMA FollowsDeclareParameter ==
  ASSUME StackInv, NEW s \in Symbols, DeclareParameter(s)
  PROVE  Follows
<1>1. "parameter" \in Kinds /\ NameSpaceOf["parameter"] = "normal"
  BY DEF Kinds, NameSpaceOf
<1>2. /\ Room(1, 0)
      /\ table' = record_entity(Allocate(table, "parameter", s, Null), current_scope, Fresh(table))
      /\ UNCHANGED << current_scope, current_function, open >>
  BY DEF DeclareParameter
<1> QED BY <1>1, <1>2, FollowsRecord

LEMMA FollowsSpecifier ==
  ASSUME StackInv, NEW s \in Symbols, NEW how, CompoundSpecifier(s, how)
  PROVE  Follows
<1>1. Good(table) /\ current_scope \in DOMAIN table.scope
  BY StackTypes
<1>2. Grown(table, table', { << s, "tag" >> }, 2)
  BY <1>1, GrownSpecifier
<1>3. { << s, "tag" >> } \in Scoping!Declarations
  BY DeclarationSets DEF NameSpaces
<1>4. Room(2, 1) /\ UNCHANGED << current_function, open >>
  BY DEF CompoundSpecifier
<1>5. 2 \in Nat /\ 2 <= 2
  OBVIOUS
<1> QED BY <1>2, <1>3, <1>4, <1>5, StayFollows

LEMMA FollowsEnum ==
  ASSUME StackInv, Covered, NEW s \in Symbols, NEW v, v = <<>> \/ \E m \in Symbols : v = << m >>,
         EnumSpecifier(s, v)
  PROVE  Follows
<1>1. Good(table) /\ current_scope \in DOMAIN table.scope
  BY StackTypes
<1>2. "again" \notin dialect
  BY DEF Covered
<1>3. PICK m \in Symbols : Grown(table, table', { << s, "tag" >>, << m, "normal" >> }, 2)
  BY <1>1, <1>2, GrownEnum
<1>4. { << s, "tag" >>, << m, "normal" >> } \in Scoping!Declarations
  BY DeclarationSets
<1>5. Room(2, 0) /\ UNCHANGED << current_function, open >>
  BY DEF EnumSpecifier
<1>6. 2 \in Nat /\ 2 <= 2
  OBVIOUS
<1> QED BY <1>3, <1>4, <1>5, <1>6, StayFollows

LEMMA FollowsLocalLabel ==
  ASSUME StackInv, NEW s \in Symbols, LocalLabel(s)
  PROVE  Follows
<1>1. Good(table) /\ current_scope \in DOMAIN table.scope
  BY StackTypes
<1>2. Grown(table, table', { << s, "label" >> }, 1)
  BY <1>1, GrownLocalLabel
<1>3. { << s, "label" >> } \in Scoping!Declarations
  BY DeclarationSets DEF NameSpaces
<1>4. Room(1, 0) /\ UNCHANGED << current_function, open >>
  BY DEF LocalLabel
<1>5. 1 \in Nat /\ 1 <= 1
  OBVIOUS
<1> QED BY <1>2, <1>3, <1>4, <1>5, StayFollows

\* A step that opens one construct.
LEMMA OpenFollows ==
  ASSUME StackInv, NoHead(open), NEW c \in OpenType, c.what # "function",
         c.top = Len(table.env), c.label_top = Len(table.label),
         c.old_scope = current_scope, c.old_function = current_function,
         NEW N, N \subseteq PlainNames, NEW m \in Nat, Grown(table, table', N, m),
         NEW a \in Nat, NEW b, Room(a, b), m <= a,
         c.what = "kr" => ~table'.entity[c.declared].complete,
         open' = << c >> \o open, UNCHANGED current_function
  PROVE  Follows
<1>1. /\ Good(table) /\ Nested(table, open) /\ Listing(table) /\ Disciplined(table, open)
      /\ Enclosed(open, current_function) /\ open \in Seq(OpenType)
      /\ Len(table.entity) \in Nat /\ current_scope \in DOMAIN table.scope
      /\ current_function \in {Null} \cup DOMAIN table.entity
      /\ (open # <<>> => open[1].what # "function")
  BY StackTypes
<1>2. /\ Larger(table, table') /\ Len(table'.entity) <= Len(table.entity) + m /\ Listing(table')
  BY <1>1 DEF Grown
<1>3. Len(table'.entity) \in Nat
  <2>1. Good(table')
    BY <1>2 DEF Larger
  <2> QED BY <2>1, Lengths
<1>4. Len(table'.entity) <= MaxEntities
  BY <1>1, <1>2, <1>3, Roomy
<1>5. Scoping!Next /\ Disciplined(table', open')
  BY <1>1, <1>4, OpenStep
<1>6. Enclosed(<< c >> \o open, current_function)
  BY <1>1, EnclosedOpened
<1>7. Pending(table', << c >> \o open)
  BY <1>1, PendingOpened
<1>8. Enclosed(open', current_function') /\ Pending(table', open')
  BY <1>6, <1>7
<1> QED BY <1>2, <1>4, <1>5, <1>8 DEF Follows

LEMMA FollowsOpenBlock ==
  ASSUME StackInv, Covered, OpenBlock
  PROVE  Follows
<1> DEFINE s == Len(table.scope) + 1
           U == scope_push([table EXCEPT !.scope = Append(@, NewScope)], s, current_scope)
           c == Construct("block", s, table)
<1>1. /\ ~InHead /\ table' = U /\ open' = << c >> \o open
      /\ current_function' = current_function /\ Room(0, 1)
  BY DEF OpenBlock, Covered
<1>2. /\ Good(table) /\ current_scope \in DOMAIN table.scope /\ current_scope \in Nat
      /\ current_function \in Nat
  BY StackTypes
<1>3. Grown(table, U, {}, 0)
  BY <1>2, GrownNewScope
<1>4. s \in Nat
  BY <1>2, Lengths
<1>5. /\ c \in OpenType /\ c.what = "block" /\ c.old_scope = current_scope
      /\ c.top = Len(table.env) /\ c.label_top = Len(table.label)
      /\ c.old_function = current_function
  BY <1>2, <1>4, ConstructIs
<1> HIDE DEF U, c, s
<1>6. NoHead(open)
  BY <1>1, OutsideHead DEF StackInv
<1>7. c.what # "function" /\ c.what # "kr"
  BY <1>5
<1>8. {} \subseteq PlainNames /\ 0 \in Nat /\ 0 <= 0 /\ Grown(table, table', {}, 0)
  BY <1>1, <1>3
<1> QED BY <1>1, <1>5, <1>6, <1>7, <1>8, OpenFollows

LEMMA FollowsOpenHead ==
  ASSUME StackInv, NEW x \in Symbols, NEW q \in Seq(Symbols), OpenHead(x, q)
  PROVE  Follows
<1> DEFINE T   == Declarator(x, q)
           own == Len(table.scope) + 1
           nd  == Fresh(table)
           S   == scope_push(T, own, current_scope)
           U   == PushParameters(S, nd, Null)
           d   == Construct("kr", own, T)
           c   == [d EXCEPT !.declared = nd]
<1>1. /\ MayDefine /\ table' = U /\ open' = << c >> \o open
      /\ current_function' = current_function /\ Room(1 + Len(q), 2)
  BY DEF OpenHead
<1>2. /\ Good(table) /\ current_scope \in DOMAIN table.scope /\ current_scope \in Nat
      /\ current_function \in Nat /\ Listing(table)
  BY StackTypes
<1>3. Len(q) \in Nat /\ 1 + Len(q) \in Nat
  OBVIOUS
<1>4. Grown(table, T, {}, 1 + Len(q))
  BY <1>2, GrownDeclarator
<1>5. /\ Larger(table, T) /\ T.env = table.env /\ T.label = table.label
      /\ nd \in DOMAIN T.entity /\ nd \in Nat /\ own \in DOMAIN T.scope /\ own \in Nat
      /\ FreshEntity(T, nd) /\ T.entity[nd].kind = "function" /\ T.entity[nd].own = own
      /\ \E L \in Seq(DOMAIN T.entity) :
           /\ ListPart(T, own, L)
           /\ \A k \in DOMAIN L : Hidden(T, L[k]) /\ L[k] # nd
  BY <1>2, DeclaredLarger
<1>6. ~T.entity[nd].complete
  <2>1. Declares(table, T, x, q, Len(q))
    BY <1>2, DeclaratorIs
  <2>2. T.entity[nd] = [kind |-> "function", symbol |-> x, parent_scope |-> Null,
                        own |-> Len(table.scope) + 1, complete |-> FALSE]
    BY <2>1 DEF Declares
  <2> HIDE DEF T, nd
  <2> QED BY <2>2
<1> HIDE DEF T, nd, own
<1>7. Good(T) /\ current_scope \in DOMAIN T.scope /\ Listing(T)
  BY <1>2, <1>4, <1>5 DEF Larger, Grown
<1>8. PICK L \in Seq(DOMAIN T.entity) :
           /\ ListPart(T, own, L)
           /\ \A k \in DOMAIN L : Hidden(T, L[k]) /\ L[k] # nd
  BY <1>5
<1>9. /\ Good(S) /\ Larger(T, S) /\ S.env = T.env /\ S.label = T.label /\ S.link = T.link
      /\ S.entity = T.entity /\ S.next = T.next /\ DOMAIN S.scope = DOMAIN T.scope
      /\ ListPart(S, own, L) /\ \A y : Hidden(T, y) => Hidden(S, y)
  BY <1>5, <1>7, <1>8, ScopeOpened
<1>10. Grown(T, S, {}, 0)
  BY <1>5, <1>7, GrownScopePush
<1> HIDE DEF S
<1>11. Grown(S, U, PlainNames, 0)
  <2>1. Ready(S, L, 0)
    BY <1>8, <1>9 DEF Ready, Hidden
  <2>2. \A k \in DOMAIN L : Space(S, L[k]) # "label"
    <3>1. Listing(S)
      BY <1>7, <1>10 DEF Grown
    <3>2. Linked(S.scope[own].entities, S.next, L)
      BY <1>9 DEF ListPart
    <3>3. \A k \in DOMAIN L : L[k] \in DOMAIN S.next /\ (L[k] # Null => Space(S, L[k]) # "label")
      BY <1>5, <1>9, <3>1, <3>2, ListedNames
    <3>4. \A k \in DOMAIN L : L[k] \in DOMAIN S.entity
      BY <1>8, <1>9
    <3>5. \A y \in DOMAIN S.entity : y # Null
      BY <1>9, Lengths DEF Null
    <3> QED BY <3>3, <3>4, <3>5
  <2>3. S.entity[nd].own = own /\ nd \in DOMAIN S.entity /\ L \in Seq(DOMAIN S.entity)
    BY <1>5, <1>8, <1>9
  <2>4. Table(S) /\ Chained(S) /\ Linked(S.scope[own].entities, S.next, L)
    BY <1>9, Lengths DEF ListPart
  <2>5. PICK w : ParametersPushed(S, U, w, L, own, Null)
    BY <2>1, <2>3, <2>4, PushParametersAre
  <2> HIDE DEF U
  <2> QED BY <1>9, <2>2, <2>3, <2>5, GrownParameters
<1> HIDE DEF U
<1>12. Grown(S, U, PlainNames, 0) /\ Grown(T, U, PlainNames, 0)
  <2>1. Grown(T, U, {} \cup PlainNames, 0 + 0)
    BY <1>7, <1>10, <1>11, GrownTrans
  <2> QED BY <1>7, <1>11, <2>1, GrownWider
<1>13. Grown(table, U, PlainNames, 1 + Len(q))
  <2>1. PICK n : n = 1 + Len(q)
    OBVIOUS
  <2>2. n \in Nat /\ Grown(table, T, {}, n)
    BY <1>3, <1>4, <2>1
  <2>3. Grown(table, U, {} \cup PlainNames, n + 0)
    BY <1>2, <1>12, <2>2, GrownTrans
  <2>4. n + 0 \in Nat /\ n + 0 <= n /\ {} \cup PlainNames \subseteq PlainNames
    BY <2>2
  <2>5. Grown(table, U, PlainNames, n)
    BY <1>2, <2>2, <2>3, <2>4, GrownWider
  <2> QED BY <2>1, <2>5
<1>14. /\ d \in OpenType /\ d.what = "kr" /\ d.old_scope = current_scope /\ d.top = Len(T.env)
       /\ d.label_top = Len(T.label) /\ d.old_function = current_function
  BY <1>2, <1>5, <1>7, ConstructIs
<1> HIDE DEF d
<1>15. /\ c \in OpenType /\ c.what = "kr" /\ c.old_scope = current_scope /\ c.top = Len(T.env)
       /\ c.label_top = Len(T.label) /\ c.old_function = current_function /\ c.declared = nd
  BY <1>5, <1>14, OpenedAs
<1>16. ~U.entity[nd].complete
  BY <1>5, <1>6, <1>12 DEF Grown, Kept
<1> HIDE DEF c
<1>17. NoHead(open)
  BY <1>1, DefineOutside DEF StackInv
<1>18. c.what # "function" /\ ~table'.entity[c.declared].complete
  BY <1>1, <1>15, <1>16
<1>19. c.top = Len(table.env) /\ c.label_top = Len(table.label)
  BY <1>5, <1>15
<1>20. PICK n : n = 1 + Len(q)
  OBVIOUS
<1>21. n \in Nat /\ n <= n /\ Room(n, 2) /\ Grown(table, table', PlainNames, n)
       /\ PlainNames \subseteq PlainNames
  BY <1>1, <1>3, <1>13, <1>20
<1> QED BY <1>1, <1>15, <1>17, <1>18, <1>19, <1>21, OpenFollows

\* A step that closes the innermost construct, other than the body of a
\* function, and only puts back what was pushed in it.
LEMMA TailNoHead ==
  ASSUME NEW T, NEW cs, NEW cf, NEW stk, Inv(T, cs, cf, stk), stk # <<>>
  PROVE  NoHead(Tail(stk)) /\ (Len(stk) >= 2 => NoHead(Tail(Tail(stk))))
<1>1. stk \in Seq(OpenType) /\ \A k \in DOMAIN stk : k # 1 => stk[k].what # "kr"
  BY DEF Inv, Nested, Headed
<1>2. /\ Len(stk) \in Nat /\ DOMAIN stk = 1 .. Len(stk)
      /\ \A k \in DOMAIN Tail(stk) : /\ k \in Nat /\ k + 1 \in DOMAIN stk
                                     /\ Tail(stk)[k] = stk[k + 1]
      /\ DOMAIN Tail(stk) = 1 .. Len(stk) - 1
  BY <1>1, TailIs
<1>3. ASSUME NEW k \in DOMAIN Tail(stk) PROVE Tail(stk)[k].what # "kr"
  <2>1. PICK j : j = k + 1
    OBVIOUS
  <2>2. j \in DOMAIN stk /\ Tail(stk)[k] = stk[j] /\ j # 1
    BY <1>2, <2>1
  <2> QED BY <1>1, <2>2
<1>4. ASSUME Len(stk) >= 2, NEW k \in DOMAIN Tail(Tail(stk)) PROVE Tail(Tail(stk))[k].what # "kr"
  <2>1. /\ DOMAIN Tail(Tail(stk)) = 1 .. Len(stk) - 2 /\ k \in Nat /\ k + 2 \in DOMAIN stk
        /\ Tail(Tail(stk))[k] = stk[k + 2]
    BY <1>1, <1>4, TwoOff
  <2>2. PICK j : j = k + 2
    OBVIOUS
  <2>3. j \in DOMAIN stk /\ Tail(Tail(stk))[k] = stk[j] /\ j # 1
    BY <2>1, <2>2
  <2> QED BY <1>1, <2>3
<1> QED BY <1>3, <1>4 DEF NoHead

LEMMA PopFollows ==
  ASSUME StackInv, open # <<>>, Len(open) >= 2 => open[2].what # "function",
         table' = stack_pop_to(table, "env", Head(open).top),
         open' = Tail(open), UNCHANGED current_function
  PROVE  Follows
<1> DEFINE P == stack_pop_to(table, "env", open[1].top)
<1>1. /\ Good(table) /\ Nested(table, open) /\ Listing(table) /\ Disciplined(table, open)
      /\ Enclosed(open, current_function) /\ open \in Seq(OpenType)
      /\ Inv(table, current_scope, current_function, open)
      /\ Len(table.entity) <= MaxEntities /\ open[1].what # "function"
  BY StackTypes
<1>2. Head(open) = open[1]
  BY <1>1, TailIs
<1>3. /\ Good(P) /\ P.entity = table.entity /\ P.next = table.next /\ P.scope = table.scope
      /\ Disciplined(P, Tail(open))
      /\ \A n \in AllNames : Mean(P, n) = Later(table, open, 1, n)
      /\ \A k \in DOMAIN Tail(open), n \in AllNames :
           Later(P, Tail(open), k, n) = Later(table, open, k + 1, n)
  BY <1>1, Closed
<1> HIDE DEF P
<1>4. table' = P
  BY <1>2 DEF P
<1>5. Listing(P)
  BY <1>1, <1>3, ListingSame
<1>6. /\ \A n \in AllNames : Mean(table', n) = Later(table, open, 1, n)
      /\ \A k \in DOMAIN Tail(open), n \in AllNames :
           Later(table', Tail(open), k, n) = Later(table, open, k + 1, n)
  BY ONLY <1>3, <1>4
<1>7. Scoping!Next
  BY <1>1, <1>6, CloseStep
<1>8. NoHead(Tail(open)) /\ Enclosed(Tail(open), current_function)
  BY <1>1, TailNoHead, EnclosedClosed
<1>9. Pending(P, Tail(open))
  BY <1>8, PendingNone
<1> QED BY <1>1, <1>3, <1>4, <1>5, <1>7, <1>8, <1>9 DEF Follows

\* Only a block has a function around it.
LEMMA NotBody ==
  ASSUME StackInv, open # <<>>, open[1].what # "block"
  PROVE  Len(open) >= 2 => open[2].what # "function"
<1>1. open \in Seq(OpenType) /\ Enclosed(open, current_function)
  BY StackTypes
<1> SUFFICES ASSUME Len(open) >= 2, open[2].what = "function" PROVE FALSE
  OBVIOUS
<1>2. 2 \in DOMAIN open
  BY <1>1
<1>3. open[2 - 1].what = "block"
  BY <1>1, <1>2 DEF Enclosed
<1> QED BY <1>3

LEMMA FollowsCloseBlock ==
  ASSUME StackInv, CloseBlock
  PROVE  Follows
<1>1. /\ open # <<>> /\ (Len(open) >= 2 => open[2].what # "function")
      /\ table' = stack_pop_to(table, "env", Head(open).top)
      /\ open' = Tail(open) /\ UNCHANGED current_function
  BY DEF CloseBlock, Innermost, InBody
<1> QED BY <1>1, PopFollows

LEMMA FollowsCloseNamespace ==
  ASSUME StackInv, CloseNamespace
  PROVE  Follows
<1>1. /\ open # <<>> /\ Head(open).what = "namespace"
      /\ table' = stack_pop_to(table, "env", Head(open).top)
      /\ open' = Tail(open) /\ UNCHANGED current_function
  BY DEF CloseNamespace, Innermost
<1>2. open[1].what # "block"
  BY <1>1, StackTypes, TailIs
<1>3. Len(open) >= 2 => open[2].what # "function"
  BY <1>1, <1>2, NotBody
<1> QED BY <1>1, <1>3, PopFollows

LEMMA FollowsAbandonHead ==
  ASSUME StackInv, AbandonHead
  PROVE  Follows
<1>1. /\ open # <<>> /\ Head(open).what = "kr"
      /\ table' = stack_pop_to(table, "env", Head(open).top)
      /\ open' = Tail(open) /\ UNCHANGED current_function
  BY DEF AbandonHead, InHead, Innermost
<1>2. open[1].what # "block"
  BY <1>1, StackTypes, TailIs
<1>3. Len(open) >= 2 => open[2].what # "function"
  BY <1>1, <1>2, NotBody
<1> QED BY <1>1, <1>3, PopFollows

LEMMA FollowsOpenNamespace ==
  ASSUME StackInv, Covered, NEW x \in Symbols, OpenNamespace(x)
  PROVE  Follows
<1> DEFINE e   == get_entity(table, x, "normal")
           new == e = Null \/ /\ table.entity[e].kind # "namespace"
                              /\ table.entity[e].parent_scope = current_scope
           T   == Allocate(table, "namespace", x, current_scope)
           E   == Enlist(T, Fresh(table), current_scope)
           own == T.entity[Fresh(table)].own
           U   == scope_push(E, own, current_scope)
           c   == Construct("namespace", own, E)
<1>1. new /\ (open # <<>> => Innermost("namespace")) /\ Room(1, 1)
  BY DEF OpenNamespace, Covered
<1>2. /\ table' = U /\ open' = << c >> \o open /\ current_function' = current_function
  BY <1>1 DEF OpenNamespace
<1>3. NoHead(open)
  <2>1. ~InHead
    BY <1>1 DEF InHead, Innermost
  <2> QED BY <2>1, OutsideHead DEF StackInv
<1>4. /\ Good(table) /\ current_scope \in DOMAIN table.scope /\ current_scope \in Nat
      /\ current_function \in Nat /\ current_function \in {Null} \cup DOMAIN table.entity
      /\ Nested(table, open) /\ Listing(table) /\ Disciplined(table, open)
      /\ Enclosed(open, current_function) /\ open \in Seq(OpenType)
      /\ Len(table.entity) \in Nat /\ (open # <<>> => open[1].what # "function")
  BY StackTypes
<1>5. Grown(table, E, { << x, "normal" >> }, 1)
  <2>1. "namespace" \in Kinds /\ NameSpaceOf["namespace"] = "normal"
    BY DEF Kinds, NameSpaceOf
  <2>2. NameSpaceOf["namespace"] # "label"
    BY <2>1
  <2>3. Grown(table, E, { << x, NameSpaceOf["namespace"] >> }, 1)
    BY <1>4, <2>1, <2>2, GrownEnlist
  <2> QED BY <2>1, <2>3
<1>6. own \in DOMAIN E.scope /\ own \in Nat
  <2>1. Good(T) /\ FreshEntity(T, Fresh(table)) /\ Allocated(table, T, "namespace", x, current_scope)
    BY <1>4, FreshAllocated DEF Kinds
  <2>2. own = Len(table.scope) + 1
    BY <2>1 DEF Allocated, Owners
  <2>3. Len(table.scope) \in Nat /\ DOMAIN table.scope = 1 .. Len(table.scope)
    BY <1>4, Lengths
  <2>4. T.scope = Append(table.scope, NewScope)
    BY <2>1 DEF Allocated, Owners
  <2>5. DOMAIN T.scope = 1 .. Len(table.scope) + 1
    BY <2>4
  <2> HIDE DEF T, own
  <2>6. own \in DOMAIN T.scope /\ current_scope \in DOMAIN T.scope /\ own \in Nat
    BY <1>4, <2>2, <2>3, <2>5
  <2>7. Larger(T, E)
    BY <2>1, <2>6, LargerEnlist
  <2> HIDE DEF E
  <2> QED BY <2>6, <2>7 DEF Larger
<1> HIDE DEF new, e, own, E, T
<1>7. /\ Larger(table, E) /\ Good(E) /\ current_scope \in DOMAIN E.scope
      /\ current_function \in {Null} \cup DOMAIN E.entity
  BY <1>4, <1>5 DEF Grown, Larger
<1>8. Grown(E, U, {}, 0)
  BY <1>6, <1>7, GrownScopePush
<1>9. /\ c \in OpenType /\ c.what = "namespace" /\ c.old_scope = current_scope
      /\ c.top = Len(E.env) /\ c.label_top = Len(E.label)
      /\ c.old_function = current_function
  BY <1>4, <1>6, <1>7, ConstructIs
<1> HIDE DEF U, c
<1>10. Grown(table, U, { << x, "normal" >> }, 1)
  <2>1. Grown(table, U, { << x, "normal" >> } \cup {}, 1 + 0)
    BY <1>4, <1>5, <1>8, GrownTrans
  <2> QED BY <1>4, <2>1, GrownWider
<1>11. Len(U.entity) <= Len(table.entity) + 1 /\ Listing(U) /\ Good(U)
  BY <1>4, <1>10 DEF Grown, Larger
<1>12. Len(U.entity) <= MaxEntities
  <2>1. Len(U.entity) \in Nat
    BY <1>11, Lengths
  <2> QED BY <1>1, <1>4, <1>11, <2>1, Roomy
<1>13. c.what # "function" /\ c.what # "kr"
  BY <1>9
<1>14. c.old_scope \in DOMAIN E.scope /\ c.old_function \in {Null} \cup DOMAIN E.entity
  BY <1>7, <1>9
<1>15. Grown(E, table', {}, 0) /\ Len(table'.entity) <= MaxEntities /\ Listing(table')
  BY <1>2, <1>8, <1>11, <1>12
<1>16. Scoping!Next /\ Disciplined(table', open')
  BY <1>2, <1>4, <1>5, <1>9, <1>13, <1>14, <1>15, OpenNamedStep
<1>17. Enclosed(<< c >> \o open, current_function)
  BY <1>4, <1>9, <1>13, EnclosedOpened
<1>18. Pending(table', << c >> \o open)
  BY <1>3, <1>4, <1>9, <1>13, PendingOpened
<1>19. Enclosed(open', current_function') /\ Pending(table', open')
  BY <1>2, <1>17, <1>18
<1> QED BY <1>15, <1>16, <1>19 DEF Follows

LEMMA FollowsCloseFunction ==
  ASSUME StackInv, CloseFunction
  PROVE  Follows
<1> DEFINE A == stack_pop_to(table, "env", open[1].top)
           B == stack_pop_to(A, "label", open[2].label_top)
           C == stack_pop_to(B, "env", open[2].top)
           U == [C EXCEPT !.entity[current_function].complete = TRUE]
           rest == Tail(Tail(open))
<1>1. /\ Good(table) /\ Nested(table, open) /\ Listing(table) /\ Disciplined(table, open)
      /\ Enclosed(open, current_function) /\ open \in Seq(OpenType)
      /\ Inv(table, current_scope, current_function, open)
      /\ Len(table.entity) <= MaxEntities
  BY StackTypes
<1>2. /\ Len(open) >= 2 /\ open[2].what = "function"
      /\ table' = U /\ current_function' = open[2].old_function /\ open' = rest
  BY DEF CloseFunction, InBody
<1>3. open[1].what # "function"
  <2>1. open # <<>>
    BY <1>1, <1>2
  <2> QED BY <2>1, StackTypes
<1>4. /\ Good(C) /\ C.entity = table.entity /\ C.next = table.next /\ C.scope = table.scope
      /\ Disciplined(C, rest)
      /\ \A n \in AllNames : Mean(C, n) = Later(table, open, 2, n)
      /\ \A k \in DOMAIN rest, n \in AllNames : Later(C, rest, k, n) = Later(table, open, k + 2, n)
  BY <1>1, <1>2, <1>3, Returned
<1> HIDE DEF A, B, C
<1>5. Shape(C) /\ Table(C) /\ Chained(C)
  BY <1>4, Lengths
<1>6. PICK parent : EntitySet(C, U, current_function, parent, TRUE, C.aborted)
  BY <1>5, CompleteIs
<1> HIDE DEF U
<1>7. /\ U.env = C.env /\ U.label = C.label /\ U.scope = C.scope /\ U.next = C.next
      /\ DOMAIN U.entity = DOMAIN C.entity /\ Touched(C, U)
      /\ \A x \in DOMAIN C.entity : U.entity[x].kind = C.entity[x].kind
      /\ Len(U.entity) = Len(C.entity)
  <2>1. Touched(C, U) /\ U.scope = C.scope /\ U.next = C.next /\ DOMAIN U.entity = DOMAIN C.entity
    BY <1>6 DEF EntitySet
  <2>2. \A x \in DOMAIN C.entity : U.entity[x].kind = C.entity[x].kind
    BY <1>6 DEF EntitySet
  <2> QED BY <2>1, <2>2 DEF Touched
<1>8. \A n \in AllNames : Mean(U, n) = Mean(C, n)
  <2>1. \A r \in Symbols, n \in NameSpaces : get_entity(U, r, n) = get_entity(C, r, n)
    BY <1>5, <1>7, TouchedMeans
  <2> QED BY <2>1, EntryNames DEF Mean
<1>9. Disciplined(U, rest) /\ SameLater(C, U, rest)
  BY <1>4, <1>7, <1>8, SameMeanings
<1>10. Listing(U)
  <2>1. Listing(C)
    BY <1>1, <1>4, ListingSame
  <2>2. \A x : Listable(C, x) => Listable(U, x)
    BY <1>7 DEF Listable, Space
  <2> QED BY <1>7, <2>1, <2>2 DEF Listing
<1>11. /\ \A n \in AllNames : Mean(U, n) = Later(table, open, 2, n)
       /\ \A k \in DOMAIN rest, n \in AllNames : Later(U, rest, k, n) = Later(table, open, k + 2, n)
  <2>1. \A k \in DOMAIN rest, n \in AllNames : Later(U, rest, k, n) = Later(C, rest, k, n)
    BY <1>9 DEF SameLater
  <2> HIDE DEF rest
  <2> QED BY <1>4, <1>8, <2>1
<1>12. Scoping!Next
  <2>1. /\ \A n \in AllNames : Mean(table', n) = Later(table, open, 2, n)
        /\ \A k \in DOMAIN Tail(Tail(open)), n \in AllNames :
             Later(table', Tail(Tail(open)), k, n) = Later(table, open, k + 2, n)
    BY ONLY <1>2, <1>11
  <2>2. open' = Tail(Tail(open))
    BY <1>2
  <2> QED BY <1>1, <1>2, <2>1, <2>2, ReturnStep
<1>13. NoHead(rest) /\ Enclosed(rest, open[2].old_function)
  BY <1>1, <1>2, TailNoHead, EnclosedReturned
<1>14. Pending(U, rest)
  BY <1>13, PendingNone
<1>15. Len(U.entity) <= MaxEntities
  BY <1>1, <1>4, <1>7
<1> HIDE DEF rest
<1> QED BY <1>2, <1>9, <1>10, <1>12, <1>13, <1>14, <1>15 DEF Follows

(***************************************************************************)
(* The definition of a function, from the table T in which its declarator  *)
(* has been put, where B is the table of the scope it stands in. A second  *)
(* definition leaves every name as it was, and the first opens two scopes. *)
(***************************************************************************)
Unmoved(B, U, rest, stk) ==
  /\ stk = rest /\ \A n \in AllNames : Mean(U, n) = Mean(B, n)
  /\ SameLater(B, U, rest)

TwoScopes(B, rest, stk) ==
  /\ Scoping!Define(Vis(B), Out(B, rest))
  /\ stk \in Seq(OpenType) /\ Len(rest) \in Nat /\ Len(stk) = Len(rest) + 2

LEMMA AgainFollows ==
  ASSUME NEW B, Good(B), NEW rest, Nested(B, rest), Disciplined(B, rest), Listing(B),
         Enclosed(rest, current_function), NoHead(rest),
         rest # <<>> => rest[1].what # "function",
         NEW m \in Nat, Len(B.entity) + m <= MaxEntities, NEW T, Grown(B, T, {}, m),
         NEW R, NEW P, FunctionAgain(T, R, P, table', rest, open', current_function')
  PROVE  /\ Listing(table') /\ Disciplined(table', open') /\ Enclosed(open', current_function')
         /\ Pending(table', open') /\ Len(table'.entity) <= MaxEntities
         /\ Unmoved(B, table', rest, open')
<1>1. PICK U : U = table'
  OBVIOUS
<1>2. /\ Grown(T, R, {}, 0) /\ Grown(R, P, PlainNames, 0)
      /\ U = stack_pop_to(P, "env", Len(R.env)) /\ open' = rest
      /\ current_function' = current_function
  BY <1>1 DEF FunctionAgain
<1>3. Grown(B, R, {}, m)
  <2>1. Grown(B, R, {} \cup {}, m + 0)
    BY <1>2, GrownTrans
  <2> QED BY <2>1, GrownWider
<1>4. /\ Larger(B, R) /\ Good(R) /\ Listing(R) /\ Changes(B, R, {})
      /\ Disciplined(R, rest) /\ SameLater(B, R, rest) /\ Len(R.entity) <= Len(B.entity) + m
  BY <1>3 DEF Grown, Larger
<1>5. Nested(R, rest)
  BY <1>4, NestedLarger
<1>6. /\ Good(U) /\ U.entity = P.entity /\ Listing(U) /\ Disciplined(U, rest)
      /\ \A n \in AllNames : Mean(U, n) = Mean(R, n)
      /\ SameLater(R, U, rest)
  BY <1>2, <1>4, <1>5, PutBack
<1>7. \A n \in AllNames : Mean(U, n) = Mean(B, n)
  BY <1>4, <1>6 DEF Changes
<1>8. SameLater(B, U, rest)
  BY <1>4, <1>6 DEF SameLater
<1>9. Len(U.entity) <= MaxEntities
  <2>1. Len(P.entity) <= Len(R.entity) + 0 /\ Good(P)
    BY <1>2 DEF Grown, Larger
  <2>2. Len(U.entity) \in Nat /\ Len(R.entity) \in Nat /\ Len(B.entity) \in Nat
    BY <1>4, <1>6, Lengths
  <2>3. Len(U.entity) = Len(P.entity)
    BY <1>6
  <2> QED BY ONLY <1>4, <2>1, <2>2, <2>3, Len(B.entity) + m <= MaxEntities, m \in Nat,
                  EntityScopesAssumption
<1>10. Pending(U, rest)
  BY PendingNone
<1>11. Unmoved(B, U, rest, open')
  BY <1>2, <1>7, <1>8 DEF Unmoved
<1> QED BY <1>1, <1>2, <1>6, <1>9, <1>10, <1>11

LEMMA BodyNoHead ==
  ASSUME NEW stk \in Seq(OpenType), NoHead(stk), NEW b \in OpenType, NEW c \in OpenType,
         b.what # "kr", c.what # "kr"
  PROVE  NoHead(<< b, c >> \o stk)
<1>1. PICK p : p = << c >> \o stk
  OBVIOUS
<1>2. p \in Seq(OpenType) /\ DOMAIN p = 1 .. Len(stk) + 1 /\ p[1] = c
      /\ \A k \in 1 .. Len(stk) + 1 : k # 1 => k - 1 \in DOMAIN stk /\ p[k] = stk[k - 1]
  BY <1>1, Prepended
<1>3. NoHead(p)
  BY <1>2 DEF NoHead
<1>4. PICK r : r = << b >> \o p
  OBVIOUS
<1>5. DOMAIN r = 1 .. Len(p) + 1 /\ r[1] = b
      /\ \A k \in 1 .. Len(p) + 1 : k # 1 => k - 1 \in DOMAIN p /\ r[k] = p[k - 1]
  BY <1>2, <1>4, Prepended
<1>6. NoHead(r)
  BY <1>3, <1>5 DEF NoHead
<1>7. << b, c >> \o stk = << b >> \o (<< c >> \o stk)
  <2>1. b \in OpenType /\ c \in OpenType /\ stk \in Seq(OpenType)
    OBVIOUS
  <2> QED BY ONLY <2>1, PrependTwo
<1> QED BY <1>1, <1>4, <1>6, <1>7

LEMMA BodyFollows ==
  ASSUME NEW B, Good(B), NEW rest, Nested(B, rest), Disciplined(B, rest), Listing(B),
         Enclosed(rest, current_function), NoHead(rest),
         current_function \in {Null} \cup DOMAIN B.entity,
         rest # <<>> => rest[1].what # "function",
         NEW m \in Nat, Len(B.entity) + m <= MaxEntities, NEW T, Grown(B, T, {}, m),
         NEW s \in Symbols, NEW R, NEW b, NEW c,
         FunctionOpened(T, R, table', << s, "normal" >>, b, c, rest, open', current_function')
  PROVE  /\ Listing(table') /\ Disciplined(table', open') /\ Enclosed(open', current_function')
         /\ Pending(table', open') /\ Len(table'.entity) <= MaxEntities
         /\ TwoScopes(B, rest, open')
<1>1. /\ Grown(T, R, { << s, "normal" >> }, 0) /\ Grown(R, table', PlainNames, 0)
      /\ Len(table'.label) = Len(R.label)
      /\ b \in OpenType /\ c \in OpenType /\ b.what = "block" /\ c.what = "function"
      /\ c.top = Len(R.env) /\ c.label_top = Len(R.label) /\ c.old_scope \in DOMAIN R.scope
      /\ b.top = Len(table'.env) /\ b.label_top = Len(table'.label)
      /\ b.old_scope \in DOMAIN table'.scope
      /\ b.old_function = current_function /\ c.old_function = current_function
      /\ open' = << b, c >> \o rest
  BY DEF FunctionOpened
<1>2. Grown(B, R, { << s, "normal" >> }, m)
  <2>1. Grown(B, R, {} \cup { << s, "normal" >> }, m + 0)
    BY <1>1, GrownTrans
  <2> QED BY <2>1, GrownWider
<1>3. Good(R) /\ DOMAIN B.entity \subseteq DOMAIN R.entity /\ Len(R.entity) <= Len(B.entity) + m
      /\ Listing(R)
  BY <1>2 DEF Grown, Larger
<1>4. Good(table') /\ DOMAIN R.entity \subseteq DOMAIN table'.entity
      /\ Len(table'.entity) <= Len(R.entity) + 0 /\ Listing(table')
  BY <1>1, <1>3 DEF Grown, Larger
<1>5. Len(table'.entity) <= MaxEntities
  <2>1. Len(table'.entity) \in Nat /\ Len(R.entity) \in Nat /\ Len(B.entity) \in Nat
    BY <1>3, <1>4, Lengths
  <2> QED BY ONLY <1>3, <1>4, <2>1, Len(B.entity) + m <= MaxEntities, m \in Nat,
                  EntityScopesAssumption
<1>6. /\ c.old_function \in {Null} \cup DOMAIN R.entity
      /\ b.old_function \in {Null} \cup DOMAIN table'.entity
      /\ b.what # "function" /\ b.what # "kr" /\ c.what # "kr"
  BY <1>1, <1>3, <1>4
<1>7. /\ Disciplined(table', open') /\ Scoping!Define(Vis(B), Out(B, rest))
      /\ open' \in Seq(OpenType) /\ Len(open') = Len(rest) + 2 /\ Len(rest) \in Nat
  BY <1>1, <1>2, <1>5, <1>6, BodyStep
<1>8. rest \in Seq(OpenType)
  BY DEF Nested
<1>9. PICK nf : nf = current_function'
  OBVIOUS
<1>10. Enclosed(<< b, c >> \o rest, nf)
  BY <1>1, <1>8, EnclosedBody
<1>11. NoHead(<< b, c >> \o rest)
  BY <1>1, <1>6, <1>8, BodyNoHead
<1>12. Pending(table', << b, c >> \o rest)
  BY <1>11, PendingNone
<1>13. Enclosed(open', current_function') /\ Pending(table', open')
  BY <1>1, <1>9, <1>10, <1>12
<1>14. TwoScopes(B, rest, open')
  BY <1>7 DEF TwoScopes
<1> QED BY <1>4, <1>5, <1>7, <1>13, <1>14

LEMMA FollowsDefine ==
  ASSUME StackInv, NEW x \in Symbols, NEW q \in Seq(Symbols), Define(x, q)
  PROVE  Follows
<1> DEFINE T   == Declarator(x, q)
           own == Len(table.scope) + 1
           nd  == Fresh(table)
<1>1. MayDefine /\ DefineFunction(T, nd, current_scope, open) /\ Room(1 + Len(q), 2)
  BY DEF Define
<1>2. /\ Good(table) /\ current_scope \in DOMAIN table.scope /\ current_scope \in Nat
      /\ current_function \in Nat /\ current_function \in {Null} \cup DOMAIN table.entity
      /\ Nested(table, open) /\ Listing(table) /\ Disciplined(table, open)
      /\ Enclosed(open, current_function) /\ open \in Seq(OpenType)
      /\ (open # <<>> => open[1].what # "function")
  BY StackTypes
<1>3. NoHead(open)
  BY <1>1, DefineOutside DEF StackInv
<1>4. PICK m : m = 1 + Len(q)
  OBVIOUS
<1>5. m \in Nat /\ Len(table.entity) + m <= MaxEntities /\ Grown(table, T, {}, m)
  <2>1. Grown(table, T, {}, 1 + Len(q))
    BY <1>2, GrownDeclarator
  <2> HIDE DEF T
  <2>2. Len(q) \in Nat
    OBVIOUS
  <2>3. Len(table.entity) + (1 + Len(q)) <= MaxEntities
    BY <1>1 DEF Room
  <2>4. Grown(table, T, {}, m)
    BY <1>4, <2>1
  <2>5. m \in Nat
    BY ONLY <1>4, <2>2
  <2>6. Len(table.entity) + m <= MaxEntities
    BY ONLY <1>4, <2>3
  <2> QED BY <2>4, <2>5, <2>6
<1>6. /\ Larger(table, T) /\ nd \in DOMAIN T.entity
      /\ own \notin DOMAIN table.scope
      /\ FreshEntity(T, nd) /\ T.entity[nd].kind = "function" /\ T.entity[nd].own = own
      /\ \E L \in Seq(DOMAIN T.entity) :
           /\ ListPart(T, own, L)
           /\ \A k \in DOMAIN L : Hidden(T, L[k]) /\ L[k] # nd
  BY <1>2, DeclaredLarger
<1>7. ~T.entity[nd].complete /\ T.entity[nd].symbol = x
  <2>1. Declares(table, T, x, q, Len(q))
    BY <1>2, DeclaratorIs
  <2>2. T.entity[nd] = [kind |-> "function", symbol |-> x, parent_scope |-> Null,
                        own |-> Len(table.scope) + 1, complete |-> FALSE]
    BY <2>1 DEF Declares
  <2> HIDE DEF T, nd
  <2> QED BY <2>2
<1> HIDE DEF T, own, nd
<1>8. PICK L \in Seq(DOMAIN T.entity) :
           /\ ListPart(T, own, L)
           /\ \A k \in DOMAIN L : Hidden(T, L[k]) /\ L[k] # nd
  BY <1>6
<1>9. Good(T) /\ current_scope \in DOMAIN T.scope /\ Listing(T)
  BY <1>2, <1>5, <1>6 DEF Larger, Grown
<1>10. T.link[nd] = Null /\ Ready(T, L, 0)
  BY <1>6, <1>8 DEF FreshEntity, Hidden, Ready
<1>11. T.entity[nd].own # current_scope /\ ListPart(T, T.entity[nd].own, L)
  BY <1>2, <1>6, <1>8
<1>12. NameOf(T, nd) = << x, "normal" >>
  BY <1>6, <1>7 DEF NameOf, Symbol, Space, NameSpaceOf
<1>13. PICK R : \/ \E P : FunctionAgain(T, R, P, table', open, open', current_function')
                \/ \E b, c : FunctionOpened(T, R, table', NameOf(T, nd), b, c, open, open',
                                            current_function')
  BY <1>1, <1>2, <1>6, <1>7, <1>9, <1>10, <1>11, DefinedAs
<1>14. CASE \E P : FunctionAgain(T, R, P, table', open, open', current_function')
  <2>1. PICK P : FunctionAgain(T, R, P, table', open, open', current_function')
    BY <1>14
  <2>2. /\ Listing(table') /\ Disciplined(table', open') /\ Enclosed(open', current_function')
        /\ Pending(table', open') /\ Len(table'.entity) <= MaxEntities
        /\ Unmoved(table, table', open, open')
    BY <1>2, <1>3, <1>5, <2>1, AgainFollows
  <2>3. open' = open /\ (\A n \in AllNames : Mean(table', n) = Mean(table, n))
        /\ SameLater(table, table', open)
    BY <2>2 DEF Unmoved
  <2>4. Vis(table') = Vis(table)
    BY <2>3 DEF Vis
  <2>5. Out(table', open) = Out(table, open)
    BY <2>3, OutSame
  <2>6. UNCHANGED << visible, outer >>
    BY <2>3, <2>4, <2>5, Mapped
  <2> QED BY <2>2, <2>6 DEF Follows
<1>15. CASE \E b, c : FunctionOpened(T, R, table', NameOf(T, nd), b, c, open, open', current_function')
  <2>1. PICK b, c : FunctionOpened(T, R, table', << x, "normal" >>, b, c, open, open',
                                   current_function')
    BY <1>12, <1>15
  <2>2. /\ Listing(table') /\ Disciplined(table', open') /\ Enclosed(open', current_function')
        /\ Pending(table', open') /\ Len(table'.entity) <= MaxEntities
        /\ TwoScopes(table, open, open')
    BY <1>2, <1>3, <1>5, <2>1, BodyFollows
  <2>3. /\ Scoping!Define(Vis(table), Out(table, open))
        /\ open' \in Seq(OpenType) /\ Len(open) \in Nat /\ Len(open') = Len(open) + 2
    BY <2>2 DEF TwoScopes
  <2>4. Scoping!Opened = Len(open') - Len(open)
    BY <1>2, <2>3, OpenedIs
  <2>5. Scoping!Opened = 2
    <3>1. PICK a, d, o : a = Len(open) /\ d = Len(open') /\ o = Scoping!Opened
      OBVIOUS
    <3>2. o = 2
      BY ONLY <2>3, <2>4, <3>1
    <3> QED BY <3>1, <3>2
  <2>6. Scoping!Define(visible, outer)
    BY <2>3, Mapped
  <2>7. Scoping!Next
    BY <2>5, <2>6 DEF Scoping!Next
  <2> QED BY <2>2, <2>7 DEF Follows
<1> QED BY <1>13, <1>14, <1>15

LEMMA FollowsDefineAfterHead ==
  ASSUME StackInv, DefineAfterHead
  PROVE  Follows
<1> DEFINE T == stack_pop_to(table, "env", open[1].top)
           nd == open[1].declared
           s  == open[1].old_scope
           rest == Tail(open)
<1>1. /\ Good(table) /\ current_scope \in DOMAIN table.scope /\ current_scope \in Nat
      /\ current_function \in Nat /\ current_function \in {Null} \cup DOMAIN table.entity
      /\ Nested(table, open) /\ Listing(table) /\ Disciplined(table, open)
      /\ Enclosed(open, current_function) /\ open \in Seq(OpenType)
      /\ Inv(table, current_scope, current_function, open) /\ Pending(table, open)
      /\ Len(table.entity) \in Nat /\ Len(table.entity) <= MaxEntities
  BY StackTypes
<1>2. open # <<>> /\ Head(open).what = "kr"
  BY DEF DefineAfterHead, InHead, Innermost
<1>3. /\ Head(open) = open[1] /\ 1 \in DOMAIN open /\ open[1] \in OpenType
      /\ rest \in Seq(OpenType) /\ Len(open) \in Nat /\ Len(rest) = Len(open) - 1
      /\ DOMAIN rest = 1 .. Len(open) - 1
      /\ \A k \in DOMAIN rest : k \in Nat /\ k + 1 \in DOMAIN open /\ rest[k] = open[k + 1]
  BY <1>1, <1>2, TailIs
<1>4. DefineFunction(T, nd, s, rest)
  BY <1>3 DEF DefineAfterHead
<1>5. open[1].what = "kr" /\ open[1].what # "function" /\ open[1].what # "block"
  BY <1>2, <1>3
<1>6. /\ Good(T) /\ T.entity = table.entity /\ T.next = table.next /\ T.scope = table.scope
      /\ Disciplined(T, rest)
      /\ \A n \in AllNames : Mean(T, n) = Later(table, open, 1, n)
      /\ \A k \in DOMAIN rest, n \in AllNames : Later(T, rest, k, n) = Later(table, open, k + 1, n)
  BY <1>1, <1>2, <1>5, Closed
<1>7. s # current_scope /\ \E L : HeadList(table, open[1].top, current_scope, nd, L)
  BY <1>1, <1>2, <1>3 DEF Inv, Headed
<1>8. PICK L : HeadList(table, open[1].top, current_scope, nd, L)
  BY <1>7
<1>9. Ready(T, L, 0) /\ Hidden(table, nd) /\ ListPart(table, current_scope, L)
      /\ table.entity[nd].kind = "function" /\ table.entity[nd].own = current_scope
  BY <1>8 DEF HeadList, EnvPart
<1>10. /\ open[1].top \in 0 .. Len(table.env) /\ open[1].top \in 0 .. Len(StackOf(table, "env"))
       /\ open[1].label_top \in 0 .. Len(table.label)
  BY <1>1, <1>3, TopRange DEF StackOf
<1>11. Hidden(T, nd) /\ Len(T.env) = open[1].top /\ Len(T.label) = Len(table.label)
  BY <1>1, <1>9, <1>10, HiddenPop, GoodPopTo DEF Good
<1> HIDE DEF T, nd, s
<1>12. /\ open[1].top <= Len(T.env) /\ open[1].label_top <= Len(T.label)
       /\ DOMAIN table.scope \subseteq DOMAIN T.scope /\ DOMAIN table.entity \subseteq DOMAIN T.entity
  BY <1>6, <1>10, <1>11
<1>13. Nested(T, rest)
  BY <1>1, <1>2, <1>6, <1>12, NestedClosed
<1>14. ListPart(T, current_scope, L) /\ Listing(T)
  BY <1>1, <1>6, <1>9, ListingSame DEF ListPart
<1>15. s \in DOMAIN T.scope
  BY <1>1, <1>3, <1>6 DEF Nested, s
<1>16. nd \in DOMAIN T.entity /\ T.link[nd] = Null
  BY <1>11 DEF Hidden
<1>17. T.entity[nd].kind = "function" /\ T.entity[nd].own # s /\ ListPart(T, T.entity[nd].own, L)
  BY <1>6, <1>7, <1>9, <1>14
<1>18. ~T.entity[nd].complete
  BY <1>1, <1>3, <1>5, <1>6 DEF Pending, nd
<1>19. /\ Len(open) >= 2 => open[2].what # "function"
       /\ rest # <<>> => rest[1].what # "function"
  <2>1. StackInv /\ open # <<>> /\ open[1].what # "block"
    BY <1>2, <1>5
  <2>2. Len(open) >= 2 => open[2].what # "function"
    BY <2>1, NotBody
  <2>3. ASSUME rest # <<>> PROVE rest[1].what # "function"
    <3>1. Len(rest) # 0
      BY <1>3, <2>3
    <3>2. 1 \in DOMAIN rest /\ Len(open) >= 2
      BY <1>3, <3>1
    <3>3. rest[1] = open[2]
      BY <1>3, <3>2
    <3> QED BY <2>2, <3>2, <3>3
  <2> QED BY <2>2, <2>3
<1>20. NoHead(rest) /\ Enclosed(rest, current_function)
  BY <1>1, <1>2, <1>19, TailNoHead, EnclosedClosed
<1>21. /\ 0 \in Nat /\ Len(T.entity) + 0 <= MaxEntities /\ Grown(T, T, {}, 0)
       /\ current_function \in {Null} \cup DOMAIN T.entity
  BY <1>1, <1>6, GrownSelf
<1>22. NameOf(T, nd) = << Symbol(T, nd), "normal" >> /\ Symbol(T, nd) \in Symbols
  <2>1. T.entity[nd] \in EntityType
    BY <1>6, <1>16, Lengths, EntityFacts
  <2> QED BY <1>17, <2>1 DEF NameOf, Symbol, Space, NameSpaceOf, EntityType
<1>23. PICK R : \/ \E P : FunctionAgain(T, R, P, table', rest, open', current_function')
                \/ \E b, c : FunctionOpened(T, R, table', NameOf(T, nd), b, c, rest, open',
                                            current_function')
  BY <1>1, <1>4, <1>6, <1>9, <1>14, <1>15, <1>16, <1>17, <1>18, DefinedAs
<1>24. CASE \E P : FunctionAgain(T, R, P, table', rest, open', current_function')
  <2>1. PICK P : FunctionAgain(T, R, P, table', rest, open', current_function')
    BY <1>24
  <2>2. /\ Listing(table') /\ Disciplined(table', open') /\ Enclosed(open', current_function')
        /\ Pending(table', open') /\ Len(table'.entity) <= MaxEntities
        /\ Unmoved(T, table', rest, open')
    BY <1>6, <1>13, <1>14, <1>19, <1>20, <1>21, <2>1, AgainFollows
  <2>3. open' = rest /\ (\A n \in AllNames : Mean(table', n) = Mean(T, n))
        /\ SameLater(T, table', rest)
    BY <2>2 DEF Unmoved
  <2>4. /\ \A n \in AllNames : Mean(table', n) = Later(table, open, 1, n)
        /\ \A k \in DOMAIN Tail(open), n \in AllNames :
             Later(table', Tail(open), k, n) = Later(table, open, k + 1, n)
    <3>1. \A n \in AllNames : Mean(table', n) = Later(table, open, 1, n)
      BY <1>6, <2>3
    <3>2. \A k \in DOMAIN rest, n \in AllNames : Later(table', rest, k, n) = Later(T, rest, k, n)
      BY <2>3 DEF SameLater
    <3>3. \A k \in DOMAIN rest, n \in AllNames :
             Later(table', rest, k, n) = Later(table, open, k + 1, n)
      <4>1. TAKE k \in DOMAIN rest, n \in AllNames
      <4>2. Later(T, rest, k, n) = Later(table, open, k + 1, n)
        BY <1>6
      <4> QED BY <3>2, <4>2
    <3> QED BY <3>1, <3>3
  <2>5. open' = Tail(open)
    BY <2>3
  <2>6. Scoping!Next
    BY <1>1, <1>2, <2>4, <2>5, CloseStep
  <2> QED BY <2>2, <2>6 DEF Follows
<1>25. CASE \E b, c : FunctionOpened(T, R, table', NameOf(T, nd), b, c, rest, open', current_function')
  <2>0. PICK x \in Symbols : x = Symbol(T, nd)
    BY <1>22
  <2>1. PICK b, c : FunctionOpened(T, R, table', << x, "normal" >>, b, c, rest, open',
                                   current_function')
    BY <1>22, <1>25, <2>0
  <2>2. /\ Listing(table') /\ Disciplined(table', open') /\ Enclosed(open', current_function')
        /\ Pending(table', open') /\ Len(table'.entity) <= MaxEntities
        /\ TwoScopes(T, rest, open')
    BY <1>6, <1>13, <1>14, <1>19, <1>20, <1>21, <2>1, BodyFollows
  <2>3. /\ Scoping!Define(Vis(T), Out(T, rest))
        /\ open' \in Seq(OpenType) /\ Len(rest) \in Nat /\ Len(open') = Len(rest) + 2
    BY <2>2 DEF TwoScopes
  <2>4. Scoping!Opened = Len(open') - Len(open)
    BY <1>1, <2>3, OpenedIs
  <2>5. Scoping!Opened = 1
    <3>1. PICK a, d, e, o : a = Len(open) /\ d = Len(open') /\ e = Len(rest) /\ o = Scoping!Opened
      OBVIOUS
    <3>2. a \in Nat /\ e = a - 1 /\ d = e + 2 /\ o = d - a
      BY <1>3, <2>3, <2>4, <3>1
    <3>3. o = 1
      BY ONLY <3>2
    <3> QED BY <3>1, <3>3
  <2>6. Vis(T) = Head(Out(table, open)).env /\ Out(T, rest) = Tail(Out(table, open))
    BY <1>1, <1>2, <1>6, OutTail
  <2>7. Scoping!Define(Head(outer).env, Tail(outer))
    BY <2>3, <2>6, Mapped
  <2>8. outer # <<>>
    <3>1. DOMAIN Out(table, open) = 1 .. Len(open)
      BY <1>1, OutIs
    <3>2. 1 \in DOMAIN outer
      BY <1>1, <1>3, <3>1, Mapped
    <3> QED BY <3>2
  <2>9. Scoping!Next
    BY <2>5, <2>7, <2>8 DEF Scoping!Next
  <2> QED BY <2>2, <2>9 DEF Follows
<1> QED BY <1>23, <1>24, <1>25

-----------------------------------------------------------------------------
(***************************************************************************)
(* The first use of a label.                                               *)
(***************************************************************************)
\* The windows p with the name n set to e in those of the current function.
Labelled(o, p, stk, n, e) ==
  o = [k \in DOMAIN p |->
         IF FunctionsUpTo(stk, k) = {} THEN [p[k] EXCEPT !.env[n] = e] ELSE p[k]]

LEMMA LabelledOut ==
  ASSUME NEW T, NEW U, NEW stk \in Seq(OpenType), NEW n \in AllNames, NEW e,
         \A k \in DOMAIN stk, x \in AllNames :
           Later(U, stk, k, x) = IF FunctionsUpTo(stk, k) = {} /\ x = n THEN e
                                 ELSE Later(T, stk, k, x)
  PROVE  Labelled(Out(U, stk), Out(T, stk), stk, n, e)
<1> DEFINE F(k) == [x \in AllNames |-> Later(T, stk, k, x)]
           G(k) == [x \in AllNames |-> Later(U, stk, k, x)]
<1>1. /\ DOMAIN Out(T, stk) = DOMAIN stk
      /\ \A k \in DOMAIN stk : Out(T, stk)[k] = Window(F(k), stk[k])
      /\ Out(U, stk) = [k \in DOMAIN stk |-> Window(G(k), stk[k])]
  BY DEF Out
<1>2. ASSUME NEW k \in DOMAIN stk
      PROVE  Window(G(k), stk[k])
               = IF FunctionsUpTo(stk, k) = {} THEN [Out(T, stk)[k] EXCEPT !.env[n] = e]
                 ELSE Out(T, stk)[k]
  <2>1. CASE FunctionsUpTo(stk, k) = {}
    <3>1. G(k) = [F(k) EXCEPT ![n] = e]
      BY <2>1
    <3>2. n \in DOMAIN F(k)
      OBVIOUS
    <3> HIDE DEF F, G
    <3>3. PICK f, c : f = F(k) /\ c = stk[k]
      OBVIOUS
    <3>4. n \in DOMAIN f
      BY <3>2, <3>3
    <3>5. [Window(f, c) EXCEPT !.env[n] = e] = Window([f EXCEPT ![n] = e], c)
      BY ONLY <3>4 DEF Window
    <3>6. Out(T, stk)[k] = Window(f, c) /\ Window(G(k), stk[k]) = Window([f EXCEPT ![n] = e], c)
      BY <1>1, <3>1, <3>3
    <3> QED BY ONLY <2>1, <3>5, <3>6
  <2>2. CASE FunctionsUpTo(stk, k) # {}
    <3>1. G(k) = F(k)
      BY <2>2
    <3> HIDE DEF F, G
    <3> QED BY <1>1, <2>2, <3>1
  <2> QED BY <2>1, <2>2
<1> HIDE DEF F, G
<1> QED BY <1>1, <1>2 DEF Labelled

LEMMA LabelStep ==
  ASSUME open \in Seq(OpenType), open' = open, NEW s \in Symbols, NEW e \in 1 .. MaxEntities,
         \E k \in DOMAIN open : open[k].what = "function",
         \A x \in AllNames : Mean(table', x) = IF x = << s, "label" >> THEN e ELSE Mean(table, x),
         \A k \in DOMAIN open, x \in AllNames :
           Later(table', open, k, x) = IF FunctionsUpTo(open, k) = {} /\ x = << s, "label" >> THEN e
                                       ELSE Later(table, open, k, x)
  PROVE  Scoping!Next
<1> DEFINE n == << s, "label" >>
<1>1. n \in AllNames
  BY DEF AllNames, NameSpaces
<1>2. /\ visible = Vis(table) /\ outer = Out(table, open)
      /\ visible' = Vis(table') /\ outer' = Out(table', open)
  BY Mapped
<1>3. /\ \A x \in AllNames : visible'[x] = IF x = n THEN e ELSE visible[x]
      /\ visible'[n] = e
  BY <1>1, <1>2 DEF Vis
<1>4. DOMAIN outer = DOMAIN open
      /\ \A k \in DOMAIN open : outer[k].function = (open[k].what = "function")
  BY <1>2 DEF Out, Window
<1>5. DOMAIN open = 1 .. Len(open) /\ Len(open) \in Nat
  OBVIOUS
<1>6. \E i \in DOMAIN outer : outer[i].function
  BY <1>4
<1>7. Scoping!Declares(visible', visible, {n})
  BY <1>3 DEF Scoping!Declares, Scoping!Names, Scoping!NameSpaces, AllNames, NameSpaces
<1>8. ASSUME NEW k \in DOMAIN open
      PROVE  Scoping!InFunction(k) <=> FunctionsUpTo(open, k) = {}
  <2>1. \A j \in 1 .. k : j \in DOMAIN open
    BY <1>5
  <2> QED BY <1>4, <2>1 DEF Scoping!InFunction, FunctionsUpTo
<1>9. outer' = [k \in DOMAIN outer |->
                  IF FunctionsUpTo(open, k) = {} THEN [outer[k] EXCEPT !.env[n] = e]
                  ELSE outer[k]]
  <2> HIDE DEF n
  <2>1. \A k \in DOMAIN open, x \in AllNames :
           Later(table', open, k, x) = IF FunctionsUpTo(open, k) = {} /\ x = n THEN e
                                       ELSE Later(table, open, k, x)
    BY DEF n
  <2>2. Labelled(Out(table', open), Out(table, open), open, n, e)
    BY <1>1, <2>1, LabelledOut
  <2> QED BY ONLY <1>2, <2>2 DEF Labelled
<1>10. outer' = [i \in DOMAIN outer |->
                   IF Scoping!InFunction(i) THEN [outer[i] EXCEPT !.env[n] = visible'[n]]
                   ELSE outer[i]]
  <2>1. \A k \in DOMAIN outer : Scoping!InFunction(k) <=> FunctionsUpTo(open, k) = {}
    BY <1>4, <1>8
  <2>2. visible'[n] = e
    BY <1>3
  <2> QED BY ONLY <1>9, <2>1, <2>2
<1>11. Scoping!UseLabel(s)
  BY <1>6, <1>7, <1>10 DEF Scoping!UseLabel
<1>12. Scoping!Opened = 0
  <2>1. Scoping!Opened = Len(open') - Len(open)
    BY OpenedIs
  <2>2. Len(open') = Len(open)
    OBVIOUS
  <2> QED BY ONLY <1>5, <2>1, <2>2
<1> QED BY <1>11, <1>12 DEF Scoping!Next

LEMMA FollowsUseLabel ==
  ASSUME StackInv, NEW s \in Symbols, UseLabel(s)
  PROVE  Follows
<1> DEFINE e      == get_entity(table, s, "label")
           parent == table.entity[e].parent_scope
           own    == table.entity[current_function].own
           T      == Allocate(table, "label", s, own)
           b      == table.aborted \/ (/\ parent # current_scope
                                       /\ table.scope[parent].depth
                                            >= table.scope[current_scope].depth)
           X      == [table EXCEPT !.aborted = b]
           P      == stack_push(T, "label", Fresh(table))
           n      == << s, "label" >>
           f      == Fresh(table)
<1>1. /\ get_label(s) /\ Innermost("block") /\ Room(1, 0)
      /\ open' = open /\ current_function' = current_function
      /\ UNCHANGED << current_function, open >>
  BY DEF UseLabel
<1>2. /\ Good(table) /\ Shape(table) /\ Nested(table, open) /\ Listing(table)
      /\ Disciplined(table, open) /\ Enclosed(open, current_function) /\ Pending(table, open)
      /\ Inv(table, current_scope, current_function, open) /\ open \in Seq(OpenType)
      /\ Len(table.entity) \in Nat
  BY StackTypes
<1>3. {n} \in Scoping!Declarations /\ {} \subseteq {n} /\ n \in AllNames
  BY DeclarationSets DEF NameSpaces, AllNames
<1>4. \/ table' = X
      \/ table' = table
      \/ /\ table' = P
         /\ ~(e # Null /\ table.entity[e].kind = "local_label")
  BY <1>1 DEF get_label
<1>5. 0 \in Nat /\ 1 \in Nat /\ 0 <= 1
  OBVIOUS
<1>6. CASE table' = table
  <2>1. Grown(table, table', {}, 0)
    BY <1>2, <1>6, GrownSelf
  <2> QED BY <1>1, <1>3, <1>5, <2>1, StayFollows
<1>7. CASE table' = X
  <2>1. b \in BOOLEAN
    OBVIOUS
  <2> HIDE DEF b
  <2>2. AbortedPut(table, X, b)
    BY DEF AbortedPut
  <2> HIDE DEF X
  <2>3. /\ Larger(table, X) /\ Touched(table, X) /\ X.entity = table.entity /\ X.scope = table.scope
        /\ X.next = table.next
    BY <1>2, <2>1, <2>2, LargerAborted
  <2>4. Kept(table, X)
    BY <2>3 DEF Kept
  <2>5. Listing(X)
    BY <1>2, <2>3, ListingSame
  <2>6. Grown(table, X, {}, 0)
    BY <1>2, <2>3, <2>4, <2>5, GrownTouched
  <2>7. Grown(table, table', {}, 0)
    BY <1>7, <2>6
  <2> QED BY <1>1, <1>3, <1>5, <2>7, StayFollows
<1>8. CASE /\ table' = P
           /\ ~(e # Null /\ table.entity[e].kind = "local_label")
  <2>1. own \in Nat /\ current_function # Null
    <3>1. current_function # Null /\ current_function \in DOMAIN table.entity
      BY <1>1, InBlock DEF StackInv
    <3>2. table.entity[current_function] \in EntityType
      BY <1>2, <3>1, EntityFacts
    <3> QED BY <3>1, <3>2 DEF EntityType
  <2>2. /\ Good(T) /\ FreshEntity(T, f) /\ Allocated(table, T, "label", s, own)
        /\ Grown(table, T, {}, 1)
    BY <1>2, <2>1, FreshAllocated, GrownAllocate DEF Kinds
  <2>3. /\ T.env = table.env /\ f \in DOMAIN T.entity /\ T.link[f] = Null
        /\ T.entity[f].symbol = s /\ T.entity[f].kind = "label"
        /\ Len(T.entity) = Len(table.entity) + 1
    BY <2>2 DEF Allocated, FreshEntity, Hidden
  <2> HIDE DEF T, f
  <2>4. LabelPut(T, stack_push(T, "label", f), f)
    <3> DEFINE Q == stack_push(T, "label", f)
    <3>1. Table(T) /\ Chained(T)
      BY <2>2 DEF Good
    <3>2. Pushed(T, Q, f)
      BY <2>3, <3>1, PushMeans
    <3>3. /\ Q.entity = T.entity /\ Q.next = T.next /\ Q.scope = T.scope
          /\ Q.env = T.env /\ Q.label = Append(T.label, Entry(T, f))
      BY <2>3, <3>1, PushFields
    <3>4. Larger(T, Q)
      BY <2>2, LargerStackPush
    <3> HIDE DEF Q
    <3>5. LabelPut(T, Q, f)
      BY <2>3, <3>2, <3>3, <3>4 DEF LabelPut
    <3> QED BY <3>5 DEF Q
  <2>5. PICK U : U = table' /\ LabelPut(T, U, f)
    BY <1>8, <2>4 DEF f
  <2>6. n = NameOf(T, f)
    BY <2>3 DEF NameOf, Symbol, Space, NameSpaceOf
  <2>7. ASSUME NEW i \in DOMAIN T.env PROVE Name(T.env[i]) # n
    <3> SUFFICES ASSUME Name(T.env[i]) = n PROVE FALSE
      OBVIOUS
    <3>1. Name(table.env[i]) = n /\ i \in DOMAIN table.env
      BY <2>3
    <3>2. table.env[i].namespc = "label"
      BY <3>1 DEF Name
    <3>3. IsLocal(table, Mean(table, n))
      BY <1>2, <3>1, <3>2 DEF Disciplined, Locals
    <3>4. Mean(table, n) = e
      BY DEF Mean
    <3>5. e \in DOMAIN table.entity /\ table.entity[e].kind = "local_label"
      BY <3>3, <3>4 DEF IsLocal
    <3>6. e # Null
      BY <1>2, <3>5, EntityFacts
    <3> QED BY <1>8, <3>5, <3>6
  <2>8. /\ Nested(T, open) /\ Disciplined(T, open) /\ SameLater(table, T, open)
        /\ Changes(table, T, {}) /\ Kept(table, T) /\ Listing(T)
    <3>1. Larger(table, T)
      BY <2>2 DEF Grown
    <3>2. Nested(T, open)
      BY <1>2, <3>1, NestedLarger
    <3> QED BY <1>2, <2>2, <3>2 DEF Grown
  <2>9. /\ Disciplined(U, open)
        /\ \A x \in AllNames : Mean(U, x) = IF x = n THEN f ELSE Mean(T, x)
        /\ \A k \in DOMAIN open, x \in AllNames :
             Later(U, open, k, x) = IF FunctionsUpTo(open, k) = {} /\ x = n THEN f
                                    ELSE Later(T, open, k, x)
    BY <2>2, <2>5, <2>6, <2>7, <2>8, LabelPushed
  <2>10. \A x \in AllNames : Mean(U, x) = IF x = n THEN f ELSE Mean(table, x)
    <3>1. \A x \in AllNames : Mean(T, x) = Mean(table, x)
      BY <2>8 DEF Changes
    <3> QED BY <2>9, <3>1
  <2>11. \A k \in DOMAIN open, x \in AllNames :
             Later(U, open, k, x) = IF FunctionsUpTo(open, k) = {} /\ x = n THEN f
                                    ELSE Later(table, open, k, x)
    <3>1. \A k \in DOMAIN open, x \in AllNames : Later(T, open, k, x) = Later(table, open, k, x)
      BY <2>8 DEF SameLater
    <3> QED BY <2>9, <3>1
  <2>12. f \in 1 .. MaxEntities /\ Len(U.entity) <= MaxEntities /\ Listing(U) /\ Kept(T, U)
    <3>1. U.entity = T.entity /\ U.next = T.next /\ U.scope = T.scope
      BY <2>5 DEF LabelPut
    <3>2. Listing(U)
      BY <2>8, <3>1, ListingSame
    <3>3. Kept(T, U)
      BY <3>1 DEF Kept
    <3>4. f = Len(table.entity) + 1 /\ Len(table.entity) + 1 <= MaxEntities
      BY <1>1 DEF f, Fresh, Room
    <3>5. f \in 1 .. MaxEntities /\ Len(U.entity) <= MaxEntities
      BY <1>2, <2>3, <3>1, <3>4, EntityScopesAssumption
    <3> QED BY <3>2, <3>3, <3>5
  <2>13. Pending(U, open)
    <3>1. DOMAIN table.entity \subseteq DOMAIN T.entity
      BY <2>2 DEF Grown, Larger
    <3>2. Kept(table, U)
      BY <2>8, <2>12, <3>1 DEF Kept
    <3> QED BY <1>2, <3>2, PendingStays
  <2>14. \E k \in DOMAIN open : open[k].what = "function"
    BY <1>2, <2>1 DEF Enclosed
  <2>15. /\ \A x \in AllNames : Mean(table', x) = IF x = << s, "label" >> THEN f ELSE Mean(table, x)
         /\ \A k \in DOMAIN open, x \in AllNames :
              Later(table', open, k, x)
                = IF FunctionsUpTo(open, k) = {} /\ x = << s, "label" >> THEN f
                  ELSE Later(table, open, k, x)
    BY ONLY <2>5, <2>10, <2>11 DEF n
  <2>16. Scoping!Next
    BY <1>1, <1>2, <2>12, <2>14, <2>15, LabelStep
  <2> QED BY <1>1, <1>2, <2>5, <2>9, <2>12, <2>13, <2>16 DEF Follows
<1> QED BY <1>4, <1>6, <1>7, <1>8

-----------------------------------------------------------------------------
(***************************************************************************)
(* Every step.                                                             *)
(***************************************************************************)
LEMMA StepFollows ==
  ASSUME StackInv, Covered, Step
  PROVE  Follows
<1>1. ASSUME NEW s \in Symbols, NEW kind \in {"variable", "typedef", "function"}, Declare(s, kind)
      PROVE  Follows
  BY <1>1, FollowsDeclare
<1>2. ASSUME NEW s \in Symbols, NEW how, CompoundSpecifier(s, how)
      PROVE  Follows
  BY <1>2, FollowsSpecifier
<1>3. ASSUME NEW s \in Symbols, NEW v \in {<<>>} \cup { <<n>> : n \in Symbols }, EnumSpecifier(s, v)
      PROVE  Follows
  <2>1. v = <<>> \/ \E m \in Symbols : v = << m >>
    OBVIOUS
  <2> QED BY <1>3, <2>1, FollowsEnum
<1>4. ASSUME NEW s \in Symbols, NEW p \in ParameterLists, Define(s, p)
      PROVE  Follows
  BY <1>4, ParametersAreSequences, FollowsDefine
<1>5. ASSUME NEW s \in Symbols, NEW p \in ParameterLists, OpenHead(s, p)
      PROVE  Follows
  BY <1>5, ParametersAreSequences, FollowsOpenHead
<1>6. ASSUME NEW s \in Symbols,
             DeclareParameter(s) \/ UseLabel(s) \/ LocalLabel(s) \/ OpenNamespace(s)
      PROVE  Follows
  BY <1>6, FollowsDeclareParameter, FollowsUseLabel, FollowsLocalLabel, FollowsOpenNamespace
<1>7. ASSUME OpenBlock \/ CloseBlock \/ AbandonHead \/ DefineAfterHead \/ CloseFunction
               \/ CloseNamespace
      PROVE  Follows
  BY <1>7, FollowsOpenBlock, FollowsCloseBlock, FollowsAbandonHead, FollowsDefineAfterHead,
     FollowsCloseFunction, FollowsCloseNamespace
<1> QED BY <1>1, <1>2, <1>3, <1>4, <1>5, <1>6, <1>7 DEF Step

LEMMA StackStep ==
  ASSUME StackInv, Covered, Next
  PROVE  StackInv' /\ (Scoping!Next \/ UNCHANGED << visible, outer >>)
<1>1. Step
  BY DEF Next
<1>2. Follows
  BY <1>1, StepFollows
<1>3. ScopeInv'
  BY <1>1, StepInv DEF StackInv
<1> QED BY <1>2, <1>3 DEF Follows, StackInv

LEMMA StackInit ==
  ASSUME Init
  PROVE  StackInv /\ Scoping!Init
<1>1. ScopeInv
  BY InitInv
<1>2. /\ table.entity = <<>> /\ table.next = <<>> /\ table.scope = << NewScope >>
      /\ table.head = [s \in Symbols |-> Null] /\ table.link = <<>> /\ table.env = <<>>
      /\ table.label = <<>> /\ open = <<>> /\ current_function = Null
  BY DEF Init
<1>3. Listing(table)
  <2>1. DOMAIN table.next = {} /\ DOMAIN table.scope = {1} /\ table.scope[1] = NewScope
    BY <1>2
  <2>2. NewScope.entities = Null
    BY DEF NewScope
  <2> QED BY <2>1, <2>2 DEF Listing, Listable
<1>4. Disciplined(table, open)
  <2>1. DOMAIN table.env = {} /\ DOMAIN table.label = {}
    BY <1>2
  <2> QED BY <2>1 DEF Disciplined, Steady, Locals, Apart
<1>5. Enclosed(open, current_function) /\ Pending(table, open)
  <2>1. DOMAIN open = {}
    BY <1>2
  <2> QED BY <1>2, <2>1 DEF Enclosed, Pending
<1>6. Len(table.entity) <= MaxEntities
  BY <1>2, EntityScopesAssumption
<1>7. \A n \in AllNames : visible[n] = Null
  <2>1. Good(table)
    BY <1>1, InvTypes
  <2>2. ASSUME NEW n \in AllNames PROVE Mean(table, n) = Null
    <3> SUFFICES ASSUME Mean(table, n) # Null PROVE FALSE
      OBVIOUS
    <3>1. Mean(table, n) \in DOMAIN table.entity
      BY <2>1, MeanNamed
    <3> QED BY <1>2, <3>1
  <2> QED BY <2>2, Mapped DEF Vis
<1>8. Scoping!Init
  <2>1. visible = [n \in AllNames |-> Null]
    BY <1>7, Mapped DEF Vis
  <2>2. outer = <<>>
    BY <1>2 DEF outer
  <2> QED BY <2>1, <2>2 DEF Scoping!Init, Scoping!Names, Scoping!NameSpaces, AllNames, NameSpaces
<1> QED BY <1>1, <1>3, <1>4, <1>5, <1>6, <1>8 DEF StackInv

\* What StackInv says of the lists and the two stacks is true of every table
\* that parser.c can come to: a name that has an entry on environment_stack or
\* label_stack means something, only the oldest entry of a name remembers that
\* it meant nothing, and where the entry of a local label outlives the body of
\* a function, so does that of the label it replaces.
THEOREM StacksDisciplined == Spec /\ Covered => [](StackInv /\ Covered)
<1>1. Init => StackInv
  BY StackInit
<1>2. StackInv /\ Covered /\ [Next]_vars => (StackInv /\ Covered)'
  <2> SUFFICES ASSUME StackInv, Covered, [Next]_vars
               PROVE  StackInv' /\ Covered'
    OBVIOUS
  <2>1. CASE Next
    BY <2>1, StackStep DEF Next, Covered
  <2>2. CASE UNCHANGED vars
    <3>1. /\ dialect' = dialect /\ table' = table /\ current_scope' = current_scope
          /\ current_function' = current_function /\ open' = open
      BY <2>2 DEF vars
    <3>2. Covered'
      BY <3>1 DEF Covered
    <3>3. ScopeInv'
      BY <3>1 DEF StackInv, ScopeInv
    <3> QED BY <3>1, <3>2, <3>3 DEF StackInv
  <2> QED BY <2>1, <2>2
<1> QED BY <1>1, <1>2, PTL DEF Spec

\* stack_push(), stack_pop_to(), environment_push() and the handlers of
\* parser.c that use them implement lexical scoping, whatever the identifiers
\* and however long the input: a name means the innermost declaration of it,
\* and the end of every construct gives back what each name meant before it.
THEOREM Implements == Spec /\ Covered => LexicallyScoped
<1>1. Init => Scoping!Init
  BY StackInit
<1>2. StackInv /\ Covered /\ [Next]_vars => [Scoping!Next]_(Scoping!vars)
  <2> SUFFICES ASSUME StackInv, Covered, [Next]_vars
               PROVE  [Scoping!Next]_(Scoping!vars)
    OBVIOUS
  <2>1. CASE Next
    BY <2>1, StackStep DEF Scoping!vars
  <2>2. CASE UNCHANGED vars
    <3>1. table' = table /\ open' = open
      BY <2>2 DEF vars
    <3>2. visible' = visible /\ outer' = outer
      BY <3>1, Mapped
    <3> QED BY <3>2 DEF Scoping!vars
  <2> QED BY <2>1, <2>2
<1> QED BY <1>1, <1>2, StacksDisciplined, PTL DEF Spec, LexicallyScoped, Scoping!Spec
=============================================================================
