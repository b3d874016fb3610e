---------------------------- MODULE HashSetProofs ----------------------------
(***************************************************************************)
(* No search of the hash set fails to end, and it implements a set of      *)
(* keys, for any keys, hash function and sizes for which the probes cover  *)
(* the table.                                                              *)
(*                                                                         *)
(* Searches end because the table has an empty entry whenever it is        *)
(* searched. insert_nogrow() counts an entry that is used again once       *)
(* more, so num_elements bounds the entries in use from above (Counted);   *)
(* and it is kept below num_buckets (Room), while the table is resized by  *)
(* what is still to be inserted. That the table shrinks to a size into     *)
(* which its elements fit needs the other half of Counted: hashset_size()  *)
(* is the number of living entries.                                        *)
(***************************************************************************)
EXTENDS HashSet, FiniteSetTheorems, WellFoundedInduction, TLAPS

Used(f)  == { b \in DOMAIN f : f[b] # Empty }
Alive(f) == { b \in DOMAIN f : f[b] \in Key }
Put(f, p, v) == [f EXCEPT ![p] = v]
ToCome   == { b \in OldBuckets : next <= b /\ old_entries[b] \in Key }

Counted ==
  /\ Cardinality(Alive(entries)) = hashset_size
  /\ Cardinality(Used(entries)) <= num_elements

\* The table holds what it will be asked to hold, and one entry is left for
\* the searches.
Room ==
  /\ pc = "idle" => num_elements < num_buckets
  /\ pc = "grow" => num_elements <= num_buckets
  /\ pc = "insert" => num_elements + 1 < num_buckets
  /\ pc = "shrinking" => num_elements + Cardinality(ToCome) <= num_buckets
  /\ pc = "growing" => num_elements + Cardinality(ToCome) + 1 < num_buckets

\* No entry of a table that is being filled was deleted; what is inserted is
\* a key.
Filling ==
  /\ pc \in {"shrinking", "growing"} =>
       num_deleted = 0 /\ \A b \in Buckets : entries[b] # Deleted
  /\ pc # "idle" => key \in Key

IInv == TypeOK /\ NotAborted /\ Counted /\ Room /\ Filling

-----------------------------------------------------------------------------
\* First() is the least element.
LEMMA FirstIsLeast ==
  ASSUME NEW S \in SUBSET Nat, S # {}
  PROVE  First(S) \in S /\ \A m \in S : First(S) <= m
<1> DEFINE Less == { ss \in Nat \X Nat : ss[1] < ss[2] }
<1>1. IsWellFoundedOn(Less, Nat)
  BY NatLessThanWellFounded DEF OpToRel
<1>2. PICK n \in S : \A m \in S : << m, n >> \notin Less
  <2> HIDE DEF Less
  <2> QED BY <1>1, WFMin
<1>3. ASSUME NEW m \in S  PROVE n <= m
  <2>1. << m, n >> \notin Less /\ << m, n >> \in Nat \X Nat
    BY <1>2
  <2>2. ~ (<< m, n >>[1] < << m, n >>[2])
    BY <2>1, Zenon
  <2> QED BY <2>2
<1> QED BY <1>3 DEF First

\* A probe looks at a bucket.
LEMMA BucketIsBucket ==
  ASSUME NEW size \in Sizes, NEW k \in Key, NEW n \in Nat
  PROVE  Bucket(size, k, n) \in 0 .. size - 1
<1> DEFINE x == (n * (n + 1)) \div 2
<1>1. n * (n + 1) \in Nat
  OBVIOUS
<1>2. x \in Nat
  BY <1>1
<1>3. Hash[k] \in Nat /\ size \in Nat /\ size > 0
  BY HashSetAssumption
<1> HIDE DEF x
<1>4. Hash[k] + x \in Nat
  BY <1>2, <1>3
<1>5. (Hash[k] + x) % size \in 0 .. size - 1
  BY <1>3, <1>4
<1> QED BY <1>5 DEF Bucket, x

\* What a table holds is finite.
LEMMA Finite ==
  ASSUME NEW size \in Nat, NEW f \in Function(size)
  PROVE  /\ IsFiniteSet(Used(f)) /\ IsFiniteSet(Alive(f))
         /\ Cardinality(Used(f)) \in Nat /\ Cardinality(Alive(f)) \in Nat
         /\ Cardinality(Alive(f)) <= size
<1>1. IsFiniteSet(0 .. size - 1) /\ Cardinality(0 .. size - 1) = size
  BY FS_Interval
<1>2. Used(f) \in SUBSET (0 .. size - 1) /\ Alive(f) \in SUBSET (0 .. size - 1)
  BY DEF Used, Alive, Function
<1> QED BY <1>1, <1>2, FS_Subset, FS_CardinalityType

\* A table that holds fewer elements than it has buckets has an empty entry,
\* and the probes for any key find it.
LEMMA SearchEnds ==
  ASSUME TypeOK, Cardinality(Used(entries)) < num_buckets, NEW k \in Key
  PROVE  \E n \in Buckets : At(k, n) = Empty
<1>1. num_buckets \in Nat /\ entries \in Function(num_buckets)
  BY HashSetAssumption DEF TypeOK
<1>2. IsFiniteSet(0 .. num_buckets - 1) /\ Cardinality(0 .. num_buckets - 1) = num_buckets
  BY <1>1, FS_Interval
<1>3. PICK b \in 0 .. num_buckets - 1 : entries[b] = Empty
  <2>1. Used(entries) # 0 .. num_buckets - 1
    BY <1>1, <1>2
  <2> QED BY <1>1, <2>1 DEF Used, Function
<1>4. PICK n \in 0 .. num_buckets - 1 : Bucket(num_buckets, k, n) = b
  BY ProbingCovers DEF TypeOK
<1> QED BY <1>3, <1>4 DEF At, Buckets

\* Writing one entry of a table.
LEMMA Written ==
  ASSUME NEW size \in Nat, NEW f \in Function(size),
         NEW p \in 0 .. size - 1, NEW v \in Entry, v # Empty
  PROVE  /\ Put(f, p, v) \in Function(size)
         /\ Cardinality(Used(Put(f, p, v))) <= Cardinality(Used(f)) + 1
         /\ f[p] # Empty => Used(Put(f, p, v)) = Used(f)
         /\ v \in Key /\ f[p] \notin Key =>
              Cardinality(Alive(Put(f, p, v))) = Cardinality(Alive(f)) + 1
         /\ v \notin Key /\ f[p] \in Key =>
              Cardinality(Alive(Put(f, p, v))) = Cardinality(Alive(f)) - 1
<1> DEFINE g == Put(f, p, v)
<1>1. g \in Function(size)
  BY DEF Function, Put
<1>2. Used(g) = Used(f) \cup {p}
  BY DEF Function, Used, Put
<1>3. v \in Key => Alive(g) = Alive(f) \cup {p}
  BY DEF Function, Alive, Put
<1>4. v \notin Key => Alive(g) = Alive(f) \ {p}
  BY DEF Function, Alive, Put
<1>5. (p \in Used(f) <=> f[p] # Empty) /\ (p \in Alive(f) <=> f[p] \in Key)
  BY DEF Function, Used, Alive
<1>6. IsFiniteSet(Used(f)) /\ IsFiniteSet(Alive(f))
      /\ Cardinality(Used(f)) \in Nat /\ Cardinality(Alive(f)) \in Nat
  BY Finite
<1>7. Cardinality(Used(g)) <= Cardinality(Used(f)) + 1
  <2>1. CASE p \in Used(f)
    <3>1. Used(g) = Used(f)
      BY <1>2, <2>1
    <3> QED BY <1>6, <3>1
  <2>2. CASE p \notin Used(f)
    <3>1. Cardinality(Used(f) \cup {p}) =
            IF p \in Used(f) THEN Cardinality(Used(f)) ELSE Cardinality(Used(f)) + 1
      BY <1>6, FS_AddElement, Zenon
    <3>2. Cardinality(Used(g)) = Cardinality(Used(f)) + 1
      BY <1>2, <2>2, <3>1
    <3> QED BY <1>6, <3>2
  <2> QED BY <2>1, <2>2
<1>8. v \in Key /\ f[p] \notin Key => Cardinality(Alive(g)) = Cardinality(Alive(f)) + 1
  <2>1. Cardinality(Alive(f) \cup {p}) =
          IF p \in Alive(f) THEN Cardinality(Alive(f)) ELSE Cardinality(Alive(f)) + 1
    BY <1>6, FS_AddElement, Zenon
  <2> QED BY <1>3, <1>5, <1>6, <2>1
<1>9. v \notin Key /\ f[p] \in Key => Cardinality(Alive(g)) = Cardinality(Alive(f)) - 1
  BY <1>4, <1>5, <1>6, FS_RemoveElement
<1>10. f[p] # Empty => Used(g) = Used(f)
  BY <1>2, <1>5
<1> QED BY <1>1, <1>7, <1>8, <1>9, <1>10

\* A new table is empty.
LEMMA Fresh ==
  ASSUME NEW size \in Sizes, NEW f, f = [b \in 0 .. size - 1 |-> Empty]
  PROVE  /\ f \in Function(size)
         /\ Cardinality(Used(f)) = 0 /\ Cardinality(Alive(f)) = 0
<1>1. f \in Function(size)
  BY DEF Function, Entry
<1>2. Used(f) = {} /\ Alive(f) = {}
  BY HashSetAssumption DEF Used, Alive
<1> QED BY <1>1, <1>2, FS_EmptySet

\* maybe_shrink() finds a size if there is one.
LEMMA FittingFits ==
  ASSUME NEW n \in Nat, NEW enough \in Sizes, n <= enough
  PROVE  Fitting(n) \in Sizes /\ n <= Fitting(n)
<1> DEFINE S == { size \in Sizes : n <= size }
<1>1. S \in SUBSET Nat /\ S # {}
  BY HashSetAssumption
<1>2. First(S) \in S
  BY <1>1, FirstIsLeast
<1> QED BY <1>2 DEF Fitting

\* What hashset_find(), hashset_remove() and insert_nogrow() rely on.
LEMMA Found ==
  ASSUME IInv, pc \in {"idle", "insert"}, NEW k \in Key
  PROVE  /\ Endings(k) # {}
         /\ First(Endings(k)) \in Buckets
         /\ At(k, First(Endings(k))) \in {Empty, k}
         /\ \A n \in Buckets : Bucket(num_buckets, k, n) \in Buckets
<1>1. num_buckets \in Nat /\ entries \in Function(num_buckets)
  BY HashSetAssumption DEF IInv, TypeOK
<1>2. Cardinality(Used(entries)) < num_buckets
  <2>1. Cardinality(Used(entries)) \in Nat
    BY <1>1, Finite
  <2> QED BY <1>1, <2>1 DEF IInv, Counted, Room, TypeOK
<1>3. \E n \in Buckets : At(k, n) = Empty
  BY <1>2, SearchEnds DEF IInv
<1>4. Endings(k) # {} /\ Endings(k) \in SUBSET Nat
  BY <1>1, <1>3 DEF Endings, Buckets
<1>5. First(Endings(k)) \in Endings(k)
  BY <1>4, FirstIsLeast
<1>6. \A n \in Buckets : Bucket(num_buckets, k, n) \in Buckets
  BY <1>1, BucketIsBucket DEF Buckets, IInv, TypeOK
<1> QED BY <1>4, <1>5, <1>6 DEF Endings

\* resize() allocates the table; what is to come is what was there.
LEMMA Resized ==
  ASSUME IInv, NEW size \in Sizes, NEW as \in {"shrinking", "growing"},
         resize(size, as), key' \in Key, UNCHANGED answer
  PROVE  /\ TypeOK' /\ NotAborted' /\ Counted' /\ Filling'
         /\ pc' = as /\ num_elements' = 0 /\ num_buckets' = size
         /\ Cardinality(ToCome') = hashset_size
<1> USE DEF resize
<1>1. /\ entries' \in Function(size)
      /\ Cardinality(Used(entries')) = 0 /\ Cardinality(Alive(entries')) = 0
  BY Fresh
<1>2. num_buckets \in Nat /\ entries \in Function(num_buckets)
  BY HashSetAssumption DEF IInv, TypeOK
<1>3. ToCome' = Alive(entries)
  BY <1>2 DEF ToCome, Alive, OldBuckets, Function
<1>4. Cardinality(ToCome') = hashset_size
  BY <1>3 DEF IInv, Counted
<1>5. TypeOK'
  <2>1. \E n \in Sizes \cup {0} : old_entries' \in Function(n)
    BY <1>2 DEF IInv, TypeOK
  <2>2. hashset_size' \in Nat
    BY DEF hashset_size
  <2> QED BY <1>1, <2>1, <2>2 DEF IInv, TypeOK
<1>6. Counted'
  BY <1>1 DEF Counted, hashset_size
<1>7. Filling'
  BY HashSetAssumption DEF Filling, Buckets
<1> QED BY <1>4, <1>5, <1>6, <1>7 DEF NotAborted

-----------------------------------------------------------------------------
(***************************************************************************)
(* The invariant holds initially, and each action keeps it.                *)
(***************************************************************************)
LEMMA Initial == Init => IInv
<1> SUFFICES ASSUME Init PROVE IInv
  OBVIOUS
<1> USE DEF Init
<1>1. num_buckets \in Sizes
  BY FittingFits, HashSetAssumption
<1>2. /\ entries \in Function(num_buckets)
      /\ Cardinality(Used(entries)) = 0 /\ Cardinality(Alive(entries)) = 0
  BY <1>1, Fresh
<1>3. \E size \in Sizes \cup {0} : old_entries \in Function(size)
  BY DEF NoEntries, Function
<1>4. TypeOK
  <2>1. hashset_size \in Nat
    BY DEF hashset_size
  <2> QED BY <1>1, <1>2, <1>3, <2>1 DEF TypeOK
<1>5. Room
  BY <1>1, HashSetAssumption DEF Room
<1> QED BY <1>2, <1>4, <1>5 DEF IInv, NotAborted, Counted, Filling, hashset_size

LEMMA InsertKeeps ==
  ASSUME IInv, NEW k \in Key, Insert(k)
  PROVE  IInv'
<1> USE DEF Insert
<1>1. /\ num_buckets \in Sizes /\ num_buckets \in Nat
      /\ num_elements \in Nat /\ num_deleted \in Nat /\ hashset_size \in Nat
  BY HashSetAssumption DEF IInv, TypeOK
<1>2. CASE Shrinks
  <2> DEFINE size == Fitting(hashset_size)
  <2>1. hashset_size <= num_buckets
    BY <1>1, <1>2 DEF Shrinks, shrink_threshold, hashset_size
  <2>2. size \in Sizes /\ hashset_size <= size
    BY <1>1, <2>1, FittingFits
  <2>3. resize(size, "shrinking")
    BY <1>2
  <2> HIDE DEF size
  <2>4. /\ TypeOK' /\ NotAborted' /\ Counted' /\ Filling'
        /\ pc' = "shrinking" /\ num_elements' = 0 /\ num_buckets' = size
        /\ Cardinality(ToCome') = hashset_size
    BY <2>2, <2>3, Resized
  <2>5. Room'
    BY <1>1, <2>2, <2>4 DEF Room
  <2> QED BY <2>4, <2>5 DEF IInv
<1>3. CASE ~ Shrinks
  <2>1. Room'
    BY <1>1, <1>3 DEF IInv, Room
  <2>2. TypeOK'
    BY <1>3 DEF IInv, TypeOK, hashset_size, resizing
  <2>3. Counted'
    BY <1>3 DEF IInv, Counted, hashset_size
  <2> QED BY <1>3, <2>1, <2>2, <2>3 DEF IInv, NotAborted, Filling
<1> QED BY <1>2, <1>3

LEMMA maybe_growKeeps ==
  ASSUME IInv, maybe_grow
  PROVE  IInv'
<1> USE DEF maybe_grow
<1>1. /\ num_buckets \in Sizes /\ num_buckets \in Nat /\ num_buckets >= 4
      /\ entries \in Function(num_buckets)
      /\ num_elements \in Nat /\ num_deleted \in Nat /\ hashset_size \in Nat
  BY HashSetAssumption DEF IInv, TypeOK
<1>2. CASE Grows
  <2>1. /\ TypeOK' /\ NotAborted' /\ Counted' /\ Filling'
        /\ pc' = "growing" /\ num_elements' = 0 /\ num_buckets' = 2 * num_buckets
        /\ Cardinality(ToCome') = hashset_size
    BY <1>2, Resized DEF MayGrow, IInv, Filling
  <2>2. hashset_size <= num_buckets
    BY <1>1, Finite DEF IInv, Counted
  <2>3. Room'
    BY <1>1, <2>1, <2>2 DEF Room
  <2> QED BY <2>1, <2>3 DEF IInv
<1>3. CASE ~ Grows
  <2>1. Room'
    BY <1>1, <1>3 DEF Room, Grows, enlarge_threshold
  <2>2. TypeOK'
    BY <1>3 DEF IInv, TypeOK, hashset_size, resizing
  <2>3. Counted'
    BY <1>3 DEF IInv, Counted, hashset_size
  <2> QED BY <1>3, <2>1, <2>2, <2>3 DEF IInv, NotAborted, Filling
<1> QED BY <1>2, <1>3

\* Finitely much is to come.
LEMMA ToComeFinite ==
  ASSUME IInv
  PROVE  IsFiniteSet(ToCome) /\ Cardinality(ToCome) \in Nat
<1>1. PICK size \in Sizes \cup {0} : old_entries \in Function(size)
  BY DEF IInv, TypeOK
<1>2. size \in Nat
  BY HashSetAssumption
<1>3. IsFiniteSet(0 .. size - 1) /\ ToCome \in SUBSET (0 .. size - 1)
  BY <1>1, <1>2, FS_Interval DEF ToCome, OldBuckets, Function
<1> QED BY <1>3, FS_Subset, FS_CardinalityType

\* Passing an old entry leaves one element less to come, if it holds one.
LEMMA Passed ==
  ASSUME IInv, next \in OldBuckets, next' = next + 1, UNCHANGED old_entries
  PROVE  /\ Cardinality(ToCome') \in Nat
         /\ Cardinality(ToCome) = Cardinality(ToCome')
              + (IF old_entries[next] \in Key THEN 1 ELSE 0)
<1>1. PICK size \in Sizes \cup {0} : old_entries \in Function(size)
  BY DEF IInv, TypeOK
<1>2. size \in Nat
  BY HashSetAssumption
<1>3. OldBuckets = 0 .. size - 1 /\ next \in Nat
  BY <1>1 DEF OldBuckets, Function, IInv, TypeOK
<1>4. IsFiniteSet(0 .. size - 1) /\ ToCome' \in SUBSET (0 .. size - 1)
  BY <1>2, <1>3, FS_Interval DEF ToCome, OldBuckets
<1>5. IsFiniteSet(ToCome') /\ Cardinality(ToCome') \in Nat
  BY <1>4, FS_Subset, FS_CardinalityType
<1>6. next \notin ToCome'
  BY <1>3 DEF ToCome
<1>7. CASE old_entries[next] \in Key
  <2>1. ToCome = ToCome' \cup {next}
    BY <1>3, <1>7 DEF ToCome, OldBuckets
  <2>2. Cardinality(ToCome' \cup {next}) =
          IF next \in ToCome' THEN Cardinality(ToCome') ELSE Cardinality(ToCome') + 1
    BY <1>5, FS_AddElement, Zenon
  <2> QED BY <1>5, <1>6, <1>7, <2>1, <2>2
<1>8. CASE old_entries[next] \notin Key
  <2>1. ToCome = ToCome'
    BY <1>3, <1>8 DEF ToCome, OldBuckets
  <2> QED BY <1>5, <1>8, <2>1
<1> QED BY <1>7, <1>8

LEMMA ReinsertKeeps ==
  ASSUME IInv, Reinsert
  PROVE  IInv'
<1> USE DEF Reinsert
<1> DEFINE k == old_entries[next]
           free == { n \in Buckets : At(k, n) = Empty }
<1>1. /\ num_buckets \in Sizes /\ num_buckets \in Nat /\ num_buckets > 0
      /\ entries \in Function(num_buckets)
      /\ num_elements \in Nat /\ num_deleted = 0 /\ next \in Nat
      /\ \A b \in Buckets : entries[b] # Deleted
  BY HashSetAssumption DEF IInv, TypeOK, Filling
<1>2. k \in Entry
  BY DEF IInv, TypeOK, Function, OldBuckets
<1>3. CASE k \in {Empty, Deleted}
  <2>1. /\ next' = next + 1
        /\ UNCHANGED << entries, num_buckets, num_elements, num_deleted,
                        consider_shrink, old_entries, pc, key, answer >>
    BY <1>3
  <2> HIDE DEF Reinsert
  <2>2. Cardinality(ToCome') = Cardinality(ToCome)
    BY <1>3, <2>1, Passed, HashSetAssumption, Reinsert DEF Reinsert
  <2>3. TypeOK'
    BY <1>1, <2>1 DEF IInv, TypeOK, hashset_size
  <2>4. Counted' /\ Room'
    BY <2>1, <2>2 DEF IInv, Counted, Room, hashset_size
  <2> QED BY <2>1, <2>3, <2>4 DEF IInv, NotAborted, Filling, Buckets
<1>4. CASE k \in Key
  <2> DEFINE n == First(free)
             p == Bucket(num_buckets, k, n)
             room == Cardinality(ToCome)
  <2>1. room \in Nat /\ num_elements + room <= num_buckets /\ room > 0
    <3>4. IsFiniteSet(ToCome) /\ room \in Nat
      BY ToComeFinite
    <3>5. next \in ToCome
      BY <1>1, <1>4 DEF ToCome
    <3>6. room # 0
      BY <3>4, <3>5, FS_EmptySet
    <3> QED BY <1>1, <3>4, <3>6 DEF IInv, Room
  <2>2. Cardinality(Used(entries)) < num_buckets
    BY <1>1, <2>1, Finite DEF IInv, Counted
  <2>3. free # {} /\ free \in SUBSET Nat
    BY <1>1, <1>4, <2>2, SearchEnds DEF IInv, Buckets
  <2>4. n \in free
    <3> HIDE DEF free
    <3> QED BY <2>3, FirstIsLeast
  <2>5. n \in Buckets /\ entries[p] = Empty
    BY <2>4 DEF At
  <2>6. p \in 0 .. num_buckets - 1
    BY <1>1, <1>4, <2>5, BucketIsBucket DEF Buckets
  <2>7. \A m \in Buckets : At(k, m) # Deleted
    BY <1>1, <1>4, BucketIsBucket DEF At, Buckets
  <2>8. /\ entries' = Put(entries, p, k)
        /\ num_elements' = num_elements + 1
        /\ next' = next + 1
        /\ UNCHANGED << num_buckets, num_deleted, consider_shrink, old_entries,
                        pc, key, answer >>
    BY <1>4, <2>3, <2>7, HashSetAssumption DEF Put
  <2>9. /\ next \in OldBuckets /\ pc \in {"shrinking", "growing"}
        /\ k # Empty /\ entries[p] \notin Key
    BY <1>4, <2>5, HashSetAssumption
  <2> HIDE DEF Reinsert, k, p, n, room
  <2>10. /\ entries' \in Function(num_buckets)
         /\ Cardinality(Used(entries')) <= Cardinality(Used(entries)) + 1
         /\ Cardinality(Alive(entries')) = Cardinality(Alive(entries)) + 1
    BY <1>1, <1>2, <1>4, <2>6, <2>8, <2>9, Written
  <2>11. room = Cardinality(ToCome') + 1 /\ Cardinality(ToCome') \in Nat
    BY <1>4, <2>8, <2>9, Passed DEF room, k
  <2>12. TypeOK'
    BY <1>1, <2>8, <2>10 DEF IInv, TypeOK, hashset_size
  <2>13. Counted'
    <3>1. Cardinality(Used(entries)) \in Nat /\ Cardinality(Used(entries')) \in Nat
      BY <1>1, <2>10, Finite
    <3> QED BY <1>1, <2>8, <2>10, <3>1 DEF IInv, Counted, hashset_size
  <2>14. Room'
    BY <1>1, <2>1, <2>8, <2>9, <2>11 DEF IInv, Room, room
  <2>15. Filling'
    BY <1>1, <1>4, <2>6, <2>8, HashSetAssumption DEF IInv, Filling, Buckets, Function, Put
  <2> QED BY <2>8, <2>12, <2>13, <2>14, <2>15 DEF IInv, NotAborted
<1> QED BY <1>2, <1>3, <1>4 DEF Entry

LEMMA EndOfResizeKeeps ==
  ASSUME IInv, EndOfResize
  PROVE  IInv'
<1> USE DEF EndOfResize
<1>1. /\ num_buckets \in Nat /\ num_elements \in Nat
      /\ Cardinality(ToCome) \in Nat
  BY ToComeFinite, HashSetAssumption DEF IInv, TypeOK
<1>2. Room'
  BY <1>1 DEF IInv, Room
<1>3. TypeOK'
  <2>1. \E size \in Sizes \cup {0} : old_entries' \in Function(size)
    BY DEF NoEntries, Function
  <2>2. hashset_size' = hashset_size
    BY DEF hashset_size
  <2> QED BY <2>1, <2>2 DEF IInv, TypeOK
<1>4. Counted'
  BY DEF IInv, Counted, hashset_size
<1> QED BY <1>2, <1>3, <1>4 DEF IInv, NotAborted, Filling

LEMMA insert_nogrowKeeps ==
  ASSUME IInv, insert_nogrow
  PROVE  IInv'
<1> DEFINE n == First(Endings(key))
           q == IF Reusable(key) = {} THEN n ELSE First(Reusable(key))
           p == Bucket(num_buckets, key, q)
<1>1. /\ num_buckets \in Sizes /\ num_buckets \in Nat
      /\ entries \in Function(num_buckets)
      /\ num_elements \in Nat /\ num_deleted \in Nat /\ hashset_size \in Nat
      /\ Cardinality(Used(entries)) \in Nat
  BY Finite, HashSetAssumption DEF IInv, TypeOK
<1>2. pc = "insert" /\ key \in Key
  BY DEF insert_nogrow, IInv, Filling
<1>3. /\ Endings(key) # {}
      /\ n \in Buckets /\ At(key, n) \in {Empty, key}
      /\ \A m \in Buckets : Bucket(num_buckets, key, m) \in Buckets
  BY <1>2, Found
<1>4. /\ pc' = "idle" /\ key' = Empty
      /\ UNCHANGED << num_buckets, num_deleted, consider_shrink, old_entries, next >>
  BY <1>3 DEF insert_nogrow, resizing
<1>5. CASE At(key, n) = key
  <2>1. answer' = {key} /\ UNCHANGED << entries, num_elements >>
    BY <1>3, <1>5 DEF insert_nogrow
  <2>2. TypeOK'
    BY <1>1, <1>2, <1>4, <2>1 DEF IInv, TypeOK, hashset_size
  <2>3. Counted' /\ Room'
    BY <1>1, <1>2, <1>4, <2>1 DEF IInv, Counted, Room, hashset_size
  <2> QED BY <1>4, <2>2, <2>3 DEF IInv, NotAborted, Filling
<1>6. CASE At(key, n) # key
  <2>1. /\ answer' = {} /\ num_elements' = num_elements + 1
        /\ entries' = Put(entries, p, key)
    BY <1>3, <1>6 DEF insert_nogrow, Put
  <2>2. q \in Buckets /\ At(key, q) \in {Empty, Deleted}
    <3>1. CASE Reusable(key) = {}
      BY <1>3, <1>6, <3>1
    <3>2. CASE Reusable(key) # {}
      <4>1. Reusable(key) \in SUBSET Nat
        BY <1>1 DEF Reusable, Buckets
      <4>2. First(Reusable(key)) \in Reusable(key)
        BY <3>2, <4>1, FirstIsLeast
      <4> QED BY <3>2, <4>2 DEF Reusable
    <3> QED BY <3>1, <3>2
  <2> HIDE DEF q
  <2>3. /\ p \in 0 .. num_buckets - 1 /\ entries[p] \notin Key
        /\ key \in Entry /\ key # Empty
    BY <1>2, <1>3, <2>2, HashSetAssumption DEF At, Buckets, Entry
  <2> HIDE DEF p
  <2>4. /\ entries' \in Function(num_buckets)
        /\ Cardinality(Used(entries')) <= Cardinality(Used(entries)) + 1
        /\ Cardinality(Alive(entries')) = Cardinality(Alive(entries)) + 1
    BY <1>1, <1>2, <2>1, <2>3, Written
  <2>5. TypeOK'
    BY <1>1, <1>4, <2>1, <2>4 DEF IInv, TypeOK, hashset_size
  <2>6. Counted'
    <3>1. Cardinality(Used(entries')) \in Nat
      BY <1>1, <2>4, Finite
    <3> QED BY <1>1, <1>4, <2>1, <2>4, <3>1 DEF IInv, Counted, hashset_size
  <2>7. Room'
    BY <1>1, <1>2, <1>4, <2>1 DEF IInv, Room
  <2> QED BY <1>4, <2>5, <2>6, <2>7 DEF IInv, NotAborted, Filling
<1> QED BY <1>5, <1>6

LEMMA FindKeeps ==
  ASSUME IInv, NEW k \in Key, Find(k)
  PROVE  IInv'
<1>1. /\ Endings(k) # {}
      /\ At(k, First(Endings(k))) \in {Empty, k}
  BY Found DEF Find
<1>2. answer' \subseteq Key
  BY <1>1 DEF Find
<1>3. UNCHANGED << entries, num_buckets, num_elements, num_deleted,
                   consider_shrink, old_entries, next, pc, key >>
  BY <1>1 DEF Find, resizing
<1>4. TypeOK'
  BY <1>2, <1>3 DEF IInv, TypeOK, hashset_size
<1>5. Counted' /\ Room'
  BY <1>3 DEF IInv, Counted, Room, ToCome, OldBuckets, hashset_size
<1> QED BY <1>3, <1>4, <1>5 DEF IInv, NotAborted, Filling, Buckets

LEMMA RemoveKeeps ==
  ASSUME IInv, NEW k \in Key, Remove(k)
  PROVE  IInv'
<1> DEFINE n == First(Endings(k))
           p == Bucket(num_buckets, k, n)
<1>1. /\ num_buckets \in Sizes /\ num_buckets \in Nat
      /\ entries \in Function(num_buckets)
      /\ num_elements \in Nat /\ num_deleted \in Nat /\ hashset_size \in Nat
      /\ Cardinality(Alive(entries)) \in Nat
  BY Finite, HashSetAssumption DEF IInv, TypeOK
<1>2. /\ pc = "idle" /\ Endings(k) # {}
      /\ n \in Buckets /\ p \in Buckets
  BY Found DEF Remove
<1>3. /\ answer' = {}
      /\ UNCHANGED << num_buckets, num_elements, old_entries, next, pc, key >>
  BY <1>2 DEF Remove, resizing
<1>4. CASE At(k, n) = k
  <2>1. /\ entries' = Put(entries, p, Deleted)
        /\ num_deleted' = num_deleted + 1 /\ consider_shrink' = TRUE
    BY <1>2, <1>4 DEF Remove, Put
  <2>2. /\ p \in 0 .. num_buckets - 1 /\ entries[p] = k
        /\ Deleted \in Entry /\ Deleted # Empty /\ Deleted \notin Key /\ k # Empty
    BY <1>2, <1>4, HashSetAssumption DEF At, Buckets, Entry
  <2> HIDE DEF p
  <2>3. /\ entries' \in Function(num_buckets)
        /\ Used(entries') = Used(entries)
        /\ Cardinality(Alive(entries')) = Cardinality(Alive(entries)) - 1
    BY <1>1, <2>1, <2>2, Written
  <2>4. Cardinality(Alive(entries')) \in Nat
    BY <1>1, <2>3, Finite
  <2>5. Counted' /\ hashset_size' \in Nat
    BY <1>1, <1>3, <2>1, <2>3, <2>4 DEF IInv, Counted, hashset_size
  <2>6. TypeOK'
    BY <1>1, <1>3, <2>1, <2>3, <2>5 DEF IInv, TypeOK
  <2>7. Room'
    BY <1>2, <1>3 DEF IInv, Room
  <2> QED BY <1>2, <1>3, <2>5, <2>6, <2>7 DEF IInv, NotAborted, Filling
<1>5. CASE At(k, n) # k
  <2>1. UNCHANGED << entries, num_deleted, consider_shrink >>
    BY <1>2, <1>5 DEF Remove
  <2>2. TypeOK'
    BY <1>3, <2>1 DEF IInv, TypeOK, hashset_size
  <2>3. Counted' /\ Room'
    BY <1>2, <1>3, <2>1 DEF IInv, Counted, Room, hashset_size
  <2> QED BY <1>2, <1>3, <2>2, <2>3 DEF IInv, NotAborted, Filling
<1> QED BY <1>4, <1>5

LEMMA Inductive == IInv /\ [Next]_vars => IInv'
<1> SUFFICES ASSUME IInv, [Next]_vars PROVE IInv'
  OBVIOUS
<1>1. CASE Next
  BY <1>1, InsertKeeps, FindKeeps, RemoveKeeps, maybe_growKeeps, ReinsertKeeps,
     EndOfResizeKeeps, insert_nogrowKeeps DEF Next
<1>2. CASE UNCHANGED vars
  BY <1>2 DEF vars, IInv, TypeOK, NotAborted, Counted, Room, Filling, ToCome,
              OldBuckets, Buckets, hashset_size
<1> QED BY <1>1, <1>2

-----------------------------------------------------------------------------
\* The counters bound what the table holds, and the table always has room.
THEOREM Invariance == Spec => []IInv
BY Initial, Inductive, PTL DEF Spec

\* The counters of the table are consistent, whatever the keys and hashes.
THEOREM Typing == Spec => []TypeOK
<1>1. IInv => TypeOK
  BY DEF IInv
<1> QED BY <1>1, Invariance, PTL

\* Every search of hashset_find(), hashset_remove() and insertion ends: the
\* assertions num_probes < num_buckets and !EntryIsDeleted() hold.
THEOREM SearchesEnd == Spec => []NotAborted
<1>1. IInv => NotAborted
  BY DEF IInv
<1> QED BY <1>1, Invariance, PTL

-----------------------------------------------------------------------------
(***************************************************************************)
(* The hash set implements a set of keys. What searches find is right      *)
(* because the probes for a key in the table meet its entry before an      *)
(* empty one (Findable): an entry that is used never becomes empty again   *)
(* while the table lasts, and a new key is put where no empty entry is     *)
(* before it. While the table is resized, the keys are those in the new    *)
(* table and those that wait in the old one, and no key is in both         *)
(* (Copying).                                                              *)
(***************************************************************************)
Distinct(f) == \A b, c \in DOMAIN f : f[b] = f[c] /\ f[b] \in Key => b = c

\* The probes for the key in entry b of f, of this size, meet no empty entry
\* before it.
Met(f, size, b) ==
  \E n \in 0 .. size - 1 :
    /\ Bucket(size, f[b], n) = b
    /\ \A m \in 0 .. n - 1 : f[Bucket(size, f[b], m)] # Empty

Reachable(f, size) == \A b \in 0 .. size - 1 : f[b] \in Key => Met(f, size, b)

KeysOf(f) == { f[b] : b \in DOMAIN f } \cap Key

Copying ==
  /\ pc \notin {"shrinking", "growing"} => OldBuckets = {}
  /\ Distinct(old_entries)
  /\ Living \cap Waiting = {}

Keys == Living \cup Waiting

SetInv == IInv /\ Findable /\ Copying

-----------------------------------------------------------------------------
(***************************************************************************)
(* Tables.                                                                 *)
(***************************************************************************)
\* Findable, Living and Waiting in terms of tables.
LEMMA OfTables ==
  ASSUME TypeOK
  PROVE  /\ num_buckets \in Sizes /\ num_buckets \in Nat
         /\ entries \in Function(num_buckets) /\ DOMAIN entries = 0 .. num_buckets - 1
         /\ Living = KeysOf(entries)
         /\ Findable <=> Distinct(entries) /\ Reachable(entries, num_buckets)
<1>1. num_buckets \in Sizes /\ num_buckets \in Nat /\ entries \in Function(num_buckets)
  BY HashSetAssumption DEF TypeOK
<1>2. DOMAIN entries = 0 .. num_buckets - 1
  BY <1>1 DEF Function
<1>3. Living = KeysOf(entries)
  BY <1>2 DEF Living, KeysOf, Buckets
<1>4. Findable <=> Distinct(entries) /\ Reachable(entries, num_buckets)
  <2>1. Distinct(entries) <=>
          \A b, c \in Buckets : entries[b] = entries[c] /\ entries[b] \in Key => b = c
    BY <1>2 DEF Distinct, Buckets
  <2>2. Reachable(entries, num_buckets) <=>
          \A b \in Buckets : entries[b] \in Key =>
            \E n \in Buckets :
              /\ Bucket(num_buckets, entries[b], n) = b
              /\ \A m \in 0 .. n - 1 : At(entries[b], m) # Empty
    BY DEF Reachable, Met, Buckets, At
  <2> QED BY <2>1, <2>2 DEF Findable
<1> QED BY <1>1, <1>2, <1>3, <1>4

\* The same of the next state.
LEMMA OfTablesThen ==
  (TypeOK => /\ Living = KeysOf(entries)
             /\ Findable <=> Distinct(entries) /\ Reachable(entries, num_buckets))'
<1>1. TypeOK => /\ Living = KeysOf(entries)
                /\ Findable <=> Distinct(entries) /\ Reachable(entries, num_buckets)
  BY OfTables
<1> QED BY <1>1, PTL

\* Writing an entry that is used keeps all ways to keys, and so does writing
\* a key where a search for it comes before it comes to an empty entry.
LEMMA WrittenReachable ==
  ASSUME NEW size \in Sizes, NEW f \in Function(size), Reachable(f, size),
         NEW p \in 0 .. size - 1, NEW v \in Entry, v # Empty,
         v \in Key => \E n \in 0 .. size - 1 :
                        /\ Bucket(size, v, n) = p
                        /\ \A m \in 0 .. n - 1 : f[Bucket(size, v, m)] # Empty
  PROVE  Reachable(Put(f, p, v), size)
<1> DEFINE g == Put(f, p, v)
<1>0. size \in Nat
  BY HashSetAssumption
<1>1. \A b \in 0 .. size - 1 : g[b] = IF b = p THEN v ELSE f[b]
  BY DEF Put, Function
<1>2. \A b \in 0 .. size - 1 : f[b] # Empty => g[b] # Empty
  BY <1>1
<1>3. \A k \in Key, m \in Nat : Bucket(size, k, m) \in 0 .. size - 1
  BY BucketIsBucket
<1> SUFFICES ASSUME NEW b \in 0 .. size - 1, g[b] \in Key
             PROVE  Met(g, size, b)
  BY DEF Reachable
<1> HIDE DEF g
<1>4. PICK n \in 0 .. size - 1 :
        /\ Bucket(size, g[b], n) = b
        /\ \A m \in 0 .. n - 1 : f[Bucket(size, g[b], m)] # Empty
  <2>1. CASE b = p
    BY <1>1, <2>1
  <2>2. CASE b # p
    BY <1>1, <2>2 DEF Reachable, Met
  <2> QED BY <2>1, <2>2
<1>5. \A m \in 0 .. n - 1 : g[Bucket(size, g[b], m)] # Empty
  BY <1>0, <1>2, <1>3, <1>4
<1> QED BY <1>4, <1>5 DEF Met

\* What writing an entry does to the keys of a table.
LEMMA WrittenKeys ==
  ASSUME NEW size \in Nat, NEW f \in Function(size), Distinct(f),
         NEW p \in 0 .. size - 1, NEW v \in Entry, v \in Key => v \notin KeysOf(f)
  PROVE  /\ Distinct(Put(f, p, v))
         /\ v \in Key /\ f[p] \notin Key => KeysOf(Put(f, p, v)) = KeysOf(f) \cup {v}
         /\ v \notin Key /\ f[p] \in Key => KeysOf(Put(f, p, v)) = KeysOf(f) \ {f[p]}
<1> DEFINE g == Put(f, p, v)
<1>1. /\ DOMAIN f = 0 .. size - 1 /\ DOMAIN g = 0 .. size - 1
      /\ \A b \in 0 .. size - 1 : g[b] = IF b = p THEN v ELSE f[b]
  BY DEF Put, Function
<1> HIDE DEF g
<1>2. Distinct(g)
  BY <1>1 DEF Distinct, KeysOf
<1>3. v \in Key /\ f[p] \notin Key => KeysOf(g) = KeysOf(f) \cup {v}
  BY <1>1 DEF KeysOf
<1>4. v \notin Key /\ f[p] \in Key => KeysOf(g) = KeysOf(f) \ {f[p]}
  BY <1>1 DEF KeysOf, Distinct
<1> QED BY <1>2, <1>3, <1>4 DEF g

\* A new table has no keys.
LEMMA NewTable ==
  ASSUME NEW size \in Sizes, NEW f, f = [b \in 0 .. size - 1 |-> Empty]
  PROVE  Distinct(f) /\ Reachable(f, size) /\ KeysOf(f) = {}
BY HashSetAssumption DEF Distinct, Reachable, KeysOf

-----------------------------------------------------------------------------
\* Before its first ending a search meets no empty entry; it ends at its key
\* if that is in the table.
LEMMA Searched ==
  ASSUME SetInv, pc \in {"idle", "insert"}, NEW k \in Key
  PROVE  /\ First(Endings(k)) \in Buckets
         /\ \A n \in Buckets : n < First(Endings(k)) => At(k, n) # Empty
         /\ At(k, First(Endings(k))) \in {Empty, k}
         /\ At(k, First(Endings(k))) = k <=> k \in Living
<1> DEFINE n == First(Endings(k))
<1>1. /\ num_buckets \in Nat /\ DOMAIN entries = 0 .. num_buckets - 1
      /\ Reachable(entries, num_buckets) /\ Living = KeysOf(entries)
  BY OfTables DEF SetInv, IInv
<1>2. /\ Endings(k) # {} /\ n \in Buckets /\ At(k, n) \in {Empty, k}
      /\ \A m \in Buckets : Bucket(num_buckets, k, m) \in Buckets
  BY Found DEF SetInv
<1>3. \A m \in Endings(k) : n <= m
  <2>1. Endings(k) \in SUBSET Nat
    BY <1>1 DEF Endings, Buckets
  <2> QED BY <1>2, <2>1, FirstIsLeast
<1> HIDE DEF n
<1>4. \A m \in Buckets : m < n => m \notin Endings(k)
  BY <1>1, <1>2, <1>3 DEF Buckets
<1>5. \A m \in Buckets : m < n => At(k, m) # Empty
  BY <1>4 DEF Endings
<1>6. At(k, n) = k => k \in Living
  BY <1>1, <1>2 DEF KeysOf, At, Buckets
<1>7. ASSUME k \in Living  PROVE At(k, n) = k
  <2>1. PICK b \in 0 .. num_buckets - 1 : entries[b] = k
    BY <1>1, <1>7 DEF KeysOf
  <2>2. Met(entries, num_buckets, b)
    BY <1>1, <2>1 DEF Reachable
  <2>3. PICK m \in 0 .. num_buckets - 1 :
          /\ Bucket(num_buckets, k, m) = b
          /\ \A j \in 0 .. m - 1 : entries[Bucket(num_buckets, k, j)] # Empty
    BY <2>1, <2>2 DEF Met
  <2>4. m \in Endings(k)
    BY <2>1, <2>3 DEF Endings, At, Buckets
  <2>5. n <= m /\ n \in 0 .. num_buckets - 1
    BY <1>2, <1>3, <2>4 DEF Buckets
  <2>6. CASE n = m
    BY <2>1, <2>3, <2>6 DEF At
  <2>7. CASE n < m
    <3>1. n \in 0 .. m - 1
      BY <1>1, <2>3, <2>5, <2>7
    <3>2. At(k, n) # Empty
      BY <2>3, <3>1 DEF At
    <3> QED BY <1>2, <3>2
  <2> QED BY <1>1, <2>3, <2>5, <2>6, <2>7
<1> QED BY <1>2, <1>5, <1>6, <1>7 DEF n

\* Nothing waits when the table is not resized.
LEMMA NoneWaits ==
  ASSUME SetInv, pc \notin {"shrinking", "growing"}
  PROVE  Waiting = {} /\ Keys = Living
BY DEF SetInv, Copying, Waiting, Keys

\* resize() takes the keys of the table for those to be inserted.
LEMMA ResizedKeys ==
  ASSUME SetInv, pc \notin {"shrinking", "growing"},
         NEW size \in Sizes, NEW as \in {"shrinking", "growing"}, resize(size, as), TypeOK'
  PROVE  Findable' /\ Copying' /\ Keys' = Keys
<1>1. /\ entries' = [b \in 0 .. size - 1 |-> Empty] /\ num_buckets' = size
      /\ old_entries' = entries /\ next' = 0 /\ pc' = as
  BY DEF resize
<1>2. Distinct(entries') /\ Reachable(entries', num_buckets') /\ KeysOf(entries') = {}
  BY <1>1, NewTable
<1>3. Findable' /\ Living' = {}
  BY <1>2, OfTablesThen
<1>4. /\ DOMAIN entries \subseteq Nat /\ Living = KeysOf(entries) /\ Distinct(entries)
  BY OfTables DEF SetInv, IInv
<1>5. Waiting' = Living
  BY <1>1, <1>4 DEF Waiting, OldBuckets, KeysOf
<1>6. Copying'
  BY <1>1, <1>3, <1>4 DEF Copying
<1>7. Keys' = Keys
  BY <1>3, <1>5, NoneWaits DEF Keys
<1> QED BY <1>3, <1>6, <1>7

-----------------------------------------------------------------------------
(***************************************************************************)
(* What each action does to the keys and the answer.                       *)
(***************************************************************************)
LEMMA InitialKeys == Init => Findable /\ Copying /\ Keys = {} /\ answer = {}
<1> SUFFICES ASSUME Init PROVE Findable /\ Copying /\ Keys = {} /\ answer = {}
  OBVIOUS
<1>1. num_buckets \in Sizes /\ entries = [b \in 0 .. num_buckets - 1 |-> Empty]
  BY FittingFits, HashSetAssumption DEF Init
<1>2. Distinct(entries) /\ Reachable(entries, num_buckets) /\ KeysOf(entries) = {}
  BY <1>1, NewTable
<1>3. Findable /\ Living = {}
  BY <1>2, OfTables, Initial DEF IInv
<1>4. old_entries = NoEntries /\ answer = {}
  BY DEF Init
<1>5. OldBuckets = {}
  BY <1>4 DEF OldBuckets, NoEntries
<1> QED BY <1>3, <1>4, <1>5 DEF Copying, Keys, Waiting, Distinct, OldBuckets

\* The tables stay as they are.
LEMMA SameTables ==
  ASSUME SetInv, UNCHANGED << entries, num_buckets, old_entries, next >>,
         pc' \notin {"shrinking", "growing"} => pc \notin {"shrinking", "growing"}
  PROVE  Findable' /\ Copying' /\ Keys' = Keys
BY DEF SetInv, Findable, Copying, Keys, Living, Waiting, Buckets, OldBuckets, At

\* hashset_insert() begins: maybe_shrink().
LEMMA InsertStep ==
  ASSUME SetInv, NEW k \in Key, Insert(k), IInv'
  PROVE  Findable' /\ Copying' /\ Keys' = Keys /\ UNCHANGED answer
<1>1. CASE Shrinks
  <2>1. hashset_size \in Nat /\ num_buckets \in Sizes /\ num_buckets \in Nat
    BY OfTables DEF SetInv, IInv, TypeOK
  <2>2. hashset_size <= num_buckets
    BY <1>1, <2>1 DEF Shrinks, shrink_threshold
  <2>3. Fitting(hashset_size) \in Sizes
    BY <2>1, <2>2, FittingFits
  <2>4. resize(Fitting(hashset_size), "shrinking")
    BY <1>1 DEF Insert
  <2> QED BY <2>3, <2>4, ResizedKeys DEF Insert, IInv
<1>2. CASE ~ Shrinks
  BY <1>2, SameTables DEF Insert, resizing
<1> QED BY <1>1, <1>2

LEMMA maybe_growStep ==
  ASSUME SetInv, maybe_grow, IInv'
  PROVE  Findable' /\ Copying' /\ Keys' = Keys /\ UNCHANGED answer
<1>1. CASE Grows
  BY <1>1, ResizedKeys DEF maybe_grow, MayGrow, IInv
<1>2. CASE ~ Grows
  BY <1>2, SameTables DEF maybe_grow, resizing
<1> QED BY <1>1, <1>2

\* A key goes from the keys that wait to those in the table.
LEMMA ReinsertStep ==
  ASSUME SetInv, Reinsert, IInv'
  PROVE  Findable' /\ Copying' /\ Keys' = Keys /\ UNCHANGED answer
<1> DEFINE k == old_entries[next]
           free == { n \in Buckets : At(k, n) = Empty }
           n == First(free)
           p == Bucket(num_buckets, k, n)
<1>1. /\ num_buckets \in Sizes /\ num_buckets \in Nat /\ entries \in Function(num_buckets)
      /\ Living = KeysOf(entries)
      /\ Distinct(entries) /\ Reachable(entries, num_buckets)
  BY OfTables DEF SetInv, IInv
<1>2. /\ next \in OldBuckets /\ next \in Nat /\ OldBuckets \subseteq Nat
      /\ pc \in {"shrinking", "growing"}
      /\ Distinct(old_entries) /\ Living \cap Waiting = {}
      /\ k \in Entry
  BY HashSetAssumption DEF Reinsert, SetInv, IInv, TypeOK, Copying, OldBuckets, Function
<1>3. /\ UNCHANGED << num_buckets, num_deleted, consider_shrink, old_entries, key, answer >>
      /\ pc' # "aborted"
  BY DEF Reinsert, IInv, NotAborted
<1>4. CASE k \notin Key
  <2>1. next' = next + 1 /\ UNCHANGED << entries, pc >>
    BY <1>2, <1>4 DEF Reinsert, Entry
  <2>2. Waiting' = Waiting
    BY <1>2, <1>3, <1>4, <2>1 DEF Waiting, OldBuckets
  <2> QED BY <1>3, <2>1, <2>2 DEF SetInv, Findable, Copying, Keys, Living, Buckets, OldBuckets, At
<1>5. CASE k \in Key
  <2>1. /\ free # {} /\ entries' = Put(entries, p, k) /\ next' = next + 1 /\ pc' = pc
    BY <1>3, <1>5, HashSetAssumption DEF Reinsert, Put
  <2>2. n \in free /\ \A m \in free : n <= m
    <3>1. free \in SUBSET Nat
      BY <1>1 DEF Buckets
    <3> HIDE DEF free
    <3> QED BY <2>1, <3>1, FirstIsLeast
  <2>3. n \in 0 .. num_buckets - 1 /\ entries[p] = Empty
    BY <2>2 DEF Buckets, At
  <2>4. p \in 0 .. num_buckets - 1
    BY <1>1, <1>5, <2>3, BucketIsBucket
  <2>5. \A m \in 0 .. n - 1 : entries[Bucket(num_buckets, k, m)] # Empty
    <3> SUFFICES ASSUME NEW m \in 0 .. n - 1, entries[Bucket(num_buckets, k, m)] = Empty
                 PROVE  FALSE
      OBVIOUS
    <3>1. m \in Buckets /\ m < n
      BY <1>1, <2>3 DEF Buckets
    <3>2. m \in free
      BY <3>1 DEF At
    <3> HIDE DEF n, free
    <3>3. n <= m
      BY <2>2, <3>2
    <3> QED BY <1>1, <2>3, <3>1, <3>3
  <2>6. k \in Waiting /\ k \notin Living
    <3>1. k \in Waiting
      BY <1>2, <1>5 DEF Waiting, OldBuckets
    <3> QED BY <1>2, <3>1
  <2>7. k \in Entry /\ k # Empty /\ entries[p] \notin Key
    BY <1>2, <1>5, <2>3, HashSetAssumption
  <2>8. Bucket(num_buckets, k, n) = p
    OBVIOUS
  <2>9. Waiting' = Waiting \ {k}
    <3>1. next' = next + 1 /\ old_entries' = old_entries
      BY <1>3, <2>1
    <3>2. \A b \in OldBuckets : b # next /\ old_entries[b] \in Key => old_entries[b] # k
      BY <1>2 DEF Distinct, OldBuckets
    <3>3. \A b \in OldBuckets : next + 1 <= b <=> next <= b /\ b # next
      BY <1>2
    <3> HIDE DEF k
    <3> QED BY <1>2, <3>1, <3>2, <3>3 DEF Waiting, OldBuckets, k
  <2> HIDE DEF k, p, n, free
  <2>10. Reachable(entries', num_buckets')
    BY <1>1, <1>3, <2>1, <2>3, <2>4, <2>5, <2>7, <2>8, WrittenReachable
  <2>11. Distinct(entries') /\ KeysOf(entries') = KeysOf(entries) \cup {k}
    BY <1>1, <1>5, <2>1, <2>4, <2>6, <2>7, WrittenKeys
  <2>12. Findable' /\ Living' = Living \cup {k}
    BY <1>1, <2>10, <2>11, OfTablesThen DEF IInv
  <2>13. Copying'
    BY <1>2, <1>3, <2>1, <2>9, <2>12 DEF Copying
  <2> QED BY <1>3, <2>6, <2>9, <2>12, <2>13 DEF Keys
<1> QED BY <1>4, <1>5

LEMMA EndOfResizeStep ==
  ASSUME SetInv, EndOfResize, IInv'
  PROVE  Findable' /\ Copying' /\ Keys' = Keys /\ UNCHANGED answer
<1>1. PICK size \in Sizes \cup {0} : old_entries \in Function(size)
  BY DEF SetInv, IInv, TypeOK
<1>2. OldBuckets = 0 .. size - 1 /\ size \in Nat /\ next \in Nat /\ next \notin OldBuckets
  BY <1>1, HashSetAssumption DEF OldBuckets, Function, EndOfResize, SetInv, IInv, TypeOK
<1>3. Waiting = {}
  BY <1>2 DEF Waiting
<1>4. OldBuckets' = {} /\ Waiting' = {} /\ Distinct(old_entries)'
  BY DEF EndOfResize, NoEntries, OldBuckets, Waiting, Distinct
<1>5. Findable' /\ Living' = Living
  BY DEF EndOfResize, SetInv, Findable, Living, Buckets, At
<1> QED BY <1>3, <1>4, <1>5 DEF Copying, Keys, EndOfResize

\* hashset_insert() ends: the key is put into the set, unless it is there.
LEMMA insert_nogrowStep ==
  ASSUME SetInv, insert_nogrow, IInv'
  PROVE  /\ Findable' /\ Copying' /\ key \in Key
         /\ Keys' = Keys \cup {key} /\ answer' = Keys \cap {key}
<1> DEFINE n == First(Endings(key))
           q == IF Reusable(key) = {} THEN n ELSE First(Reusable(key))
           p == Bucket(num_buckets, key, q)
<1>1. /\ num_buckets \in Sizes /\ num_buckets \in Nat /\ entries \in Function(num_buckets)
      /\ Living = KeysOf(entries)
      /\ Distinct(entries) /\ Reachable(entries, num_buckets)
  BY OfTables DEF SetInv, IInv
<1>2. pc = "insert" /\ key \in Key
  BY DEF insert_nogrow, SetInv, IInv, Filling
<1>3. /\ n \in Buckets /\ At(key, n) \in {Empty, key}
      /\ \A m \in Buckets : m < n => At(key, m) # Empty
      /\ At(key, n) = key <=> key \in Living
  BY <1>2, Searched
<1>4. Waiting = {} /\ Keys = Living /\ OldBuckets = {}
  BY <1>2, NoneWaits DEF SetInv, Copying
<1>5. Endings(key) # {}
  BY <1>2, Found DEF SetInv
<1>6. pc' = "idle" /\ UNCHANGED << num_buckets, old_entries, next >>
  BY <1>5 DEF insert_nogrow, resizing
<1>7. CASE key \in Living
  <2>1. answer' = {key} /\ UNCHANGED entries
    BY <1>3, <1>5, <1>7 DEF insert_nogrow
  <2>2. Findable' /\ Copying' /\ Keys' = Keys
    BY <1>2, <1>6, <2>1, SameTables
  <2> QED BY <1>2, <1>4, <1>7, <2>1, <2>2
<1>8. CASE key \notin Living
  <2>1. answer' = {} /\ entries' = Put(entries, p, key)
    BY <1>3, <1>5, <1>8 DEF insert_nogrow, Put
  <2>2. q \in Buckets /\ q <= n /\ At(key, q) \in {Empty, Deleted}
    <3>1. CASE Reusable(key) = {}
      BY <1>1, <1>3, <1>8, <3>1 DEF Buckets
    <3>2. CASE Reusable(key) # {}
      <4>1. Reusable(key) \in SUBSET Nat
        BY <1>1 DEF Reusable, Buckets
      <4>2. First(Reusable(key)) \in Reusable(key)
        BY <3>2, <4>1, FirstIsLeast
      <4>3. q \in Reusable(key)
        BY <3>2, <4>2
      <4> HIDE DEF q
      <4> QED BY <1>1, <1>3, <4>3 DEF Reusable, Buckets
    <3> QED BY <3>1, <3>2
  <2> HIDE DEF q, n
  <2>3. q \in 0 .. num_buckets - 1 /\ p \in 0 .. num_buckets - 1
    BY <1>1, <1>2, <2>2, BucketIsBucket DEF Buckets
  <2>4. /\ entries[p] \notin Key /\ key \in Entry /\ key # Empty
        /\ Bucket(num_buckets, key, q) = p
    BY <1>2, <2>2, HashSetAssumption DEF At, Entry
  <2>5. \A m \in 0 .. q - 1 : entries[Bucket(num_buckets, key, m)] # Empty
    <3> SUFFICES ASSUME NEW m \in 0 .. q - 1
                 PROVE  At(key, m) # Empty
      BY DEF At
    <3> QED BY <1>1, <1>3, <2>2, <2>3 DEF Buckets
  <2> HIDE DEF p
  <2>6. Reachable(entries', num_buckets')
    BY <1>1, <1>6, <2>1, <2>3, <2>4, <2>5, WrittenReachable
  <2>7. Distinct(entries') /\ KeysOf(entries') = KeysOf(entries) \cup {key}
    BY <1>1, <1>2, <1>8, <2>1, <2>3, <2>4, WrittenKeys
  <2>8. Findable' /\ Living' = Living \cup {key}
    BY <1>1, <2>6, <2>7, OfTablesThen DEF IInv
  <2>9. Waiting' = {}
    BY <1>4, <1>6 DEF Waiting, OldBuckets
  <2>10. Copying'
    BY <1>4, <1>6, <2>9 DEF Copying, OldBuckets, SetInv
  <2> QED BY <1>2, <1>4, <1>8, <2>1, <2>8, <2>9, <2>10 DEF Keys
<1> QED BY <1>7, <1>8

LEMMA FindStep ==
  ASSUME SetInv, NEW k \in Key, Find(k), IInv'
  PROVE  /\ Findable' /\ Copying'
         /\ Keys' = Keys /\ answer' = Keys \cap {k}
<1>1. pc = "idle" /\ Endings(k) # {} /\ Keys = Living
  BY Found, NoneWaits DEF Find, SetInv
<1>2. /\ answer' = { At(k, First(Endings(k))) } \ {Empty}
      /\ UNCHANGED << entries, num_buckets, old_entries, next, pc >>
  BY <1>1 DEF Find, resizing
<1>3. /\ At(k, First(Endings(k))) \in {Empty, k}
      /\ At(k, First(Endings(k))) = k <=> k \in Living
  BY <1>1, Searched
<1>4. answer' = Keys \cap {k}
  BY <1>1, <1>2, <1>3, HashSetAssumption
<1> QED BY <1>1, <1>2, <1>4, SameTables

LEMMA RemoveStep ==
  ASSUME SetInv, NEW k \in Key, Remove(k), IInv'
  PROVE  /\ Findable' /\ Copying'
         /\ Keys' = Keys \ {k} /\ answer' = {}
<1> DEFINE n == First(Endings(k))
           p == Bucket(num_buckets, k, n)
<1>1. /\ num_buckets \in Sizes /\ num_buckets \in Nat /\ entries \in Function(num_buckets)
      /\ Living = KeysOf(entries)
      /\ Distinct(entries) /\ Reachable(entries, num_buckets)
  BY OfTables DEF SetInv, IInv
<1>2. pc = "idle" /\ Endings(k) # {} /\ Keys = Living /\ OldBuckets = {} /\ Waiting = {}
  BY Found, NoneWaits DEF Remove, SetInv, Copying
<1>3. n \in Buckets /\ (At(k, n) = k <=> k \in Living)
  BY <1>2, Searched
<1>4. answer' = {} /\ UNCHANGED << num_buckets, old_entries, next, pc >>
  BY <1>2 DEF Remove, resizing
<1>5. CASE k \in Living
  <2>1. entries' = Put(entries, p, Deleted) /\ entries[p] = k
    BY <1>2, <1>3, <1>5 DEF Remove, Put, At
  <2> HIDE DEF n
  <2>2. p \in 0 .. num_buckets - 1
    BY <1>1, <1>3, BucketIsBucket DEF Buckets
  <2>3. Deleted \in Entry /\ Deleted # Empty /\ Deleted \notin Key
    BY HashSetAssumption DEF Entry
  <2> HIDE DEF p
  <2>4. Reachable(entries', num_buckets')
    BY <1>1, <1>4, <2>1, <2>2, <2>3, WrittenReachable
  <2>5. Distinct(entries') /\ KeysOf(entries') = KeysOf(entries) \ {k}
    BY <1>1, <2>1, <2>2, <2>3, WrittenKeys
  <2>6. Findable' /\ Living' = Living \ {k}
    BY <1>1, <2>4, <2>5, OfTablesThen DEF IInv
  <2>7. Waiting' = {}
    BY <1>2, <1>4 DEF Waiting, OldBuckets
  <2>8. Copying'
    BY <1>2, <1>4, <2>7 DEF Copying, OldBuckets, SetInv
  <2> QED BY <1>2, <1>4, <2>6, <2>7, <2>8 DEF Keys
<1>6. CASE k \notin Living
  <2>1. UNCHANGED entries
    BY <1>3, <1>6 DEF Remove
  <2>2. Findable' /\ Copying' /\ Keys' = Keys
    BY <1>2, <1>4, <2>1, SameTables
  <2> QED BY <1>2, <1>4, <1>6, <2>2
<1> QED BY <1>5, <1>6

-----------------------------------------------------------------------------
(***************************************************************************)
(* The invariant, and the refinement.                                      *)
(***************************************************************************)
LEMMA SetInitial == Init => SetInv /\ Abstract!Init
BY Initial, InitialKeys DEF SetInv, Keys, Abstract!Init

LEMMA SetStep ==
  SetInv /\ [Next]_vars => SetInv' /\ [Abstract!Next]_<< Keys, answer >>
<1> SUFFICES ASSUME SetInv, [Next]_vars
             PROVE  SetInv' /\ [Abstract!Next]_<< Keys, answer >>
  OBVIOUS
<1>1. IInv'
  BY Inductive DEF SetInv
<1> USE DEF SetInv
<1>2. ASSUME NEW k \in Key, Insert(k)
      PROVE  SetInv' /\ [Abstract!Next]_<< Keys, answer >>
  BY <1>1, <1>2, InsertStep
<1>3. ASSUME NEW k \in Key, Find(k)
      PROVE  SetInv' /\ [Abstract!Next]_<< Keys, answer >>
  BY <1>1, <1>3, FindStep DEF Abstract!Next, Abstract!Find, Keys
<1>4. ASSUME NEW k \in Key, Remove(k)
      PROVE  SetInv' /\ [Abstract!Next]_<< Keys, answer >>
  BY <1>1, <1>4, RemoveStep DEF Abstract!Next, Abstract!Remove, Keys
<1>5. CASE maybe_grow
  BY <1>1, <1>5, maybe_growStep
<1>6. CASE Reinsert
  BY <1>1, <1>6, ReinsertStep
<1>7. CASE EndOfResize
  BY <1>1, <1>7, EndOfResizeStep
<1>8. CASE insert_nogrow
  BY <1>1, <1>8, insert_nogrowStep DEF Abstract!Next, Abstract!Insert, Keys
<1>9. CASE UNCHANGED vars
  <2>1. UNCHANGED << entries, num_buckets, old_entries, next, pc, answer >>
    BY <1>9 DEF vars
  <2> QED BY <1>1, <2>1, SameTables
<1> QED BY <1>2, <1>3, <1>4, <1>5, <1>6, <1>7, <1>8, <1>9 DEF Next

THEOREM SetInvariance == Spec => []SetInv
<1>1. Init => SetInv
  BY SetInitial
<1>2. SetInv /\ [Next]_vars => SetInv'
  BY SetStep
<1> QED BY <1>1, <1>2, PTL DEF Spec

\* Every key is in one entry of the table, and a search for it comes there:
\* hashset_find() and hashset_remove() miss nothing, insertion duplicates
\* nothing.
THEOREM KeysAreFound == Spec => []Findable
<1>1. SetInv => Findable
  BY DEF SetInv
<1> QED BY <1>1, SetInvariance, PTL

\* hashset_size() is right though an entry used again is counted again.
THEOREM SizeIsRight == Spec => []SizeOK
<1>1. SetInv => SizeOK
  <2> SUFFICES ASSUME SetInv PROVE SizeOK
    OBVIOUS
  <2> DEFINE T == Alive(entries)
             f == [b \in T |-> entries[b]]
  <2>1. /\ num_buckets \in Nat /\ entries \in Function(num_buckets)
        /\ Living = KeysOf(entries) /\ Distinct(entries)
    BY OfTables DEF SetInv, IInv
  <2>2. IsFiniteSet(T)
    BY <2>1, Finite
  <2>3. f \in Bijection(T, Living)
    BY <2>1 DEF Bijection, Injection, Surjection, KeysOf, Alive, Distinct, IsInjective
  <2>4. ExistsBijection(T, Living)
    BY <2>3 DEF ExistsBijection
  <2> HIDE DEF T
  <2>5. Cardinality(T) = Cardinality(Living)
    BY <2>2, <2>4, FS_Bijection
  <2> QED BY <2>5 DEF SizeOK, SetInv, IInv, Counted, T
<1> QED BY <1>1, SetInvariance, PTL

\* The hash set implements the set of its keys: operations answer, and
\* insertions return, what they would of a set.
THEOREM Refinement == Spec => Implements
<1>1. Init => SetInv /\ Abstract!Init
  BY SetInitial
<1>2. SetInv /\ [Next]_vars => SetInv' /\ [Abstract!Next]_<< Living \cup Waiting, answer >>
  BY SetStep DEF Keys
<1> QED BY <1>1, <1>2, PTL DEF Spec, Implements, Abstract!Spec
=============================================================================
