------------------------------ MODULE HashSet -------------------------------
(***************************************************************************)
(* The generic hash set of src/adt/hashset.c: open addressing with         *)
(* deleted entries, which grows and shrinks when an element is inserted.   *)
(*                                                                         *)
(* Finding and removing are one step. An insertion is several: deciding    *)
(* whether to shrink, then whether to grow, and resizing, which inserts    *)
(* the old entries into the new table one by one.                          *)
(***************************************************************************)
EXTENDS Integers, FiniteSets

CONSTANTS
  Key,        \* values up to KeysEqual
  Hash,       \* hash of each key
  Empty,      \* an entry that was never used since the table was allocated
  Deleted,    \* an entry whose key was removed
  Sizes,      \* numbers of buckets: powers of two, up to a bound
  MinBuckets  \* HT_MIN_BUCKETS, a power of two

\* The bucket that is looked at after n others: the jumps are 1, 2, 3, ...
Bucket(size, k, n) == (Hash[k] + ((n * (n + 1)) \div 2)) % size

ASSUME HashSetAssumption ==
  /\ Hash \in [Key -> Nat]
  /\ Empty \notin Key /\ Deleted \notin Key /\ Empty # Deleted
  /\ Sizes \subseteq { size \in Nat : size >= 4 }
  /\ MinBuckets \in Nat /\ \E size \in Sizes : MinBuckets <= size

\* As many probes as there are buckets look at every bucket. (True of powers
\* of two, and of few other sizes.)
ASSUME ProbingCovers ==
  \A size \in Sizes, k \in Key :
    \A b \in 0 .. size - 1 : \E n \in 0 .. size - 1 : Bucket(size, k, n) = b

VARIABLES
  entries,          \* the table
  num_buckets,
  num_elements,     \* entries used, an entry used again counting again
  num_deleted,
  consider_shrink,
  old_entries,      \* while resizing: the table before, ...
  next,             \* ... and its entry that is inserted next
  pc,               \* what insertion is doing
  key,              \* the key being inserted, if any
  answer            \* of the last operation: the key if it was there

vars == << entries, num_buckets, num_elements, num_deleted, consider_shrink,
           old_entries, next, pc, key, answer >>

resizing == << old_entries, next >>

Entry == Key \cup {Empty, Deleted}
NoEntries == [b \in {} |-> Empty]
Buckets == 0 .. num_buckets - 1
OldBuckets == DOMAIN old_entries

hashset_size == num_elements - num_deleted

First(S) == CHOOSE n \in S : \A m \in S : n <= m

\* The entry that is probed for k after n others.
At(k, n) == entries[Bucket(num_buckets, k, n)]

\* Mutant: deleted entries end a search.
Endings_Deleted(k) == { n \in Buckets : At(k, n) \in {Empty, Deleted, k} }

\* The probes for k that end a search, and those that find a deleted entry
\* before. (Where none ends it, assert(num_probes < num_buckets) aborts.)
Endings(k) == { n \in Buckets : At(k, n) \in {Empty, k} }
Reusable(k) == { n \in Buckets : n < First(Endings(k)) /\ At(k, n) = Deleted }

-----------------------------------------------------------------------------
(***************************************************************************)
(* hashset_insert()                                                        *)
(***************************************************************************)
enlarge_threshold == num_buckets \div 2
shrink_threshold == num_buckets \div 5

\* The smallest size for n elements: max(ceil_po2(n), 4).
Fitting(n) == First({ size \in Sizes : n <= size })

\* Mutant: deleted entries are forgotten, but not their number.
resize_DeletedStay(size, as) ==
  /\ entries' = [b \in 0 .. size - 1 |-> Empty]
  /\ num_buckets' = size
  /\ num_elements' = 0 /\ UNCHANGED num_deleted
  /\ consider_shrink' = FALSE
  /\ old_entries' = entries /\ next' = 0
  /\ pc' = as

resize(size, as) ==
  /\ entries' = [b \in 0 .. size - 1 |-> Empty]
  /\ num_buckets' = size
  /\ num_elements' = 0 /\ num_deleted' = 0
  /\ consider_shrink' = FALSE
  /\ old_entries' = entries /\ next' = 0
  /\ pc' = as

Shrinks ==
  /\ consider_shrink
  /\ hashset_size > MinBuckets
  /\ hashset_size <= shrink_threshold

\* Mutant: only the elements present are counted.
Grows_Present == hashset_size + 1 > enlarge_threshold

Grows == num_elements + 1 > enlarge_threshold

\* Bound: growing yields one of Sizes.
MayGrow == Grows => 2 * num_buckets \in Sizes

\* maybe_shrink()
Insert(k) ==
  /\ pc = "idle" /\ (Shrinks \/ MayGrow)
  /\ key' = k
  /\ IF Shrinks THEN resize(Fitting(hashset_size), "shrinking")
     ELSE /\ pc' = "grow" /\ consider_shrink' = FALSE
          /\ UNCHANGED << entries, num_buckets, num_elements, num_deleted, resizing >>
  /\ UNCHANGED answer

maybe_grow ==
  /\ pc = "grow" /\ MayGrow
  /\ IF Grows THEN resize(2 * num_buckets, "growing")
     ELSE /\ pc' = "insert"
          /\ UNCHANGED << entries, num_buckets, num_elements, num_deleted,
                          consider_shrink, resizing >>
  /\ UNCHANGED << key, answer >>

\* insert_new(), for one old entry.
Reinsert ==
  /\ pc \in {"shrinking", "growing"} /\ next \in OldBuckets
  /\ LET k == old_entries[next]
         free == { n \in Buckets : At(k, n) = Empty }
     IN IF k \in {Empty, Deleted}
        THEN /\ next' = next + 1
             /\ UNCHANGED << entries, num_elements, pc >>
        ELSE IF free = {} \/ \E n \in Buckets : n < First(free) /\ At(k, n) = Deleted
        THEN pc' = "aborted" /\ UNCHANGED << entries, num_elements, next >>
        ELSE /\ entries' = [entries EXCEPT ![Bucket(num_buckets, k, First(free))] = k]
             /\ num_elements' = num_elements + 1
             /\ next' = next + 1
             /\ UNCHANGED pc
  /\ UNCHANGED << num_buckets, num_deleted, consider_shrink, old_entries, key, answer >>

EndOfResize ==
  /\ pc \in {"shrinking", "growing"} /\ next \notin OldBuckets
  /\ pc' = IF pc = "shrinking" THEN "grow" ELSE "insert"
  /\ old_entries' = NoEntries /\ next' = 0
  /\ UNCHANGED << entries, num_buckets, num_elements, num_deleted,
                  consider_shrink, key, answer >>

insert_nogrow ==
  /\ pc = "insert"
  /\ pc' = IF Endings(key) = {} THEN "aborted" ELSE "idle"
  /\ LET n == First(Endings(key))
         p == IF Reusable(key) = {} THEN n ELSE First(Reusable(key))
     IN CASE Endings(key) = {} -> UNCHANGED << entries, num_elements, answer >>
          [] Endings(key) # {} /\ At(key, n) = key ->
               answer' = {key} /\ UNCHANGED << entries, num_elements >>
          [] Endings(key) # {} /\ At(key, n) # key ->
               /\ answer' = {}
               /\ entries' = [entries EXCEPT ![Bucket(num_buckets, key, p)] = key]
               /\ num_elements' = num_elements + 1
  /\ key' = IF pc' = "idle" THEN Empty ELSE key
  /\ UNCHANGED << num_buckets, num_deleted, consider_shrink, resizing >>

-----------------------------------------------------------------------------
(***************************************************************************)
(* hashset_find(), hashset_remove()                                        *)
(***************************************************************************)
Find(k) ==
  /\ pc = "idle"
  /\ IF Endings(k) = {} THEN pc' = "aborted" /\ UNCHANGED answer
     ELSE answer' = { At(k, First(Endings(k))) } \ {Empty} /\ UNCHANGED pc
  /\ UNCHANGED << entries, num_buckets, num_elements, num_deleted,
                  consider_shrink, resizing, key >>

\* Mutant: counts a removal though the key is not there.
Remove_Absent(k) ==
  /\ pc = "idle"
  /\ pc' = IF Endings(k) = {} THEN "aborted" ELSE pc
  /\ IF Endings(k) # {} /\ At(k, First(Endings(k))) = k
     THEN entries' = [entries EXCEPT ![Bucket(num_buckets, k, First(Endings(k)))] = Deleted]
     ELSE UNCHANGED entries
  /\ num_deleted' = num_deleted + 1
  /\ consider_shrink' = TRUE
  /\ answer' = {}
  /\ UNCHANGED << num_buckets, num_elements, resizing, key >>

\* Mutant: the entry becomes empty.
Remove_Empties(k) ==
  /\ pc = "idle"
  /\ pc' = IF Endings(k) = {} THEN "aborted" ELSE pc
  /\ IF Endings(k) # {} /\ At(k, First(Endings(k))) = k
     THEN /\ entries' = [entries EXCEPT ![Bucket(num_buckets, k, First(Endings(k)))] = Empty]
          /\ num_deleted' = num_deleted + 1
          /\ consider_shrink' = TRUE
     ELSE UNCHANGED << entries, num_deleted, consider_shrink >>
  /\ answer' = {}
  /\ UNCHANGED << num_buckets, num_elements, resizing, key >>

Remove(k) ==
  /\ pc = "idle"
  /\ pc' = IF Endings(k) = {} THEN "aborted" ELSE pc
  /\ IF Endings(k) # {} /\ At(k, First(Endings(k))) = k
     THEN /\ entries' = [entries EXCEPT ![Bucket(num_buckets, k, First(Endings(k)))] = Deleted]
          /\ num_deleted' = num_deleted + 1
          /\ consider_shrink' = TRUE
     ELSE UNCHANGED << entries, num_deleted, consider_shrink >>
  /\ answer' = {}
  /\ UNCHANGED << num_buckets, num_elements, resizing, key >>

-----------------------------------------------------------------------------
\* init_size()
Init ==
  /\ num_buckets = Fitting(MinBuckets)
  /\ entries = [b \in 0 .. Fitting(MinBuckets) - 1 |-> Empty]
  /\ num_elements = 0 /\ num_deleted = 0
  /\ consider_shrink = FALSE
  /\ old_entries = NoEntries /\ next = 0
  /\ pc = "idle" /\ key = Empty
  /\ answer = {}

Next ==
  \/ \E k \in Key : Insert(k) \/ Find(k) \/ Remove(k)
  \/ maybe_grow \/ Reinsert \/ EndOfResize \/ insert_nogrow

Spec == Init /\ [][Next]_vars

-----------------------------------------------------------------------------
(***************************************************************************)
(* Properties.                                                             *)
(***************************************************************************)
Function(size) == [0 .. size - 1 -> Entry]

\* Type correctness; the counters never run below zero.
TypeOK ==
  /\ num_buckets \in Sizes
  /\ entries \in Function(num_buckets)
  /\ num_elements \in Nat /\ num_deleted \in Nat /\ hashset_size \in Nat
  /\ consider_shrink \in BOOLEAN
  /\ \E size \in Sizes \cup {0} : old_entries \in Function(size)
  /\ next \in Nat
  /\ pc \in {"idle", "grow", "insert", "shrinking", "growing", "aborted"}
  /\ key \in Key \cup {Empty}
  /\ answer \subseteq Key

\* Every search meets its key or an empty entry: the table always has one,
\* though insertion counts elements and not entries used, and though the
\* table that a shrinking one is copied to may become full.
NotAborted == pc # "aborted"

Living == { entries[b] : b \in Buckets } \cap Key
Waiting == { old_entries[b] : b \in { b \in OldBuckets : next <= b } } \cap Key

\* Each key is in one entry, which is met by a search for it before an empty
\* one: removing keys, using deleted entries again and resizing never cut
\* the way to a key.
Findable ==
  /\ \A b, c \in Buckets : entries[b] = entries[c] /\ entries[b] \in Key => b = c
  /\ \A b \in Buckets : entries[b] \in Key =>
       \E n \in Buckets :
         /\ Bucket(num_buckets, entries[b], n) = b
         /\ \A m \in 0 .. n - 1 : At(entries[b], m) # Empty

\* hashset_size() is the number of keys in the table.
SizeOK == hashset_size = Cardinality(Living)

\* The hash set is a set: whatever the hash function, searches answer and
\* insertions return what they would of a set.
Abstract == INSTANCE KeySet WITH contents <- Living \cup Waiting
Implements == Abstract!Spec
=============================================================================
