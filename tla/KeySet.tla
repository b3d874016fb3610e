------------------------------- MODULE KeySet -------------------------------
(***************************************************************************)
(* What src/adt/hashset.c promises its users (the symbol table, the type   *)
(* hash, the string set and the entity map): a set of keys.                *)
(***************************************************************************)
CONSTANT Key

VARIABLES
  contents,  \* the keys in the set
  answer     \* of the last operation: the key if it was there (removing says nothing)

Init == contents = {} /\ answer = {}

Insert(k) ==
  /\ contents' = contents \cup {k}
  /\ answer' = contents \cap {k}

Find(k) ==
  /\ answer' = contents \cap {k}
  /\ UNCHANGED contents

Remove(k) ==
  /\ contents' = contents \ {k}
  /\ answer' = {}

Next == \E k \in Key : Insert(k) \/ Find(k) \/ Remove(k)

Spec == Init /\ [][Next]_<< contents, answer >>
=============================================================================
