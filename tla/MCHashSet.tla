----------------------------- MODULE MCHashSet ------------------------------
(***************************************************************************)
(* HashSet with keys whose hashes collide in small tables and not in       *)
(* larger ones, and a size that is small enough for the table to shrink.   *)
(***************************************************************************)
EXTENDS HashSet

MCKey == 1 .. 4
MCHash == [k \in MCKey |-> CASE k = 1 -> 0 [] k = 2 -> 0 [] k = 3 -> 9 [] k = 4 -> 19]
MCSizes == {4, 8, 16, 32}
=============================================================================
