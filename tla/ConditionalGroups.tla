-------------------------- MODULE ConditionalGroups --------------------------
(***************************************************************************)
(* Conditional inclusion (C99 6.10.1): which parts of the source are       *)
(* processed. A conditional is one of                                      *)
(*   taken    its current group is processed                               *)
(*   pending  its group is skipped, that of an #else will be processed     *)
(*   spent    its group is skipped, and so is any other                    *)
(*   ignored  it is within a group that is skipped                         *)
(* An #else after an #else is an error; nothing is processed after it.     *)
(***************************************************************************)
EXTENDS Naturals, Sequences

VARIABLES
  groups,    \* the open conditionals, innermost last
  skipping   \* whether text is skipped

Top == groups[Len(groups)]
Outer == SubSeq(groups, 1, Len(groups) - 1)

Skipped(gs) == gs # << >> /\ gs[Len(gs)] # "taken"

Init == groups = << >> /\ skipping = FALSE

Become(gs) == groups' = gs /\ skipping' = Skipped(gs)

\* #ifdef or #ifndef
If ==
  \E g \in IF skipping THEN {"ignored"} ELSE {"taken", "pending"} :
    Become(Append(groups, g))

Else ==
  /\ groups # << >>
  /\ Become(Append(Outer, CASE Top = "pending" -> "taken"
                            [] Top \in {"taken", "spent"} -> "spent"
                            [] Top = "ignored" -> "ignored"))

EndIf == groups # << >> /\ Become(Outer)

\* The end of the source.
End == groups' = << >> /\ UNCHANGED skipping

Next == If \/ Else \/ EndIf \/ End

Spec == Init /\ [][Next]_<< groups, skipping >>
=============================================================================
