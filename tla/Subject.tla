------------------------------ MODULE Subject ------------------------------
(***************************************************************************)
(* What a comparison is about: a path group, a path, both or neither.  The *)
(* runtime asks for groups only; a program that drives ComparisonEngine,   *)
(* HistoryStore and FindingRegistry itself may ask for paths as well.      *)
(***************************************************************************)
CONSTANTS Subjects,  \* [group, path], each possibly None
          None       \* an optional group or path that is not present

\* same_subject() of the history, and the test of the same name in
\* resolve_from_match() of the findings: both have the group, or both the path.
same_subject(r, s) ==
    \/ s.group # None /\ r.group = s.group
    \/ s.path # None /\ r.path = s.path
=============================================================================
