--------------------------- MODULE MCBookkeeping ---------------------------
\* Bookkeeping for TLC: findings on a path group in consecutive generations and
\* on evidence without a group.
EXTENDS Bookkeeping

Group == [group |-> "g", path |-> None]
Ungrouped == [group |-> None, path |-> None]

\* What the runtime compares: a path group, and evidence without a group.
RuntimeSubjects == {Group, Ungrouped}
RuntimeKeys == {[subject |-> Group, generation |-> 1, variant |-> "a"],
                [subject |-> Group, generation |-> 2, variant |-> "a"],
                [subject |-> Ungrouped, generation |-> 1, variant |-> "a"]}

\* What a program that drives the engine itself may compare as well: a path,
\* which the engine names with its group when the plan knows it.
LibrarySubjects == {Group, [group |-> "g", path |-> "p"], [group |-> None, path |-> "p"]}
LibraryKeys == {[subject |-> s, generation |-> 1, variant |-> "a"] : s \in LibrarySubjects}
=============================================================================
