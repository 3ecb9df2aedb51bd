----------------------------- MODULE DurableLog -----------------------------
(***************************************************************************)
(* What a PersistentStore promises about the records that can be read back *)
(* from its file: they grow by one record at a time, at the end, and a     *)
(* compaction keeps a number of the newest.  Nothing else, in particular   *)
(* no crash, recovery or truncation, ever changes them.                    *)
(***************************************************************************)
EXTENDS Naturals, Sequences

CONSTANT Records
VARIABLE contents

Init == contents = <<>>

Append1(r) == contents' = Append(contents, r)

Newest(k) == SubSeq(contents, Len(contents) - k + 1, Len(contents))
Compact(k) == contents' = Newest(k)

Next == \/ \E r \in Records : Append1(r)
        \/ \E k \in 0..Len(contents) : Compact(k)

Spec == Init /\ [][Next]_contents
=============================================================================
