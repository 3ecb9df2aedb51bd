---------------------------- MODULE SourceLedger ----------------------------
(***************************************************************************)
(* The sequence ledger of src/src/source.cpp and the gap flag that         *)
(* ObservatoryRuntime::ingest_evidence keeps beside it.                    *)
(*                                                                         *)
(* Delivery is unreliable: any numbered record of any incarnation of a     *)
(* source may arrive at any time, so records are lost, repeated and        *)
(* reordered, also across a restart of the source.                         *)
(***************************************************************************)
EXTENDS Senders, Naturals, FiniteSets

CONSTANTS NoIncarnation,  \* the invalid SourceIncarnationId of an empty entry
          MaxSequence     \* bound: the largest sequence number explored

ASSUME LedgerAssumption ==
    /\ NoIncarnation \notin Incarnations
    /\ MaxSequence \in Nat

VARIABLES entries,  \* entries_: incarnation, highest and missing, per source
          flag,     \* source_has_gap_ of the runtime
          span,     \* history: sequences accepted since the incarnation began
          lowest,   \* history: the first of them
          offered,  \* history: sequences that arrived since it began
          passed    \* history: every <<incarnation, sequence>> ever accepted

ledger == <<entries, flag, span, lowest, offered, passed>>

Sequence == 1..MaxSequence
Entry == [incarnation : Incarnations \cup {NoIncarnation},
          highest : Nat, missing : Nat]

LedgerInit ==
    /\ entries = [s \in Sources |->
           [incarnation |-> NoIncarnation, highest |-> 0, missing |-> 0]]
    /\ flag = [s \in Sources |-> FALSE]
    /\ span = [s \in Sources |-> {}]
    /\ lowest = [s \in Sources |-> 0]
    /\ offered = [s \in Sources |-> {}]
    /\ passed = [s \in Sources |-> {}]

\* Mutants: the high water mark moves on, the rest of the entry is kept.
FirstKeepsMissing(s, i, n) ==
    /\ entries[s].incarnation # i
    /\ entries' = [entries EXCEPT ![s] =
           [@ EXCEPT !.incarnation = i, !.highest = n]]
    /\ flag' = [flag EXCEPT ![s] = entries[s].missing > 0]
    /\ span' = [span EXCEPT ![s] = {n}]
    /\ lowest' = [lowest EXCEPT ![s] = n]
    /\ offered' = [offered EXCEPT ![s] = {n}]
    /\ passed' = [passed EXCEPT ![s] = @ \cup {<<i, n>>}]

FirstKeepsFlag(s, i, n) ==
    /\ entries[s].incarnation # i
    /\ entries' = [entries EXCEPT ![s] =
           [incarnation |-> i, highest |-> n, missing |-> 0]]
    /\ span' = [span EXCEPT ![s] = {n}]
    /\ lowest' = [lowest EXCEPT ![s] = n]
    /\ offered' = [offered EXCEPT ![s] = {n}]
    /\ passed' = [passed EXCEPT ![s] = @ \cup {<<i, n>>}]
    /\ UNCHANGED flag

\* observe() on the first record of an incarnation, the first one ever or one
\* that replaces another incarnation: the sequence space starts here.
FirstOfIncarnation(s, i, n) ==
    /\ entries[s].incarnation # i
    /\ entries' = [entries EXCEPT ![s] =
           [incarnation |-> i, highest |-> n, missing |-> 0]]
    /\ flag' = [flag EXCEPT ![s] = FALSE]
    /\ span' = [span EXCEPT ![s] = {n}]
    /\ lowest' = [lowest EXCEPT ![s] = n]
    /\ offered' = [offered EXCEPT ![s] = {n}]
    /\ passed' = [passed EXCEPT ![s] = @ \cup {<<i, n>>}]

\* Mutant: a late record that fills a hole is taken.
ReplayFillsHole(s, i, n) ==
    /\ entries[s].incarnation = i
    /\ n \in lowest[s]..entries[s].highest
    /\ LET hole == IF n \in span[s] THEN 0 ELSE 1
       IN  /\ entries' = [entries EXCEPT ![s].missing = @ - hole]
           /\ flag' = [flag EXCEPT ![s] = entries[s].missing > hole]
    /\ span' = [span EXCEPT ![s] = @ \cup {n}]
    /\ offered' = [offered EXCEPT ![s] = @ \cup {n}]
    /\ passed' = [passed EXCEPT ![s] = @ \cup {<<i, n>>}]
    /\ UNCHANGED lowest

\* The record is at or below the highest sequence of its incarnation.
Replay(s, i, n) ==
    /\ entries[s].incarnation = i
    /\ n <= entries[s].highest
    /\ offered' = [offered EXCEPT ![s] = @ \cup {n}]
    /\ UNCHANGED <<entries, flag, span, lowest, passed>>

\* The record moves the highest sequence, over a gap or not.
Advance(s, i, n) ==
    LET gap == n - entries[s].highest - 1
    IN  /\ entries[s].incarnation = i
        /\ n > entries[s].highest
        /\ entries' = [entries EXCEPT ![s] =
               [incarnation |-> i, highest |-> n, missing |-> @.missing + gap]]
        /\ flag' = [flag EXCEPT ![s] = @ \/ gap > 0]
        /\ span' = [span EXCEPT ![s] = @ \cup {n}]
        /\ offered' = [offered EXCEPT ![s] = @ \cup {n}]
        /\ passed' = [passed EXCEPT ![s] = @ \cup {<<i, n>>}]
        /\ UNCHANGED lowest

Observe(s, i, n) ==
    \/ FirstOfIncarnation(s, i, n)
    \/ Replay(s, i, n)
    \/ Advance(s, i, n)

LedgerNext == \E s \in Sources, i \in Incarnations, n \in Sequence : Observe(s, i, n)

LedgerSpec == LedgerInit /\ [][LedgerNext]_ledger
-----------------------------------------------------------------------------
\* The ledger holds a valid incarnation or nothing, and the 64-bit counters
\* neither underflow nor exceed the sequence numbers they are made of.
LedgerTypeOK ==
    /\ entries \in [Sources -> Entry]
    /\ flag \in [Sources -> BOOLEAN]
    /\ span \in [Sources -> SUBSET Sequence]
    /\ lowest \in [Sources -> 0..MaxSequence]
    /\ offered \in [Sources -> SUBSET Sequence]
    /\ passed \in [Sources -> SUBSET (Incarnations \X Sequence)]

\* The high water mark of observe() is the largest accepted sequence, and the
\* missing counter is exactly the number of sequences between the first and
\* the last accepted one that were never accepted: adding up the gaps record
\* by record neither forgets a hole nor counts one twice.
MissingIsExact ==
    \A s \in Sources : entries[s].incarnation # NoIncarnation =>
        /\ lowest[s] \in span[s]
        /\ entries[s].highest \in span[s]
        /\ \A n \in span[s] : n \in lowest[s]..entries[s].highest
        /\ entries[s].missing + Cardinality(span[s])
               = entries[s].highest - lowest[s] + 1

\* The flag that compare_bucket() reads (source_has_gap_) and the ledger's own
\* answer (has_gap()) are two copies of one fact and never disagree.
FlagAgrees == \A s \in Sources : flag[s] <=> entries[s].missing > 0

\* As long as a source keeps its incarnation, observe() only accepts a record
\* that is newer than all it accepted before: no record is accepted twice and
\* none overtakes another.
AcceptedInOrder ==
    [][\A s \in Sources : entries'[s].incarnation = entries[s].incarnation =>
           \A new \in span'[s] \ span[s], old \in span[s] : new > old]_ledger

\* source.hpp:119-120: a sequence at or below the highest accepted sequence
\* for the same incarnation is a replay and is rejected; source.cpp:192-195
\* says the same of a superseded incarnation.  So observe() should accept each
\* record of an incarnation once.
EachRecordOnce ==
    [][\A s \in Sources, i \in Incarnations, n \in Sequence :
           <<i, n>> \in passed[s] => ~ FirstOfIncarnation(s, i, n)]_ledger

\* source.hpp:122-124: a gap downgrades a source "until the missing range is
\* supplied".  So a source whose every sequence arrived should have no gap.
SuppliedRangeClearsGap ==
    \A s \in Sources :
        (/\ entries[s].incarnation # NoIncarnation
         /\ lowest[s]..entries[s].highest \subseteq offered[s]) => ~ flag[s]
=============================================================================
