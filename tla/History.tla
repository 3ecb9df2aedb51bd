------------------------------ MODULE History ------------------------------
(***************************************************************************)
(* The comparison history: src/src/history.cpp.  Its calls are operators   *)
(* on the deque of records that Bookkeeping makes under the runtime's      *)
(* mutex.                                                                  *)
(*                                                                         *)
(* A record is the number of the comparison, its subject and the reading   *)
(* of the clock at which it was made; the other fields are copied and read *)
(* by nothing that decides.                                                *)
(***************************************************************************)
EXTENDS Subject, Integers, Sequences, FiniteSets, SequencesExt

CONSTANTS MaxRecords,     \* limits.max_history_records
          MaxPerSubject,  \* limits.max_history_per_group
          MaxExport,      \* limits.max_export_records
          Window          \* limits.history_window_nanos

ASSUME HistoryAssumption ==
    /\ MaxRecords \in Nat \ {0} /\ MaxPerSubject \in 1..MaxRecords
    /\ MaxExport \in Nat /\ Window \in Nat

VARIABLE records  \* records_

HistoryRecord == [id : Nat, subject : Subjects, at : Nat]

-----------------------------------------------------------------------------
\* append(): the eviction loop drops one record per round while some record
\* shares its subject with more than the cap allows, namely the first of those
\* that share with the most; then the oldest go while there are too many.
Sharing(s, i) ==
    Cardinality({j \in DOMAIN s : same_subject(s[j].subject, s[i].subject)})

OverCap(s) == {i \in DOMAIN s : Sharing(s, i) > MaxPerSubject}

Worst(s) ==
    CHOOSE i \in OverCap(s) : \A j \in OverCap(s) :
        \/ Sharing(s, j) < Sharing(s, i)
        \/ Sharing(s, j) = Sharing(s, i) /\ i <= j

EvictOne(s) == IF OverCap(s) = {} THEN s ELSE RemoveAt(s, Worst(s))

\* One round per record is more than the loop can take.
EvictRounds(s) ==
    LET after[n \in 0..Len(s)] == IF n = 0 THEN s ELSE EvictOne(after[n - 1])
    IN  after[Len(s)]

\* Mutant: the newest records go when there are too many.
KeepOldest(s) == SubSeq(s, 1, IF Len(s) > MaxRecords THEN MaxRecords ELSE Len(s))

KeepNewest(s) ==
    SubSeq(s, 1 + (IF Len(s) > MaxRecords THEN Len(s) - MaxRecords ELSE 0), Len(s))

AppendTo(s, r) == KeepNewest(EvictRounds(Append(s, r)))

-----------------------------------------------------------------------------
\* prune(): the front of the deque is dropped while it is out of the window.
Expired(r, t) == t - r.at > 0 /\ t - r.at > Window

\* Mutant: a record that has just reached the end of the window goes as well.
PrunedReached(t) ==
    LET kept == {i \in DOMAIN records : t - records[i].at < Window}
    IN  IF kept = {} THEN <<>> ELSE SubSeq(records, Min(kept), Len(records))

Pruned(t) ==
    LET kept == {i \in DOMAIN records : ~ Expired(records[i], t)}
    IN  IF kept = {} THEN <<>> ELSE SubSeq(records, Min(kept), Len(records))

-----------------------------------------------------------------------------
\* query() for one subject (or all of them) at time t with the window applied,
\* newest first, as far as the limit allows.
Queries == {[subject |-> s, limit |-> n] : s \in Subjects, n \in 0..MaxExport + 1}

Asks(q) == q.subject.group # None \/ q.subject.path # None

Passes(r, q, t) ==
    /\ Asks(q) => same_subject(r.subject, q.subject)
    /\ ~ Expired(r, t)

Selected(s, q, t) ==
    LET chosen[n \in 0..Len(s)] ==
            IF n = 0 THEN <<>>
            ELSE IF Passes(s[n], q, t) THEN Append(chosen[n - 1], s[n])
            ELSE chosen[n - 1]
    IN  chosen[Len(s)]

Newer(a, b) == a.at > b.at \/ (a.at = b.at /\ a.id > b.id)

Shown(selected, q) ==
    LET limit == IF q.limit < MaxExport THEN q.limit ELSE MaxExport
    IN  [records |-> SubSeq(SortSeq(selected, Newer), 1,
                         IF Len(selected) > limit THEN limit ELSE Len(selected)),
         matched |-> Len(selected),
         truncated |-> Len(selected) > limit]

query(s, q, t) == Shown(Selected(s, q, t), q)
=============================================================================
