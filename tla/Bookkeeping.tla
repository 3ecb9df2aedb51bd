---------------------------- MODULE Bookkeeping ----------------------------
(***************************************************************************)
(* What a comparison leaves behind: ObservatoryRuntime::compare_bucket()   *)
(* enters its result in the history, raises or resolves findings and       *)
(* writes both to the store; acknowledge_finding(), prune_history() and    *)
(* flush() work on the two registries, and start() fills both from one     *)
(* pass over the store (src/src/runtime.cpp).                              *)
(*                                                                         *)
(* Every call runs under the runtime's mutex and is one step; none of them *)
(* but start() and stop() looks at the state of the runtime.  A process    *)
(* may end at any time, and a call that fails between two appends leaves   *)
(* what a crash there would.  The clock is the wall clock and may be set   *)
(* back.                                                                   *)
(***************************************************************************)
EXTENDS FindingRegistry, History

CONSTANTS MaxLog,      \* limits.max_store_records
          MaxTime,     \* bound: readings of the clock
          MaxCompared  \* bound: comparisons made

ASSUME BookkeepingAssumption ==
    /\ MaxLog \in Nat /\ MaxTime \in Nat \ {0} /\ MaxCompared \in Nat
    /\ \A k \in Keys : k.subject \in Subjects

VARIABLES log,    \* the comparison and finding records in the store
          now,    \* the clock
          made,   \* the number of comparisons made
          phase   \* the runtime is "running", "stopped" or "failed"

vars == <<findings, records, log, now, made, phase>>

NoFindings == [k \in Keys |-> Absent]

ComparisonEntry(r) == [type |-> "Comparison", record |-> r]
FindingEntry(k, f) == [type |-> "Finding", key |-> k, finding |-> f]

Init ==
    /\ findings = NoFindings
    /\ records = <<>>
    /\ log = <<>>
    /\ now = 1
    /\ made = 0
    /\ phase = "running"

\* Appends to the store, one by one: each may fail on an I/O error, or because
\* the store is full, and the first that fails ends the call.
Appended(entries) ==
    \E n \in 0..Len(entries) :
        /\ Len(log) + n <= MaxLog
        /\ log' = log \o SubSeq(entries, 1, n)

-----------------------------------------------------------------------------
\* compare_bucket() of the subject and generation of k.  The history takes the
\* result whatever follows.  A result with a primary class is recorded as
\* finding k, and only then does the store get the comparison and the findings
\* whose last comparison it is: that one.  The outcome plays no part: a match
\* may carry a class as well.
Result(k) == [id |-> made + 1, subject |-> k.subject, at |-> now]

\* Mutant: the finding is written before the comparison it comes from.
FindingFirst(k) ==
    \E fs \in Recorded(k, made + 1, now) :
        /\ findings' = fs
        /\ Appended(<<FindingEntry(k, fs[k]), ComparisonEntry(Result(k))>>)

WithClass(k) ==
    \E fs \in Recorded(k, made + 1, now) :
        /\ findings' = fs
        /\ Appended(<<ComparisonEntry(Result(k)), FindingEntry(k, fs[k])>>)

\* The registry is full of open findings: the call fails before it writes.
Refused(k) ==
    /\ Recorded(k, made + 1, now) = {}
    /\ UNCHANGED <<findings, log>>

\* Without a class: resolve_from_match().  The comparison is no finding's last
\* one, so no finding is written.
WithoutClass(k, outcome) ==
    /\ findings' = ResolvedFromMatch(k, outcome, now)
    /\ Appended(<<ComparisonEntry(Result(k))>>)

\* An outcome is "Match" or "Other" without a class, "Class" with one.
compare_bucket(k, outcome) ==
    /\ made < MaxCompared
    /\ made' = made + 1
    /\ records' = AppendTo(records, Result(k))
    /\ \/ outcome = "Class" /\ (WithClass(k) \/ Refused(k))
       \/ outcome # "Class" /\ WithoutClass(k, outcome)
    /\ UNCHANGED <<now, phase>>

acknowledge_finding(k) ==
    /\ findings[k] # Absent
    /\ findings' = Acknowledged(k, now)
    /\ UNCHANGED <<records, log, now, made, phase>>

prune_history ==
    /\ records' = Pruned(now)
    /\ UNCHANGED <<findings, log, now, made, phase>>

\* flush() writes every finding, in the order of identities.
flush ==
    /\ LET all == SetToSeq(Present(findings))
       IN  Appended([i \in DOMAIN all |-> FindingEntry(all[i], findings[all[i]])])
    /\ UNCHANGED <<findings, records, now, made, phase>>

SetClock(t) ==
    /\ now' = t
    /\ UNCHANGED <<findings, records, log, made, phase>>

stop ==
    /\ phase = "running"
    /\ phase' = "stopped"
    /\ UNCHANGED <<findings, records, log, now, made>>

-----------------------------------------------------------------------------
\* restore_from_store(): one pass over the store, which ends at the first record
\* that does not fit.
RestoreEntry(acc, e) ==
    IF ~ acc.ok THEN acc
    ELSE IF e.type = "Comparison"
         THEN [acc EXCEPT !.records = AppendTo(@, e.record)]
    ELSE IF Fits(acc.findings, e.key)
         THEN [acc EXCEPT !.findings = RestoredOne(@, e.key, e.finding)]
    ELSE [acc EXCEPT !.ok = FALSE]

restore_from_store(fs, rs) ==
    LET restored[n \in 0..Len(log)] ==
            IF n = 0 THEN [ok |-> TRUE, findings |-> fs, records |-> rs]
            ELSE RestoreEntry(restored[n - 1], log[n])
    IN  restored[Len(log)]

\* start() on what the two registries hold: nothing in a new process, whatever
\* the last one was doing when it ended, and what they held when the same
\* runtime was stopped or failed to start.
start(fs, rs) ==
    LET restored == restore_from_store(fs, rs)
    IN  /\ UNCHANGED <<log, now, made>>
        /\ findings' = restored.findings
        /\ records' = restored.records
        /\ phase' = IF restored.ok THEN "running" ELSE "failed"

StartNewProcess == start(NoFindings, <<>>)
StartAgain == phase # "running" /\ start(findings, records)

Next ==
    \/ \E k \in Keys, outcome \in {"Match", "Other", "Class"} : compare_bucket(k, outcome)
    \/ \E k \in Keys : acknowledge_finding(k)
    \/ prune_history
    \/ flush
    \/ \E t \in 1..MaxTime : SetClock(t)
    \/ stop
    \/ StartNewProcess
    \/ StartAgain

Spec == Init /\ [][Next]_vars
-----------------------------------------------------------------------------
\* The types of the two registries and of the records in the store.
TypeOK ==
    /\ findings \in [Keys -> Finding \cup {Absent}]
    /\ records \in Seq(HistoryRecord)
    /\ \A i \in DOMAIN log :
           \/ log[i].type = "Comparison" /\ log[i].record \in HistoryRecord
           \/ log[i].type = "Finding" /\ log[i].finding \in Finding
    /\ Len(log) <= MaxLog
    /\ now \in 1..MaxTime
    /\ made \in 0..MaxCompared
    /\ phase \in {"running", "stopped", "failed"}

\* README.md:27, "Bounded comparison history with a count, per-subject ...
\* window", and max_findings: through appends, evictions, restores and repeated
\* restores neither the registry, nor the history, nor the share of one group or
\* path in it exceeds its bound.
WithinBounds ==
    /\ TypeOK
    /\ Cardinality(Present(findings)) <= MaxFindings
    /\ Len(records) <= MaxRecords
    /\ \A f \in {"group", "path"} : \A name \in {s[f] : s \in Subjects} \ {None} :
           Cardinality({i \in DOMAIN records : records[i].subject[f] = name})
               <= MaxPerSubject

\* No call makes a process forget a finding that is open: the eviction of
\* record() takes resolved findings only, and never the finding the comparison
\* is about; a stopped runtime that starts again keeps what it held.
OpenIsKept ==
    [][(\E k \in Keys : IsOpen(findings[k]) /\ findings'[k] = Absent)
           => StartNewProcess]_vars

\* A new process that starts holds exactly the findings the store names, each as
\* its newest record there says (the latest last_seen, then the most occurrences), in whatever order records of several findings,
\* repeated flushes and a clock that was set back have left them.
StoredAs(k) ==
    {log[i].finding : i \in {j \in DOMAIN log : log[j].type = "Finding" /\ log[j].key = k}}

RestoredIsNewest ==
    [][StartNewProcess /\ phase' = "running" =>
           \A k \in Keys :
               IF StoredAs(k) = {} THEN findings'[k] = Absent
               ELSE /\ findings'[k] \in StoredAs(k)
                    /\ \A f \in StoredAs(k) :
                           \/ f.last_seen < findings'[k].last_seen
                           \/ /\ f.last_seen = findings'[k].last_seen
                              /\ f.occurrences <= findings'[k].occurrences]_vars

\* compare_bucket() writes the comparison before the finding it raised: in no
\* state of the store, and so after no crash or failed append, does a finding
\* precede the comparison that it names as its last.
ComparisonFirst ==
    \A i, j \in DOMAIN log :
        /\ log[i].type = "Finding"
        /\ log[j].type = "Comparison"
        /\ log[i].finding.last_comparison = log[j].record.id
        => j < i

\* The comment at history.cpp:46-47: the record evicted for a subject that is
\* over its cap is its oldest one.  The comparison just made is newer than every
\* other of its subject, so it is the last record of the history.
JustComparedIsHeld ==
    [][made' # made => records' # <<>> /\ Last(records').id = made']_vars

\* prune() is invisible to a reader that applies the window, as history() does:
\* every query at that reading of the clock has the same answer before and
\* after it, whatever the clock did between the comparisons.
PruneIsInvisible ==
    [][prune_history => \A q \in Queries :
           query(records', q, now) = query(records, q, now)]_vars

-----------------------------------------------------------------------------
\* history.hpp:82: prune() is to "Drop every record older than the aggregation
\* window relative to now".
PruneDropsExpired ==
    [][prune_history => \A i \in DOMAIN records' : ~ Expired(records'[i], now)]_vars

\* finding.hpp:83-85: restore() preserves the lifecycle state, "because a
\* finding that was acknowledged before a restart is still acknowledged".
AcknowledgedSurvives ==
    [][phase = "stopped" /\ StartNewProcess /\ phase' = "running" =>
           \A k \in Present(findings) : findings[k].status = "Acknowledged" =>
               /\ findings'[k] # Absent
               /\ findings'[k].status = "Acknowledged"]_vars

\* The same claim for findings whose last record in the store says what they
\* are: a new process finds them as they were.
FlushedSurvives ==
    [][StartNewProcess /\ phase' = "running" =>
           \A k \in Present(findings) :
               (\E i \in DOMAIN log :
                    /\ log[i] = FindingEntry(k, findings[k])
                    /\ \A j \in i + 1..Len(log) :
                           log[j].type = "Finding" => log[j].key # k)
               => findings'[k] = findings[k]]_vars

\* docs/architecture.md:132-133: findings are restored from disk.  So a start
\* on the records the runtime wrote itself should not fail.
StartSucceeds == phase # "failed"

\* finding.hpp:79-80: findings for the subject of "a successful comparison" are
\* marked as resolved.  A match may carry a class, of a record that was excluded
\* or of an ambiguity.
MatchLeavesNothingOpen ==
    [][\A k \in Keys : compare_bucket(k, "Match") \/ compare_bucket(k, "Class") =>
           \A f \in Keys : f.subject = k.subject /\ f.generation <= k.generation
               => ~ IsOpen(findings'[f])]_vars
=============================================================================
