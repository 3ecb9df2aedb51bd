------------------------- MODULE EvidenceIngestion -------------------------
(***************************************************************************)
(* An evidence record from ingest_evidence() to the bucket that the        *)
(* comparisons read, the store, and the restart that puts it back: the     *)
(* observation side of src/src/runtime.cpp with the source registry of     *)
(* src/src/source.cpp.                                                     *)
(*                                                                         *)
(* Every call runs under the runtime's mutex and is one step.  Clients     *)
(* call a runtime that has been started once; none of these calls looks at *)
(* its state afterwards.  A record is what the calls look at; its          *)
(* identity is a digest of its content, so equal records are the same      *)
(* observation.  Each source has one incarnation here and the ledger is    *)
(* its highest sequence: module SourceLedger has the rest of the ledger,   *)
(* and module Publication the fences a new plan has to pass.               *)
(***************************************************************************)
EXTENDS Naturals, Sequences, FiniteSets, FiniteSetsExt, Functions, Records

CONSTANTS Descriptors,  \* [source, authority, surface]: what may be registered
          Evidence,     \* the records that observers send
          Plans,        \* route generations as the authority writes them
          MaxBucket,    \* limits.max_evidence_per_comparison
          MaxLog        \* limits.max_store_records

Sources == {d.source : d \in Descriptors} \cup {e.source : e \in Evidence}
Generations == {p.id : p \in Plans} \cup ({e.generation : e \in Evidence} \ {None})
Groups == ({e.group : e \in Evidence} \cup
           UNION {Identities(p.groups) \cup {x.group : x \in Range(p.paths)} :
                      p \in Plans}) \ {None}

ASSUME IngestionAssumption ==
    /\ \A p \in Plans : p.id \in Nat
    /\ Groups \subseteq Nat
    /\ MaxBucket \in Nat \ {0} /\ MaxLog \in Nat
    /\ \A e \in Evidence : e.sequence \in Nat \ {0}
    /\ None \notin Descriptors \cup Plans \cup Evidence

VARIABLES phase,     \* "running", "stopped" or "failed"
          sources,   \* sources_
          highest,   \* ledger_: the highest sequence of each source
          routes,    \* routes_
          evidence,  \* evidence_: a sequence of records, or None, per subject
          log,       \* the source and evidence records of the store
          reply,     \* what the last call of ingest_evidence() answered
          accepted   \* history: records this process said it accepted

vars == <<phase, sources, highest, routes, evidence, log, reply, accepted>>

SubjectKey == [generation : Generations, group : Groups \cup {None}]
NoReply == [evidence |-> None, verdict |-> "none"]
LogRecord == [type : {"Source"}, value : Descriptors]
             \cup [type : {"Evidence"}, value : Evidence]

Items(bucket) == IF bucket = None THEN {} ELSE Range(bucket)
Held == UNION {Items(evidence[k]) : k \in SubjectKey}
Logged == {r.value : r \in {x \in Range(log) : x.type = "Evidence"}}

NoSources == [s \in Sources |-> None]
NoEvidence == [k \in SubjectKey |-> None]

Init ==
    /\ phase = "running"
    /\ sources = NoSources
    /\ highest = [s \in Sources |-> 0]
    /\ routes = None
    /\ evidence = NoEvidence
    /\ log = <<>>
    /\ reply = NoReply
    /\ accepted = {}

-----------------------------------------------------------------------------
\* SourceRegistry::register_source: a descriptor that states no authority
\* (authority 0) stands for all that validate() refuses; an identity may be
\* registered again only with the same content.
Registers(registry, d) ==
    /\ d.authority # 0
    /\ registry[d.source] \in {None, d}

\* ObservatoryRuntime::register_source: the descriptor goes to the store before
\* the registry has looked at it.  When the store refuses it nothing changes.
RegisterSource(d) ==
    /\ Len(log) < MaxLog
    /\ log' = Append(log, [type |-> "Source", value |-> d])
    /\ sources' = IF Registers(sources, d) THEN [sources EXCEPT ![d.source] = d]
                  ELSE sources
    /\ reply' = NoReply
    /\ UNCHANGED <<phase, highest, routes, evidence, accepted>>

\* A new plan, kept unless finalize() refuses it; its fences are in module
\* Publication.
PublishRoutes(p) ==
    /\ routes' = IF RoutesAccepted(p) THEN finalize(p) ELSE routes
    /\ reply' = NoReply
    /\ UNCHANGED <<phase, sources, highest, evidence, log, accepted>>

-----------------------------------------------------------------------------
\* resolve_subject(): the generation a record belongs to, None when it names
\* none and no plan is current.
GenerationOf(e, plan) ==
    IF e.generation # None THEN e.generation
    ELSE IF plan # None THEN plan.id ELSE None

\* The only group between two devices; None when there are none or several.
OnlyGroupBetween(plan, ends) ==
    LET found == find_group_by_endpoints(plan, ends)
    IN  IF Cardinality(found) = 1 THEN Min(found) ELSE None

\* The group a record belongs to: the one it names, or, under the current plan
\* only, the group of its path or the only group between its ends.
GroupOf(e, plan) ==
    IF e.group # None THEN e.group
    ELSE IF plan = None \/ plan.id # GenerationOf(e, plan) THEN None
    ELSE IF find_path_group(plan, e.path) # None THEN find_path_group(plan, e.path)
    ELSE OnlyGroupBetween(plan, e.ends)

resolve_subject(e, plan) ==
    [generation |-> GenerationOf(e, plan), group |-> GroupOf(e, plan)]

Full(bucket) == bucket # None /\ Len(bucket) >= MaxBucket
Push(bucket, e) == IF bucket = None THEN <<e>> ELSE Append(bucket, e)

\* evidence_[key] makes the bucket when there is none, whatever follows.
Touched(bucket) == IF bucket = None THEN <<>> ELSE bucket

\* The registered source vouches for the record.
Admits(d, e) == d # None /\ e.authority <= d.authority /\ e.surface = d.surface

Answer(e, verdict) == reply' = [evidence |-> e, verdict |-> verdict]

IngestRefused(e) ==
    /\ ~ validate(e) \/ ~ Admits(sources[e.source], e)
    /\ Answer(e, "refused")
    /\ UNCHANGED <<phase, sources, highest, routes, evidence, log, accepted>>

IngestReplay(e) ==
    /\ validate(e)
    /\ Admits(sources[e.source], e)
    /\ e.sequence <= highest[e.source]
    /\ Answer(e, "replay")
    /\ UNCHANGED <<phase, sources, highest, routes, evidence, log, accepted>>

\* From here on the ledger has taken the sequence.
Observed(e) ==
    /\ validate(e)
    /\ Admits(sources[e.source], e)
    /\ e.sequence > highest[e.source]
    /\ highest' = [highest EXCEPT ![e.source] = e.sequence]

IngestUnresolved(e) ==
    /\ Observed(e)
    /\ GenerationOf(e, routes) = None
    /\ Answer(e, "unresolved")
    /\ UNCHANGED <<phase, sources, routes, evidence, log, accepted>>

IngestBucketFull(e) ==
    LET key == resolve_subject(e, routes)
    IN  /\ Observed(e)
        /\ key.generation # None
        /\ Full(evidence[key])
        /\ Answer(e, "full")
        /\ UNCHANGED <<phase, sources, routes, evidence, log, accepted>>

\* The same observation delivered twice is one observation.
IngestDuplicate(e) ==
    LET key == resolve_subject(e, routes)
    IN  /\ Observed(e)
        /\ key.generation # None
        /\ ~ Full(evidence[key])
        /\ e \in Items(evidence[key])
        /\ Answer(e, "accepted")
        /\ accepted' = accepted \cup {e}
        /\ UNCHANGED <<phase, sources, routes, evidence, log>>

\* A new record, which the store may fail to take (an I/O error, or full).
NewRecord(e) ==
    LET key == resolve_subject(e, routes)
    IN  /\ Observed(e)
        /\ key.generation # None
        /\ ~ Full(evidence[key])
        /\ e \notin Items(evidence[key])

IngestNotPersisted(e) ==
    LET key == resolve_subject(e, routes)
    IN  /\ NewRecord(e)
        /\ Answer(e, "not persisted")
        /\ evidence' = [evidence EXCEPT ![key] = Touched(@)]
        /\ UNCHANGED <<phase, sources, routes, log, accepted>>

\* Mutant: the bucket takes the record even when the store did not.
StoreUnlessFull(e) ==
    LET key == resolve_subject(e, routes)
    IN  /\ NewRecord(e)
        /\ log' = IF Len(log) < MaxLog
                  THEN Append(log, [type |-> "Evidence", value |-> e]) ELSE log
        /\ evidence' = [evidence EXCEPT ![key] = Push(@, e)]
        /\ Answer(e, "accepted")
        /\ accepted' = accepted \cup {e}
        /\ UNCHANGED <<phase, sources, routes>>

IngestStored(e) ==
    LET key == resolve_subject(e, routes)
    IN  /\ NewRecord(e)
        /\ Len(log) < MaxLog
        /\ log' = Append(log, [type |-> "Evidence", value |-> e])
        /\ evidence' = [evidence EXCEPT ![key] = Push(@, e)]
        /\ Answer(e, "accepted")
        /\ accepted' = accepted \cup {e}
        /\ UNCHANGED <<phase, sources, routes>>

ingest_evidence(e) ==
    \/ IngestRefused(e) \/ IngestReplay(e) \/ IngestUnresolved(e)
    \/ IngestBucketFull(e) \/ IngestDuplicate(e) \/ IngestNotPersisted(e)
    \/ IngestStored(e)

-----------------------------------------------------------------------------
\* restore_from_store(), record by record.  Evidence whose subject cannot be
\* resolved, or whose bucket is full, is passed over; a source that cannot be
\* registered ends the restoration with an error.
\* (RestoreAnySize is a mutant: without the test of the bound.)
RestoreAnySize(state, e, plan) ==
    LET key == resolve_subject(e, plan)
    IN  IF key.generation = None \/ e \in Items(state.evidence[key]) THEN state
        ELSE [state EXCEPT !.evidence[key] = Push(@, e)]

RestoreEvidence(state, e, plan) ==
    LET key == resolve_subject(e, plan)
    IN  IF \/ key.generation = None
           \/ Full(state.evidence[key])
           \/ e \in Items(state.evidence[key])
        THEN state
        ELSE [state EXCEPT !.evidence[key] = Push(@, e)]

RestoreSource(state, d) ==
    IF Registers(state.sources, d) THEN [state EXCEPT !.sources[d.source] = d]
    ELSE [state EXCEPT !.ok = FALSE]

RestoreOne(state, r, plan) ==
    IF ~ state.ok THEN state
    ELSE IF r.type = "Source" THEN RestoreSource(state, r.value)
    ELSE RestoreEvidence(state, r.value, plan)

Restore(state, plan) ==
    LET restored[n \in 0..Len(log)] ==
            IF n = 0 THEN state ELSE RestoreOne(restored[n - 1], log[n], plan)
    IN  restored[Len(log)]

\* start() restores under the plan it finds, and forgets that plan last.
start(state, plan) ==
    LET restored == Restore(state, plan)
    IN  /\ sources' = restored.sources
        /\ evidence' = restored.evidence
        /\ phase' = IF restored.ok THEN "running" ELSE "failed"
        /\ routes' = IF restored.ok THEN None ELSE plan
        /\ reply' = NoReply
        /\ UNCHANGED log

Stop ==
    /\ phase \in {"running", "failed"}
    /\ phase' = "stopped"
    /\ reply' = NoReply
    /\ UNCHANGED <<sources, highest, routes, evidence, log, accepted>>

\* start() of a runtime that was stopped: what it holds is still there.
StartAgain ==
    /\ phase \in {"stopped", "failed"}
    /\ start([ok |-> TRUE, sources |-> sources, evidence |-> evidence], routes)
    /\ UNCHANGED <<highest, accepted>>

\* The process ends, in whatever phase, and a new one opens the store.
StartNewProcess ==
    /\ start([ok |-> TRUE, sources |-> NoSources, evidence |-> NoEvidence], None)
    /\ highest' = [s \in Sources |-> 0]
    /\ accepted' = {}

Next ==
    \/ \E d \in Descriptors : RegisterSource(d)
    \/ \E p \in Plans : PublishRoutes(p)
    \/ \E e \in Evidence : ingest_evidence(e)
    \/ Stop \/ StartAgain \/ StartNewProcess

Spec == Init /\ [][Next]_vars

-----------------------------------------------------------------------------
\* What the engine is asked.  compare_bucket() makes a request of a bucket; what
\* its answer does is in modules History and FindingRegistry.
Request(key) ==
    [generation |-> key.generation, group |-> key.group, evidence |-> evidence[key]]

Buckets == {k \in SubjectKey : evidence[k] # None}

\* The first bucket of a group in the order of SubjectKey, which is the one of
\* the oldest generation, whatever plan is current.  None without evidence.
compare_group(g) ==
    LET keys == {k \in Buckets : k.group = g}
    IN  IF keys = {} THEN None
        ELSE Request(CHOOSE k \in keys : \A j \in keys : k.generation <= j.generation)

\* Only a path of the current plan is asked about, through its group.
compare_path(p) ==
    IF routes = None \/ p \notin DOMAIN routes.paths THEN None
    ELSE compare_group(routes.paths[p].group)

compare_all == {Request(k) : k \in Buckets}

-----------------------------------------------------------------------------
\* Types of the runtime's observation side.
TypeOK ==
    /\ phase \in {"running", "stopped", "failed"}
    /\ \A s \in Sources : sources[s] \in Descriptors \cup {None}
    /\ \A s \in Sources : highest[s] \in Nat
    /\ routes \in {finalize(p) : p \in {x \in Plans : RoutesAccepted(x)}} \cup {None}
    /\ \A k \in SubjectKey : Items(evidence[k]) \subseteq Evidence
    /\ Len(log) <= MaxLog /\ Range(log) \subseteq LogRecord
    /\ accepted \subseteq Evidence

\* What a comparison may read has been written first: every record in a bucket
\* is in the store (ingest_evidence appends before it pushes, and restores push
\* only what they read).
HeldIsLogged == Held \subseteq Logged

\* Whatever comparison is asked for, the engine is given well-formed records,
\* each of them once, never more than a comparison may take, and none that names
\* another generation or another group: whether they came from observers, from
\* retries after a restart, or from the store read back over what is still in
\* memory, and whatever plans were current then.
RequestsAreSound ==
    TypeOK /\ \A r \in compare_all :
        /\ Len(r.evidence) <= MaxBucket
        /\ IsInjective(r.evidence)
        /\ \A e \in Range(r.evidence) :
               /\ validate(e)
               /\ e.generation \in {None, r.generation}
               /\ e.group \in {None, r.group}

-----------------------------------------------------------------------------
\* "Evidence IS restored" (include/pathobs/runtime.hpp): when start() has
\* succeeded, every evidence record of the store is in a bucket.
EvidenceIsRestored == phase = "running" => Logged \subseteq Held

\* The bound on evidence per comparison is "never a silent truncation"
\* (docs/architecture.md): what start() leaves out of the buckets is not a
\* record that names its generation.
NoSilentTruncation ==
    phase = "running" => {e \in Logged : e.generation # None} \subseteq Held

\* "source sequence has already been accepted for this incarnation"
\* (ingest_evidence): a record refused as a replay had been accepted.
ReplayWasAccepted == reply.verdict = "replay" => reply.evidence \in accepted

\* "The same observation delivered twice is one observation" (ingest_evidence):
\* no record is held under two subjects.
OneObservation ==
    \A j, k \in SubjectKey :
        Items(evidence[j]) \cap Items(evidence[k]) # {} => j = k

\* "no evidence is held for this path" (compare_path): then no record that is
\* held names the path in the current generation.
NoneIsHeld ==
    routes # None =>
        \A p \in DOMAIN routes.paths : compare_path(p) = None =>
            \A e \in Held : ~ (e.path = p /\ e.generation = routes.id)

\* "Evidence, comparisons and findings are" restored (docs/architecture.md): a
\* store written by this runtime can be read back by it.
StartSucceeds == phase # "failed"
=============================================================================
