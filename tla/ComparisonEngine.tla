-------------------------- MODULE ComparisonEngine --------------------------
(***************************************************************************)
(* ComparisonEngine::compare (src/src/compare.cpp): the pure function from *)
(* a request, a context and a policy to a classification, and the world    *)
(* that changes around it.  The function is an operator; the actions       *)
(* change its inputs one at a time, the way the runtime's other calls do.  *)
(*                                                                         *)
(* A context holds the current plan (routes), the current topology or      *)
(* None, the authority state, the registered sources and the time.  A      *)
(* request names a generation, perhaps a group or a path, and holds a      *)
(* sequence of evidence: its order is the caller's.  Path, group and       *)
(* evidence identities are numbers because the code orders them.           *)
(***************************************************************************)
EXTENDS Integers, Sequences, FiniteSets, FiniteSetsExt, Functions, Divergence, Freshness, Traces

CONSTANTS Evidence,     \* the records observers may send
          Plan,         \* the plan as the authority wrote it
          Topologies,   \* topologies as authorities may write them
          Sources,      \* registered sources: authority, max_age, skew
          Subjects,     \* what a request may name: [group, path]
          Policy,       \* ComparisonPolicy, with its freshness policy
          MaxEvidence,  \* limits.max_evidence_per_comparison
          MaxTime, MaxRevision, MaxEpoch  \* bounds on what is explored

ASSUME EngineAssumption ==
    /\ Policy.freshness \in [evidence_max_age : Nat, evidence_expiry : Nat,
                             clock_skew_tolerance : Nat, max_observation_latency : Nat]
    /\ ValidFreshnessPolicy(Policy.freshness)
    /\ MaxEvidence \in Nat /\ MaxTime \in Nat
    /\ MaxRevision \in Nat /\ MaxEpoch \in Nat
    /\ RoutesAccepted(Plan)

\* Lists are sequences, and the identities that are ordered are numbers.
ASSUME PlanAssumption ==
    /\ Plan.paths \in Seq(Range(Plan.paths))
    /\ Plan.groups \in Seq(Range(Plan.groups))
    /\ \A p \in Range(Plan.paths) : p.id \in Nat /\ p.hops \in Seq(Range(p.hops))
    /\ \A g \in Range(Plan.groups) :
           g.id \in Nat /\ g.members \in Seq(Range(g.members))

ASSUME SourcesAssumption ==
    \A s \in DOMAIN Sources :
        Sources[s].authority \in Nat /\ Sources[s].max_age \in Nat /\ Sources[s].skew \in Nat

CompletenessRank == [Unknown |-> 0, Partial |-> 1, Complete |-> 2]

\* The identity of a record is a digest of its content: no two records share one.
ASSUME EvidenceAssumption ==
    /\ \A e \in Evidence :
           /\ {e.id, e.sequence, e.authority, e.epoch, e.revision,
               e.received_at, e.observed_at} \subseteq Nat
           /\ e.declared \in DOMAIN CompletenessRank
           /\ e.hops \in Seq(Range(e.hops))
    /\ \A e, f \in Evidence : e.id = f.id => e = f

\* The plan as the runtime keeps it.
Routes == finalize(Plan)

VARIABLES request,  \* [generation, group, path, evidence, gap]
          context   \* [epoch, revision, routes_epoch, topology, now]

vars == <<request, context>>

Advisory == 2

-----------------------------------------------------------------------------
\* The plan belongs to the epoch the authority is in.  (Incarnations are
\* compared in the same places in the same way; the epoch stands for both.)
GenerationMatches(req, ctx) ==
    req.generation = Routes.id /\ ctx.routes_epoch = ctx.epoch

TopologyMatches(ctx) ==
    /\ ctx.topology # None
    /\ ctx.topology.id = Routes.topology
    /\ ctx.topology.epoch = ctx.epoch

\* The first group between two devices.  That there may be several is not asked.
GroupBetween(ends) ==
    LET found == find_group_by_endpoints(Routes, ends)
    IN  IF found = {} THEN None ELSE Min(found)

GroupOfPath(p) == find_path_group(Routes, p)
KnownGroup(g) == find_group(Routes, g)

\* The group one record would be compared with.
GroupNamedBy(e) ==
    IF e.group # None THEN KnownGroup(e.group)
    ELSE IF e.path # None THEN KnownGroup(GroupOfPath(e.path))
    ELSE IF e.ends # None THEN GroupBetween(e.ends)
    ELSE None

\* The first element of a sequence that is not None; None without.
FirstNamed(seq) ==
    LET found == {i \in DOMAIN seq : seq[i] # None}
    IN  IF found = {} THEN None ELSE seq[Min(found)]

\* The subject of the comparison.  A group or path that the request names is
\* final; otherwise the first record that leads to a group decides.
Subject(req) ==
    IF req.group # None THEN KnownGroup(req.group)
    ELSE IF req.path # None THEN KnownGroup(GroupOfPath(req.path))
    ELSE FirstNamed([i \in DOMAIN req.evidence |-> GroupNamedBy(req.evidence[i])])

-----------------------------------------------------------------------------
\* A source may declare its own maximum age and clock skew.
EffectivePolicy(source) ==
    LET base == Policy.freshness
        aged == IF source.max_age = 0 THEN base
                ELSE [base EXCEPT !.evidence_max_age = source.max_age,
                                  !.evidence_expiry = Max({source.max_age, @})]
    IN  IF source.skew = 0 THEN aged
        ELSE [aged EXCEPT !.clock_skew_tolerance = source.skew]

FreshnessOf(e, ctx) ==
    assess_evidence(e, ctx.now, EffectivePolicy(Sources[e.source]))

Vouched(e) ==
    /\ e.source \in DOMAIN Sources
    /\ e.authority <= Sources[e.source].authority

FenceClasses ==
    {"EpochFenced", "EpochAhead", "RouteGenerationMismatch",
     "TopologyGenerationMismatch", "RevisionFenced", "RevisionAhead",
     "EvidenceUnsupported", "AuthorityInsufficient"}

\* The fences a record runs into, and the surfaces and authority that no
\* comparison can use.
Fences(e, req, ctx) ==
    {c \in FenceClasses :
        \/ c = "EpochFenced" /\ e.epoch < ctx.epoch
        \/ c = "EpochAhead" /\ e.epoch > ctx.epoch
        \/ c = "RouteGenerationMismatch" /\ e.generation \notin {None, req.generation}
        \/ c = "TopologyGenerationMismatch" /\ e.topology \notin {None, Routes.topology}
        \/ c = "RevisionFenced" /\ e.revision < ctx.revision
        \/ c = "RevisionAhead" /\ e.revision > ctx.revision
        \/ c = "EvidenceUnsupported" /\ e.surface = "Unsupported"
        \/ /\ c = "AuthorityInsufficient"
           /\ Policy.require_advisory_or_higher
           /\ e.authority < Advisory}

\* Why a record is left out; nothing else of it is looked at when its shape is
\* wrong or its source does not vouch for it.
Rejections(e, req, ctx) ==
    IF ~ validate(e) THEN {"EvidenceUnknown"}
    ELSE IF ~ Vouched(e) THEN {"AuthorityInsufficient"}
    ELSE Fences(e, req, ctx)

Offered(req) == Range(req.evidence)
Accepted(req, ctx) == {e \in Offered(req) : Rejections(e, req, ctx) = {}}
RejectionClasses(req, ctx) ==
    {select_primary(Rejections(e, req, ctx)) : e \in Offered(req) \ Accepted(req, ctx)}

\* The total order among records: authority, freshness, declared completeness,
\* receive time, sequence, identity.  (Numbers are made to ascend.)
SortKey(e, ctx) ==
    <<-e.authority, freshness_severity[FreshnessOf(e, ctx)],
      -CompletenessRank[e.declared], -e.received_at, -e.sequence, e.id>>

Before(a, b, ctx) ==
    LET ka == SortKey(a, ctx)  kb == SortKey(b, ctx)
    IN  \E i \in DOMAIN ka : ka[i] < kb[i] /\ \A j \in 1..(i - 1) : ka[j] = kb[j]

-----------------------------------------------------------------------------
\* The hops of an accepted record after link correlation, which uses whatever
\* topology is current.
Hops(e, ctx) ==
    IF ctx.topology = None THEN e.hops ELSE Correlated(e.hops, ctx.topology.links)

Members(g) == Routes.groups[g].members

\* The members of a group that a trace agrees with, to the path's end or in part.
MembersBy(matches, hops, g) ==
    {p \in Members(g) : compare_trace(Routes.paths[p].hops, hops) \in matches}

\* The path that differences are counted from: the one the request names, the
\* first one of the group that a record claims, or the smallest member.
Reference(req, g) ==
    LET Claimed(e) == IF GroupOfPath(e.path) = g THEN e.path ELSE None
        claimed == FirstNamed([i \in DOMAIN req.evidence |-> Claimed(req.evidence[i])])
    IN  IF GroupOfPath(req.path) = g THEN req.path
        ELSE IF claimed # None THEN claimed
        ELSE Min(Members(g))

\* What compare() works on once the records are judged and sorted: those
\* accepted, the first of them, their hops and the members they agree with.
WorkingOn(kept, first, reference, ctx, g) ==
    LET hops == [e \in kept |-> Hops(e, ctx)]
    IN  [accepted |-> kept,
         first |-> first,
         hops |-> hops,
         exact |-> [e \in kept |-> MembersBy({"Exact"}, hops[e], g)],
         matched |-> [e \in kept |-> MembersBy({"Exact", "Prefix"}, hops[e], g)],
         freshness |-> {FreshnessOf(e, ctx) : e \in kept},
         reference |-> Routes.paths[reference].hops,
         members |-> {Routes.paths[p].hops : p \in Members(g)}]

\* The record that no other comes before.  Copies of a record are one record.
FirstOf(kept, ctx) == CHOOSE e \in kept : \A f \in kept \ {e} : Before(e, f, ctx)

\* Mutant: the accepted records are left in the order of the request.
WorkingUnsorted(req, ctx, g) ==
    LET Kept(e) == Rejections(e, req, ctx) = {}
    IN  WorkingOn(Accepted(req, ctx), Head(SelectSeq(req.evidence, Kept)),
                  Reference(req, g), ctx, g)

Working(req, ctx, g) ==
    WorkingOn(Accepted(req, ctx), FirstOf(Accepted(req, ctx), ctx),
              Reference(req, g), ctx, g)

\* Two accepted records claim one path and disagree about its trace.
Conflicting(w) ==
    \E x, y \in w.accepted :
        /\ x.path # None /\ x.path = y.path
        /\ ~ traces_compatible(w.hops[x], w.hops[y])

\* Evidence that cannot be complete by itself.
\* (PartialUnlessPrefix is a mutant: a trace that ends early counts as whole.)
PartialUnlessPrefix(e, w) ==
    \/ e.truncated
    \/ e.declared = "Partial"
    \/ ~ hop_indices_are_contiguous(e.hops)

Partial(e, w) ==
    \/ e.truncated
    \/ e.declared = "Partial"
    \/ ~ hop_indices_are_contiguous(e.hops)
    \/ w.matched[e] # {} /\ w.exact[e] = {}
    \/ w.matched[e] = {} /\ \A m \in w.members : Len(e.hops) < Len(m)

WorstFreshness(w) ==
    CHOOSE f \in w.freshness : \A s \in w.freshness : worse_of(f, s) = f

\* Nothing accepted agrees with any member, and the first record saw something.
\* (StructuralOfFirst is a mutant: only the first record is asked.)
StructuralOfFirst(w) == w.matched[w.first] = {} /\ w.hops[w.first] # <<>>

IsStructural(w) ==
    /\ \A e \in w.accepted : w.matched[e] = {}
    /\ w.hops[w.first] # <<>>

\* Hop level differences between the reference and the first record.
DifferenceAt(i, expected, observed) ==
    IF i > Len(expected) THEN "HopUnexpected"
    ELSE IF i > Len(observed) THEN "HopMissing"
    ELSE LET class == per_hop_class(expected[i], observed[i])
         IN  IF /\ class = "DeviceMismatch"
                /\ same_devices_different_order(expected, observed)
             THEN "HopOrderViolation" ELSE class

Differences(w) ==
    LET observed == w.hops[w.first]
        span == 1..Max({Len(w.reference), Len(observed)})
    IN  IF ~ IsStructural(w) THEN {}
        ELSE {<<i, DifferenceAt(i, w.reference, observed)>> :
                  i \in {j \in span : DifferenceAt(j, w.reference, observed) # "None"}}

\* The reference declares a link where the first record has none, at a hop that
\* has not diverged already.
LinkUnresolved(w) ==
    LET observed == w.hops[w.first]
        diverged == {x[1] : x \in Differences(w)}
    IN  \E i \in Common(w.reference, observed) \ diverged :
            w.reference[i].link # None /\ observed[i].link = None

Complete(req, w) ==
    /\ ~ req.gap
    /\ \A e \in w.accepted : ~ Partial(e, w)
    /\ ~ LinkUnresolved(w)

\* What accepted records claim is not in the plan at all.
PathUnknown(req, w) ==
    \/ req.path # None /\ req.path \notin DOMAIN Routes.paths
    \/ LET claims == {e \in w.accepted : e.path # None \/ e.group # None}
       IN  /\ claims # {}
           /\ \A e \in claims : IF e.path # None THEN e.path \notin DOMAIN Routes.paths
                                ELSE e.group \notin DOMAIN Routes.groups

MatchedPath(w) ==
    IF w.matched[w.first] = {} THEN None ELSE Min(w.matched[w.first])

Ambiguous(w) ==
    ~ Conflicting(w) /\ Cardinality(UNION {w.matched[e] : e \in w.accepted}) > 1

-----------------------------------------------------------------------------
FreshnessClass(f) ==
    CASE f = "Stale" -> "EvidenceStale"
      [] f = "Expired" -> "EvidenceExpired"
      [] OTHER -> "EvidenceUnknown"

\* The gates of the outcome, in the order that is the contract, and the class
\* that the gate adds.  The gates of the proof surface cannot trip: Fences()
\* has left out the records that would trip them.
Gate(req, ctx, w) ==
    IF Conflicting(w) THEN <<"Indeterminate", "EvidenceConflicting">>
    ELSE IF WorstFreshness(w) # "Fresh"
         THEN <<"Indeterminate", FreshnessClass(WorstFreshness(w))>>
    ELSE IF IsStructural(w) THEN <<"Divergent", "None">>
    ELSE IF Policy.multipath_ambiguity_is_divergence /\ Ambiguous(w)
         THEN <<"Indeterminate", "EvidenceAmbiguous">>
    ELSE IF ~ Complete(req, w) THEN <<"Indeterminate", "EvidenceIncomplete">>
    ELSE IF Policy.require_topology_for_match /\ ~ TopologyMatches(ctx)
         THEN <<"Indeterminate", "TopologyGenerationMismatch">>
    ELSE IF w.first.authority < Advisory
         THEN <<"Indeterminate", "AuthorityInsufficient">>
    ELSE IF /\ Policy.require_real_surface_for_match
            /\ \E e \in w.accepted : e.surface # "Real"
         THEN <<"Indeterminate", "EvidenceUnsupported">>
    ELSE IF MatchedPath(w) = None THEN <<"Indeterminate", "EvidenceUnknown">>
    ELSE <<"Match", "None">>

Result(outcome, classes, matched_path) ==
    [outcome |-> outcome, classes |-> classes, primary |-> select_primary(classes),
     matched_path |-> matched_path]

Only(condition, class) == IF condition THEN {class} ELSE {}

\* What is known before a record has been accepted.
ClassesBefore(req, ctx) ==
    Only(~ TopologyMatches(ctx), "TopologyGenerationMismatch")
    \cup RejectionClasses(req, ctx)
    \cup Only(req.gap, "ObservationGap")

NothingAccepted(req, ctx) ==
    LET rejection == IF RejectionClasses(req, ctx) = {} THEN "EvidenceUnknown"
                     ELSE select_primary(RejectionClasses(req, ctx))
    IN  Result(IF rejection = "EvidenceUnsupported" THEN "Unsupported"
               ELSE "Indeterminate",
               ClassesBefore(req, ctx) \cup {rejection}, None)

Judged(req, ctx, w) ==
    LET gate == Gate(req, ctx, w)
        classes ==
            ClassesBefore(req, ctx)
            \cup Only(Ambiguous(w), "EvidenceAmbiguous")
            \cup {x[2] : x \in Differences(w)}
            \cup Only(LinkUnresolved(w), "LinkUnresolved")
            \cup Only(PathUnknown(req, w), "PathUnknownToPlan")
            \cup Only(gate[2] # "None", gate[2])
    IN  Result(gate[1], classes, MatchedPath(w))

compare(req, ctx) ==
    IF ~ GenerationMatches(req, ctx)
    THEN Result("Indeterminate", {"RouteGenerationMismatch"}, None)
    ELSE IF Subject(req) = None
         THEN [Result("NoExpectedState",
                      Only(~ TopologyMatches(ctx), "TopologyGenerationMismatch"),
                      None) EXCEPT !.primary = "None"]
    ELSE IF Accepted(req, ctx) = {} THEN NothingAccepted(req, ctx)
    ELSE Judged(req, ctx, Working(req, ctx, Subject(req)))

-----------------------------------------------------------------------------
\* The world around the engine.  The plan is current at first; a later epoch
\* or revision, another topology, time and evidence come as they like.
Init ==
    /\ \E s \in Subjects :
           request = [generation |-> Routes.id, group |-> s.group, path |-> s.path,
                      evidence |-> <<>>, gap |-> FALSE]
    /\ context = [epoch |-> 1, routes_epoch |-> 1, revision |-> 1,
                  topology |-> None, now |-> 1]

\* ingest_evidence() puts a new record at the end of its bucket.
AddEvidence(e) ==
    /\ Len(request.evidence) < MaxEvidence
    /\ e \notin Offered(request)
    /\ request' = [request EXCEPT !.evidence = Append(@, e)]
    /\ UNCHANGED context

\* The ledger of a contributing source has a gap.
SequenceGap ==
    /\ ~ request.gap
    /\ request' = [request EXCEPT !.gap = TRUE]
    /\ UNCHANGED context

\* A published topology, of which comparisons use the index.
Indexed(t, epoch) == [id |-> t.id, links |-> links_by_endpoint(t), epoch |-> epoch]

\* publish_topology() in the current epoch.
PublishTopology(t) ==
    /\ TopologyAccepted(t)
    /\ context' = [context EXCEPT !.topology = Indexed(t, context.epoch)]
    /\ UNCHANGED request

\* publish_topology() in a new epoch: the plan is behind until it is published
\* again.
NewEpoch(t) ==
    /\ context.epoch < MaxEpoch
    /\ TopologyAccepted(t)
    /\ context' = [context EXCEPT !.epoch = @ + 1,
                                  !.topology = Indexed(t, context.epoch + 1)]
    /\ UNCHANGED request

\* publish_routes() of the same plan with a higher revision.
NewRevision ==
    /\ context.revision < MaxRevision
    /\ context' = [context EXCEPT !.revision = @ + 1, !.routes_epoch = context.epoch]
    /\ UNCHANGED request

Tick ==
    /\ context.now < MaxTime
    /\ context' = [context EXCEPT !.now = @ + 1]
    /\ UNCHANGED request

Next ==
    \/ \E e \in Evidence : AddEvidence(e)
    \/ \E t \in Topologies : PublishTopology(t) \/ NewEpoch(t)
    \/ SequenceGap \/ NewRevision \/ Tick

Spec == Init /\ [][Next]_vars

-----------------------------------------------------------------------------
current == compare(request, context)
accepted == Accepted(request, context)
group == Subject(request)
Agrees(e, matches) == MembersBy(matches, Hops(e, context), group)

\* Types of the engine's inputs and of its result.
TypeOK ==
    /\ Len(request.evidence) <= MaxEvidence /\ Offered(request) \subseteq Evidence
    /\ request.gap \in BOOLEAN
    /\ context.now \in 1..MaxTime
    /\ context.routes_epoch <= context.epoch /\ context.epoch <= MaxEpoch
    /\ context.revision \in 1..MaxRevision
    /\ LET result == current
       IN  /\ result.outcome \in {"Match", "Divergent", "Indeterminate",
                                  "Unsupported", "NoExpectedState"}
           /\ result.classes \subseteq DivergenceClass
           /\ result.primary \in result.classes \cup {"None"}
           /\ result.matched_path \in DOMAIN Routes.paths \cup {None}

\* The compliance statement (docs/boundary.md, and the first two invariants of
\* README.md): a match speaks for the current plan and topology, and every
\* record it rests on is of the current epoch and revision, young enough, whole
\* and not cut short, and one of them reaches the end of a member.
MatchIsSound ==
    current.outcome = "Match" =>
        /\ context.routes_epoch = context.epoch
        /\ Policy.require_topology_for_match => TopologyMatches(context)
        /\ ~ request.gap
        /\ \E e \in accepted : e.authority >= Advisory /\ Agrees(e, {"Exact"}) # {}
        /\ \A e \in accepted :
               /\ e.epoch = context.epoch
               /\ e.revision = context.revision
               /\ e.generation \in {None, Routes.id}
               /\ e.surface # "Unsupported"
               /\ context.now - e.received_at
                      <= EffectivePolicy(Sources[e.source]).evidence_max_age
               /\ ~ e.truncated /\ e.declared # "Partial" /\ e.hops # <<>>
               /\ hop_indices_are_contiguous(e.hops)

\* Legitimate multipath is not false divergence (third invariant of README.md),
\* and stale evidence proves nothing: a divergence rests on current, fresh
\* records none of which agrees with any member, and it is explained by a class
\* that says what was seen, unless the path that differences are counted from
\* is none of the members.
DivergenceIsProved ==
    current.outcome = "Divergent" =>
        /\ \/ current.classes \cap Structural # {}
           \/ Reference(request, group) \notin Members(group)
        /\ accepted # {}
        /\ \A e \in accepted :
               /\ e.epoch = context.epoch /\ e.revision = context.revision
               /\ FreshnessOf(e, context) = "Fresh"
               /\ Agrees(e, {"Exact", "Prefix"}) = {}

\* Waiting does not make evidence better: when only the clock has moved, a match
\* appears only where a record had come from ahead of the clock.
ClockOnlyAges ==
    [][ (context'.now > context.now /\ compare(request', context').outcome = "Match")
        => \/ current.outcome = "Match"
           \/ \E e \in Offered(request) : e.received_at > context.now ]_vars

\* Every record that leads to a group leads to the same one, and every record
\* that claims a path of that group claims the same one.
OneSubject ==
    \/ request.group # None \/ request.path # None
    \/ Cardinality({GroupNamedBy(e) : e \in Offered(request)} \ {None}) <= 1
OneClaim ==
    \/ GroupOfPath(request.path) = group
    \/ Cardinality({e.path : e \in {f \in Offered(request) :
                                       GroupOfPath(f.path) = group}} \ {None}) <= 1

\* "permuting the caller's evidence cannot change the outcome" (compare).
Permuted(req, p) == [req EXCEPT !.evidence = [i \in DOMAIN req.evidence |-> req.evidence[p[i]]]]

OrderIndependent ==
    \A p \in Bijection(DOMAIN request.evidence, DOMAIN request.evidence) :
        compare(Permuted(request, p), context) = current

\* That is not so in general, but the order of the request shows only through the
\* first record that names a subject or claims a path.
OrderShowsByClaimOnly == OneSubject /\ OneClaim => OrderIndependent

-----------------------------------------------------------------------------
\* What documents and comments say of compare() and the code does not keep, beside
\* OrderIndependent.

\* "The reference path is ... the claimed path when it is a member of the group,
\* otherwise the member with the smallest identity" (compare).
ReferenceIsMember == group # None => Reference(request, group) \in Members(group)

\* "fenced evidence is excluded from the classification entirely" (compare):
\* the outcome is the one that the accepted records alone would give.
FencedIsExcluded ==
    accepted # {} =>
        LET Kept(e) == e \in accepted
            alone == [request EXCEPT !.evidence = SelectSeq(@, Kept)]
        IN  compare(alone, context).outcome = current.outcome

\* "Every observed hop agrees and the observation covers the whole path"
\* (TraceMatch::Exact, include/pathobs/expected.hpp).
ExactIsExact ==
    \A e \in Offered(request) : \A p \in DOMAIN Routes.paths :
        compare_trace(Routes.paths[p].hops, Hops(e, context)) = "Exact" =>
            \A i \in DOMAIN e.hops :
                /\ i \in DOMAIN Routes.paths[p].hops
                /\ hops_agree(Routes.paths[p].hops[i], Hops(e, context)[i])

\* "A compliance statement must name the path it is about" (compare): the path a
\* match names is one that the evidence covers to its end.
MatchNamesItsPath ==
    current.outcome = "Match" =>
        \E e \in accepted : current.matched_path \in Agrees(e, {"Exact"})

\* "the accepted records agree with each other" (docs/boundary.md): no record
\* behind a match contradicts every member of the group.
MatchIsUnanimous ==
    current.outcome = "Match" =>
        \A e \in accepted : Agrees(e, {"Exact", "Prefix"}) # {}

\* An observation "missing link identity" is partial and "can never produce
\* match" (README.md): where the member that a record agrees with declares a
\* link, the record has one.
MatchHasLinks ==
    current.outcome = "Match" =>
        \A e \in accepted : \E p \in Agrees(e, {"Exact"}) :
            \A i \in Common(Routes.paths[p].hops, e.hops) :
                Routes.paths[p].hops[i].link # None => Hops(e, context)[i].link # None

\* A structural class "states that observed behaviour contradicts the plan"
\* (include/pathobs/divergence.hpp): no match carries one.
MatchIsNoContradiction ==
    current.outcome = "Match" => current.classes \cap Structural = {}

\* "a mismatch means link identities cannot be correlated" (docs/architecture.md):
\* a topology that is not the plan's does not turn an answer into divergence.
ForeignTopologyIsIgnored ==
    (context.topology # None /\ ~ TopologyMatches(context)
     /\ current.outcome = "Divergent")
    => compare(request, [context EXCEPT !.topology = None]).outcome = "Divergent"
=============================================================================
