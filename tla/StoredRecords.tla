--------------------------- MODULE StoredRecords ---------------------------
(***************************************************************************)
(* The record types of the store, as src/src/codec.cpp writes and reads    *)
(* them, their validation and their content identities.                    *)
(***************************************************************************)
EXTENDS Codec, CalendarTime

CONSTANTS MaxName,  \* the 256 bytes of a source's name
          MaxNote   \* the 4096 bytes of a note on evidence

-----------------------------------------------------------------------------
\* A source descriptor.
WriteSource ==
    Tag("pathobs.record.source") \o Each("u64", <<"id">>) \o Each("text", <<"name">>)
    \o Each("u8", <<"kind", "surface", "authority">>)
    \o Each("boolean", <<"expected_state", "observed_evidence", "topology">>)
    \o Each("i64", <<"max_observation_age", "clock_skew_tolerance">>)

ReadSource ==
    Tag("pathobs.record.source") \o Each("u64", <<"id">>) \o AtMost("text", Limits.string, <<"name">>)
    \o AtMost("code", 6, <<"kind">>) \o AtMost("code", 3, <<"surface", "authority">>)
    \o Each("boolean", <<"expected_state", "observed_evidence", "topology">>)
    \o Each("i64", <<"max_observation_age", "clock_skew_tolerance">>)

validate_source(s) ==
    /\ s.id # 0 /\ s.name # "" /\ Len(s.name) <= MaxName
    /\ s.kind # 0 /\ s.surface # 0 /\ s.authority # 0
    /\ s.expected_state \/ s.topology => s.authority = 3
    /\ s.expected_state \/ s.observed_evidence \/ s.topology
    /\ s.max_observation_age >= 0 /\ s.clock_skew_tolerance >= 0

-----------------------------------------------------------------------------
\* A topology generation.
WriteTopology ==
    Tag("pathobs.record.topology")
    \o Each("u64", <<"id", "epoch", "incarnation", "revision", "sequence", "source">>)
    \o Each("i64", <<"created", "received">>)
    \o All("devices", Each("u64", <<"id">>) \o Each("text", <<"name">>) \o Each("u8", <<"role">>))
    \o All("ports", Each("u64", <<"id", "device">>) \o Each("text", <<"name">>)
                    \o Each("u32", <<"index">>))
    \o All("links", Each("u64", <<"id", "local_device", "local_port", "remote_device",
                                  "remote_port">>) \o Each("u8", <<"kind">>))

ReadTopology ==
    Tag("pathobs.record.topology")
    \o Each("u64", <<"id", "epoch", "incarnation", "revision", "sequence", "source">>)
    \o Each("i64", <<"created", "received">>)
    \o Items("devices", Limits.devices,
             Each("u64", <<"id">>) \o AtMost("text", Limits.string, <<"name">>)
             \o AtMost("code", 5, <<"role">>))
    \o Items("ports", Limits.sequence,
             Each("u64", <<"id", "device">>) \o AtMost("text", Limits.string, <<"name">>)
             \o Each("u32", <<"index">>))
    \o Items("links", Limits.links,
             Each("u64", <<"id", "local_device", "local_port", "remote_device",
                           "remote_port">>) \o AtMost("code", 4, <<"kind">>))

-----------------------------------------------------------------------------
\* A route generation.
WriteRoutes ==
    Tag("pathobs.record.routes")
    \o Each("u64", <<"id", "epoch", "incarnation", "revision", "sequence", "source",
                     "topology">>)
    \o Each("i64", <<"created", "received">>)
    \o All("groups", Each("u64", <<"id", "origin", "destination">>) \o Each("text", <<"label">>)
                     \o All("members", Each("u64", <<"path">>)))
    \o All("paths", Each("u64", <<"id", "group", "generation">>)
           \o All("hops", Each("u64", <<"id">>) \o Each("u32", <<"index">>)
                  \o Each("u64", <<"device", "ingress", "egress">>)
                  \o Each("boolean", <<"has_egress_link">>) \o Each("u64", <<"egress_link">>)))

ReadRoutes ==
    Tag("pathobs.record.routes")
    \o Each("u64", <<"id", "epoch", "incarnation", "revision", "sequence", "source",
                     "topology">>)
    \o Each("i64", <<"created", "received">>)
    \o Items("groups", Limits.groups,
             Each("u64", <<"id", "origin", "destination">>)
             \o AtMost("text", Limits.string, <<"label">>)
             \o Items("members", Limits.members, Each("u64", <<"path">>)))
    \o Items("paths", Limits.paths,
             Each("u64", <<"id", "group", "generation">>)
             \o Items("hops", Limits.hops,
                      Each("u64", <<"id">>) \o Each("u32", <<"index">>)
                      \o Each("u64", <<"device", "ingress", "egress">>)
                      \o Each("boolean", <<"has_egress_link">>)
                      \o Each("u64", <<"egress_link">>)))

-----------------------------------------------------------------------------
\* Evidence.  Its identity leaves out the time it was received.
ObservedHopFields ==
    Each("u32", <<"index">>) \o Each("u64", <<"device", "ingress", "egress", "link">>)

WriteEvidence ==
    Tag("pathobs.record.evidence") \o Each("digest_id", <<"id">>)
    \o Each("u64", <<"source", "incarnation", "sequence">>)
    \o Each("u8", <<"surface", "authority">>)
    \o Each("maybe", <<"path", "group", "origin", "destination">>)
    \o Each("u64", <<"epoch", "claimed_incarnation">>)
    \o Each("maybe", <<"route_generation", "topology_generation">>)
    \o Each("u64", <<"revision">>) \o Each("i64", <<"observed_at", "received_at">>)
    \o Each("boolean", <<"source_truncated">>) \o Each("u8", <<"declared_completeness">>)
    \o Each("digest", <<"payload_digest">>) \o Each("text", <<"note">>)
    \o All("hops", ObservedHopFields \o Each("u8", <<"link_provenance">>)
                   \o Each("i64", <<"at">>))

ReadEvidence ==
    Tag("pathobs.record.evidence") \o Each("digest_id", <<"id">>)
    \o Each("u64", <<"source", "incarnation", "sequence">>)
    \o AtMost("code", 3, <<"surface", "authority">>)
    \o Each("maybe", <<"path", "group", "origin", "destination">>)
    \o Each("u64", <<"epoch", "claimed_incarnation">>)
    \o Each("maybe", <<"route_generation", "topology_generation">>)
    \o Each("u64", <<"revision">>) \o Each("i64", <<"observed_at", "received_at">>)
    \o Each("boolean", <<"source_truncated">>) \o AtMost("code", 2, <<"declared_completeness">>)
    \o Each("digest", <<"payload_digest">>) \o AtMost("text", MaxNote, <<"note">>)
    \o Items("hops", Limits.hops, ObservedHopFields \o AtMost("code", 2, <<"link_provenance">>)
                                  \o Each("i64", <<"at">>))

validate_evidence(e) ==
    /\ e.source # 0 /\ e.incarnation # 0 /\ e.sequence # 0
    /\ e.epoch # 0 /\ e.claimed_incarnation # 0 /\ e.revision # 0
    /\ e.surface # 0 /\ e.authority # 0
    /\ Len(e.hops) <= Limits.hops /\ Len(e.note) <= MaxNote
    /\ e.observed_at # Unset \/ e.received_at # Unset
    /\ \A i \in DOMAIN e.hops :
           /\ e.hops[i].device # 0
           /\ (e.hops[i].link # 0) = (e.hops[i].link_provenance # 0)
           /\ i > 1 => e.hops[i].index > e.hops[i - 1].index
    /\ ~ (/\ e.origin # 0 /\ e.origin = e.destination /\ Len(e.hops) > 1)

EvidenceIdentity ==
    Tag("pathobs.evidence")
    \o Each("u64", <<"source", "incarnation", "sequence">>)
    \o Each("u8", <<"surface", "authority">>)
    \o Each("maybe", <<"path", "group", "origin", "destination">>)
    \o Each("u64", <<"epoch", "claimed_incarnation">>)
    \o Each("maybe", <<"route_generation", "topology_generation">>)
    \o Each("u64", <<"revision">>) \o Each("i64", <<"observed_at">>)
    \o Each("boolean", <<"source_truncated">>) \o Each("u8", <<"declared_completeness">>)
    \o Each("digest", <<"payload_digest">>) \o Each("text", <<"note">>)
    \o All("hops", ObservedHopFields \o Each("u8", <<"link_provenance">>)
                   \o Each("i64", <<"at">>))

compute_evidence_id(e) == Encode(EvidenceIdentity, e)

-----------------------------------------------------------------------------
\* A comparison.  Its identity is over everything that is written after it; how
\* many records were offered, the reasons and the details of a difference are
\* neither part of the identity nor written.
ComparisonBody ==
    Tag("pathobs.comparison") \o Each("u64", <<"generation", "topology">>)
    \o Each("maybe", <<"group", "path", "matched_path">>)
    \o Each("u8", <<"outcome", "primary">>) \o All("classes", Each("u8", <<"class">>))
    \o Each("u8", <<"freshness", "completeness", "consistency", "surface">>)
    \o Each("boolean", <<"multipath", "multipath_ambiguous">>)
    \o Each("u32", <<"evidence_considered", "evidence_rejected">>)
    \o All("judgements",
           Each("digest_id", <<"id">>) \o Each("boolean", <<"accepted">>)
           \o Each("u8", <<"rejection", "freshness", "surface", "authority",
                           "completeness">>)
           \o All("classes", Each("u8", <<"class">>)))
    \o All("differences", Each("u32", <<"index">>) \o Each("u8", <<"detail">>)
                          \o Each("boolean", <<"has_expected", "has_observed">>))
    \o Each("i64", <<"evaluated_at">>)

WriteComparison == Tag("pathobs.record.comparison") \o Each("digest_id", <<"id">>) \o ComparisonBody

MaxClasses == 64

ReadComparison ==
    Tag("pathobs.record.comparison") \o Each("digest_id", <<"id">>)
    \o Tag("pathobs.comparison") \o Each("u64", <<"generation", "topology">>)
    \o Each("maybe", <<"group", "path", "matched_path">>)
    \o AtMost("code", 4, <<"outcome">>) \o Each("u8", <<"primary">>)
    \o Items("classes", MaxClasses, Each("u8", <<"class">>))
    \o Each("u8", <<"freshness", "completeness", "consistency", "surface">>)
    \o Each("boolean", <<"multipath", "multipath_ambiguous">>)
    \o Each("u32", <<"evidence_considered", "evidence_rejected">>)
    \o Items("judgements", Limits.evidence_per_comparison,
             Each("digest_id", <<"id">>) \o Each("boolean", <<"accepted">>)
             \o Each("u8", <<"rejection", "freshness", "surface", "authority",
                             "completeness">>)
             \o Items("classes", MaxClasses, Each("u8", <<"class">>)))
    \o Items("differences", Limits.hops,
             Each("u32", <<"index">>) \o Each("u8", <<"detail">>)
             \o Each("boolean", <<"has_expected", "has_observed">>))
    \o Each("i64", <<"evaluated_at">>)

comparison_digest(c) == Encode(ComparisonBody, c)

-----------------------------------------------------------------------------
\* A finding.  Its identity is over what it is about, with the evidence and the
\* hops sorted and without repetition, and not over its life.
WriteFinding ==
    Tag("pathobs.record.finding") \o Each("digest_id", <<"id">>) \o Each("u8", <<"cls">>)
    \o Each("maybe", <<"group", "path">>) \o Each("u64", <<"generation", "topology">>)
    \o All("evidence", Each("digest_id", <<"id">>))
    \o All("hop_indices", Each("u32", <<"index">>))
    \o Each("u8", <<"status">>) \o Each("u64", <<"occurrences">>)
    \o Each("i64", <<"first_seen", "last_seen">>)
    \o Each("digest_id", <<"last_comparison">>) \o Each("text", <<"detail">>)

ReadFinding ==
    Tag("pathobs.record.finding") \o Each("digest_id", <<"id">>) \o Each("u8", <<"cls">>)
    \o Each("maybe", <<"group", "path">>) \o Each("u64", <<"generation", "topology">>)
    \o Items("evidence", Limits.finding_evidence, Each("digest_id", <<"id">>))
    \o Items("hop_indices", Limits.hops, Each("u32", <<"index">>))
    \o AtMost("code", 2, <<"status">>) \o Each("u64", <<"occurrences">>)
    \o Each("i64", <<"first_seen", "last_seen">>)
    \o Each("digest_id", <<"last_comparison">>) \o AtMost("text", Limits.string, <<"detail">>)

identity_digest(f) ==
    <<Encode(Tag("pathobs.finding") \o Each("u8", <<"cls">>) \o Each("maybe", <<"group", "path">>)
             \o Each("u64", <<"generation", "topology">>), f),
      {f.evidence[i].id : i \in DOMAIN f.evidence},
      {f.hop_indices[i].index : i \in DOMAIN f.hop_indices}>>

-----------------------------------------------------------------------------
Kinds == {"source", "topology", "routes", "evidence", "comparison", "finding"}
Identified == {"evidence", "comparison", "finding"}

Writer(kind) ==
    CASE kind = "source" -> WriteSource [] kind = "topology" -> WriteTopology
      [] kind = "routes" -> WriteRoutes [] kind = "evidence" -> WriteEvidence
      [] kind = "comparison" -> WriteComparison [] kind = "finding" -> WriteFinding

Reader(kind) ==
    CASE kind = "source" -> ReadSource [] kind = "topology" -> ReadTopology
      [] kind = "routes" -> ReadRoutes [] kind = "evidence" -> ReadEvidence
      [] kind = "comparison" -> ReadComparison [] kind = "finding" -> ReadFinding

encode(kind, r) == Encode(Writer(kind), r)

Identity(kind, r) ==
    CASE kind = "evidence" -> compute_evidence_id(r)
      [] kind = "comparison" -> comparison_digest(r)
      [] kind = "finding" -> identity_digest(r)

\* seal() of a record that has an identity.
Sealed(kind, r) == IF kind \in Identified THEN [r EXCEPT !.id = Identity(kind, r)] ELSE r

\* What a decoder asks of the record it has read.  finalize() of a topology or a
\* route generation is in Records.
\* (AcceptedUnchecked is a mutant: the identity is taken as it is stored.)
AcceptedUnchecked(kind, r) ==
    /\ kind = "source" => validate_source(r)
    /\ kind = "evidence" => validate_evidence(r)

Accepted(kind, r) ==
    /\ kind = "source" => validate_source(r)
    /\ kind = "evidence" => validate_evidence(r)
    /\ kind \in Identified => r.id = Identity(kind, r)

\* decode_exact(): the record, or None.
\* (DecodedPrefix is a mutant: what follows the record is not looked at.)
DecodedPrefix(kind, s) ==
    LET read == Decode(Reader(kind), s)
    IN  IF read.ok /\ Accepted(kind, read.value) THEN read.value ELSE None

decode_exact(kind, s) ==
    LET read == Decode(Reader(kind), s)
    IN  IF read.ok /\ Accepted(kind, read.value) /\ read.rest = <<>>
        THEN read.value ELSE None
=============================================================================
