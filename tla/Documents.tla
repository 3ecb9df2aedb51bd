----------------------------- MODULE Documents -----------------------------
(***************************************************************************)
(* The JSON documents in which sources, topologies, routes and evidence    *)
(* come in and go out: src/src/documents.cpp, over the tree that           *)
(* JsonValue::parse() makes of the text (module Json).                     *)
(*                                                                         *)
(* A document type has two layouts, the members that its parser asks for   *)
(* and the members that to_json() sets.  Their records are the ones of     *)
(* StoredRecords.  The finalize() that a parser ends with is in Records;   *)
(* what is written here has passed it.                                     *)
(***************************************************************************)
EXTENDS StoredRecords

CONSTANTS ZeroDigest,     \* the digest of no payload
          NanosPerMilli,  \* 1000000
          MaxAgeMillis,   \* a day, the longest tolerance a document may state
          IndexRange,     \* 2 ^ 32: an index is narrowed to 32 bits
          MaxBatch        \* max_evidence_per_ingest_batch

-----------------------------------------------------------------------------
\* The nodes of a tree.
Number(n) == [type |-> "number", value |-> n]
Text(s) == [type |-> "string", value |-> s]
Boolean(b) == [type |-> "boolean", value |-> b]
Array(items) == [type |-> "array", value |-> items]
Object(members) == [type |-> "object", value |-> members]

\* The strings that hold an instant and a digest.
Stamp(t) == IF t = Unset THEN Text("unset") ELSE [type |-> "string", stamp |-> to_rfc3339(t)]
Hex(d) == [type |-> "string", hex |-> d]

\* Every string of a document is within max_string_bytes.
RECURSIVE Fits(_)
Fits(node) ==
    CASE node.type = "string" -> "value" \in DOMAIN node => Len(node.value) <= Limits.string
      [] node.type = "array" -> \A i \in DOMAIN node.value : Fits(node.value[i])
      [] node.type = "object" -> \A m \in DOMAIN node.value : Fits(node.value[m])
      [] OTHER -> TRUE

-----------------------------------------------------------------------------
\* The values of an enumeration are the positions of their names, from 0.
SourceKinds == <<"unknown", "routing_authority", "topology_authority",
                 "telemetry_observer", "replay_file", "test_harness", "simulator">>
ProofSurfaces == <<"unknown", "real", "synthetic", "unsupported">>
AuthorityClasses == <<"none", "informational", "advisory", "authoritative">>
DeviceRoles == <<"unknown", "switch", "router", "host", "line_card", "appliance">>
LinkKinds == <<"unknown", "physical", "logical", "tunnel", "lag">>
LinkProvenances == <<"absent", "observed", "correlated">>
Completenesses == <<"unknown", "partial", "complete">>

ToName(names, v) == names[v + 1]
FromName(names, text) ==
    IF \E i \in DOMAIN names : names[i] = text
    THEN (CHOOSE i \in DOMAIN names : names[i] = text) - 1 ELSE Refused

Capabilities == <<"expected_state", "observed_evidence", "topology">>

-----------------------------------------------------------------------------
\* The members of an object, as a parser asks for them or to_json() sets them.
Member(form, field, member) == <<[form |-> form, name |-> field, member |-> member]>>
Members(form, names) ==
    [i \in DOMAIN names |-> [form |-> form, name |-> names[i], member |-> names[i]]]
Named(form, table, field, member) ==
    <<[form |-> form, name |-> field, member |-> member, table |-> table]>>
Falling(form, field, fallback) ==
    <<[form |-> form, name |-> field, member |-> field, fallback |-> fallback]>>
List(form, name, max, layout) ==
    <<[form |-> form, name |-> name, member |-> name, max |-> max, layout |-> layout]>>
Kind(text) == <<[form |-> "kind", member |-> "kind", text |-> text]>>

find(object, member) ==
    IF object.type = "object" /\ member \in DOMAIN object.value
    THEN object.value[member] ELSE Refused

Value(node) == IF node = Refused THEN Refused ELSE node.value

Typed(node, type) == IF node # Refused /\ node.type = type THEN node ELSE Refused

\* require_member() and optional_member(), with what the callers test.
Required(object, member, type) == Typed(find(object, member), type)

Optional(object, member, type, fallback) ==
    LET node == find(object, member)
    IN  IF node = Refused THEN fallback
        ELSE IF node.type = "null" THEN fallback ELSE Typed(node, type)

to_id(n) == IF n = 0 THEN Refused ELSE n

Time(node) ==
    IF node = Refused THEN Refused
    ELSE IF "stamp" \in DOMAIN node THEN parse_rfc3339(node.stamp) ELSE Refused

optional_time(object, member, fallback) ==
    LET node == Optional(object, member, "string", fallback)
    IN  IF node = fallback THEN fallback ELSE Time(node)

\* A duration in milliseconds.
Millis(n) == IF n = Refused THEN Refused
             ELSE IF n > MaxAgeMillis THEN Refused ELSE n * NanosPerMilli

\* The capabilities, as the set of the strings in the array.
Stated(object) ==
    LET node == find(object, "capabilities")
    IN  IF node = Refused THEN {}
        ELSE IF node.type # "array" THEN Refused
        ELSE IF \A i \in DOMAIN node.value :
                   node.value[i].type = "string" /\ node.value[i].value \in Range(Capabilities)
        THEN {node.value[i].value : i \in DOMAIN node.value} ELSE Refused

parse_hex(node) == IF node = Refused THEN Refused
                   ELSE IF "hex" \in DOMAIN node THEN node.hex
                   ELSE IF node.value = "" THEN ZeroDigest ELSE Refused

-----------------------------------------------------------------------------
\* Reading.  For a member of an item of an array, outer is what has been read of
\* the record the array is in, and before the items that came earlier.
RECURSIVE ReadObject(_, _, _, _)

ReadArray(node, f, outer) ==
    LET Next(acc, item) ==
            IF acc = Refused THEN Refused
            ELSE LET read == ReadObject(f.layout, item, outer, acc)
                 IN  IF read = Refused THEN Refused ELSE Append(acc, read)
    IN  IF node = Refused THEN Refused
        ELSE IF node.type # "array" \/ Len(node.value) > f.max THEN Refused
        ELSE FoldLeft(Next, <<>>, node.value)

\* (RestartedIndex is a mutant: a hop that states no index is the first again.)
RestartedIndex(before) == 0
NextIndex(before) ==
    IF before = <<>> THEN 0 ELSE (before[Len(before)].index + 1) % IndexRange

Index(object, member, fallback) ==
    LET raw == Value(Optional(object, member, "number", Number(fallback)))
    IN  IF raw = Refused THEN Refused ELSE raw % IndexRange

ReadMember(f, object, record, outer, before) ==
    CASE f.form = "id" -> to_id(Value(Required(object, f.member, "number")))
      [] f.form = "maybe" -> Value(Optional(object, f.member, "number", Number(0)))
      [] f.form = "present" ->
             LET raw == Value(Optional(object, f.member, "number", Number(0)))
             IN  IF raw = Refused THEN Refused ELSE raw # 0
      [] f.form = "index" -> Index(object, f.member, 0)
      [] f.form = "position" -> Index(object, f.member, Len(before))
      [] f.form = "ascending" -> Index(object, f.member, NextIndex(before))
      [] f.form = "owner" -> Value(Optional(object, f.member, "number", Number(outer.id)))
      [] f.form = "text" -> Value(Required(object, f.member, "string"))
      [] f.form = "maybe_text" -> Value(Optional(object, f.member, "string", Text("")))
      [] f.form = "name" -> FromName(f.table, Value(Required(object, f.member, "string")))
      [] f.form = "maybe_name" ->
             FromName(f.table, Value(Optional(object, f.member, "string", Text(f.table[1]))))
      [] f.form = "time" -> Time(Required(object, f.member, "string"))
      [] f.form = "maybe_time" -> optional_time(object, f.member, Unset)
      [] f.form = "time_or" -> optional_time(object, f.member, record[f.fallback])
      [] f.form = "maybe_boolean" -> Value(Optional(object, f.member, "boolean", Boolean(FALSE)))
      [] f.form = "millis" -> Millis(Value(Optional(object, f.member, "number", Number(0))))
      [] f.form = "capability" ->
             LET stated == Stated(object)
             IN  IF stated = Refused THEN Refused ELSE f.name \in stated
      [] f.form = "hex" -> parse_hex(Optional(object, f.member, "string", Text("")))
      [] f.form = "items" -> ReadArray(find(object, f.member), f, record)
      [] f.form = "maybe_items" ->
             LET node == find(object, f.member)
             IN  IF node = Refused THEN <<>> ELSE ReadArray(node, f, record)
      [] f.form = "itself" -> to_id(Value(Typed(object, "number")))

check_kind(object, text) == Value(Required(object, "kind", "string")) = text

ReadObject(layout, object, outer, before) ==
    LET Next(acc, f) ==
            IF acc = Refused THEN Refused
            ELSE IF f.form = "kind" THEN IF check_kind(object, f.text) THEN acc ELSE Refused
            ELSE LET read == ReadMember(f, object, acc, outer, before)
                 IN  IF read = Refused THEN Refused ELSE acc @@ (f.name :> read)
    IN  FoldLeft(Next, <<>>, layout)

\* Writing.
RECURSIVE WriteObject(_, _)

\* What a member is set to, or Refused when it is not set.
WriteMember(f, r) ==
    LET Set(node, condition) == IF condition THEN node ELSE Refused
    IN  CASE f.form = "number" -> Number(r[f.name])
          [] f.form = "maybe" -> Set(Number(r[f.name]), r[f.name] # 0)
          [] f.form = "linked" -> Set(Number(r[f.name]), r.has_egress_link)
          [] f.form = "text" -> Text(r[f.name])
          [] f.form = "name" -> Text(ToName(f.table, r[f.name]))
          [] f.form = "time" -> Stamp(r[f.name])
          [] f.form = "maybe_time" -> Set(Stamp(r[f.name]), r[f.name] # Unset)
          [] f.form = "boolean" -> Boolean(r[f.name])
          [] f.form = "millis" -> Number(r[f.name] \div NanosPerMilli)
          [] f.form = "capabilities" ->
                 Array([i \in DOMAIN SelectSeq(Capabilities, LAMBDA c : r[c]) |->
                           Text(SelectSeq(Capabilities, LAMBDA c : r[c])[i])])
          [] f.form = "hex" -> Hex(r[f.name])
          [] f.form = "items" ->
                 Array([i \in DOMAIN r[f.name] |-> WriteObject(f.layout, r[f.name][i])])
          [] f.form = "numbers" -> Array([i \in DOMAIN r[f.name] |-> Number(r[f.name][i].path)])
          [] f.form = "kind" -> Text(f.text)

WriteObject(layout, r) ==
    LET set == {i \in DOMAIN layout : WriteMember(layout[i], r) # Refused}
        at(m) == CHOOSE i \in set : layout[i].member = m
    IN  Object([m \in {layout[i].member : i \in set} |-> WriteMember(layout[at(m)], r)])

-----------------------------------------------------------------------------
ParseSource ==
    Kind("pathobs.source") \o Members("id", <<"id">>) \o Members("text", <<"name">>)
    \o Named("name", SourceKinds, "kind", "source_kind")
    \o Named("name", ProofSurfaces, "surface", "surface")
    \o Named("name", AuthorityClasses, "authority", "authority")
    \o Members("capability", Capabilities)
    \o Member("millis", "max_observation_age", "max_observation_age_ms")
    \o Member("millis", "clock_skew_tolerance", "clock_skew_tolerance_ms")

SourceJson ==
    Kind("pathobs.source") \o Members("number", <<"id">>) \o Members("text", <<"name">>)
    \o Named("name", SourceKinds, "kind", "source_kind")
    \o Named("name", ProofSurfaces, "surface", "surface")
    \o Named("name", AuthorityClasses, "authority", "authority")
    \o Members("capabilities", <<"capabilities">>)
    \o Member("millis", "max_observation_age", "max_observation_age_ms")
    \o Member("millis", "clock_skew_tolerance", "clock_skew_tolerance_ms")

Fenced == <<"epoch", "incarnation", "revision", "sequence", "source">>

ParseTopology ==
    Kind("pathobs.topology_generation") \o Member("id", "id", "generation")
    \o Members("id", Fenced)
    \o Members("time", <<"created">>) \o Falling("time_or", "received", "created")
    \o List("maybe_items", "devices", Limits.devices,
            Members("id", <<"id">>) \o Members("maybe_text", <<"name">>)
            \o Named("maybe_name", DeviceRoles, "role", "role"))
    \o List("maybe_items", "ports", 2 * Limits.links,
            Members("id", <<"id", "device">>) \o Members("maybe_text", <<"name">>)
            \o Members("index", <<"index">>))
    \o List("maybe_items", "links", Limits.links,
            Members("id", <<"id", "local_device", "local_port", "remote_device",
                            "remote_port">>)
            \o Named("maybe_name", LinkKinds, "kind", "kind"))

TopologyJson ==
    Kind("pathobs.topology_generation") \o Member("number", "id", "generation")
    \o Members("number", Fenced) \o Members("time", <<"created", "received">>)
    \o List("items", "devices", None,
            Members("number", <<"id">>) \o Members("text", <<"name">>)
            \o Named("name", DeviceRoles, "role", "role"))
    \o List("items", "ports", None,
            Members("number", <<"id", "device", "index">>) \o Members("text", <<"name">>))
    \o List("items", "links", None,
            Members("number", <<"id", "local_device", "local_port", "remote_device",
                                "remote_port">>)
            \o Named("name", LinkKinds, "kind", "kind"))

ParseRoutes ==
    Kind("pathobs.route_generation") \o Member("id", "id", "generation")
    \o Members("id", Fenced) \o Member("id", "topology", "topology_generation")
    \o Members("time", <<"created">>) \o Falling("time_or", "received", "created")
    \o List("items", "groups", Limits.groups,
            Members("id", <<"id", "origin", "destination">>)
            \o Members("maybe_text", <<"label">>)
            \o List("items", "members", Limits.members, Members("itself", <<"path">>)))
    \o List("items", "paths", Limits.paths,
            Members("id", <<"id", "group">>) \o Members("owner", <<"generation">>)
            \o List("items", "hops", Limits.hops,
                    Members("id", <<"id">>) \o Members("position", <<"index">>)
                    \o Members("id", <<"device", "ingress", "egress">>)
                    \o Member("present", "has_egress_link", "link")
                    \o Member("maybe", "egress_link", "link")))

RoutesJson ==
    Kind("pathobs.route_generation") \o Member("number", "id", "generation")
    \o Members("number", Fenced) \o Member("number", "topology", "topology_generation")
    \o Members("time", <<"created", "received">>)
    \o List("items", "groups", None,
            Members("number", <<"id", "origin", "destination">>)
            \o Members("text", <<"label">>) \o List("numbers", "members", None, <<>>))
    \o List("items", "paths", None,
            Members("number", <<"id", "group", "generation">>)
            \o List("items", "hops", None,
                    Members("number", <<"id", "index", "device", "ingress", "egress">>)
                    \o Member("linked", "egress_link", "link")))

ParseEvidence ==
    Kind("pathobs.evidence") \o Members("id", <<"source", "incarnation", "sequence">>)
    \o Named("name", ProofSurfaces, "surface", "surface")
    \o Named("name", AuthorityClasses, "authority", "authority")
    \o Members("id", <<"epoch", "claimed_incarnation", "revision">>)
    \o Members("maybe", <<"route_generation", "topology_generation", "path", "group",
                          "origin", "destination">>)
    \o Members("maybe_time", <<"observed_at">>)
    \o Falling("time_or", "received_at", "observed_at")
    \o Member("maybe_boolean", "source_truncated", "truncated")
    \o Named("maybe_name", Completenesses, "declared_completeness", "completeness")
    \o Members("hex", <<"payload_digest">>) \o Members("maybe_text", <<"note">>)
    \o List("maybe_items", "hops", Limits.hops,
            Members("ascending", <<"index">>) \o Members("id", <<"device">>)
            \o Members("maybe", <<"ingress", "egress", "link">>)
            \o Named("maybe_name", LinkProvenances, "link_provenance", "link_provenance")
            \o Members("maybe_time", <<"at">>))

EvidenceJson ==
    Kind("pathobs.evidence") \o Members("number", <<"source", "incarnation", "sequence">>)
    \o Named("name", ProofSurfaces, "surface", "surface")
    \o Named("name", AuthorityClasses, "authority", "authority")
    \o Members("number", <<"epoch", "claimed_incarnation", "revision">>)
    \o Members("maybe", <<"route_generation", "topology_generation", "path", "group",
                          "origin", "destination">>)
    \o Members("time", <<"observed_at", "received_at">>)
    \o Member("boolean", "source_truncated", "truncated")
    \o Named("name", Completenesses, "declared_completeness", "completeness")
    \o Members("hex", <<"payload_digest">>) \o Members("text", <<"note">>)
    \o List("items", "hops", None,
            Members("number", <<"index", "device">>)
            \o Members("maybe", <<"ingress", "egress", "link">>)
            \o Named("name", LinkProvenances, "link_provenance", "link_provenance")
            \o Members("maybe_time", <<"at">>))

\* to_json().  The digest of a generation and the identity of evidence, which
\* are written too and never read, are left out.
to_json(kind, r) ==
    WriteObject(CASE kind = "source" -> SourceJson [] kind = "topology" -> TopologyJson
                  [] kind = "routes" -> RoutesJson [] kind = "evidence" -> EvidenceJson, r)

parse_document(kind, document) ==
    LET read == ReadObject(
            CASE kind = "source" -> ParseSource [] kind = "topology" -> ParseTopology
              [] kind = "routes" -> ParseRoutes [] kind = "evidence" -> ParseEvidence,
            document, <<>>, <<>>)
    IN  IF ~ Fits(document) \/ read = Refused THEN Refused
        ELSE IF kind = "evidence"
             THEN IF validate_evidence(read) THEN Sealed(kind, read @@ [id |-> None]) ELSE Refused
        ELSE IF kind = "source" THEN IF validate_source(read) THEN read ELSE Refused
        ELSE read

\* A file of evidence, one document a line; None is a line that is empty or a
\* comment.
Batch(records) ==
    IF Refused \in Range(records) \/ Len(records) > MaxBatch THEN Refused ELSE records

parse_evidence_lines(lines) ==
    LET stated == SelectSeq(lines, LAMBDA line : line # None)
    IN  Batch([i \in DOMAIN stated |-> parse_document("evidence", stated[i])])
=============================================================================
