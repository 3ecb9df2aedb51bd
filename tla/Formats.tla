------------------------------ MODULE Formats ------------------------------
(***************************************************************************)
(* What is written in one form and read in another: records as payloads of *)
(* the store and as documents, values as JSON texts, days as dates.        *)
(*                                                                         *)
(* An item is written down once.  One fault may then hit what was written, *)
(* as a torn, stale or damaged file would leave it, and it is read.  The   *)
(* years of the calendar are counted from 1970 on and back.                *)
(***************************************************************************)
EXTENDS Documents, JsonGrammar, Calendar

CONSTANTS Stored,      \* the records that the runtime writes, [kind, value]
          Trees,       \* the JSON values that are written
          Texts,       \* the JSON texts that are not written by dump()
          Bytes,       \* the bytes that a fault puts into a text
          Bounds,      \* the bounds of struct Limits on a text
          OtherText,   \* a text that nothing writes
          Garbage      \* a number or a digest that nothing writes

\* (An item that is no year is what is written: [kind, value].)
VARIABLES wire,   \* what it was written as
          fault   \* what has happened to that

vars == <<item, wire, fault>>

Dumps == {[kind |-> "json", value |-> v, pretty |-> p] : v \in Trees, p \in BOOLEAN}

Written(x) == IF x.kind = "json" THEN dump(x.value, x.pretty) ELSE encode(x.kind, x.value)

Init ==
    /\ fault = "none"
    /\ \/ item \in Stored /\ wire = Written(item)
       \/ item \in Dumps /\ wire = Written(item)
       \/ item = [kind |-> "text"] /\ wire \in Texts
       \/ item = Epoch /\ wire = <<>>

Faulty(kind) == fault = "none" /\ fault' = kind /\ UNCHANGED item

\* The file ends early.
Truncate ==
    /\ Faulty("truncated")
    /\ \E n \in 0..Len(wire) - 1 : wire' = SubSeq(wire, 1, n)

\* The file goes on.
Extend ==
    /\ item.kind \in Kinds
    /\ Faulty("extended")
    /\ wire' = wire \o Appended(1, 0)

\* A value is another one.  Lengths and counts stay: see Codec.
Others(token) ==
    CASE token.width = 1 -> {0, 1, 2, 9}
      [] token.width \in {8, 32} -> {Garbage}
      [] token.width = 4 -> {}
      [] OTHER -> {OtherText}

Alter ==
    /\ item.kind \in Identified
    /\ Faulty("altered")
    /\ \E i \in DOMAIN wire : \E v \in Others(wire[i]) : wire' = [wire EXCEPT ![i].value = v]

\* A text that someone has edited.
Edit ==
    /\ item.kind \in {"json", "text"}
    /\ Faulty("edited")
    /\ \E i \in DOMAIN wire :
          \/ wire' = RemoveAt(wire, i)
          \/ \E b \in Bytes : wire' = InsertAt(wire, i, b) \/ wire' = ReplaceAt(wire, i, b)

\* A year of the calendar is not written.
CountYears == (NextYear \/ PreviousYear) /\ UNCHANGED <<wire, fault>>

Next == Truncate \/ Extend \/ Alter \/ Edit \/ CountYears

Spec == Init /\ [][Next]_vars

-----------------------------------------------------------------------------
\* What is written to the store.
AreShort(items, field) == \A i \in DOMAIN items : Len(items[i][field]) <= Limits.string

Readable(x) ==
    LET r == x.value
    IN  CASE x.kind = "source" -> Len(r.name) <= Limits.string
          [] x.kind = "topology" -> /\ AreShort(r.devices, "name") /\ AreShort(r.ports, "name")
                                    /\ Len(r.ports) <= Limits.sequence
          [] x.kind = "routes" -> AreShort(r.groups, "label")
          [] OTHER -> TRUE

\* A record that was written is read back as it was, by the decoder of its own
\* type and no other, and never when its payload ends early or goes on.  It is
\* read back at all exactly when its texts are within max_string_bytes and its
\* ports within the decoder's own bound: finalize() and validate() let through
\* longer ones, and a record that is stored and not read back fails the next
\* start() (codec.cpp encode(), the decoders, decode_exact()).
StoredReadsBack ==
    item.kind \in Kinds /\ fault # "altered" =>
        \A kind \in Kinds :
            decode_exact(kind, wire) =
                IF kind = item.kind /\ fault = "none" /\ Readable(item) THEN item.value ELSE None

\* What the identity of a record says: all of a comparison; of evidence, all but
\* when it was received; of a finding, what it is about and not its life.
Said(kind, r) ==
    CASE kind = "comparison" -> r
      [] kind = "evidence" -> [f \in DOMAIN r \ {"received_at"} |-> r[f]]
      [] kind = "finding" ->
             [f \in {"id", "cls", "group", "path", "generation", "topology", "evidence"} |-> r[f]]

\* A record in the store of which a value has been changed is refused, or says
\* what it said: the content identity covers every field of evidence but
\* received_at, every field of a comparison, and what a finding is about
\* (compute_evidence_id(), Comparison::canonical_digest(), identity_digest() and
\* the checks of the decoders).
DamageIsSeen ==
    fault = "altered" =>
        LET read == decode_exact(item.kind, wire)
        IN  read = None \/ Said(item.kind, read) = Said(item.kind, item.value)

-----------------------------------------------------------------------------
\* What is written as a document.
Documented == {"source", "topology", "routes", "evidence"}

Documentable(x) ==
    LET r == x.value
    IN  CASE x.kind = "source" -> /\ Len(r.name) <= Limits.string
                                  /\ r.max_observation_age \div NanosPerMilli <= MaxAgeMillis
                                  /\ r.clock_skew_tolerance \div NanosPerMilli <= MaxAgeMillis
          [] x.kind = "topology" -> /\ AreShort(r.devices, "name") /\ AreShort(r.ports, "name")
                                    /\ Unset \notin {r.created, r.received}
          [] x.kind = "routes" -> /\ AreShort(r.groups, "label")
                                  /\ Unset \notin {r.created, r.received}
          [] x.kind = "evidence" -> /\ Len(r.note) <= Limits.string
                                    /\ Unset \notin {r.observed_at, r.received_at}

\* The ages of a source are cut to milliseconds.
InMillis(n) == (n \div NanosPerMilli) * NanosPerMilli
AsDocumented(x) ==
    IF x.kind = "source"
    THEN [x.value EXCEPT !.max_observation_age = InMillis(@), !.clock_skew_tolerance = InMillis(@)]
    ELSE x.value

\* The hops of evidence, stated without their index.
WithoutIndex(document) ==
    LET hops == document.value["hops"].value
        rest(o) == Object([m \in DOMAIN o.value \ {"index"} |-> o.value[m]])
    IN  Object([document.value EXCEPT !["hops"] = Array([i \in DOMAIN hops |-> rest(hops[i])])])

Consecutive(hops) == \A i \in DOMAIN hops : hops[i].index = i - 1

\* Whether a document, read as such and in files of evidence, is x.
ReadBackAs(x, document) ==
    /\ parse_document(x.kind, document) = IF Documentable(x) THEN AsDocumented(x) ELSE Refused
    /\ x.kind = "evidence" /\ Documentable(x) =>
           /\ \A n \in 2..3 :
                  parse_evidence_lines([i \in 1..2 * n |-> IF i % 2 = 1 THEN document ELSE None])
                      = IF n <= MaxBatch THEN [i \in 1..n |-> x.value] ELSE Refused
           /\ Consecutive(x.value.hops) =>
                  parse_document("evidence", WithoutIndex(document)) = x.value

\* A document that to_json() writes is read back as the record it was written
\* for, with ages cut to milliseconds; and it is read back at all exactly when
\* its texts are within max_string_bytes, no time that the parser requires or
\* takes for a text is unset, and no age is over a day.  A file of evidence is
\* read back line by line up to the size of a batch, and hops that are numbered
\* from 0 need not state it (to_json(), parse_source(), parse_topology(),
\* parse_routes(), parse_evidence(), parse_evidence_lines()).
DocumentReadsBack ==
    fault = "none" /\ item.kind \in Documented => ReadBackAs(item, to_json(item.kind, item.value))

-----------------------------------------------------------------------------
\* JSON texts.
Largest(set) == IF set = {} THEN 0 ELSE CHOOSE n \in set : \A m \in set : m <= n

Children(v) ==
    CASE v.type = "array" -> v.items
      [] v.type = "object" -> [i \in DOMAIN v.fields |-> v.fields[i].value]
      [] OTHER -> <<>>

RECURSIVE Depth(_), Nodes(_), Longest(_)
Depth(v) == Largest({Depth(Children(v)[i]) + 1 : i \in DOMAIN Children(v)})
Nodes(v) == FoldLeft(LAMBDA n, c : n + Nodes(c), 1, Children(v))
Longest(v) ==
    Largest((IF v.type = "string" THEN {Len(v.text)} ELSE {})
            \cup (IF v.type = "object" THEN {Len(v.fields[i].key) : i \in DOMAIN v.fields} ELSE {})
            \cup {Longest(Children(v)[i]) : i \in DOMAIN Children(v)})

Within(v) == Depth(v) <= Bounds.depth /\ Nodes(v) <= Bounds.nodes /\ Longest(v) <= Bounds.string

\* Whether a text was read as the grammar has it, within no bounds and within
\* the given ones.
ReadExactly(text, free, bounded) ==
    /\ (free.at # 0) = IsDocument(text)
    /\ bounded = IF free.at # 0 /\ Len(text) <= Bounds.bytes /\ Within(free.value)
                 THEN free ELSE Failure
    /\ fault = "none" /\ item.kind = "json" => free.at # 0 /\ free.value = item.value

\* The parser takes the texts of the JSON grammar in UTF-8 whose objects repeat
\* no key, and no others; of these it takes, with the same result, the ones
\* within the bounds on bytes, depth, values and strings, each inclusive; and
\* what dump() writes, compact or indented, it reads as the value that was
\* written (Parser, is_valid_utf8(), dump_into() and escape_into() in json.cpp).
JsonIsExact ==
    item.kind \in {"json", "text"} =>
        ReadExactly(wire, parse(wire, Unbounded), parse(wire, Bounds))
=============================================================================
