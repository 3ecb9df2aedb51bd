----------------------------- MODULE MCFormats -----------------------------
(***************************************************************************)
(* Records for model checking module Formats: every list empty or at its   *)
(* bound, every optional part present or not, texts at and over            *)
(* max_string_bytes, instants before and after 1970.                       *)
(***************************************************************************)
EXTENDS Formats, TLC

CONSTANTS d1, d2

MCLimits == [string |-> 27, devices |-> 2, sequence |-> 2, links |-> 2, groups |-> 1,
             members |-> 2, paths |-> 2, hops |-> 2, evidence_per_comparison |-> 2,
             finding_evidence |-> 2]

Fitting == "pathobs.topology_generation"
Long == "pathobs.topology_generations"

Later == [day |-> 20000, second |-> 3661, nano |-> 120000000]
Earlier == [day |-> -1, second |-> 86399, nano |-> 999999999]

Sources ==
    {[id |-> 1, name |-> n, kind |-> IF full THEN 6 ELSE 1, surface |-> IF full THEN 3 ELSE 1,
      authority |-> IF full THEN 3 ELSE 2, expected_state |-> c[1], observed_evidence |-> c[2],
      topology |-> c[3], max_observation_age |-> a[1], clock_skew_tolerance |-> a[2]] :
         n \in {"a", Fitting, Long}, full \in BOOLEAN, c \in [1..3 -> BOOLEAN],
         a \in {<<0, 20>>, <<25, 0>>, <<30, 0>>, <<0, 30>>}}

Devices == <<[id |-> 1, name |-> "a", role |-> 5], [id |-> 2, name |-> "", role |-> 0]>>
Ports == <<[id |-> 3, device |-> 1, name |-> "p", index |-> 0],
           [id |-> 4, device |-> 2, name |-> Fitting, index |-> 7]>>
ThreePorts == Append(Ports, [id |-> 6, device |-> 2, name |-> "p", index |-> 0])
Links == <<[id |-> 5, local_device |-> 1, local_port |-> 3, remote_device |-> 2,
            remote_port |-> 4, kind |-> 4]>>

Topologies ==
    [id : {1}, epoch : {2}, incarnation : {3}, revision : {4}, sequence : {5}, source : {6},
     created : {Later, Earlier, Unset}, received : {Later, Unset},
     devices : {<<>>, Devices, <<[Devices[1] EXCEPT !.name = Long]>>}, ports : {<<>>, Ports, ThreePorts}, links : {<<>>, Links}]

Hops == <<[id |-> 1, index |-> 0, device |-> 1, ingress |-> 3, egress |-> 4,
           has_egress_link |-> TRUE, egress_link |-> 5],
          [id |-> 2, index |-> 1, device |-> 2, ingress |-> 3, egress |-> 4,
           has_egress_link |-> FALSE, egress_link |-> 0]>>

Routes ==
    [id : {1}, epoch : {2}, incarnation : {3}, revision : {4}, sequence : {5}, source : {6},
     topology : {7}, created : {Later, Unset}, received : {Later, Earlier},
     groups : {<<>>} \cup {<<[id |-> 1, origin |-> 1, destination |-> 2, label |-> l,
                              members |-> <<[path |-> 1], [path |-> 2]>>]>> :
                              l \in {"", Fitting, Long}},
     paths : {<<>>} \cup {<<[id |-> 1, group |-> 1, generation |-> 1, hops |-> Hops],
                            [id |-> 2, group |-> 1, generation |-> 1, hops |-> <<h>>]>> :
                            h \in {Hops[1]}}]

ObservedHops ==
    {<<>>} \cup
    {<<[index |-> i[1], device |-> 1, ingress |-> 0, egress |-> 4, link |-> 0,
        link_provenance |-> 0, at |-> Unset],
       [index |-> i[2], device |-> 2, ingress |-> 3, egress |-> 0, link |-> 5,
        link_provenance |-> 2, at |-> Earlier]>> : i \in {<<0, 1>>, <<2, 7>>}}

Evidence ==
    {[id |-> None, source |-> 1, incarnation |-> 2, sequence |-> 3, surface |-> 1,
      authority |-> IF full THEN 3 ELSE 1, path |-> IF full THEN 4 ELSE 0, group |-> 5,
      origin |-> IF full THEN 0 ELSE 2, destination |-> 1, epoch |-> 6,
      claimed_incarnation |-> 7, route_generation |-> IF full THEN 8 ELSE 0,
      topology_generation |-> 9, revision |-> 8, observed_at |-> o, received_at |-> r,
      source_truncated |-> full, declared_completeness |-> IF full THEN 2 ELSE 0,
      payload_digest |-> IF full THEN d1 ELSE ZeroDigest, note |-> n, hops |-> h] :
         full \in BOOLEAN, o \in {Unset, Later}, r \in {Unset, Later, Earlier},
         n \in {"", Fitting, Long}, h \in ObservedHops}

Comparisons ==
    [id : {None}, generation : {1}, topology : {2}, group : {0, 3}, path : {0, 4},
     matched_path : {0, 4}, outcome : {0, 4}, primary : {1},
     classes : {<<>>, <<[class |-> 1], [class |-> 25]>>}, freshness : {1},
     completeness : {2}, consistency : {1}, surface : {1}, multipath : {TRUE},
     multipath_ambiguous : {FALSE}, evidence_considered : {2}, evidence_rejected : {0},
     judgements : {<<>>, <<[id |-> d1, accepted |-> TRUE, rejection |-> 0, freshness |-> 1,
                            surface |-> 1, authority |-> 3, completeness |-> 2,
                            classes |-> <<[class |-> 4]>>],
                           [id |-> d2, accepted |-> FALSE, rejection |-> 9, freshness |-> 2,
                            surface |-> 1, authority |-> 3, completeness |-> 2,
                            classes |-> <<>>]>>},
     differences : {<<>>, <<[index |-> 0, detail |-> 1, has_expected |-> TRUE,
                             has_observed |-> FALSE],
                            [index |-> 1, detail |-> 2, has_expected |-> TRUE,
                             has_observed |-> TRUE]>>},
     evaluated_at : {Later, Unset}]

Findings ==
    [id : {None}, cls : {1}, group : {0, 3}, path : {0, 4}, generation : {1}, topology : {2},
     evidence : {<<>>, <<[id |-> d2], [id |-> d1]>>}, hop_indices : {<<>>, <<[index |-> 1]>>},
     status : 0..2, occurrences : {1}, first_seen : {Earlier}, last_seen : {Later},
     last_comparison : {d1}, detail : {Fitting}]

Of(kind, values) ==
    {[kind |-> kind, value |-> v] :
         v \in {w \in {Sealed(kind, u) : u \in values} : Accepted(kind, w)}}

MCStored ==
    Of("source", Sources) \cup Of("topology", Topologies) \cup Of("routes", Routes)
    \cup Of("evidence", Evidence) \cup Of("comparison", Comparisons) \cup Of("finding", Findings)

-----------------------------------------------------------------------------
String(s) == make_string(s)
Num(s) == make_number_lexeme(s)
Field(k, v) == [key |-> k, value |-> v]

\* "", a quote and a newline, a control character, two, three and four bytes.
Strings == {<<>>, <<34, 10>>, <<1, 92>>, <<195, 169>>, <<226, 130, 172>>, <<240, 159, 152, 128>>}
\* 0, -10.5, 1e+2
Numbers == {<<48>>, <<45, 49, 48, 46, 53>>, <<49, 101, 43, 50>>}

MCTrees ==
    {Null, make_boolean(TRUE), make_array(<<>>), make_object(<<>>)}
    \cup {String(s) : s \in Strings} \cup {Num(s) : s \in Numbers}
    \cup {make_array(<<Num(<<48>>), make_array(<<make_boolean(FALSE)>>)>>),
          make_array(<<make_array(<<make_array(<<>>)>>)>>),
          make_object(<<Field(<<97>>, Num(<<48>>)), Field(<<98>>, String(<<49>>))>>),
          make_object(<<Field(<<>>, make_object(<<Field(<<34>>, Null)>>))>>)}

\* "\u00e9", the surrogates "\ud83d\ude00", "\/", {"a":0,"\u0061":0} and the
\* overlong and the surrogate forms of UTF-8.
MCTexts ==
    {<<34, 92, 117, 48, 48, 101, 57, 34>>,
     <<34, 92, 117, 100, 56, 51, 100, 92, 117, 68, 69, 48, 48, 34>>,
     <<34, 92, 47, 34>>,
     <<123, 34, 97, 34, 58, 48, 44, 34, 92, 117, 48, 48, 54, 49, 34, 58, 48, 125>>,
     <<34, 192, 175, 34>>, <<34, 224, 159, 191, 34>>, <<34, 240, 143, 191, 191, 34>>,
     <<34, 237, 160, 128, 34>>, <<34, 244, 144, 128, 128, 34>>}

MCBytes == {0, 32, 34, 43, 44, 45, 46, 47, 48, 49, 57, 58, 69, 91, 92, 93, 97, 99, 101, 117, 123, 125,
            128, 160, 194, 224, 237, 240, 244, 248}

MCBounds == [depth |-> 2, nodes |-> 3, string |-> 3, bytes |-> 16]
MCYears == 1677..2262
=============================================================================
