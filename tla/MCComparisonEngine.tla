------------------------- MODULE MCComparisonEngine -------------------------
(* Instances of ComparisonEngine.  One group of three paths, two of which    *)
(* begin alike, a second group between the same devices, and observers that  *)
(* see traces whole, cut short, too long, out of order or not at all.        *)
EXTENDS ComparisonEngine

CONSTANTS a, b, c, d,       \* devices
          l1, l2, l3,       \* links
          observer, stranger

\* A hop of a plan, or as an observer reports it.
Hop(index, device, port, link) ==
    [index |-> index, device |-> device, port |-> port, link |-> link]

P1 == <<Hop(0, a, 1, l1), Hop(1, b, 3, None)>>
P2 == <<Hop(0, a, 2, l2), Hop(1, c, 5, None)>>
P3 == <<Hop(0, a, 1, l1), Hop(1, b, 4, l3), Hop(2, d, 6, None)>>
P5 == <<Hop(0, b, 4, l3), Hop(1, d, 6, None)>>

MCLimits == [devices |-> 4, links |-> 3, paths |-> 5, groups |-> 2, members |-> 4,
             hops |-> 3]

\* Path 5 says it is in group 1, whose members leave it out.
Path(id, g, hops) == [id |-> id, group |-> g, generation |-> 1, hops |-> hops]
MCPlan ==
    [id |-> 1, topology |-> 1,
     paths |-> <<Path(3, 1, P1), Path(1, 1, P3), Path(4, 2, P2), Path(2, 1, P2),
                 Path(5, 1, P5)>>,
     groups |-> <<[id |-> 2, ends |-> <<a, d>>, members |-> <<4>>],
                  [id |-> 1, ends |-> <<a, d>>, members |-> <<2, 1, 3, 2>>]>>]

\* The link l from a to b is what the topologies differ in.  The third names a
\* port on a device that it is not on.
End(device, port) == [device |-> device, port |-> port]
MCTopology(id, l, far) ==
    [id |-> id, devices |-> <<[id |-> a], [id |-> b], [id |-> c], [id |-> d]>>,
     ports |-> <<[id |-> 6, device |-> d], [id |-> 1, device |-> a], [id |-> 2, device |-> a],
                 [id |-> 3, device |-> b], [id |-> 4, device |-> b], [id |-> 5, device |-> c]>>,
     links |-> <<[id |-> l, local |-> End(a, 1), remote |-> End(far, 3)],
                 [id |-> l3, local |-> End(b, 4), remote |-> End(d, 6)]>>]
MCTopologies == {MCTopology(1, l1, b), MCTopology(2, l2, b), MCTopology(3, l1, c)}

MCSources == [x \in {observer} |-> [authority |-> 3, max_age |-> 2, skew |-> 0]]
MCSubjects == {[group |-> 1, path |-> None], [group |-> None, path |-> None],
               [group |-> None, path |-> 3], [group |-> 1, path |-> 4]}

MCPolicy ==
    [freshness |-> [evidence_max_age |-> 1, evidence_expiry |-> 1,
                    clock_skew_tolerance |-> 0, max_observation_latency |-> 1],
     require_advisory_or_higher |-> TRUE, require_real_surface_for_match |-> FALSE,
     multipath_ambiguity_is_divergence |-> FALSE, require_topology_for_match |-> TRUE]

OnP1 == <<Hop(0, a, 1, None), Hop(1, b, 3, None)>>
OnP1Long == <<Hop(0, a, 1, l1), Hop(1, b, 3, None), Hop(2, c, 5, None)>>
OnP1Silent == <<Hop(0, a, None, None), Hop(1, b, None, None)>>
NoPort == <<Hop(0, a, 1, l1), Hop(1, b, None, None)>>
OnP2 == <<Hop(0, a, 2, l2), Hop(1, c, 5, None)>>
OnP3 == <<Hop(0, a, 1, l1), Hop(1, b, 4, l3), Hop(2, d, 6, None)>>
Cut == <<Hop(0, a, 1, l1)>>
Gapped == <<Hop(0, a, 1, l1), Hop(2, b, 3, None)>>
Swapped == <<Hop(0, b, 3, None), Hop(1, a, 1, l1)>>
Elsewhere == <<Hop(0, c, 5, None), Hop(1, d, 6, None), Hop(2, b, 3, None)>>

\* A record that raises no objection, of the trace it is given.
Good(id, hops) ==
    [id |-> id, sequence |-> id, source |-> observer, well_formed |-> TRUE,
     authority |-> 2, surface |-> "Real", epoch |-> 1, revision |-> 1,
     generation |-> 1, topology |-> None, group |-> 1, path |-> None, ends |-> None,
     received_at |-> 1, observed_at |-> 1, declared |-> "Complete",
     truncated |-> FALSE, hops |-> hops]

\* Records that differ in what the gates look at.
MCEvidence ==
    {Good(1, OnP1), Good(2, Cut), Good(3, Swapped), Good(4, <<>>),
     [Good(5, OnP3) EXCEPT !.revision = 2, !.received_at = 2],
     [Good(6, Gapped) EXCEPT !.authority = 3, !.group = None, !.path = 3],
     [Good(7, OnP2) EXCEPT !.source = stranger],
     [Good(8, OnP1) EXCEPT !.epoch = 2, !.received_at = 2, !.revision = 2],
     [Good(9, OnP2) EXCEPT !.surface = "Unsupported"],
     [Good(10, OnP2) EXCEPT !.received_at = 3, !.observed_at = 2],
     [Good(11, Swapped) EXCEPT !.group = None, !.path = 5],
     [Good(13, P5) EXCEPT !.group = None, !.path = 5],
     Good(12, <<Hop(0, a, 1, l1), Hop(0, b, 3, None)>>)}  \* not valid

\* Records that claim paths, for the questions about order and reference.
MCClaims ==
    {[Good(1, OnP2) EXCEPT !.path = 1, !.group = None],
     [Good(2, OnP1Silent) EXCEPT !.path = 3, !.authority = 3],
     [Good(3, OnP1) EXCEPT !.path = 2, !.revision = 2],
     [Good(4, OnP2) EXCEPT !.path = 2]}

\* Records whose traces fit the plan in ways that look alike.
MCShapes == {Good(1, OnP1Long), Good(2, OnP3), Good(3, OnP1Silent),
             Good(4, Elsewhere), Good(5, OnP1), Good(6, NoPort),
             [Good(7, OnP3) EXCEPT !.path = 9]}
=============================================================================
