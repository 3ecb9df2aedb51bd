------------------------------- MODULE Traces -------------------------------
(***************************************************************************)
(* Hop traces: how an observed trace is compared with a declared path      *)
(* (src/src/expected.cpp), with another trace (src/src/compare.cpp), and   *)
(* how missing link identities are filled in from the topology             *)
(* (src/src/topology.cpp).                                                 *)
(*                                                                         *)
(* A hop is a device, a port and a link; one port stands for ingress and   *)
(* egress.  In an observation None is a port or link that was not          *)
(* reported; in a plan, a hop without an egress link.                      *)
(***************************************************************************)
EXTENDS Naturals, Sequences, FiniteSets, FiniteSetsExt, Records

Differ(a, b) == a # None /\ b # None /\ a # b

hops_agree(expected, observed) ==
    /\ expected.device = observed.device
    /\ ~ Differ(expected.port, observed.port)
    /\ ~ Differ(expected.link, observed.link)

\* The common part of two traces.
Common(a, b) == 1..Min({Len(a), Len(b)})

compare_trace(expected, observed) ==
    IF expected = <<>> \/ observed = <<>> THEN "Incomparable"
    ELSE IF \E i \in Common(expected, observed) : ~ hops_agree(expected[i], observed[i])
         THEN "Mismatch"
    ELSE IF Len(observed) < Len(expected) THEN "Prefix" ELSE "Exact"

traces_compatible(a, b) == \A i \in Common(a, b) : hops_agree(a[i], b[i])

per_hop_class(expected, observed) ==
    IF expected.device # observed.device THEN "DeviceMismatch"
    ELSE IF Differ(expected.port, observed.port) THEN "PortMismatch"
    ELSE IF Differ(expected.link, observed.link) THEN "LinkMismatch"
    ELSE "None"

Devices(trace) == {trace[i].device : i \in DOMAIN trace}
Visits(trace, device) == Cardinality({i \in DOMAIN trace : trace[i].device = device})

same_devices_different_order(expected, observed) ==
    /\ Len(expected) = Len(observed)
    /\ \A d \in Devices(expected) \cup Devices(observed) :
           Visits(expected, d) = Visits(observed, d)
    /\ \E i \in DOMAIN expected : expected[i].device # observed[i].device

hop_indices_are_contiguous(trace) == \A i \in DOMAIN trace : trace[i].index = i - 1

\* resolve_link(): the link is known when exactly one ends at the device and
\* port; links maps <<device, port>> to the set of them.
resolve_link(links, device, port) ==
    IF <<device, port>> \in DOMAIN links /\ Cardinality(links[<<device, port>>]) = 1
    THEN CHOOSE l \in links[<<device, port>>] : TRUE
    ELSE None

\* Link correlation: a hop that states no link is given the one link that ends
\* at the port it reports.
Correlated(trace, links) ==
    [i \in DOMAIN trace |->
        IF trace[i].link = None /\ trace[i].port # None
        THEN [trace[i] EXCEPT !.link = resolve_link(links, trace[i].device, trace[i].port)]
        ELSE trace[i]]
=============================================================================
