------------------------------ MODULE Records ------------------------------
(***************************************************************************)
(* What the runtime takes for a topology, a plan and an observation: the   *)
(* finalize() of src/src/topology.cpp and src/src/expected.cpp, the        *)
(* validate() of src/src/observed.cpp, and the form in which what they     *)
(* accept is kept and looked up.                                           *)
(*                                                                         *)
(* An authority writes lists, in any order and with any repetitions; an    *)
(* accepted generation is a function from identities.  None is an identity *)
(* that is not valid.  The fencing tuple of a generation is in module      *)
(* Publication; labels, roles, digests and times are left out.  One port   *)
(* stands for the ingress and the egress port of a hop.                    *)
(***************************************************************************)
EXTENDS Naturals, Sequences, FiniteSets, FiniteSetsExt, Functions

CONSTANTS None,
          Limits  \* [devices, links, paths, groups, members, hops]: the bounds
                  \* of struct Limits that are tested here

Identities(list) == {list[i].id : i \in DOMAIN list}

\* Sorting by identity puts repetitions side by side, where they are refused.
Distinct(list) ==
    /\ None \notin Identities(list)
    /\ \A i, j \in DOMAIN list : list[i].id = list[j].id => i = j

Named(list, id) == list[CHOOSE i \in DOMAIN list : list[i].id = id]

-----------------------------------------------------------------------------
\* An end of a link is a port of the topology on the device that it says.
port_belongs(ports, device, port) ==
    \E i \in DOMAIN ports : ports[i].id = port /\ ports[i].device = device

\* TopologyGeneration::finalize.
TopologyAccepted(t) ==
    /\ t.id # None
    /\ Len(t.devices) <= Limits.devices
    /\ Len(t.links) <= Limits.links
    /\ Len(t.ports) <= 2 * Limits.links
    /\ Distinct(t.devices) /\ Distinct(t.ports) /\ Distinct(t.links)
    /\ \A i \in DOMAIN t.ports : t.ports[i].device \in Identities(t.devices)
    /\ \A i \in DOMAIN t.links : \A e \in {"local", "remote"} :
           /\ None \notin {t.links[i][e].device, t.links[i][e].port}
           /\ port_belongs(t.ports, t.links[i][e].device, t.links[i][e].port)

EndsAt(link, device, port) ==
    \E e \in {"local", "remote"} : link[e] = [device |-> device, port |-> port]

\* TopologyIndex::build: a link is found from both of its ends.
links_by_endpoint(t) ==
    [x \in {<<t.ports[i].device, t.ports[i].id>> : i \in DOMAIN t.ports} |->
        {t.links[i].id : i \in {j \in DOMAIN t.links : EndsAt(t.links[j], x[1], x[2])}}]

-----------------------------------------------------------------------------
PathAccepted(d, path) ==
    /\ path.group # None
    /\ path.generation = d.id
    /\ Len(path.hops) \in 1..Limits.hops
    /\ \A i \in DOMAIN path.hops :
           /\ None \notin {path.hops[i].device, path.hops[i].port}
           /\ path.hops[i].index = i - 1

\* Every member of a group is a path of the plan that says it is in the group.
\* A path need not be a member of the group it names, nor that group exist.
GroupAccepted(d, group) ==
    /\ group.ends # None
    /\ Len(group.members) \in 1..Limits.members
    /\ \A m \in Range(group.members) :
           m \in Identities(d.paths) /\ Named(d.paths, m).group = group.id

\* RouteGeneration::finalize.
RoutesAccepted(d) ==
    /\ None \notin {d.id, d.topology}
    /\ Len(d.paths) <= Limits.paths
    /\ Len(d.groups) <= Limits.groups
    /\ Distinct(d.paths) /\ Distinct(d.groups)
    /\ \A i \in DOMAIN d.paths : PathAccepted(d, d.paths[i])
    /\ \A i \in DOMAIN d.groups : GroupAccepted(d, d.groups[i])

\* The plan as it is kept: paths, groups and members in order of identity,
\* without repetitions.
finalize(d) ==
    [id |-> d.id, topology |-> d.topology,
     paths |-> [p \in Identities(d.paths) |->
                   [group |-> Named(d.paths, p).group, hops |-> Named(d.paths, p).hops]],
     groups |-> [g \in Identities(d.groups) |->
                   [ends |-> Named(d.groups, g).ends,
                    members |-> Range(Named(d.groups, g).members)]]]

\* The group that a path of a plan names; None for an unknown path.
find_path_group(plan, p) == IF p \in DOMAIN plan.paths THEN plan.paths[p].group ELSE None
find_group(plan, g) == IF g \in DOMAIN plan.groups THEN g ELSE None

\* What find_group_by_endpoints() goes through.  Its result is the first, and
\* ambiguous that there are several.
find_group_by_endpoints(plan, ends) ==
    {g \in DOMAIN plan.groups : plan.groups[g].ends = ends}

-----------------------------------------------------------------------------
\* ObservedPathEvidence::validate.  The flag well_formed stands for the tests
\* of single fields: identities, surface, authority, note, digest, times.
validate(e) ==
    /\ e.well_formed
    /\ Len(e.hops) <= Limits.hops
    /\ \A i \in DOMAIN e.hops : e.hops[i].device # None
    /\ \A i \in 2..Len(e.hops) : e.hops[i].index > e.hops[i - 1].index
    /\ (e.ends # None /\ e.ends[1] = e.ends[2]) => Len(e.hops) <= 1
=============================================================================
