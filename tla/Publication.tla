---------------------------- MODULE Publication ----------------------------
(***************************************************************************)
(* How a routing authority publishes expected state to the runtime:        *)
(* publish_topology() and publish_routes() of src/src/runtime.cpp, with    *)
(* the fences of epoch, incarnation and revision, and the test the         *)
(* comparison engine applies to what they leave behind.                    *)
(*                                                                         *)
(* Both calls run under the runtime's mutex, so each is one step.  A       *)
(* generation is its fencing tuple; its devices, links and paths are left  *)
(* out.  Every topology and route generation the constants allow may be    *)
(* offered at any time: authorities restart, race each other and retry.    *)
(***************************************************************************)
EXTENDS Senders, Naturals

CONSTANTS TopologyIds, RouteIds,
          MaxEpoch, MaxRevision,  \* bounds on the numbers explored
          None                    \* an absent generation or incarnation

Epochs == 1..MaxEpoch
Revisions == 1..MaxRevision
Topology == [id : TopologyIds, epoch : Epochs, incarnation : Incarnations,
             revision : Revisions, source : Sources]
Routes == [id : RouteIds, epoch : Epochs, incarnation : Incarnations,
           revision : Revisions, source : Sources, topology : TopologyIds]

ASSUME PublicationAssumption ==
    /\ MaxEpoch \in Nat
    /\ MaxRevision \in Nat
    /\ None \notin Incarnations \cup Topology \cup Routes

VARIABLES registered,           \* the identities in sources_
          epoch, incarnation,   \* epoch_ and incarnation_
          topology_revision, route_revision,
          topology,             \* topology_, with its index
          routes,               \* routes_
          reply,                \* the status of the last call
          newest                \* history: the highest revision of routes that
                                \* was current, per epoch and incarnation

authority == <<epoch, incarnation, topology_revision, route_revision>>
plan == <<topology, routes>>
vars == <<registered, authority, plan, reply, newest>>

Statuses == {"ok", "fenced", "refused", "not persisted"}

\* The state of a runtime that has just started: nothing published by a
\* previous process is assumed to be current.
Empty ==
    [epoch |-> 0, incarnation |-> None, topology_revision |-> 0,
     route_revision |-> 0, topology |-> None, routes |-> None]

Init ==
    /\ registered = {}
    /\ epoch = Empty.epoch
    /\ incarnation = Empty.incarnation
    /\ topology_revision = Empty.topology_revision
    /\ route_revision = Empty.route_revision
    /\ topology = Empty.topology
    /\ routes = Empty.routes
    /\ reply = "ok"
    /\ newest = [e \in Epochs |-> [i \in Incarnations |-> 0]]

RegisterSource(s) ==
    /\ registered' = registered \cup {s}
    /\ reply' = "ok"
    /\ UNCHANGED <<authority, plan, newest>>

\* stop() and start() in the same process.
Restart ==
    /\ epoch' = Empty.epoch
    /\ incarnation' = Empty.incarnation
    /\ topology_revision' = Empty.topology_revision
    /\ route_revision' = Empty.route_revision
    /\ topology' = Empty.topology
    /\ routes' = Empty.routes
    /\ reply' = "ok"
    /\ newest' = [e \in Epochs |-> [i \in Incarnations |-> 0]]
    /\ UNCHANGED registered

\* A call that returns before it changed anything.
Return(status) ==
    /\ reply' = status
    /\ UNCHANGED <<registered, authority, plan, newest>>

\* The append to the store comes last.  When it fails the caller is told, and
\* what was published stays current.
Append == reply' \in {"ok", "not persisted"}

\* Mutant: only the revision is fenced.
RevisionFenced(g, current) ==
    /\ current # None
    /\ current.epoch = g.epoch
    /\ current.incarnation = g.incarnation
    /\ g.revision < current.revision

\* The epoch fence and the revision fence, against what is current.
Fenced(g, current) ==
    \/ g.epoch < epoch
    \/ /\ current # None
       /\ current.epoch = g.epoch
       /\ current.incarnation = g.incarnation
       /\ g.revision < current.revision

\* What the calls take for a repetition of the current generation.
Repeated(g, current) ==
    /\ current # None
    /\ current.id = g.id
    /\ current.revision = g.revision

-----------------------------------------------------------------------------
\* publish_topology(): finalize() rejects malformed content, here any; then
\* the source must be registered.
RefuseTopology(g) == Return("refused")

FenceTopology(g) ==
    /\ g.source \in registered
    /\ Fenced(g, topology)
    /\ Return("fenced")

RepublishTopology(g) ==
    /\ g.source \in registered
    /\ ~ Fenced(g, topology)
    /\ Repeated(g, topology)
    /\ Return("ok")

AdoptTopology(g) ==
    /\ g.source \in registered
    /\ ~ Fenced(g, topology)
    /\ ~ Repeated(g, topology)
    /\ epoch' = g.epoch
    /\ incarnation' = g.incarnation
    /\ topology_revision' = g.revision
    /\ topology' = g
    /\ Append
    /\ UNCHANGED <<registered, route_revision, routes, newest>>

PublishTopology(g) ==
    \/ RefuseTopology(g)
    \/ FenceTopology(g)
    \/ RepublishTopology(g)
    \/ AdoptTopology(g)

\* publish_routes(): the routes must name the topology that is current.
RefuseRoutes(g) == Return("refused")

OnCurrentTopology(g) ==
    /\ g.source \in registered
    /\ topology # None
    /\ g.topology = topology.id

FenceRoutes(g) ==
    /\ OnCurrentTopology(g)
    /\ Fenced(g, routes)
    /\ Return("fenced")

RepublishRoutes(g) ==
    /\ OnCurrentTopology(g)
    /\ ~ Fenced(g, routes)
    /\ Repeated(g, routes)
    /\ Return("ok")

AdoptRoutes(g) ==
    /\ OnCurrentTopology(g)
    /\ ~ Fenced(g, routes)
    /\ ~ Repeated(g, routes)
    /\ epoch' = g.epoch
    /\ incarnation' = g.incarnation
    /\ route_revision' = g.revision
    /\ routes' = g
    /\ Append
    /\ newest' = [newest EXCEPT ![g.epoch][g.incarnation] =
                      IF @ < g.revision THEN g.revision ELSE @]
    /\ UNCHANGED <<registered, topology_revision, topology>>

PublishRoutes(g) ==
    \/ RefuseRoutes(g)
    \/ FenceRoutes(g)
    \/ RepublishRoutes(g)
    \/ AdoptRoutes(g)

Next ==
    \/ \E s \in Sources : RegisterSource(s)
    \/ \E g \in Topology : PublishTopology(g)
    \/ \E g \in Routes : PublishRoutes(g)
    \/ Restart

Spec == Init /\ [][Next]_vars

-----------------------------------------------------------------------------
\* Mutant: the epoch of the routes is not compared.
GenerationMatchesAnyEpoch ==
    /\ routes # None
    /\ routes.incarnation = incarnation

\* compare(): evidence is judged only against routes of the current epoch and
\* incarnation, and can match only on the topology those routes name.
GenerationMatches ==
    /\ routes # None
    /\ routes.epoch = epoch
    /\ routes.incarnation = incarnation
TopologyMatches ==
    /\ topology # None
    /\ topology.id = routes.topology
    /\ topology.epoch = epoch
    /\ topology.incarnation = incarnation
CanMatch == GenerationMatches /\ TopologyMatches

-----------------------------------------------------------------------------
\* The types of what publish_topology() and publish_routes() maintain.
TypeOK ==
    /\ registered \subseteq Sources
    /\ epoch \in 0..MaxEpoch
    /\ incarnation \in Incarnations \cup {None}
    /\ topology_revision \in 0..MaxRevision
    /\ route_revision \in 0..MaxRevision
    /\ topology \in Topology \cup {None}
    /\ routes \in Routes \cup {None}
    /\ reply \in Statuses
    /\ newest \in [Epochs -> [Incarnations -> 0..MaxRevision]]

\* The epoch and incarnation that fence evidence are those of the generation
\* adopted last, the other one is not of a newer epoch, and the revisions that
\* fence evidence are those of the generations that are current.
AuthorityOfLastAdopted ==
    /\ topology = None => routes = None /\ epoch = 0
    /\ topology # None =>
           /\ topology.epoch <= epoch
           /\ topology_revision = topology.revision
           /\ \/ topology.epoch = epoch /\ topology.incarnation = incarnation
              \/ GenerationMatches
    /\ routes # None =>
           /\ routes.epoch <= epoch
           /\ route_revision = routes.revision

\* While the runtime runs, no publication takes the epoch back; within an epoch
\* and an incarnation none takes the revision of the current plan back.
FencesHold ==
    [][topology' # None =>
           /\ epoch' >= epoch
           /\ (/\ topology # None
               /\ topology'.epoch = topology.epoch
               /\ topology'.incarnation = topology.incarnation)
                  => topology'.revision >= topology.revision
           /\ (/\ routes # None
               /\ routes'.epoch = routes.epoch
               /\ routes'.incarnation = routes.incarnation)
                  => routes'.revision >= routes.revision]_vars

\* A new epoch withdraws the plan of the old one: routes published before it
\* cannot be compared against, until routes are published again.
NewEpochSuspendsRoutes ==
    [][epoch' > epoch /\ routes' = routes => ~ GenerationMatches']_vars

\* runtime.cpp:340: a publication that is accepted without being adopted is a
\* "republication of the same generation".
RepeatIsTheSame ==
    \A g \in Topology :
        ~ Fenced(g, topology) /\ Repeated(g, topology) => g = topology

\* README.md:74: "Stale route or topology generations cannot validate current
\* behaviour".  So evidence should never be matched against routes that newer
\* routes of the same epoch and incarnation have replaced.
NoStalePlan ==
    CanMatch => routes.revision >= newest[routes.epoch][routes.incarnation]
=============================================================================
