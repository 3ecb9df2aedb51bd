-------------------------- MODULE AdmissionProofs --------------------------
(***************************************************************************)
(* What the runtime admits, for any sources, incarnations, epochs,         *)
(* revisions and sequence numbers: first the ledger of observations        *)
(* (module SourceLedger), then the fences of published plans (module       *)
(* Publication).                                                           *)
(***************************************************************************)
EXTENDS SourceLedger, Publication, FiniteSetTheorems, TLAPS

-----------------------------------------------------------------------------
\* The ledger.

LedgerInv == LedgerTypeOK /\ MissingIsExact /\ FlagAgrees

\* What was accepted in one incarnation is a finite set of sequence numbers.
LEMMA SpanFinite ==
    ASSUME LedgerTypeOK, NEW s \in Sources
    PROVE  IsFiniteSet(span[s]) /\ Cardinality(span[s]) \in Nat
<1>1. span[s] \subseteq 1..MaxSequence
  BY DEF LedgerTypeOK, Sequence
<1>2. IsFiniteSet(1..MaxSequence)
  BY LedgerAssumption, FS_Interval
<1> QED
  BY <1>1, <1>2, FS_Subset, FS_CardinalityType

\* Initially no entry is valid and no gap is known.
LEMMA LedgerStarts == LedgerInit => LedgerInv
<1> SUFFICES ASSUME LedgerInit PROVE LedgerInv
  OBVIOUS
<1>1. LedgerTypeOK
  BY LedgerAssumption DEF LedgerInit, LedgerTypeOK, Entry
<1>2. MissingIsExact /\ FlagAgrees
  BY DEF LedgerInit, MissingIsExact, FlagAgrees
<1> QED
  BY <1>1, <1>2 DEF LedgerInv

\* observe() keeps the types, for each of its three verdicts.
LEMMA TypeStep ==
    ASSUME LedgerInv, NEW s \in Sources, NEW i \in Incarnations,
           NEW n \in Sequence, Observe(s, i, n)
    PROVE  LedgerTypeOK'
<1> USE LedgerAssumption DEF LedgerInv, LedgerTypeOK, Sequence, Entry
<1>1. CASE FirstOfIncarnation(s, i, n)
  BY <1>1 DEF FirstOfIncarnation
<1>2. CASE Replay(s, i, n)
  BY <1>2 DEF Replay
<1>3. CASE Advance(s, i, n)
  <2> DEFINE gap == n - entries[s].highest - 1
  <2>1. entries[s] \in Entry /\ gap \in Nat
    BY <1>3 DEF Advance
  <2>2. [incarnation |-> i, highest |-> n, missing |-> entries[s].missing + gap]
            \in Entry
    BY <2>1
  <2>3. entries' \in [Sources -> Entry]
    BY <1>3, <2>2 DEF Advance
  <2> QED
    BY <1>3, <2>3 DEF Advance
<1> QED
  BY <1>1, <1>2, <1>3 DEF Observe

\* observe() keeps the accounting exact: a gap is added to the counter when
\* the high water mark jumps over it.
LEMMA ExactStep ==
    ASSUME LedgerInv, NEW s \in Sources, NEW i \in Incarnations,
           NEW n \in Sequence, Observe(s, i, n)
    PROVE  MissingIsExact'
<1> SUFFICES ASSUME NEW r \in Sources, entries'[r].incarnation # NoIncarnation
             PROVE  /\ lowest'[r] \in span'[r]
                    /\ entries'[r].highest \in span'[r]
                    /\ \A k \in span'[r] :
                           k \in lowest'[r]..entries'[r].highest
                    /\ entries'[r].missing + Cardinality(span'[r])
                           = entries'[r].highest - lowest'[r] + 1
  BY DEF MissingIsExact
<1> USE LedgerAssumption
<1>1. CASE /\ entries'[r] = entries[r]
           /\ span'[r] = span[r]
           /\ lowest'[r] = lowest[r]
  BY <1>1 DEF LedgerInv, MissingIsExact
<1>2. CASE r # s
  <2>1. entries'[r] = entries[r] /\ span'[r] = span[r] /\ lowest'[r] = lowest[r]
    BY <1>2 DEF Observe, FirstOfIncarnation, Replay, Advance, LedgerInv, LedgerTypeOK
  <2> QED
    BY <1>1, <2>1
<1>3. CASE r = s /\ FirstOfIncarnation(s, i, n)
  <2>1. /\ span'[r] = {n}
        /\ lowest'[r] = n
        /\ entries'[r] = [incarnation |-> i, highest |-> n, missing |-> 0]
    BY <1>3 DEF FirstOfIncarnation, LedgerInv, LedgerTypeOK
  <2>2. Cardinality({n}) = 1
    BY FS_Singleton
  <2> QED
    BY <2>1, <2>2 DEF Sequence
<1>4. CASE Replay(s, i, n)
  BY <1>1, <1>4 DEF Replay
<1>5. CASE r = s /\ Advance(s, i, n)
  <2> DEFINE e == entries[s]
             gap == n - e.highest - 1
  <2>1. /\ e.highest \in Nat /\ e.missing \in Nat
        /\ e.incarnation # NoIncarnation
        /\ n > e.highest
        /\ n \in Nat /\ lowest[s] \in Nat
    BY <1>5 DEF Advance, LedgerInv, LedgerTypeOK, Entry, Sequence
  <2>2. /\ span'[s] = span[s] \cup {n}
        /\ lowest'[s] = lowest[s]
        /\ entries'[s] = [incarnation |-> i, highest |-> n,
                           missing |-> e.missing + gap]
    BY <1>5 DEF Advance, LedgerInv, LedgerTypeOK
  <2>3. entries'[s].highest = n /\ entries'[s].missing = e.missing + gap
    BY <2>2 DEF LedgerInv, LedgerTypeOK, Entry
  <2>4. /\ lowest[s] \in span[s]
        /\ e.highest \in span[s]
        /\ \A k \in span[s] : k \in lowest[s]..e.highest
        /\ e.missing + Cardinality(span[s]) = e.highest - lowest[s] + 1
    BY <2>1 DEF LedgerInv, MissingIsExact
  <2>5. n \notin span[s]
    BY <2>1, <2>4
  <2>6. Cardinality(span[s]) \in Nat /\ Cardinality(span'[s]) = Cardinality(span[s]) + 1
    BY <2>2, <2>5, SpanFinite, FS_AddElement, ZenonT(30) DEF LedgerInv
  <2>7. entries'[s].missing + Cardinality(span'[s]) = n - lowest[s] + 1
    BY <2>1, <2>3, <2>4, <2>6
  <2>8. \A k \in span'[s] : k \in lowest[s]..n
    BY <2>1, <2>2, <2>4
  <2> QED
    BY <1>5, <2>2, <2>3, <2>4, <2>7, <2>8
<1> QED
  BY <1>2, <1>3, <1>4, <1>5 DEF Observe

\* observe() and the runtime's flag move together.
LEMMA FlagStep ==
    ASSUME LedgerInv, NEW s \in Sources, NEW i \in Incarnations,
           NEW n \in Sequence, Observe(s, i, n)
    PROVE  FlagAgrees'
<1> SUFFICES ASSUME NEW r \in Sources
             PROVE  flag'[r] <=> entries'[r].missing > 0
  BY DEF FlagAgrees
<1>0. flag[r] <=> entries[r].missing > 0
  BY DEF LedgerInv, FlagAgrees
<1>1. CASE r # s \/ Replay(s, i, n)
  <2>1. flag'[r] = flag[r] /\ entries'[r] = entries[r]
    BY <1>1 DEF Observe, FirstOfIncarnation, Replay, Advance, LedgerInv, LedgerTypeOK
  <2> QED
    BY <1>0, <2>1
<1>2. CASE r = s /\ FirstOfIncarnation(s, i, n)
  BY <1>2 DEF FirstOfIncarnation, LedgerInv, LedgerTypeOK
<1>3. CASE r = s /\ Advance(s, i, n)
  <2> DEFINE gap == n - entries[s].highest - 1
  <2>1. entries[s].missing \in Nat /\ gap \in Nat
    BY <1>3 DEF Advance, LedgerInv, LedgerTypeOK, Entry, Sequence
  <2>2. entries'[s].missing = entries[s].missing + gap
    BY <1>3 DEF Advance, LedgerInv, LedgerTypeOK, Entry
  <2>3. flag'[s] <=> (flag[s] \/ gap > 0)
    BY <1>3 DEF Advance, LedgerInv, LedgerTypeOK
  <2> QED
    BY <1>0, <1>3, <2>1, <2>2, <2>3
<1> QED
  BY <1>1, <1>2, <1>3 DEF Observe

\* The accounting is an invariant of every step.
LEMMA LedgerStep == LedgerInv /\ [LedgerNext]_ledger => LedgerInv'
<1> SUFFICES ASSUME LedgerInv, [LedgerNext]_ledger PROVE LedgerInv'
  OBVIOUS
<1>1. CASE LedgerNext
  <2>1. PICK s \in Sources, i \in Incarnations, n \in Sequence : Observe(s, i, n)
    BY <1>1 DEF LedgerNext
  <2> QED
    BY <2>1, TypeStep, ExactStep, FlagStep DEF LedgerInv
<1>2. CASE UNCHANGED ledger
  BY <1>2 DEF ledger, LedgerInv, LedgerTypeOK, MissingIsExact, FlagAgrees
<1> QED
  BY <1>1, <1>2

\* source.cpp, observe(): whatever arrives in whatever order, the missing
\* counter is exactly the number of holes below the high water mark, the
\* 64-bit subtraction never wraps, and the runtime's gap flag agrees with it.
THEOREM LedgerSafety == LedgerSpec => []LedgerInv
<1> QED
  BY LedgerStarts, LedgerStep, PTL DEF LedgerSpec

\* The missing counter of observe() counts the holes exactly.
THEOREM LedgerExact == LedgerSpec => []MissingIsExact
<1>1. LedgerInv => MissingIsExact
  BY DEF LedgerInv
<1> QED
  BY <1>1, LedgerSafety, PTL

\* source_has_gap_ and has_gap() never disagree.
THEOREM LedgerFlag == LedgerSpec => []FlagAgrees
<1>1. LedgerInv => FlagAgrees
  BY DEF LedgerInv
<1> QED
  BY <1>1, LedgerSafety, PTL

\* Within one incarnation of a source observe() accepts strictly increasing
\* sequence numbers.
THEOREM LedgerInOrder == LedgerSpec => AcceptedInOrder
<1> DEFINE Step == \A s \in Sources :
        entries'[s].incarnation = entries[s].incarnation =>
            \A new \in span'[s] \ span[s], old \in span[s] : new > old
<1>1. ASSUME LedgerInv, [LedgerNext]_ledger
      PROVE  [Step]_ledger
  <2>1. CASE UNCHANGED ledger
    BY <2>1
  <2>2. CASE LedgerNext
    <3>1. PICK s \in Sources, i \in Incarnations, n \in Sequence :
              Observe(s, i, n)
      BY <2>2 DEF LedgerNext
    <3> SUFFICES ASSUME NEW r \in Sources,
                        entries'[r].incarnation = entries[r].incarnation,
                        NEW new \in span'[r] \ span[r], NEW old \in span[r]
                 PROVE  new > old
      OBVIOUS
    <3>2. r = s /\ ~ Replay(s, i, n)
      BY <1>1, <3>1
      DEF Observe, FirstOfIncarnation, Replay, Advance, LedgerInv, LedgerTypeOK
    <3>3. ~ FirstOfIncarnation(s, i, n)
      BY <1>1, <3>2 DEF FirstOfIncarnation, LedgerInv, LedgerTypeOK
    <3>4. Advance(s, i, n)
      BY <3>1, <3>2, <3>3 DEF Observe
    <3>5. /\ new = n /\ n > entries[s].highest
          /\ entries[s].incarnation # NoIncarnation
          /\ entries[s].highest \in Nat /\ n \in Nat /\ lowest[s] \in Nat
      BY <1>1, <3>2, <3>4, LedgerAssumption
      DEF Advance, LedgerInv, LedgerTypeOK, Entry, Sequence
    <3>6. old \in lowest[s]..entries[s].highest
      BY <1>1, <3>2, <3>5 DEF LedgerInv, MissingIsExact
    <3> QED
      BY <3>5, <3>6
  <2> QED
    BY <1>1, <2>1, <2>2
<1> QED
  BY <1>1, LedgerSafety, PTL DEF LedgerSpec, AcceptedInOrder

-----------------------------------------------------------------------------
\* Published plans.

PublicationInv == TypeOK /\ AuthorityOfLastAdopted

\* A runtime that has just been created has published nothing.
LEMMA PublicationInit == Init => PublicationInv
  BY PublicationAssumption
  DEF Init, Empty, PublicationInv, TypeOK, AuthorityOfLastAdopted, Statuses,
      Epochs, Revisions

\* A call that returns early, and the registration of a source, leave the
\* authority state and the plan alone.
LEMMA QuietStep ==
    ASSUME PublicationInv, UNCHANGED <<authority, plan, newest>>,
           registered' \subseteq Sources, reply' \in Statuses
    PROVE  PublicationInv'
  BY DEF PublicationInv, TypeOK, AuthorityOfLastAdopted, GenerationMatches,
         authority, plan

\* Adopting a topology.
LEMMA AdoptTopologyStep ==
    ASSUME PublicationInv, NEW g \in Topology, AdoptTopology(g)
    PROVE  /\ PublicationInv'
           /\ topology' = g /\ g # None
           /\ routes' = routes
           /\ g.epoch \in Nat /\ g.revision \in Nat
           /\ epoch' = g.epoch /\ g.epoch >= epoch
<1>1. g # None /\ g.epoch \in 1..MaxEpoch /\ g.revision \in 1..MaxRevision
  BY PublicationAssumption DEF Topology, Epochs, Revisions
<1>2. /\ epoch' = g.epoch /\ topology' = g /\ routes' = routes
      /\ incarnation' = g.incarnation /\ topology_revision' = g.revision
      /\ route_revision' = route_revision /\ newest' = newest
      /\ registered' = registered /\ reply' \in Statuses
      /\ ~ (g.epoch < epoch)
  BY DEF AdoptTopology, Append, Fenced, Statuses
<1>3. epoch \in Nat /\ g.epoch >= epoch
  BY <1>1, <1>2, PublicationAssumption DEF PublicationInv, TypeOK
<1>4. TypeOK'
  BY <1>1, <1>2, PublicationAssumption
  DEF PublicationInv, TypeOK, Topology, Revisions, Epochs
<1>5. routes # None => /\ routes.epoch <= g.epoch
                       /\ route_revision = routes.revision
  <2> SUFFICES ASSUME routes # None
               PROVE  routes.epoch <= g.epoch /\ route_revision = routes.revision
    OBVIOUS
  <2>1. routes.epoch \in Nat
    BY PublicationAssumption DEF PublicationInv, TypeOK, Routes, Epochs
  <2> QED
    BY <2>1, <1>1, <1>3, PublicationAssumption
    DEF PublicationInv, AuthorityOfLastAdopted
<1>6. AuthorityOfLastAdopted'
  BY <1>1, <1>2, <1>5, PublicationAssumption DEF AuthorityOfLastAdopted
<1> QED
  BY <1>1, <1>2, <1>3, <1>4, <1>6, PublicationAssumption DEF PublicationInv

\* Adopting routes.
LEMMA AdoptRoutesStep ==
    ASSUME PublicationInv, NEW g \in Routes, AdoptRoutes(g)
    PROVE  /\ PublicationInv'
           /\ routes' = g /\ g # None
           /\ topology' = topology /\ topology # None
           /\ g.epoch \in Nat /\ g.revision \in Nat
           /\ epoch' = g.epoch /\ g.epoch >= epoch
<1>1. /\ g # None /\ g.epoch \in Epochs /\ g.revision \in Revisions
      /\ g.incarnation \in Incarnations
      /\ g.epoch \in Nat /\ g.revision \in Nat
  BY PublicationAssumption DEF Routes, Epochs, Revisions
<1>2. /\ epoch' = g.epoch /\ routes' = g
      /\ topology' = topology /\ topology # None
      /\ incarnation' = g.incarnation /\ route_revision' = g.revision
      /\ topology_revision' = topology_revision
      /\ registered' = registered /\ reply' \in Statuses
      /\ ~ (g.epoch < epoch)
  BY DEF AdoptRoutes, OnCurrentTopology, Append, Fenced, Statuses
<1>3. epoch \in Nat /\ g.epoch >= epoch
  BY <1>1, <1>2, PublicationAssumption DEF PublicationInv, TypeOK
<1>4. newest' \in [Epochs -> [Incarnations -> 0..MaxRevision]]
  <2> DEFINE row == newest[g.epoch]
             best == IF row[g.incarnation] < g.revision
                     THEN g.revision ELSE row[g.incarnation]
  <2>1. row \in [Incarnations -> 0..MaxRevision]
    BY <1>1 DEF PublicationInv, TypeOK
  <2>2. best \in 0..MaxRevision
    BY <1>1, <2>1, PublicationAssumption DEF Revisions
  <2>3. newest' = [newest EXCEPT ![g.epoch] = [row EXCEPT ![g.incarnation] = best]]
    BY <1>1, <2>1 DEF AdoptRoutes, PublicationInv, TypeOK
  <2>4. [row EXCEPT ![g.incarnation] = best] \in [Incarnations -> 0..MaxRevision]
    BY <2>1, <2>2
  <2> HIDE DEF row, best
  <2> QED
    BY <2>3, <2>4 DEF PublicationInv, TypeOK
<1>5. TypeOK'
  <2>1. /\ g.epoch \in 0..MaxEpoch /\ g.revision \in 0..MaxRevision
    BY <1>1, PublicationAssumption DEF Revisions, Epochs
  <2>2. /\ registered \subseteq Sources
        /\ topology_revision \in 0..MaxRevision
        /\ topology \in Topology \cup {None}
    BY DEF PublicationInv, TypeOK
  <2> QED
    BY <1>1, <1>2, <1>4, <2>1, <2>2 DEF TypeOK
<1>6. /\ topology.epoch <= g.epoch
      /\ topology_revision = topology.revision
  <2>1. topology.epoch \in Nat
    BY <1>2, PublicationAssumption DEF PublicationInv, TypeOK, Topology, Epochs
  <2> QED
    BY <1>1, <1>2, <1>3, <2>1 DEF PublicationInv, AuthorityOfLastAdopted
<1>7. AuthorityOfLastAdopted'
  BY <1>1, <1>2, <1>6 DEF AuthorityOfLastAdopted, GenerationMatches
<1> QED
  BY <1>1, <1>2, <1>3, <1>5, <1>7 DEF PublicationInv

\* Every other step of Next: the plan is unchanged, or there is none.
LEMMA OtherStep ==
    ASSUME PublicationInv, [Next]_vars
    PROVE  \/ \E g \in Topology : AdoptTopology(g)
           \/ \E g \in Routes : AdoptRoutes(g)
           \/ PublicationInv' /\ UNCHANGED <<authority, plan>>
           \/ PublicationInv' /\ topology' = None /\ routes' = None /\ epoch' = 0
<1>1. CASE UNCHANGED vars
  BY <1>1, QuietStep DEF vars, PublicationInv, TypeOK
<1>2. ASSUME NEW st \in Statuses, Return(st)
      PROVE  PublicationInv' /\ UNCHANGED <<authority, plan>>
  BY <1>2, QuietStep DEF Return, PublicationInv, TypeOK
<1>3. ASSUME NEW s \in Sources, RegisterSource(s)
      PROVE  PublicationInv' /\ UNCHANGED <<authority, plan>>
  BY <1>3, QuietStep DEF RegisterSource, PublicationInv, TypeOK, Statuses
<1>4. CASE Restart
  <2>1. newest' \in [Epochs -> [Incarnations -> 0..MaxRevision]]
    BY <1>4, PublicationAssumption DEF Restart
  <2>2. /\ registered' = registered /\ reply' \in Statuses
        /\ epoch' = 0 /\ incarnation' = None
        /\ topology_revision' = 0 /\ route_revision' = 0
        /\ topology' = None /\ routes' = None
    BY <1>4 DEF Restart, Empty, Statuses
  <2>3. registered \subseteq Sources
    BY DEF PublicationInv, TypeOK
  <2>4. TypeOK'
    BY <2>1, <2>2, <2>3, PublicationAssumption DEF TypeOK
  <2>5. AuthorityOfLastAdopted'
    BY <2>2 DEF AuthorityOfLastAdopted
  <2> QED
    BY <2>2, <2>4, <2>5 DEF PublicationInv
<1>5. ASSUME NEW g \in Topology, PublishTopology(g), ~ AdoptTopology(g)
      PROVE  \E st \in Statuses : Return(st)
  BY <1>5 DEF PublishTopology, RefuseTopology, FenceTopology, RepublishTopology,
              Statuses
<1>6. ASSUME NEW g \in Routes, PublishRoutes(g), ~ AdoptRoutes(g)
      PROVE  \E st \in Statuses : Return(st)
  BY <1>6 DEF PublishRoutes, RefuseRoutes, FenceRoutes, RepublishRoutes, Statuses
<1> QED
  BY <1>1, <1>2, <1>3, <1>4, <1>5, <1>6 DEF Next

\* The invariant is inductive.
LEMMA PublicationStep == PublicationInv /\ [Next]_vars => PublicationInv'
  BY OtherStep, AdoptTopologyStep, AdoptRoutesStep

\* runtime.cpp, publish_topology() and publish_routes(): the epoch and the
\* incarnation against which evidence is fenced are always those of the
\* generation adopted last, and no current generation is of a newer epoch.
THEOREM PublicationSafety == Spec => []AuthorityOfLastAdopted
<1>1. Spec => []PublicationInv
  BY PublicationInit, PublicationStep, PTL DEF Spec
<1>2. PublicationInv => AuthorityOfLastAdopted
  BY DEF PublicationInv
<1> QED
  BY <1>1, <1>2, PTL

\* The epoch fence and the revision fence hold across every publication.
THEOREM PublicationFences == Spec => FencesHold
<1> DEFINE Step == topology' # None =>
           /\ epoch' >= epoch
           /\ (/\ topology # None
               /\ topology'.epoch = topology.epoch
               /\ topology'.incarnation = topology.incarnation)
                  => topology'.revision >= topology.revision
           /\ (/\ routes # None
               /\ routes'.epoch = routes.epoch
               /\ routes'.incarnation = routes.incarnation)
                  => routes'.revision >= routes.revision
<1>1. ASSUME PublicationInv, [Next]_vars
      PROVE  [Step]_vars
  <2>0. /\ epoch \in Nat
        /\ topology # None => topology.revision \in Nat
        /\ routes # None => routes.revision \in Nat
    BY <1>1, PublicationAssumption
    DEF PublicationInv, TypeOK, Topology, Routes, Revisions
  <2>1. ASSUME NEW g \in Topology, AdoptTopology(g)
        PROVE  Step
    <3>1. /\ topology' = g /\ routes' = routes
          /\ g.revision \in Nat /\ g.epoch \in Nat
          /\ epoch' = g.epoch /\ g.epoch >= epoch
      BY <1>1, <2>1, AdoptTopologyStep
    <3>2. (/\ topology # None
           /\ topology.epoch = g.epoch
           /\ topology.incarnation = g.incarnation)
              => ~ (g.revision < topology.revision)
      BY <2>1 DEF AdoptTopology, Fenced
    <3> QED
      BY <2>0, <3>1, <3>2
  <2>2. ASSUME NEW g \in Routes, AdoptRoutes(g)
        PROVE  Step
    <3>1. /\ topology' = topology /\ routes' = g
          /\ g.revision \in Nat /\ g.epoch \in Nat
          /\ epoch' = g.epoch /\ g.epoch >= epoch
      BY <1>1, <2>2, AdoptRoutesStep
    <3>2. (/\ routes # None
           /\ routes.epoch = g.epoch
           /\ routes.incarnation = g.incarnation)
              => ~ (g.revision < routes.revision)
      BY <2>2 DEF AdoptRoutes, Fenced
    <3> QED
      BY <2>0, <3>1, <3>2
  <2>3. CASE UNCHANGED <<authority, plan>>
    BY <2>0, <2>3 DEF authority, plan
  <2>4. CASE topology' = None
    BY <2>4
  <2> QED
    BY <1>1, <2>1, <2>2, <2>3, <2>4, OtherStep
<1>2. Spec => []PublicationInv
  BY PublicationInit, PublicationStep, PTL DEF Spec
<1> QED
  BY <1>1, <1>2, PTL DEF Spec, FencesHold

\* A step that raises the epoch and leaves the routes alone leaves nothing
\* that evidence can be compared against.
THEOREM EpochWithdrawsPlan == Spec => NewEpochSuspendsRoutes
<1>1. ASSUME PublicationInv, [Next]_vars, epoch' > epoch, routes' = routes
      PROVE  ~ GenerationMatches'
  <2> SUFFICES ASSUME routes # None PROVE routes.epoch # epoch'
    BY <1>1 DEF GenerationMatches
  <2>1. routes.epoch <= epoch
    BY <1>1 DEF PublicationInv, AuthorityOfLastAdopted
  <2>2. routes.epoch \in Nat /\ epoch \in Nat
    BY <1>1, PublicationAssumption DEF PublicationInv, TypeOK, Routes, Epochs
  <2> QED
    BY <1>1, <2>1, <2>2
<1>2. Spec => []PublicationInv
  BY PublicationInit, PublicationStep, PTL DEF Spec
<1> QED
  BY <1>1, <1>2, PTL DEF Spec, NewEpochSuspendsRoutes
=============================================================================
