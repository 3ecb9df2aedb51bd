----------------------- MODULE ComparisonEngineProofs -----------------------
(***************************************************************************)
(* Theorems about compare() (module ComparisonEngine), for every plan that *)
(* finalize() accepts, every evidence, every policy and every registry.    *)
(***************************************************************************)
EXTENDS ComparisonEngine, NaturalFacts, FiniteSetTheorems, SequenceTheorems

-----------------------------------------------------------------------------
\* Least elements.

\* A finite set that a transitive relation orders totally has a first element.
LEMMA FirstExists ==
    ASSUME NEW S, IsFiniteSet(S), S # {}, NEW R,
           \A x, y \in S : x # y => <<x, y>> \in R \/ <<y, x>> \in R,
           \A x, y, z \in S : <<x, y>> \in R /\ <<y, z>> \in R => <<x, z>> \in R
    PROVE  \E x \in S : \A y \in S \ {x} : <<x, y>> \in R
<1> DEFINE First(T) == \E x \in T : \A y \in T \ {x} : <<x, y>> \in R
           Bad == {n \in Nat : \E T \in SUBSET S :
                      T # {} /\ Cardinality(T) = n /\ ~ First(T)}
<1>1. SUFFICES ASSUME ~ First(S) PROVE FALSE
  OBVIOUS
<1>2. Cardinality(S) \in Bad
  BY <1>1, FS_CardinalityType
<1>3. PICK n \in Bad : \A m \in Bad : n <= m
  <2>1. Bad \in SUBSET Nat /\ Bad # {}
    BY <1>2
  <2> HIDE DEF Bad
  <2> QED BY <2>1, LeastNat
<1>4. PICK T \in SUBSET S : T # {} /\ Cardinality(T) = n /\ ~ First(T)
  BY <1>3
<1>5. PICK x \in T : TRUE
  BY <1>4
<1> DEFINE U == T \ {x}
<1>6. IsFiniteSet(T) /\ IsFiniteSet(U) /\ Cardinality(U) = n - 1 /\ U \in SUBSET S
  <2>1. IsFiniteSet(T)
    BY FS_Subset
  <2>2. IsFiniteSet(U) /\ Cardinality(U) = Cardinality(T) - 1
    BY <2>1, <1>5, FS_RemoveElement
  <2> QED BY <2>1, <2>2, <1>4
<1>7. U # {}
  BY <1>4, <1>5
<1>8. n \in Nat /\ Cardinality(U) \in Nat
  BY <1>3, <1>6, FS_CardinalityType
<1>9. First(U)
  <2>1. SUFFICES ASSUME ~ First(U) PROVE FALSE
    OBVIOUS
  <2>2. Cardinality(U) \in Bad
    BY <2>1, <1>6, <1>7, <1>8
  <2>3. n <= Cardinality(U)
    BY <2>2, <1>3, Zenon
  <2>4. Cardinality(U) = n - 1
    BY <1>6
  <2> HIDE DEF U, Bad
  <2> QED BY <2>3, <2>4, <1>8
<1>10. PICK y \in U : \A z \in U \ {y} : <<y, z>> \in R
  BY <1>9
<1>11. x \in S /\ y \in S /\ x # y /\ T \subseteq S
  BY <1>4, <1>5, <1>10
<1>12. CASE <<x, y>> \in R
  <2>1. \A z \in T \ {x} : <<x, z>> \in R
    BY <1>10, <1>11, <1>12
  <2> QED BY <2>1, <1>4, <1>5
<1>13. CASE <<y, x>> \in R
  <2>1. \A z \in T \ {y} : <<y, z>> \in R
    BY <1>10, <1>11, <1>13
  <2> QED BY <2>1, <1>4, <1>10
<1> QED BY <1>11, <1>12, <1>13

\* The dictionary order on the keys that records are sorted by.
Key == [1..6 -> Int]
Lower(a, b) == \E i \in 1..6 : a[i] < b[i] /\ \A j \in 1..(i - 1) : a[j] = b[j]

\* It is transitive.
LEMMA LowerTransitive ==
    ASSUME NEW a \in Key, NEW b \in Key, NEW c \in Key, Lower(a, b), Lower(b, c)
    PROVE  Lower(a, c)
<1>1. PICK i \in 1..6 : a[i] < b[i] /\ \A k \in 1..(i - 1) : a[k] = b[k]
  BY DEF Lower
<1>2. PICK j \in 1..6 : b[j] < c[j] /\ \A k \in 1..(j - 1) : b[k] = c[k]
  BY DEF Lower
<1>3. CASE i <= j
  <2>1. a[i] < c[i]
    BY <1>1, <1>2, <1>3 DEF Key
  <2>2. \A k \in 1..(i - 1) : a[k] = c[k]
    BY <1>1, <1>2, <1>3 DEF Key
  <2> QED BY <2>1, <2>2 DEF Lower
<1>4. CASE j < i
  <2>1. a[j] < c[j]
    BY <1>1, <1>2, <1>4 DEF Key
  <2>2. \A k \in 1..(j - 1) : a[k] = c[k]
    BY <1>1, <1>2, <1>4 DEF Key
  <2> QED BY <2>1, <2>2 DEF Lower
<1> QED BY <1>3, <1>4

\* It tells any two different keys apart.
LEMMA LowerTotal ==
    ASSUME NEW a \in Key, NEW b \in Key, NEW n \in 1..6, a[n] # b[n]
    PROVE  Lower(a, b) \/ Lower(b, a)
<1> DEFINE D == {i \in 1..6 : a[i] # b[i]}
<1>1. D \in SUBSET Nat /\ D # {}
  OBVIOUS
<1>2. PICK i \in D : \A j \in D : i <= j
  <2> HIDE DEF D
  <2> QED BY <1>1, LeastNat
<1>3. \A j \in 1..(i - 1) : a[j] = b[j] /\ b[j] = a[j]
  BY <1>2
<1>4. a[i] < b[i] \/ b[i] < a[i]
  BY <1>2 DEF Key
<1> QED BY <1>2, <1>3, <1>4 DEF Lower

-----------------------------------------------------------------------------
\* The plan as it is kept.

\* What a set of numbers has as its Min is one of them, and the least.
LEMMA MinFacts ==
    ASSUME NEW T \in SUBSET Nat, T # {}
    PROVE  Min(T) \in T /\ \A x \in T : Min(T) <= x
<1>1. \E x \in T : \A y \in T : x <= y
  BY LeastNat
<1> QED BY <1>1, Zenon DEF Min

\* Entries of a list are found by their identity.
LEMMA NamedFacts ==
    ASSUME NEW list, NEW id \in Identities(list)
    PROVE  Named(list, id) \in Range(list) /\ Named(list, id).id = id
<1>1. \E i \in DOMAIN list : list[i].id = id
  BY DEF Identities
<1>2. PICK i \in DOMAIN list : i = CHOOSE j \in DOMAIN list : list[j].id = id
  BY <1>1
<1>3. list[i].id = id
  BY <1>1, <1>2
<1> QED BY <1>2, <1>3 DEF Named, Range

\* The paths of the plan: their identities are numbers, their traces not empty.
LEMMA PathFacts ==
    /\ DOMAIN Routes.paths \subseteq Nat
    /\ None \notin DOMAIN Routes.paths
    /\ \A p \in DOMAIN Routes.paths :
           /\ Routes.paths[p].hops \in Seq(Range(Routes.paths[p].hops))
           /\ Len(Routes.paths[p].hops) \in Nat \ {0}
           /\ Routes.paths[p].hops # <<>>
<1>1. Routes.paths = [p \in Identities(Plan.paths) |->
                        [group |-> Named(Plan.paths, p).group,
                         hops |-> Named(Plan.paths, p).hops]]
  BY DEF Routes, finalize
<1>2. DOMAIN Routes.paths = Identities(Plan.paths)
  BY <1>1
<1>3. Identities(Plan.paths) \subseteq Nat
  BY PlanAssumption DEF Identities, Range
<1>4. None \notin Identities(Plan.paths)
  BY EngineAssumption DEF RoutesAccepted, Distinct
<1>5. ASSUME NEW p \in DOMAIN Routes.paths
      PROVE  /\ Routes.paths[p].hops \in Seq(Range(Routes.paths[p].hops))
             /\ Len(Routes.paths[p].hops) \in Nat \ {0}
             /\ Routes.paths[p].hops # <<>>
  <2> DEFINE x == Named(Plan.paths, p)
  <2>1. x \in Range(Plan.paths)
    BY <1>2, NamedFacts, Zenon
  <2>2. Routes.paths[p].hops = x.hops
    BY <1>1, <1>2
  <2>3. x.hops \in Seq(Range(x.hops))
    BY <2>1, PlanAssumption
  <2>4. PathAccepted(Plan, x)
    <3> HIDE DEF x
    <3> QED BY <2>1, EngineAssumption DEF RoutesAccepted, Range
  <2>5. Len(x.hops) \in 1..Limits.hops
    BY <2>4 DEF PathAccepted
  <2> HIDE DEF x
  <2>6. Len(x.hops) \in Nat
    BY <2>3
  <2>7. Len(x.hops) # 0
    BY <2>5
  <2>8. x.hops # <<>>
    BY <2>3, <2>7
  <2> QED BY <2>2, <2>3, <2>6, <2>7, <2>8
<1> QED BY <1>2, <1>3, <1>4, <1>5

\* The groups of the plan: their identities are numbers, and their members are
\* paths of the plan that name them.
LEMMA GroupFacts ==
    /\ DOMAIN Routes.groups \subseteq Nat
    /\ None \notin DOMAIN Routes.groups
    /\ \A g \in DOMAIN Routes.groups :
           /\ Members(g) \subseteq DOMAIN Routes.paths
           /\ Members(g) # {}
           /\ \A m \in Members(g) : Routes.paths[m].group = g
<1>1. Routes.groups = [g \in Identities(Plan.groups) |->
                        [ends |-> Named(Plan.groups, g).ends,
                         members |-> Range(Named(Plan.groups, g).members)]]
  BY DEF Routes, finalize
<1>2. DOMAIN Routes.groups = Identities(Plan.groups)
  BY <1>1
<1>3. Identities(Plan.groups) \subseteq Nat
  BY PlanAssumption DEF Identities, Range
<1>4. None \notin Identities(Plan.groups)
  BY EngineAssumption DEF RoutesAccepted, Distinct
<1>5. Routes.paths = [p \in Identities(Plan.paths) |->
                        [group |-> Named(Plan.paths, p).group,
                         hops |-> Named(Plan.paths, p).hops]]
  BY DEF Routes, finalize
<1>6. ASSUME NEW g \in DOMAIN Routes.groups
      PROVE  /\ Members(g) \subseteq DOMAIN Routes.paths
             /\ Members(g) # {}
             /\ \A m \in Members(g) : Routes.paths[m].group = g
  <2> DEFINE x == Named(Plan.groups, g)
  <2>1. x \in Range(Plan.groups) /\ x.id = g
    BY <1>2, NamedFacts, Zenon
  <2>2. Members(g) = Range(x.members)
    BY <1>1, <1>2 DEF Members
  <2>3. x.members \in Seq(Range(x.members))
    BY <2>1, PlanAssumption
  <2>4. GroupAccepted(Plan, x)
    <3> HIDE DEF x
    <3> QED BY <2>1, EngineAssumption DEF RoutesAccepted, Range
  <2> HIDE DEF x
  <2>5. Len(x.members) \in 1..Limits.members
    BY <2>4 DEF GroupAccepted
  <2>6. Range(x.members) # {}
    <3>1. Len(x.members) \in Nat /\ DOMAIN x.members = 1..Len(x.members)
      BY <2>3
    <3>2. Len(x.members) # 0
      BY <2>5
    <3>3. 1 \in DOMAIN x.members
      BY <3>1, <3>2
    <3> QED BY <3>3 DEF Range
  <2>7. \A m \in Range(x.members) :
            m \in Identities(Plan.paths) /\ Named(Plan.paths, m).group = x.id
    BY <2>4 DEF GroupAccepted
  <2> QED BY <1>5, <2>1, <2>2, <2>6, <2>7
<1> QED BY <1>2, <1>3, <1>4, <1>6

-----------------------------------------------------------------------------
\* Requests and contexts.

\* What the engine may be asked: any subject, any sequence of records.
Requests ==
    [generation : {Routes.id}, group : {s.group : s \in Subjects},
     path : {s.path : s \in Subjects}, evidence : Seq(Evidence), gap : BOOLEAN]

\* What may be current when it is asked.
Contexts ==
    [epoch : Nat, routes_epoch : Nat, revision : Nat, now : Nat \ {0},
     topology : {None} \cup {Indexed(t, n) : t \in Topologies, n \in Nat}]

\* Two fields of a context may change together.
LEMMA ContextFields ==
    ASSUME NEW N, NEW M, NEW X,
           NEW c \in [epoch : N, routes_epoch : N, revision : N, now : M, topology : X],
           NEW m \in N, NEW n \in N, NEW x \in X
    PROVE  /\ [c EXCEPT !.epoch = n, !.topology = x]
                \in [epoch : N, routes_epoch : N, revision : N, now : M, topology : X]
           /\ [c EXCEPT !.revision = m, !.routes_epoch = n]
                \in [epoch : N, routes_epoch : N, revision : N, now : M, topology : X]
OBVIOUS

\* The offered records are finitely many.
LEMMA OfferedFacts ==
    ASSUME NEW req \in Requests
    PROVE  /\ req.evidence \in Seq(Evidence)
           /\ Offered(req) \subseteq Evidence
           /\ IsFiniteSet(Offered(req))
<1>1. req.evidence \in Seq(Evidence)
  BY DEF Requests
<1> DEFINE f == req.evidence
<1>2. Len(f) \in Nat /\ DOMAIN f = 1..Len(f) /\ f \in [1..Len(f) -> Evidence]
  BY <1>1
<1>3. Range(f) = {f[i] : i \in 1..Len(f)}
  BY <1>2 DEF Range
<1>4. f \in Surjection(1..Len(f), Range(f))
  BY <1>2, <1>3 DEF Surjection
<1>5. IsFiniteSet(1..Len(f))
  BY <1>2, FS_Interval
<1>6. IsFiniteSet(Range(f))
  BY <1>4, <1>5, FS_Surjection
<1>7. Range(f) \subseteq Evidence
  BY <1>2, <1>3
<1> QED BY <1>1, <1>6, <1>7 DEF Offered

\* So are the accepted ones.
LEMMA AcceptedFacts ==
    ASSUME NEW req \in Requests, NEW ctx
    PROVE  /\ Accepted(req, ctx) \subseteq Offered(req)
           /\ Accepted(req, ctx) \subseteq Evidence
           /\ IsFiniteSet(Accepted(req, ctx))
<1>1. Accepted(req, ctx) \subseteq Offered(req)
  BY DEF Accepted
<1>2. IsFiniteSet(Accepted(req, ctx))
  BY <1>1, OfferedFacts, FS_Subset
<1> QED BY <1>1, <1>2, OfferedFacts

\* The first of a sequence that is not None is one of its entries.
LEMMA FirstNamedFacts ==
    ASSUME NEW X, NEW seq \in Seq(X), FirstNamed(seq) # None
    PROVE  \E i \in DOMAIN seq : seq[i] # None /\ FirstNamed(seq) = seq[i]
<1> DEFINE found == {i \in DOMAIN seq : seq[i] # None}
<1>1. found # {}
  BY DEF FirstNamed
<1>2. found \in SUBSET Nat
  OBVIOUS
<1>3. Min(found) \in found
  <2> HIDE DEF found
  <2> QED BY <1>1, <1>2, MinFacts
<1>4. FirstNamed(seq) = seq[Min(found)]
  BY <1>1 DEF FirstNamed
<1> QED BY <1>3, <1>4

\* A comparison is about a group of the plan or about nothing.
LEMMA SubjectFacts ==
    ASSUME NEW req \in Requests
    PROVE  Subject(req) \in DOMAIN Routes.groups \cup {None}
<1>1. \A g : KnownGroup(g) \in DOMAIN Routes.groups \cup {None}
  BY DEF KnownGroup, find_group
<1>2. \A ends : GroupBetween(ends) \in DOMAIN Routes.groups \cup {None}
  <2> TAKE ends
  <2> DEFINE found == find_group_by_endpoints(Routes, ends)
  <2>1. found \subseteq DOMAIN Routes.groups
    BY DEF find_group_by_endpoints
  <2>2. found \in SUBSET Nat
    BY <2>1, GroupFacts
  <2>3. found # {} => Min(found) \in found
    <3> HIDE DEF found
    <3> QED BY <2>2, MinFacts
  <2> QED BY <2>1, <2>3 DEF GroupBetween
<1>3. \A e : GroupNamedBy(e) \in DOMAIN Routes.groups \cup {None}
  BY <1>1, <1>2, Zenon DEF GroupNamedBy
<1> DEFINE named == [i \in DOMAIN req.evidence |-> GroupNamedBy(req.evidence[i])]
<1>4. named \in Seq(DOMAIN Routes.groups \cup {None})
  <2> DEFINE G == DOMAIN Routes.groups \cup {None}
  <2>1. req.evidence \in Seq(Evidence)
    BY OfferedFacts
  <2>2. Len(req.evidence) \in Nat /\ DOMAIN req.evidence = 1..Len(req.evidence)
    BY <2>1
  <2>3. named \in [1..Len(req.evidence) -> G]
    BY <1>3, <2>2
  <2> HIDE DEF named, G
  <2>4. named \in Seq(G)
    BY <2>2, <2>3, SeqDef
  <2> QED BY <2>4 DEF G
<1>5. FirstNamed(named) \in DOMAIN Routes.groups \cup {None}
  <2> HIDE DEF named
  <2>1. SUFFICES ASSUME FirstNamed(named) # None
                 PROVE  FirstNamed(named) \in DOMAIN Routes.groups
    OBVIOUS
  <2>2. PICK i \in DOMAIN named : named[i] # None /\ FirstNamed(named) = named[i]
    BY <1>4, <2>1, FirstNamedFacts
  <2> QED BY <1>4, <2>2
<1> QED BY <1>1, <1>5, Zenon DEF Subject

-----------------------------------------------------------------------------
\* Freshness.

\* A verdict is one of the five states.
LEMMA AssessIsState ==
    ASSUME NEW e, NEW now, NEW policy
    PROVE  assess_evidence(e, now, policy) \in FreshnessState
<1>1. FreshnessState = {"Fresh", "Unknown", "Stale", "Expired", "Future"}
  BY DEF FreshnessState, freshness_severity
<1>2. \A x, y, z : classify_age(x, y, z) \in FreshnessState
  BY <1>1, Zenon DEF classify_age
<1>3. AgeState(e.received_at, now, policy) \in FreshnessState
  BY <1>1, <1>2, Zenon DEF AgeState
<1>4. SkewState(e.observed_at, e.received_at, policy) \in FreshnessState
  BY <1>1, Zenon DEF SkewState
<1>5. \A x, y : worse_of(x, y) = x \/ worse_of(x, y) = y
  BY Zenon DEF worse_of
<1> HIDE DEF FreshnessState
<1>6. "Unknown" \in FreshnessState
  BY <1>1
<1>7. worse_of(AgeState(e.received_at, now, policy),
               SkewState(e.observed_at, e.received_at, policy)) \in FreshnessState
  BY <1>3, <1>4, <1>5, Zenon
<1> QED BY <1>6, <1>7, Zenon DEF assess_evidence

\* Severities are natural numbers, and only Fresh has none.
LEMMA SeverityFacts ==
    \A f \in FreshnessState :
        /\ freshness_severity[f] \in 0..4
        /\ freshness_severity[f] = 0 <=> f = "Fresh"
BY DEF FreshnessState, freshness_severity

\* Two verdicts together are fresh when each is.
LEMMA FreshOfBoth ==
    ASSUME NEW x \in FreshnessState, NEW y \in FreshnessState, worse_of(x, y) = "Fresh"
    PROVE  x = "Fresh" /\ y = "Fresh"
<1>1. /\ freshness_severity[x] \in 0..4 /\ freshness_severity[y] \in 0..4
      /\ freshness_severity[x] = 0 <=> x = "Fresh"
      /\ freshness_severity[y] = 0 <=> y = "Fresh"
  BY SeverityFacts
<1>2. CASE freshness_severity[x] >= freshness_severity[y]
  <2>1. x = "Fresh"
    BY <1>2 DEF worse_of
  <2> QED BY <1>1, <1>2, <2>1
<1>3. CASE ~ (freshness_severity[x] >= freshness_severity[y])
  <2>1. y = "Fresh"
    BY <1>3 DEF worse_of
  <2> QED BY <1>1, <1>3, <2>1
<1> QED BY <1>2, <1>3

\* What a fresh verdict says.
LEMMA FreshFacts ==
    ASSUME NEW e, NEW now, NEW policy, assess_evidence(e, now, policy) = "Fresh"
    PROVE  /\ now # 0 /\ e.received_at # 0
           /\ AgeState(e.received_at, now, policy) = "Fresh"
           /\ SkewState(e.observed_at, e.received_at, policy) = "Fresh"
<1> DEFINE x == AgeState(e.received_at, now, policy)
           y == SkewState(e.observed_at, e.received_at, policy)
<1>1. now # 0 /\ e.received_at # 0 /\ worse_of(x, y) = "Fresh"
  BY DEF assess_evidence
<1>2. FreshnessState = {"Fresh", "Unknown", "Stale", "Expired", "Future"}
  BY DEF FreshnessState, freshness_severity
<1>3. x \in FreshnessState
  BY <1>2, Zenon DEF AgeState, classify_age
<1>4. y \in FreshnessState
  BY <1>2, Zenon DEF SkewState
<1> HIDE DEF x, y
<1>5. x = "Fresh" /\ y = "Fresh"
  BY <1>1, <1>3, <1>4, FreshOfBoth
<1> QED BY <1>1, <1>5 DEF x, y

\* A fresh record is no older than it may be.
LEMMA FreshIsYoung ==
    ASSUME NEW received \in Nat, NEW now \in Nat, NEW policy,
           policy.evidence_max_age \in Nat,
           AgeState(received, now, policy) = "Fresh"
    PROVE  now - received <= policy.evidence_max_age
<1>1. CASE received > now
  BY <1>1
<1>2. CASE ~ (received > now)
  <2>1. classify_age(now - received, policy.evidence_max_age, policy.evidence_expiry)
        = "Fresh"
    BY <1>2 DEF AgeState
  <2> QED BY <2>1 DEF classify_age
<1> QED BY <1>1, <1>2

\* The policy for a source has an age limit and a tolerance.
LEMMA EffectivePolicyFacts ==
    ASSUME NEW s \in DOMAIN Sources
    PROVE  /\ EffectivePolicy(Sources[s]).evidence_max_age \in Nat
           /\ EffectivePolicy(Sources[s]).clock_skew_tolerance \in Nat
<1> DEFINE P == [evidence_max_age : Nat, evidence_expiry : Nat,
                 clock_skew_tolerance : Nat, max_observation_latency : Nat]
           base == Policy.freshness
           aged == IF Sources[s].max_age = 0 THEN base
                   ELSE [base EXCEPT !.evidence_max_age = Sources[s].max_age,
                                     !.evidence_expiry = Max({Sources[s].max_age, @})]
<1>1. base \in P
  BY EngineAssumption
<1>2. Sources[s].max_age \in Nat /\ Sources[s].skew \in Nat
  BY SourcesAssumption
<1>3. /\ aged.evidence_max_age \in Nat /\ aged.clock_skew_tolerance \in Nat
      /\ "clock_skew_tolerance" \in DOMAIN aged
  BY <1>1, <1>2
<1>4. EffectivePolicy(Sources[s]) =
        IF Sources[s].skew = 0 THEN aged
        ELSE [aged EXCEPT !.clock_skew_tolerance = Sources[s].skew]
  BY DEF EffectivePolicy
<1> HIDE DEF aged
<1> QED BY <1>2, <1>3, <1>4

\* The worst verdict of several is Fresh only when all are.
LEMMA WorstIsFresh ==
    ASSUME NEW F \in SUBSET FreshnessState, F # {},
           (CHOOSE f \in F : \A s \in F : worse_of(f, s) = f) = "Fresh"
    PROVE  \A s \in F : s = "Fresh"
<1> DEFINE T == {4 - freshness_severity[f] : f \in F}
<1>1. T \in SUBSET Nat /\ T # {}
  BY SeverityFacts
<1>2. PICK n \in T : \A m \in T : n <= m
  <2> HIDE DEF T
  <2> QED BY <1>1, LeastNat
<1>3. PICK f \in F : n = 4 - freshness_severity[f]
  BY <1>2
<1>4. \A s \in F : worse_of(f, s) = f
  <2> TAKE s \in F
  <2>1. n <= 4 - freshness_severity[s]
    BY <1>2
  <2>2. freshness_severity[f] \in 0..4 /\ freshness_severity[s] \in 0..4
    BY SeverityFacts
  <2>3. freshness_severity[f] >= freshness_severity[s]
    BY <1>3, <2>1, <2>2
  <2> QED BY <2>3 DEF worse_of
<1>5. \A s \in F : worse_of("Fresh", s) = "Fresh"
  BY <1>4
<1>6. "Fresh" \in FreshnessState
  BY DEF FreshnessState, freshness_severity
<1> QED BY <1>5, <1>6, FreshOfBoth

-----------------------------------------------------------------------------
\* The order of the records.

\* Sort keys are keys, and end with the identity.
LEMMA SortKeyFacts ==
    ASSUME NEW e \in Evidence, NEW ctx
    PROVE  SortKey(e, ctx) \in Key /\ SortKey(e, ctx)[6] = e.id
<1>1. /\ e.id \in Nat /\ e.sequence \in Nat /\ e.authority \in Nat
      /\ e.received_at \in Nat
  BY EvidenceAssumption
<1>2. CompletenessRank[e.declared] \in Nat
  BY EvidenceAssumption DEF CompletenessRank
<1>3. FreshnessOf(e, ctx) \in FreshnessState
  BY AssessIsState, Zenon DEF FreshnessOf
<1>4. freshness_severity[FreshnessOf(e, ctx)] \in Int
  BY <1>3, SeverityFacts
<1> QED BY <1>1, <1>2, <1>4 DEF SortKey, Key

\* Before is the dictionary order of the sort keys.
LEMMA BeforeIsLower ==
    ASSUME NEW a \in Evidence, NEW b \in Evidence, NEW ctx
    PROVE  Before(a, b, ctx) <=> Lower(SortKey(a, ctx), SortKey(b, ctx))
<1>1. DOMAIN SortKey(a, ctx) = 1..6
  BY SortKeyFacts DEF Key
<1> QED BY <1>1, Zenon DEF Before, Lower

\* Among accepted records there is a first one.
LEMMA FirstOfFacts ==
    ASSUME NEW kept \in SUBSET Evidence, IsFiniteSet(kept), kept # {}, NEW ctx
    PROVE  FirstOf(kept, ctx) \in kept
<1> DEFINE R == {p \in kept \X kept : Before(p[1], p[2], ctx)}
<1>1. \A x, y \in kept : <<x, y>> \in R <=> Lower(SortKey(x, ctx), SortKey(y, ctx))
  BY BeforeIsLower
<1>2. \A x, y \in kept : x # y => <<x, y>> \in R \/ <<y, x>> \in R
  <2> HIDE DEF R
  <2> TAKE x, y \in kept
  <2> HAVE x # y
  <2>1. x.id # y.id
    BY EvidenceAssumption
  <2>2. SortKey(x, ctx)[6] # SortKey(y, ctx)[6]
    BY <2>1, SortKeyFacts
  <2>3. 6 \in 1..6 /\ SortKey(x, ctx) \in Key /\ SortKey(y, ctx) \in Key
    BY SortKeyFacts
  <2>4. Lower(SortKey(x, ctx), SortKey(y, ctx)) \/ Lower(SortKey(y, ctx), SortKey(x, ctx))
    BY <2>2, <2>3, LowerTotal
  <2> QED BY <1>1, <2>4, Zenon
<1>3. \A x, y, z \in kept : <<x, y>> \in R /\ <<y, z>> \in R => <<x, z>> \in R
  <2> HIDE DEF R
  <2> TAKE x, y, z \in kept
  <2> HAVE <<x, y>> \in R /\ <<y, z>> \in R
  <2>1. /\ SortKey(x, ctx) \in Key /\ SortKey(y, ctx) \in Key
        /\ SortKey(z, ctx) \in Key
    BY SortKeyFacts
  <2>2. Lower(SortKey(x, ctx), SortKey(y, ctx)) /\ Lower(SortKey(y, ctx), SortKey(z, ctx))
    BY <1>1, Zenon
  <2>3. Lower(SortKey(x, ctx), SortKey(z, ctx))
    BY <2>1, <2>2, LowerTransitive
  <2> QED BY <1>1, <2>3, Zenon
<1>4. PICK x \in kept : \A y \in kept \ {x} : <<x, y>> \in R
  <2> HIDE DEF R
  <2> QED BY <1>2, <1>3, FirstExists
<1>5. \A y \in kept \ {x} : Before(x, y, ctx)
  BY <1>4
<1> QED BY <1>5, Zenon DEF FirstOf

-----------------------------------------------------------------------------
\* What the gates let through.

\* A match has passed every gate.
LEMMA MatchPasses ==
    ASSUME NEW req, NEW ctx, compare(req, ctx).outcome = "Match"
    PROVE  LET w == Working(req, ctx, Subject(req))
           IN  /\ GenerationMatches(req, ctx)
               /\ Subject(req) # None
               /\ Accepted(req, ctx) # {}
               /\ Gate(req, ctx, w)[1] = "Match"
<1> DEFINE w == Working(req, ctx, Subject(req))
<1>1. \A o, c, p : Result(o, c, p).outcome = o
  BY DEF Result
<1>2. GenerationMatches(req, ctx)
  BY <1>1 DEF compare
<1>3. Subject(req) # None
  <2>1. SUFFICES ASSUME Subject(req) = None PROVE FALSE
    OBVIOUS
  <2>2. compare(req, ctx) =
          [Result("NoExpectedState",
                  Only(~ TopologyMatches(ctx), "TopologyGenerationMismatch"),
                  None) EXCEPT !.primary = "None"]
    BY <1>2, <2>1 DEF compare
  <2>3. compare(req, ctx).outcome = "NoExpectedState"
    BY <2>2 DEF Result
  <2> QED BY <2>3
<1>4. Accepted(req, ctx) # {}
  <2>1. SUFFICES ASSUME Accepted(req, ctx) = {} PROVE FALSE
    OBVIOUS
  <2>2. compare(req, ctx) = NothingAccepted(req, ctx)
    BY <1>2, <1>3, <2>1 DEF compare
  <2>3. compare(req, ctx).outcome \in {"Unsupported", "Indeterminate"}
    BY <2>2, <1>1 DEF NothingAccepted
  <2> QED BY <2>3
<1>5. compare(req, ctx) = Judged(req, ctx, w)
  BY <1>2, <1>3, <1>4 DEF compare
<1>6. Judged(req, ctx, w).outcome = Gate(req, ctx, w)[1]
  <2> HIDE DEF w
  <2> QED BY <1>1 DEF Judged
<1> QED BY <1>2, <1>3, <1>4, <1>5, <1>6

\* The last gates, one by one.
LEMMA GateOfMatch ==
    ASSUME NEW req, NEW ctx, NEW w, Gate(req, ctx, w)[1] = "Match"
    PROVE  /\ ~ Conflicting(w)
           /\ WorstFreshness(w) = "Fresh"
           /\ ~ IsStructural(w)
           /\ Complete(req, w)
           /\ Policy.require_topology_for_match => TopologyMatches(ctx)
           /\ ~ (w.first.authority < Advisory)
           /\ MatchedPath(w) # None
BY DEF Gate

-----------------------------------------------------------------------------
\* What is worked on, and what acceptance says of a record.

\* The parts of what is worked on.
IsWorking(w, req, ctx, g) ==
    /\ w.accepted = Accepted(req, ctx)
    /\ w.first = FirstOf(Accepted(req, ctx), ctx)
    /\ w.freshness = {FreshnessOf(e, ctx) : e \in Accepted(req, ctx)}
    /\ w.reference = Routes.paths[Reference(req, g)].hops
    /\ w.members = {Routes.paths[p].hops : p \in Members(g)}
    /\ \A e \in Accepted(req, ctx) :
           /\ w.hops[e] = Hops(e, ctx)
           /\ w.exact[e] = MembersBy({"Exact"}, Hops(e, ctx), g)
           /\ w.matched[e] = MembersBy({"Exact", "Prefix"}, Hops(e, ctx), g)

\* What is worked on has those parts.
LEMMA WorkingFacts ==
    ASSUME NEW req, NEW ctx, NEW g
    PROVE  IsWorking(Working(req, ctx, g), req, ctx, g)
<1> DEFINE kept == Accepted(req, ctx)
           first == FirstOf(kept, ctx)
           reference == Reference(req, g)
           w == WorkingOn(kept, first, reference, ctx, g)
<1> HIDE DEF kept, first, reference
<1>1. /\ w.accepted = kept
      /\ w.first = first
      /\ w.freshness = {FreshnessOf(e, ctx) : e \in kept}
      /\ w.reference = Routes.paths[reference].hops
      /\ w.members = {Routes.paths[p].hops : p \in Members(g)}
  BY DEF WorkingOn
<1>2. ASSUME NEW e \in kept
      PROVE  /\ w.hops[e] = Hops(e, ctx)
             /\ w.exact[e] = MembersBy({"Exact"}, Hops(e, ctx), g)
             /\ w.matched[e] = MembersBy({"Exact", "Prefix"}, Hops(e, ctx), g)
  BY <1>2 DEF WorkingOn
<1>3. w = Working(req, ctx, g)
  BY DEF Working, kept, first, reference
<1> HIDE DEF w
<1>4. IsWorking(w, req, ctx, g)
  BY <1>1, <1>2 DEF IsWorking, kept, first, reference
<1> QED BY <1>3, <1>4, Zenon

\* An accepted record is well formed, vouched for and of the current fence.
LEMMA AcceptedIsCurrent ==
    ASSUME NEW req \in Requests, NEW ctx \in Contexts, NEW e \in Accepted(req, ctx)
    PROVE  /\ validate(e)
           /\ Vouched(e)
           /\ e.epoch = ctx.epoch
           /\ e.revision = ctx.revision
           /\ e.generation \in {None, Routes.id}
           /\ e.surface # "Unsupported"
<1>1. e \in Evidence /\ Rejections(e, req, ctx) = {}
  BY AcceptedFacts DEF Accepted
<1>2. validate(e) /\ Vouched(e) /\ Fences(e, req, ctx) = {}
  BY <1>1, Zenon DEF Rejections
<1>3. \A c \in FenceClasses :
        ~ (\/ c = "EpochFenced" /\ e.epoch < ctx.epoch
           \/ c = "EpochAhead" /\ e.epoch > ctx.epoch
           \/ c = "RouteGenerationMismatch" /\ e.generation \notin {None, req.generation}
           \/ c = "RevisionFenced" /\ e.revision < ctx.revision
           \/ c = "RevisionAhead" /\ e.revision > ctx.revision
           \/ c = "EvidenceUnsupported" /\ e.surface = "Unsupported")
  BY <1>2 DEF Fences
<1>4. /\ ~ (e.epoch < ctx.epoch) /\ ~ (e.epoch > ctx.epoch)
      /\ ~ (e.revision < ctx.revision) /\ ~ (e.revision > ctx.revision)
      /\ e.generation \in {None, req.generation} /\ e.surface # "Unsupported"
  BY <1>3 DEF FenceClasses
<1>5. /\ e.epoch \in Nat /\ ctx.epoch \in Nat
      /\ e.revision \in Nat /\ ctx.revision \in Nat /\ req.generation = Routes.id
  BY <1>1, EvidenceAssumption DEF Contexts, Requests
<1> QED BY <1>2, <1>4, <1>5

\* A record without hops agrees with no member.
LEMMA NoHopsNoMatch ==
    ASSUME NEW e, NEW ctx, NEW g, e.hops = <<>>
    PROVE  MembersBy({"Exact", "Prefix"}, Hops(e, ctx), g) = {}
<1>1. Hops(e, ctx) = <<>>
  <2>1. \A links : Correlated(<<>>, links) = <<>>
    BY DEF Correlated
  <2> QED BY <2>1 DEF Hops
<1>2. \A p : compare_trace(p, Hops(e, ctx)) = "Incomparable"
  BY <1>1 DEF compare_trace
<1> QED BY <1>2 DEF MembersBy

\* When the worst verdict is Fresh, every accepted record is fresh.
LEMMA AllFresh ==
    ASSUME NEW req \in Requests, NEW ctx, NEW g, Accepted(req, ctx) # {},
           WorstFreshness(Working(req, ctx, g)) = "Fresh"
    PROVE  \A e \in Accepted(req, ctx) : FreshnessOf(e, ctx) = "Fresh"
<1> DEFINE F == {FreshnessOf(e, ctx) : e \in Accepted(req, ctx)}
<1>1. F \subseteq FreshnessState
  BY AssessIsState DEF FreshnessOf
<1>2. F # {}
  OBVIOUS
<1>3. Working(req, ctx, g).freshness = F
  BY WorkingFacts DEF IsWorking
<1>4. (CHOOSE f \in F : \A s \in F : worse_of(f, s) = f) = "Fresh"
  BY <1>3 DEF WorstFreshness
<1>5. \A s \in F : s = "Fresh"
  <2> HIDE DEF F
  <2> QED BY <1>1, <1>2, <1>4, WorstIsFresh
<1> QED BY <1>5

\* What MatchIsSound says, of any request and context.
LEMMA SoundMatch ==
    ASSUME NEW req \in Requests, NEW ctx \in Contexts,
           compare(req, ctx).outcome = "Match"
    PROVE  /\ ctx.routes_epoch = ctx.epoch
           /\ Policy.require_topology_for_match => TopologyMatches(ctx)
           /\ ~ req.gap
           /\ \E e \in Accepted(req, ctx) :
                  /\ e.authority >= Advisory
                  /\ MembersBy({"Exact"}, Hops(e, ctx), Subject(req)) # {}
           /\ \A e \in Accepted(req, ctx) :
                  /\ FreshnessOf(e, ctx) = "Fresh"
                  /\ ~ e.truncated /\ e.declared # "Partial" /\ e.hops # <<>>
                  /\ hop_indices_are_contiguous(e.hops)
<1> DEFINE g == Subject(req)
           w == Working(req, ctx, g)
           kept == Accepted(req, ctx)
<1>1. GenerationMatches(req, ctx) /\ g # None /\ kept # {} /\ Gate(req, ctx, w)[1] = "Match"
  BY MatchPasses
<1>2. g \in DOMAIN Routes.groups
  BY <1>1, SubjectFacts
<1>3. /\ WorstFreshness(w) = "Fresh"
      /\ Complete(req, w)
      /\ Policy.require_topology_for_match => TopologyMatches(ctx)
      /\ ~ (w.first.authority < Advisory)
      /\ MatchedPath(w) # None
  <2> HIDE DEF w
  <2> QED BY <1>1, GateOfMatch
<1>4. /\ w.accepted = kept
      /\ w.first = FirstOf(kept, ctx)
      /\ w.members = {Routes.paths[p].hops : p \in Members(g)}
      /\ \A e \in kept :
             /\ w.exact[e] = MembersBy({"Exact"}, Hops(e, ctx), g)
             /\ w.matched[e] = MembersBy({"Exact", "Prefix"}, Hops(e, ctx), g)
  <2>1. IsWorking(w, req, ctx, g)
    BY WorkingFacts, Zenon
  <2> HIDE DEF w
  <2> QED BY <2>1, Zenon DEF IsWorking
<1>5. w.first \in kept
  <2>1. kept \in SUBSET Evidence /\ IsFiniteSet(kept)
    BY AcceptedFacts
  <2>2. FirstOf(kept, ctx) \in kept
    BY <1>1, <2>1, FirstOfFacts, Zenon
  <2> QED BY <1>4, <2>2, Zenon
<1>6. ~ req.gap /\ \A e \in kept : ~ Partial(e, w)
  <2> HIDE DEF w, kept
  <2> QED BY <1>3, <1>4 DEF Complete
<1>7. w.matched[w.first] # {}
  <2> HIDE DEF w
  <2> QED BY <1>3 DEF MatchedPath
<1>8. w.exact[w.first] # {}
  <2>1. ~ Partial(w.first, w)
    BY <1>5, <1>6
  <2> HIDE DEF w
  <2> QED BY <2>1, <1>7 DEF Partial
<1>9. w.first.authority \in Nat
  BY <1>5, AcceptedFacts, EvidenceAssumption
<1>10. w.first.authority >= Advisory
  BY <1>3, <1>9 DEF Advisory
<1>11. ASSUME NEW e \in kept
       PROVE  ~ e.truncated /\ e.declared # "Partial" /\ e.hops # <<>>
              /\ hop_indices_are_contiguous(e.hops)
  <2>1. ~ Partial(e, w)
    BY <1>6
  <2>2. /\ ~ e.truncated /\ e.declared # "Partial" /\ hop_indices_are_contiguous(e.hops)
        /\ ~ (w.matched[e] = {} /\ \A m \in w.members : Len(e.hops) < Len(m))
    BY <2>1 DEF Partial
  <2>3. ASSUME e.hops = <<>> PROVE FALSE
    <3>1. w.matched[e] = {}
      BY <1>4, <2>3, NoHopsNoMatch
    <3>2. \A m \in w.members : Len(m) \in Nat \ {0}
      BY <1>2, <1>4, GroupFacts, PathFacts
    <3>3. Len(e.hops) = 0
      BY <2>3
    <3>4. \A m \in w.members : Len(e.hops) < Len(m)
      BY <3>2, <3>3
    <3> QED BY <2>2, <3>1, <3>4
  <2> QED BY <2>2, <2>3
<1>12. \A e \in kept : FreshnessOf(e, ctx) = "Fresh"
  BY <1>1, <1>3, AllFresh
<1>13. ctx.routes_epoch = ctx.epoch
  BY <1>1 DEF GenerationMatches
<1> QED BY <1>3, <1>4, <1>5, <1>6, <1>8, <1>10, <1>11, <1>12, <1>13

\* A fresh accepted record is no older than its source's limit.
LEMMA FreshRecordIsYoung ==
    ASSUME NEW req \in Requests, NEW ctx \in Contexts, NEW e \in Accepted(req, ctx),
           FreshnessOf(e, ctx) = "Fresh"
    PROVE  ctx.now - e.received_at <= EffectivePolicy(Sources[e.source]).evidence_max_age
<1>1. e.source \in DOMAIN Sources
  BY AcceptedIsCurrent DEF Vouched
<1>2. EffectivePolicy(Sources[e.source]).evidence_max_age \in Nat
  BY <1>1, EffectivePolicyFacts
<1>3. e.received_at \in Nat
  BY AcceptedFacts, EvidenceAssumption
<1>4. ctx.now \in Nat
  BY DEF Contexts
<1>5. AgeState(e.received_at, ctx.now, EffectivePolicy(Sources[e.source])) = "Fresh"
  BY FreshFacts, Zenon DEF FreshnessOf
<1> QED BY <1>2, <1>3, <1>4, <1>5, FreshIsYoung

-----------------------------------------------------------------------------
\* What the engine is asked, and what is current, keep their types.
EngineInv == request \in Requests /\ context \in Contexts

\* It holds at first, when no evidence and no topology have come.
LEMMA EngineInit == Init => EngineInv
<1>1. Init => request \in Requests
  BY DEF Init, Requests
<1>2. Init => context \in Contexts
  BY DEF Init, Contexts
<1> QED BY <1>1, <1>2 DEF EngineInv

\* Each change of the world keeps it.
LEMMA EngineStep == EngineInv /\ [Next]_vars => EngineInv'
<1> SUFFICES ASSUME EngineInv, [Next]_vars PROVE EngineInv'
  OBVIOUS
<1> USE DEF EngineInv
<1>1. ASSUME NEW e \in Evidence, AddEvidence(e) PROVE EngineInv'
  <2>1. request.evidence \in Seq(Evidence)
    BY DEF Requests
  <2>2. Append(request.evidence, e) \in Seq(Evidence)
    BY <2>1
  <2>3. request' = [request EXCEPT !.evidence = Append(request.evidence, e)]
    BY <1>1 DEF AddEvidence
  <2>4. context' = context
    BY <1>1 DEF AddEvidence
  <2>5. \A s \in Seq(Evidence) : [request EXCEPT !.evidence = s] \in Requests
    BY DEF Requests
  <2> QED BY <2>2, <2>3, <2>4, <2>5
<1>2. ASSUME NEW t \in Topologies, PublishTopology(t) PROVE EngineInv'
  <2>1. Indexed(t, context.epoch) \in {Indexed(u, n) : u \in Topologies, n \in Nat}
    BY DEF Contexts
  <2> QED BY <1>2, <2>1 DEF PublishTopology, Contexts
<1>3. ASSUME NEW t \in Topologies, NewEpoch(t) PROVE EngineInv'
  <2>1. context.epoch + 1 \in Nat
    BY DEF Contexts
  <2>2. Indexed(t, context.epoch + 1) \in {Indexed(u, n) : u \in Topologies, n \in Nat}
    BY <2>1
  <2>3. context' = [context EXCEPT !.epoch = context.epoch + 1,
                                   !.topology = Indexed(t, context.epoch + 1)]
        /\ request' = request
    BY <1>3 DEF NewEpoch
  <2> DEFINE X == {None} \cup {Indexed(u, m) : u \in Topologies, m \in Nat}
             x == Indexed(t, context.epoch + 1)
             n == context.epoch + 1
  <2>4. x \in X /\ n \in Nat
    BY <2>1, <2>2
  <2>5. Contexts = [epoch : Nat, routes_epoch : Nat, revision : Nat, now : Nat \ {0},
                    topology : X]
    BY DEF Contexts
  <2>6. context' = [context EXCEPT !.epoch = n, !.topology = x]
    BY <2>3
  <2> HIDE DEF X, x, n
  <2>7. [context EXCEPT !.epoch = n, !.topology = x] \in Contexts
    BY <2>4, <2>5, ContextFields, Zenon
  <2> QED BY <2>3, <2>6, <2>7
<1>4. CASE SequenceGap
  BY <1>4 DEF SequenceGap, Requests
<1>5. CASE NewRevision
  <2>1. context.epoch \in Nat /\ context.revision + 1 \in Nat
    BY DEF Contexts
  <2>2. context' = [context EXCEPT !.revision = context.revision + 1,
                                   !.routes_epoch = context.epoch]
        /\ request' = request
    BY <1>5 DEF NewRevision
  <2> DEFINE X == {None} \cup {Indexed(u, k) : u \in Topologies, k \in Nat}
             m == context.revision + 1
  <2>3. Contexts = [epoch : Nat, routes_epoch : Nat, revision : Nat, now : Nat \ {0},
                    topology : X]
    BY DEF Contexts
  <2>4. m \in Nat /\ None \in X
    BY <2>1
  <2>5. context' = [context EXCEPT !.revision = m, !.routes_epoch = context.epoch]
    BY <2>2
  <2> HIDE DEF X, m
  <2>6. [context EXCEPT !.revision = m, !.routes_epoch = context.epoch] \in Contexts
    BY <2>1, <2>3, <2>4, ContextFields, Zenon
  <2> QED BY <2>2, <2>5, <2>6
<1>6. CASE Tick
  BY <1>6 DEF Tick, Contexts
<1>7. CASE UNCHANGED vars
  BY <1>7 DEF vars
<1> QED BY <1>1, <1>2, <1>3, <1>4, <1>5, <1>6, <1>7 DEF Next

\* So it always holds.
LEMMA EngineTypes == Spec => []EngineInv
BY EngineInit, EngineStep, PTL DEF Spec

\* The compliance statement, of every match compare() ever reports: it speaks for
\* the current plan (and topology, where the policy asks for one) and rests on
\* current, young, whole records, one of which reaches the end of a member.
THEOREM MatchesAreSound == Spec => []MatchIsSound
<1>1. EngineInv => MatchIsSound
  <2> SUFFICES ASSUME EngineInv, current.outcome = "Match"
               PROVE  /\ context.routes_epoch = context.epoch
                      /\ Policy.require_topology_for_match => TopologyMatches(context)
                      /\ ~ request.gap
                      /\ \E e \in accepted : e.authority >= Advisory /\ Agrees(e, {"Exact"}) # {}
                      /\ \A e \in accepted :
                             /\ e.epoch = context.epoch
                             /\ e.revision = context.revision
                             /\ e.generation \in {None, Routes.id}
                             /\ e.surface # "Unsupported"
                             /\ context.now - e.received_at
                                    <= EffectivePolicy(Sources[e.source]).evidence_max_age
                             /\ ~ e.truncated /\ e.declared # "Partial" /\ e.hops # <<>>
                             /\ hop_indices_are_contiguous(e.hops)
    BY DEF MatchIsSound
  <2>1. request \in Requests /\ context \in Contexts
    BY DEF EngineInv
  <2>2. compare(request, context).outcome = "Match"
    BY DEF current
  <2>3. ASSUME NEW e \in Accepted(request, context)
        PROVE  /\ e.epoch = context.epoch
               /\ e.revision = context.revision
               /\ e.generation \in {None, Routes.id}
               /\ e.surface # "Unsupported"
    BY <2>1, AcceptedIsCurrent
  <2>4. ASSUME NEW e \in Accepted(request, context)
        PROVE  context.now - e.received_at
                   <= EffectivePolicy(Sources[e.source]).evidence_max_age
    BY <2>1, <2>2, SoundMatch, FreshRecordIsYoung
  <2> QED BY <2>1, <2>2, <2>3, <2>4, SoundMatch DEF accepted, Agrees, group
<1> QED BY <1>1, EngineTypes, PTL

-----------------------------------------------------------------------------
\* Divergence.

\* A reported divergence has passed the gates before it.
LEMMA DivergentPasses ==
    ASSUME NEW req, NEW ctx, compare(req, ctx).outcome = "Divergent"
    PROVE  LET w == Working(req, ctx, Subject(req))
           IN  /\ Subject(req) # None
               /\ Accepted(req, ctx) # {}
               /\ compare(req, ctx) = Judged(req, ctx, w)
               /\ WorstFreshness(w) = "Fresh"
               /\ IsStructural(w)
<1> DEFINE w == Working(req, ctx, Subject(req))
<1>1. \A o, c, p : Result(o, c, p).outcome = o
  BY DEF Result
<1>2. GenerationMatches(req, ctx)
  BY <1>1 DEF compare
<1>3. Subject(req) # None
  <2>1. SUFFICES ASSUME Subject(req) = None PROVE FALSE
    OBVIOUS
  <2>2. compare(req, ctx) =
          [Result("NoExpectedState",
                  Only(~ TopologyMatches(ctx), "TopologyGenerationMismatch"),
                  None) EXCEPT !.primary = "None"]
    BY <1>2, <2>1 DEF compare
  <2>3. compare(req, ctx).outcome = "NoExpectedState"
    BY <2>2 DEF Result
  <2> QED BY <2>3
<1>4. Accepted(req, ctx) # {}
  <2>1. SUFFICES ASSUME Accepted(req, ctx) = {} PROVE FALSE
    OBVIOUS
  <2>2. compare(req, ctx) = NothingAccepted(req, ctx)
    BY <1>2, <1>3, <2>1 DEF compare
  <2>3. compare(req, ctx).outcome \in {"Unsupported", "Indeterminate"}
    BY <2>2, <1>1 DEF NothingAccepted
  <2> QED BY <2>3
<1>5. compare(req, ctx) = Judged(req, ctx, w)
  BY <1>2, <1>3, <1>4 DEF compare
<1> HIDE DEF w
<1>6. Judged(req, ctx, w).outcome = Gate(req, ctx, w)[1]
  BY <1>1 DEF Judged
<1>7. WorstFreshness(w) = "Fresh" /\ IsStructural(w)
  BY <1>5, <1>6 DEF Gate
<1> QED BY <1>3, <1>4, <1>5, <1>7 DEF w

\* The greater of two numbers.
LEMMA MaxOfTwo ==
    ASSUME NEW x \in Nat, NEW y \in Nat
    PROVE  Max({x, y}) \in Nat /\ x <= Max({x, y}) /\ y <= Max({x, y})
<1>1. \E z \in {x, y} : \A u \in {x, y} : z >= u
  OBVIOUS
<1>2. Max({x, y}) \in {x, y} /\ \A u \in {x, y} : Max({x, y}) >= u
  BY <1>1, Zenon DEF Max
<1> QED BY <1>2

\* The common part of two traces lies in both.
LEMMA CommonFacts ==
    ASSUME NEW x, NEW y, Len(x) \in Nat, Len(y) \in Nat, NEW i \in Common(x, y)
    PROVE  /\ i \in 1..Len(x) /\ i \in 1..Len(y)
           /\ i \in 1..Max({Len(x), Len(y)})
<1> DEFINE m == Len(x)  n == Len(y)
<1> HIDE DEF m, n
<1>1. m \in Nat /\ n \in Nat
  BY DEF m, n
<1>2. Min({m, n}) \in {m, n} /\ Min({m, n}) <= m /\ Min({m, n}) <= n
  BY <1>1, MinFacts
<1>3. i \in 1..Min({m, n})
  BY DEF Common, m, n
<1>4. Max({m, n}) \in Nat /\ m <= Max({m, n}) /\ n <= Max({m, n})
  BY <1>1, MaxOfTwo
<1>5. i \in 1..m /\ i \in 1..n /\ i \in 1..Max({m, n})
  BY <1>1, <1>2, <1>3, <1>4
<1> QED BY <1>5 DEF m, n

\* Correlation keeps the length of a trace.
LEMMA HopsFacts ==
    ASSUME NEW e \in Evidence, NEW ctx
    PROVE  /\ Hops(e, ctx) \in Seq(Range(Hops(e, ctx)))
           /\ Len(Hops(e, ctx)) = Len(e.hops)
           /\ Len(e.hops) \in Nat
<1>1. e.hops \in Seq(Range(e.hops))
  BY EvidenceAssumption
<1>2. Len(e.hops) \in Nat /\ DOMAIN e.hops = 1..Len(e.hops)
  BY <1>1
<1>3. CASE ctx.topology = None
  BY <1>1, <1>2, <1>3 DEF Hops
<1>4. CASE ctx.topology # None
  <2> DEFINE h == Correlated(e.hops, ctx.topology.links)
             n == Len(e.hops)
  <2>1. DOMAIN h = 1..n
    BY <1>2 DEF Correlated
  <2>2. h = [i \in 1..n |-> h[i]]
    BY <1>2 DEF Correlated
  <2>3. Hops(e, ctx) = h
    BY <1>4 DEF Hops
  <2>4. n \in Nat
    BY <1>2
  <2> HIDE DEF h, n
  <2>5. h \in [1..n -> Range(h)]
    BY <2>1, <2>2 DEF Range
  <2>6. h \in Seq(Range(h)) /\ Len(h) = n
    BY <2>1, <2>4, <2>5, SeqDef
  <2> QED BY <2>3, <2>4, <2>6 DEF n
<1> QED BY <1>3, <1>4

\* A hop that disagrees with the reference gives a structural class.
LEMMA DifferenceIsStructural ==
    ASSUME NEW x, NEW y, Len(x) \in Nat, Len(y) \in Nat,
           NEW i \in Common(x, y), ~ hops_agree(x[i], y[i])
    PROVE  DifferenceAt(i, x, y) \in Structural /\ DifferenceAt(i, x, y) # "None"
<1>1. i \in 1..Len(x) /\ i \in 1..Len(y)
  BY CommonFacts
<1>2. ~ (i > Len(x)) /\ ~ (i > Len(y))
  BY <1>1
<1>3. per_hop_class(x[i], y[i]) \in {"DeviceMismatch", "PortMismatch", "LinkMismatch"}
  BY DEF per_hop_class, hops_agree
<1>4. DifferenceAt(i, x, y) \in
          {"DeviceMismatch", "PortMismatch", "LinkMismatch", "HopOrderViolation"}
  BY <1>2, <1>3, Zenon DEF DifferenceAt
<1> QED BY <1>4 DEF Structural

\* When the reference is a member, a structural finding is explained.
LEMMA DivergenceIsExplained ==
    ASSUME NEW req \in Requests, NEW ctx, Accepted(req, ctx) # {},
           Subject(req) \in DOMAIN Routes.groups,
           Reference(req, Subject(req)) \in Members(Subject(req)),
           IsStructural(Working(req, ctx, Subject(req)))
    PROVE  Judged(req, ctx, Working(req, ctx, Subject(req))).classes \cap Structural # {}
<1> DEFINE g == Subject(req)
           r == Reference(req, g)
           w == Working(req, ctx, g)
           x == Routes.paths[r].hops
           y == Hops(w.first, ctx)
<1>0. IsWorking(w, req, ctx, g)
  BY WorkingFacts, Zenon
<1>1. w.first \in Accepted(req, ctx) /\ w.first \in Evidence
  <2>1. Accepted(req, ctx) \in SUBSET Evidence /\ IsFiniteSet(Accepted(req, ctx))
    BY AcceptedFacts
  <2>2. FirstOf(Accepted(req, ctx), ctx) \in Accepted(req, ctx)
    BY <2>1, FirstOfFacts, Zenon
  <2> HIDE DEF w
  <2>3. w.first = FirstOf(Accepted(req, ctx), ctx)
    BY <1>0, Zenon DEF IsWorking
  <2> QED BY <2>1, <2>2, <2>3
<1>2. w.accepted = Accepted(req, ctx) /\ w.reference = x /\ w.hops[w.first] = y
  <2> HIDE DEF w, x, y
  <2> QED BY <1>0, <1>1, Zenon DEF IsWorking, x, y
<1>3. y # <<>> /\ w.matched[w.first] = {}
  BY <1>1, <1>2 DEF IsStructural
<1>4. MembersBy({"Exact", "Prefix"}, y, g) = {}
  <2> HIDE DEF w
  <2> QED BY <1>0, <1>1, <1>3, Zenon DEF IsWorking
<1>5. compare_trace(x, y) \notin {"Exact", "Prefix"}
  BY <1>4 DEF MembersBy
<1>6. x # <<>> /\ Len(x) \in Nat
  BY GroupFacts, PathFacts
<1>7. Len(y) \in Nat
  BY <1>1, HopsFacts
<1> HIDE DEF x, y
<1>8. PICK i \in Common(x, y) : ~ hops_agree(x[i], y[i])
  BY <1>3, <1>5, <1>6 DEF compare_trace
<1> DEFINE c == DifferenceAt(i, x, y)
<1>9. c \in Structural /\ c # "None"
  BY <1>6, <1>7, <1>8, DifferenceIsStructural
<1>10. i \in 1..Max({Len(x), Len(y)})
  BY <1>6, <1>7, <1>8, CommonFacts
<1> HIDE DEF w
<1>11. <<i, c>> \in Differences(w)
  BY <1>2, <1>9, <1>10 DEF Differences, w
<1>12. c \in {d[2] : d \in Differences(w)}
  BY <1>11
<1>13. c \in Judged(req, ctx, w).classes
  BY <1>12 DEF Judged, Result
<1> QED BY <1>9, <1>13 DEF w

\* Legitimate multipath is never reported as divergence, stale evidence proves
\* none, and what is reported says what was seen, unless the path differences
\* are counted from is none of the members.
THEOREM DivergencesAreProved == Spec => []DivergenceIsProved
<1>1. EngineInv => DivergenceIsProved
  <2> SUFFICES ASSUME EngineInv, current.outcome = "Divergent"
               PROVE  /\ \/ current.classes \cap Structural # {}
                         \/ Reference(request, group) \notin Members(group)
                      /\ accepted # {}
                      /\ \A e \in accepted :
                             /\ e.epoch = context.epoch /\ e.revision = context.revision
                             /\ FreshnessOf(e, context) = "Fresh"
                             /\ Agrees(e, {"Exact", "Prefix"}) = {}
    BY DEF DivergenceIsProved
  <2> DEFINE g == Subject(request)
             w == Working(request, context, g)
             kept == Accepted(request, context)
  <2>1. request \in Requests /\ context \in Contexts
    BY DEF EngineInv
  <2>2. compare(request, context).outcome = "Divergent"
    BY DEF current
  <2>3. /\ g # None /\ kept # {} /\ compare(request, context) = Judged(request, context, w)
        /\ WorstFreshness(w) = "Fresh" /\ IsStructural(w)
    BY <2>2, DivergentPasses
  <2>4. g \in DOMAIN Routes.groups
    BY <2>1, <2>3, SubjectFacts
  <2>5. \A e \in kept : e.epoch = context.epoch /\ e.revision = context.revision
    BY <2>1, AcceptedIsCurrent
  <2>6. \A e \in kept : FreshnessOf(e, context) = "Fresh"
    BY <2>1, <2>3, AllFresh
  <2>7. \A e \in kept : MembersBy({"Exact", "Prefix"}, Hops(e, context), g) = {}
    <3>1. /\ w.accepted = kept
          /\ \A e \in kept : w.matched[e] = MembersBy({"Exact", "Prefix"}, Hops(e, context), g)
      <4>1. IsWorking(w, request, context, g)
        BY WorkingFacts, Zenon
      <4> HIDE DEF w
      <4> QED BY <4>1, Zenon DEF IsWorking
    <3> HIDE DEF w, kept
    <3> QED BY <2>3, <3>1 DEF IsStructural
  <2>8. Reference(request, g) \in Members(g) =>
            compare(request, context).classes \cap Structural # {}
    BY <2>1, <2>3, <2>4, DivergenceIsExplained
  <2> QED BY <2>3, <2>5, <2>6, <2>7, <2>8 DEF current, accepted, group, Agrees
<1> QED BY <1>1, EngineTypes, PTL

-----------------------------------------------------------------------------
\* The order of the request.

\* Permuting a sequence keeps what it holds.
LEMMA Reordered ==
    ASSUME NEW S, NEW s \in Seq(S), NEW p \in Bijection(DOMAIN s, DOMAIN s)
    PROVE  LET r == [i \in DOMAIN s |-> s[p[i]]]
           IN  r \in Seq(S) /\ Range(r) = Range(s)
<1> DEFINE n == Len(s)  r == [i \in DOMAIN s |-> s[p[i]]]
<1>1. n \in Nat /\ DOMAIN s = 1..n /\ \A i \in 1..n : s[i] \in S
  OBVIOUS
<1>2. p \in [1..n -> 1..n] /\ \A j \in 1..n : \E i \in 1..n : p[i] = j
  BY <1>1 DEF Bijection, Injection, Surjection
<1>3. DOMAIN r = 1..n /\ \A i \in 1..n : r[i] = s[p[i]]
  BY <1>1
<1>4. r \in [1..n -> S]
  BY <1>1, <1>2
<1> HIDE DEF r, n
<1>5. r \in Seq(S)
  BY <1>1, <1>4, SeqDef
<1>6. Range(r) \subseteq Range(s)
  BY <1>1, <1>2, <1>3 DEF Range
<1>7. Range(s) \subseteq Range(r)
  <2> SUFFICES ASSUME NEW j \in 1..n PROVE s[j] \in Range(r)
    BY <1>1 DEF Range
  <2>1. PICK i \in 1..n : p[i] = j
    BY <1>2
  <2> QED BY <1>3, <2>1 DEF Range
<1> QED BY <1>5, <1>6, <1>7 DEF r

\* At most one element.
LEMMA AtMostOne ==
    ASSUME NEW T, IsFiniteSet(T), Cardinality(T) <= 1
    PROVE  \A x, y \in T : x = y
<1> SUFFICES ASSUME NEW x \in T, NEW y \in T, x # y PROVE FALSE
  OBVIOUS
<1>1. IsFiniteSet({x}) /\ Cardinality({x}) = 1
  BY FS_Singleton
<1>2. Cardinality({x} \cup {y}) = 2
  <2>1. y \notin {x}
    OBVIOUS
  <2>2. Cardinality({x} \cup {y}) = Cardinality({x}) + 1
    BY <1>1, <2>1, FS_AddElement, Zenon
  <2> QED BY <1>1, <2>2
<1>3. Cardinality({x} \cup {y}) <= Cardinality(T)
  <2>1. {x} \cup {y} \in SUBSET T
    OBVIOUS
  <2> QED BY <2>1, FS_Subset, Zenon
<1>4. Cardinality(T) \in Nat
  BY FS_CardinalityType
<1> QED BY <1>2, <1>3, <1>4

\* Which entry comes first does not show when all that are not None are equal.
LEMMA FirstNamedUnique ==
    ASSUME NEW X, NEW s \in Seq(X), NEW t \in Seq(X), Range(s) = Range(t),
           \A x, y \in Range(s) \ {None} : x = y
    PROVE  FirstNamed(s) = FirstNamed(t)
<1>1. ASSUME NEW u \in Seq(X), Range(u) = Range(s)
      PROVE  IF Range(s) \ {None} = {} THEN FirstNamed(u) = None
             ELSE FirstNamed(u) \in Range(s) \ {None}
  <2>1. CASE Range(s) \ {None} = {}
    <3>1. {i \in DOMAIN u : u[i] # None} = {}
      BY <1>1, <2>1 DEF Range
    <3> QED BY <2>1, <3>1 DEF FirstNamed
  <2>2. CASE Range(s) \ {None} # {}
    <3>1. PICK i \in DOMAIN u : u[i] # None
      BY <1>1, <2>2 DEF Range
    <3> DEFINE found == {j \in DOMAIN u : u[j] # None}
    <3>2. found # {} /\ found \in SUBSET Nat
      BY <3>1
    <3>3. FirstNamed(u) = u[Min(found)]
      BY <3>2 DEF FirstNamed
    <3>4. Min(found) \in found
      <4> HIDE DEF found
      <4> QED BY <3>2, MinFacts
    <3>5. FirstNamed(u) \in Range(u) \ {None}
      BY <3>3, <3>4 DEF Range
    <3> QED BY <1>1, <2>2, <3>5
  <2> QED BY <2>1, <2>2
<1>2. CASE Range(s) \ {None} = {}
  BY <1>1, <1>2
<1>3. CASE Range(s) \ {None} # {}
  BY <1>1, <1>3
<1> QED BY <1>2, <1>3

\* A sequence of what records lead to.
LEMMA LedTo ==
    ASSUME NEW s \in Seq(Evidence), NEW f
    PROVE  /\ [i \in DOMAIN s |-> f[s[i]]] \in Seq({f[e] : e \in Range(s)})
           /\ Range([i \in DOMAIN s |-> f[s[i]]]) = {f[e] : e \in Range(s)}
<1> DEFINE t == [i \in DOMAIN s |-> f[s[i]]]
           X == {f[e] : e \in Range(s)}
           n == Len(s)
<1>1. n \in Nat /\ DOMAIN s = 1..n
  OBVIOUS
<1>2. \A i \in 1..n : f[s[i]] \in X
  BY <1>1 DEF Range
<1>3. t \in [1..n -> X]
  BY <1>1, <1>2
<1>4. Range(t) = X
  BY <1>1 DEF Range
<1> HIDE DEF n, X, t
<1>5. t \in Seq(X)
  BY <1>1, <1>3, SeqDef
<1> QED BY <1>4, <1>5 DEF t, X

\* The image of a finite set is finite.
LEMMA FiniteImage ==
    ASSUME NEW S, IsFiniteSet(S), NEW f
    PROVE  IsFiniteSet({f[x] : x \in S})
<1> DEFINE T == {f[x] : x \in S}
           h == [x \in S |-> f[x]]
<1>1. h \in Surjection(S, T)
  BY DEF Surjection
<1> HIDE DEF T, h
<1>2. IsFiniteSet(T)
  BY <1>1, FS_Surjection
<1> QED BY <1>2 DEF T

\* The first record that leads somewhere leads to the same place in any order when
\* at most one place is led to.
LEMMA SameInAnyOrder ==
    ASSUME NEW s \in Seq(Evidence), NEW r \in Seq(Evidence), Range(r) = Range(s),
           IsFiniteSet(Range(s)), NEW f,
           Cardinality({f[e] : e \in Range(s)} \ {None}) <= 1
    PROVE  FirstNamed([i \in DOMAIN r |-> f[r[i]]])
           = FirstNamed([i \in DOMAIN s |-> f[s[i]]])
<1> DEFINE X == {f[e] : e \in Range(s)}
           a == [i \in DOMAIN s |-> f[s[i]]]
           b == [i \in DOMAIN r |-> f[r[i]]]
<1>1. a \in Seq(X) /\ Range(a) = X
  BY LedTo, Zenon
<1>2. b \in Seq({f[e] : e \in Range(r)}) /\ Range(b) = {f[e] : e \in Range(r)}
  BY LedTo, Zenon
<1>3. {f[e] : e \in Range(r)} = X
  BY Zenon
<1>4. b \in Seq(X) /\ Range(b) = X
  BY <1>2, <1>3
<1>5. IsFiniteSet(X)
  BY FiniteImage, Zenon
<1>6. Cardinality(X \ {None}) <= 1
  OBVIOUS
<1> HIDE DEF a, b, X
<1>7. IsFiniteSet(X \ {None})
  BY <1>5, FS_RemoveElement, Zenon
<1>8. \A x, y \in X \ {None} : x = y
  BY <1>6, <1>7, AtMostOne, Zenon
<1>9. FirstNamed(b) = FirstNamed(a)
  BY <1>1, <1>4, <1>8, FirstNamedUnique
<1> QED BY <1>9 DEF a, b

\* A request whose records come in another order: only the sequence of records is
\* another, and it holds the same records.
IsReordered(other, req) ==
    /\ other.generation = req.generation
    /\ other.group = req.group
    /\ other.path = req.path
    /\ other.gap = req.gap
    /\ other.evidence \in Seq(Evidence)
    /\ Range(other.evidence) = Range(req.evidence)

\* Permuting the evidence gives such a request.
LEMMA PermutedFacts ==
    ASSUME NEW req \in Requests,
           NEW p \in Bijection(DOMAIN req.evidence, DOMAIN req.evidence)
    PROVE  IsReordered(Permuted(req, p), req)
<1> DEFINE r == [i \in DOMAIN req.evidence |-> req.evidence[p[i]]]
<1>1. req.evidence \in Seq(Evidence)
  BY OfferedFacts
<1>2. r \in Seq(Evidence) /\ Range(r) = Range(req.evidence)
  BY <1>1, Reordered, Zenon
<1>3. /\ Permuted(req, p).evidence = r
      /\ Permuted(req, p).generation = req.generation
      /\ Permuted(req, p).group = req.group
      /\ Permuted(req, p).path = req.path
      /\ Permuted(req, p).gap = req.gap
  <2> HIDE DEF r
  <2>1. Permuted(req, p) = [req EXCEPT !.evidence = r]
    BY DEF Permuted, r
  <2> QED BY <2>1 DEF Requests
<1> QED BY <1>2, <1>3 DEF IsReordered

\* The subject does not depend on the order when records name one subject.
LEMMA SubjectOfReordered ==
    ASSUME NEW req \in Requests, NEW other, IsReordered(other, req),
           \/ req.group # None \/ req.path # None
           \/ Cardinality({GroupNamedBy(e) : e \in Offered(req)} \ {None}) <= 1
    PROVE  Subject(other) = Subject(req)
<1>1. CASE req.group # None \/ req.path # None
  BY <1>1, Zenon DEF Subject, IsReordered
<1>2. CASE /\ req.group = None /\ req.path = None
           /\ Cardinality({GroupNamedBy(e) : e \in Offered(req)} \ {None}) <= 1
  <2> DEFINE f == [e \in Evidence |-> GroupNamedBy(e)]
             s == req.evidence
             r == other.evidence
  <2>1. s \in Seq(Evidence) /\ IsFiniteSet(Range(s)) /\ Range(s) \subseteq Evidence
    BY OfferedFacts DEF Offered
  <2>2. \A e \in Evidence : f[e] = GroupNamedBy(e)
    OBVIOUS
  <2>3. {f[e] : e \in Range(s)} = {GroupNamedBy(e) : e \in Range(s)}
    BY <2>1, <2>2
  <2>4. Cardinality({f[e] : e \in Range(s)} \ {None}) <= 1
    BY <1>2, <2>3 DEF Offered
  <2>5. r \in Seq(Evidence) /\ Range(r) = Range(s)
    BY DEF IsReordered
  <2>6. [i \in DOMAIN s |-> f[s[i]]] = [i \in DOMAIN s |-> GroupNamedBy(s[i])]
    BY <2>1, <2>2
  <2>7. [i \in DOMAIN r |-> f[r[i]]] = [i \in DOMAIN r |-> GroupNamedBy(r[i])]
    <3> HIDE DEF r, f
    <3> QED BY <2>5, <2>2
  <2> HIDE DEF f
  <2>8. FirstNamed([i \in DOMAIN r |-> f[r[i]]]) = FirstNamed([i \in DOMAIN s |-> f[s[i]]])
    BY <2>1, <2>4, <2>5, SameInAnyOrder, Zenon
  <2>9. Subject(req) = FirstNamed([i \in DOMAIN s |-> GroupNamedBy(s[i])])
    BY <1>2 DEF Subject
  <2>10. Subject(other) = FirstNamed([i \in DOMAIN r |-> GroupNamedBy(r[i])])
    BY <1>2 DEF Subject, IsReordered
  <2> QED BY <2>6, <2>7, <2>8, <2>9, <2>10
<1> QED BY <1>1, <1>2

\* Nor does the path differences are counted from when records claim one path.
LEMMA ReferenceOfReordered ==
    ASSUME NEW req \in Requests, NEW other, IsReordered(other, req), NEW g, g # None,
           \/ GroupOfPath(req.path) = g
           \/ Cardinality({e.path : e \in {f \in Offered(req) :
                                               GroupOfPath(f.path) = g}} \ {None}) <= 1
    PROVE  Reference(other, g) = Reference(req, g)
<1>1. CASE GroupOfPath(req.path) = g
  BY <1>1, Zenon DEF Reference, IsReordered
<1>2. CASE /\ GroupOfPath(req.path) # g
           /\ Cardinality({e.path : e \in {f \in Offered(req) :
                                               GroupOfPath(f.path) = g}} \ {None}) <= 1
  <2> DEFINE C(e) == IF GroupOfPath(e.path) = g THEN e.path ELSE None
             f == [e \in Evidence |-> C(e)]
             s == req.evidence
             r == other.evidence
  <2>1. s \in Seq(Evidence) /\ IsFiniteSet(Range(s)) /\ Range(s) \subseteq Evidence
    BY OfferedFacts DEF Offered
  <2>2. \A e \in Evidence : f[e] = C(e)
    OBVIOUS
  <2>3. {f[e] : e \in Range(s)} \ {None}
        = {e.path : e \in {h \in Range(s) : GroupOfPath(h.path) = g}} \ {None}
    <3> HIDE DEF f
    <3> QED BY <2>1, <2>2
  <2>4. Cardinality({f[e] : e \in Range(s)} \ {None}) <= 1
    BY <1>2, <2>3 DEF Offered
  <2>5. r \in Seq(Evidence) /\ Range(r) = Range(s)
    BY DEF IsReordered
  <2>6. [i \in DOMAIN s |-> f[s[i]]] = [i \in DOMAIN s |-> C(s[i])]
    BY <2>1, <2>2
  <2>7. [i \in DOMAIN r |-> f[r[i]]] = [i \in DOMAIN r |-> C(r[i])]
    <3> HIDE DEF r, f
    <3> QED BY <2>5, <2>2
  <2> HIDE DEF f
  <2>8. FirstNamed([i \in DOMAIN r |-> f[r[i]]]) = FirstNamed([i \in DOMAIN s |-> f[s[i]]])
    BY <2>1, <2>4, <2>5, SameInAnyOrder, Zenon
  <2>9. FirstNamed([i \in DOMAIN r |-> C(r[i])]) = FirstNamed([i \in DOMAIN s |-> C(s[i])])
    BY <2>6, <2>7, <2>8
  <2> DEFINE claimed == FirstNamed([i \in DOMAIN s |-> C(s[i])])
  <2>10. Reference(req, g) = IF claimed # None THEN claimed ELSE Min(Members(g))
    BY <1>2 DEF Reference
  <2>11. Reference(other, g) = IF claimed # None THEN claimed ELSE Min(Members(g))
    BY <1>2, <2>9 DEF Reference, IsReordered
  <2> HIDE DEF claimed
  <2> QED BY <2>10, <2>11
<1> QED BY <1>1, <1>2

\* The answer depends on the records offered, the subject, the reference and the
\* fields of the request, and on nothing else of it.
LEMMA SameAnswer ==
    ASSUME NEW req, NEW other, NEW ctx,
           other.generation = req.generation, other.path = req.path,
           other.gap = req.gap, Offered(other) = Offered(req),
           Subject(other) = Subject(req),
           Subject(req) # None =>
               Reference(other, Subject(req)) = Reference(req, Subject(req))
    PROVE  compare(other, ctx) = compare(req, ctx)
<1> DEFINE g == Subject(req)
           w == Working(req, ctx, g)
<1>1. \A e : Rejections(e, other, ctx) = Rejections(e, req, ctx)
  <2> TAKE e
  <2>1. Fences(e, other, ctx) = Fences(e, req, ctx)
    BY DEF Fences
  <2> QED BY <2>1, Zenon DEF Rejections
<1>2. Accepted(other, ctx) = Accepted(req, ctx)
  BY <1>1 DEF Accepted
<1>3. RejectionClasses(other, ctx) = RejectionClasses(req, ctx)
  BY <1>1, <1>2 DEF RejectionClasses
<1>4. ClassesBefore(other, ctx) = ClassesBefore(req, ctx)
  BY <1>3, Zenon DEF ClassesBefore
<1>5. NothingAccepted(other, ctx) = NothingAccepted(req, ctx)
  BY <1>3, <1>4, Zenon DEF NothingAccepted
<1>6. GenerationMatches(other, ctx) <=> GenerationMatches(req, ctx)
  BY DEF GenerationMatches
<1>7. g # None => Working(other, ctx, g) = w
  BY <1>2, Zenon DEF Working
<1>8. Complete(other, w) <=> Complete(req, w)
  BY Zenon DEF Complete
<1>9. PathUnknown(other, w) <=> PathUnknown(req, w)
  BY Zenon DEF PathUnknown
<1>10. Gate(other, ctx, w) = Gate(req, ctx, w)
  BY <1>8, Zenon DEF Gate
<1>11. Judged(other, ctx, w) = Judged(req, ctx, w)
  <2>1. Only(PathUnknown(other, w), "PathUnknownToPlan")
        = Only(PathUnknown(req, w), "PathUnknownToPlan")
    BY <1>9, Zenon DEF Only
  <2> HIDE DEF w
  <2> QED BY <1>4, <1>10, <2>1, Zenon DEF Judged
<1> HIDE DEF w
<1>12. CASE ~ GenerationMatches(req, ctx)
  BY <1>6, <1>12, Zenon DEF compare
<1>13. CASE GenerationMatches(req, ctx) /\ g = None
  BY <1>6, <1>13, Zenon DEF compare
<1>14. CASE GenerationMatches(req, ctx) /\ g # None /\ Accepted(req, ctx) = {}
  BY <1>2, <1>5, <1>6, <1>14, Zenon DEF compare
<1>15. CASE GenerationMatches(req, ctx) /\ g # None /\ Accepted(req, ctx) # {}
  <2>1. compare(req, ctx) = Judged(req, ctx, w)
    BY <1>15, Zenon DEF compare, w
  <2>2. compare(other, ctx) = Judged(other, ctx, Working(other, ctx, g))
    BY <1>2, <1>6, <1>15, Zenon DEF compare
  <2>3. Working(other, ctx, g) = w
    BY <1>7, <1>15
  <2>4. compare(other, ctx) = Judged(other, ctx, w)
    BY <2>2, <2>3, Zenon
  <2> QED BY <1>11, <2>1, <2>4, Zenon
<1> QED BY <1>12, <1>13, <1>14, <1>15

\* Permuting the caller's evidence cannot change the answer as long as its
\* records name one subject and claim one path.
THEOREM OrderShowsOnlyByClaims == Spec => []OrderShowsByClaimOnly
<1>1. EngineInv => OrderShowsByClaimOnly
  <2> SUFFICES ASSUME EngineInv, OneSubject, OneClaim,
                      NEW p \in Bijection(DOMAIN request.evidence, DOMAIN request.evidence)
               PROVE  compare(Permuted(request, p), context) = current
    BY DEF OrderShowsByClaimOnly, OrderIndependent
  <2> DEFINE other == Permuted(request, p)
  <2>1. request \in Requests /\ IsReordered(other, request)
    BY PermutedFacts DEF EngineInv
  <2> HIDE DEF other
  <2>2. Subject(other) = Subject(request)
    BY <2>1, SubjectOfReordered DEF OneSubject
  <2>3. Subject(request) # None =>
            Reference(other, Subject(request)) = Reference(request, Subject(request))
    BY <2>1, ReferenceOfReordered DEF OneClaim, group
  <2>4. compare(other, context) = compare(request, context)
    BY <2>1, <2>2, <2>3, SameAnswer DEF IsReordered, Offered
  <2> QED BY <2>4 DEF other, current
<1> QED BY <1>1, EngineTypes, PTL

-----------------------------------------------------------------------------
\* The clock.

\* What has an age and is fresh was fresh before.
LEMMA FreshBefore ==
    ASSUME NEW received \in Nat, NEW now \in Nat, NEW later \in Nat, NEW policy,
           policy.evidence_max_age \in Nat, policy.clock_skew_tolerance \in Nat,
           received <= now, now <= later, AgeState(received, later, policy) = "Fresh"
    PROVE  AgeState(received, now, policy) = "Fresh"
<1>1. later - received <= policy.evidence_max_age
  BY FreshIsYoung
<1>2. now - received <= policy.evidence_max_age
  BY <1>1
<1>3. ~ (received > now) /\ ~ (received > now + policy.clock_skew_tolerance)
  OBVIOUS
<1>4. AgeState(received, now, policy) =
        classify_age(now - received, policy.evidence_max_age, policy.evidence_expiry)
  BY <1>3 DEF AgeState
<1> QED BY <1>2, <1>4 DEF classify_age

\* Severity decides which of two verdicts counts; of two fresh ones, either.
LEMMA BothFresh == worse_of("Fresh", "Fresh") = "Fresh"
BY DEF worse_of

\* The first of some records depends on the clock only through their freshness.
LEMMA SameFirst ==
    ASSUME NEW kept \in SUBSET Evidence, NEW ctx, NEW other,
           \A e \in kept : FreshnessOf(e, other) = FreshnessOf(e, ctx)
    PROVE  FirstOf(kept, other) = FirstOf(kept, ctx)
<1>1. \A e \in kept : SortKey(e, other) = SortKey(e, ctx)
  BY DEF SortKey
<1>2. \A e, f \in kept : Before(e, f, other) <=> Before(e, f, ctx)
  BY <1>1, Zenon DEF Before
<1>3. \A e \in kept : (\A f \in kept \ {e} : Before(e, f, other))
                     <=> (\A f \in kept \ {e} : Before(e, f, ctx))
  BY <1>2
<1> QED BY <1>3 DEF FirstOf

\* A match with no record from ahead of an earlier clock was a match then.
LEMMA MatchedBefore ==
    ASSUME NEW req \in Requests, NEW ctx \in Contexts, NEW later \in Contexts,
           later.epoch = ctx.epoch, later.routes_epoch = ctx.routes_epoch,
           later.revision = ctx.revision, later.topology = ctx.topology,
           ctx.now <= later.now,
           \A e \in Offered(req) : ~ (e.received_at > ctx.now),
           compare(req, later).outcome = "Match"
    PROVE  compare(req, ctx).outcome = "Match"
<1> DEFINE g == Subject(req)
           kept == Accepted(req, ctx)
<1>1. GenerationMatches(req, later) /\ g # None /\ Accepted(req, later) # {}
      /\ Gate(req, later, Working(req, later, g))[1] = "Match"
  BY MatchPasses
<1>2. \A e : Rejections(e, req, later) = Rejections(e, req, ctx)
  <2> TAKE e
  <2>1. Fences(e, req, later) = Fences(e, req, ctx)
    BY DEF Fences
  <2> QED BY <2>1, Zenon DEF Rejections
<1>3. Accepted(req, later) = kept
  BY <1>2 DEF Accepted
<1>4. \A e \in kept : FreshnessOf(e, later) = "Fresh"
  BY <1>3, SoundMatch
<1>5. \A e \in kept : FreshnessOf(e, ctx) = "Fresh"
  <2> TAKE e \in kept
  <2> DEFINE policy == EffectivePolicy(Sources[e.source])
  <2>1. e.source \in DOMAIN Sources
    BY AcceptedIsCurrent DEF Vouched
  <2>2. policy.evidence_max_age \in Nat /\ policy.clock_skew_tolerance \in Nat
    BY <2>1, EffectivePolicyFacts
  <2>3. e \in Evidence /\ e.received_at \in Nat /\ e \in Offered(req)
    BY AcceptedFacts, EvidenceAssumption
  <2>4. ctx.now \in Nat /\ later.now \in Nat /\ ctx.now # 0
    BY DEF Contexts
  <2>5. /\ e.received_at # 0
        /\ AgeState(e.received_at, later.now, policy) = "Fresh"
        /\ SkewState(e.observed_at, e.received_at, policy) = "Fresh"
    BY <1>4, FreshFacts, Zenon DEF FreshnessOf
  <2>6. e.received_at <= ctx.now
    BY <2>3, <2>4
  <2> HIDE DEF policy
  <2>7. AgeState(e.received_at, ctx.now, policy) = "Fresh"
    BY <2>2, <2>3, <2>4, <2>5, <2>6, FreshBefore
  <2>8. assess_evidence(e, ctx.now, policy) = "Fresh"
    BY <2>4, <2>5, <2>7, BothFresh DEF assess_evidence
  <2> QED BY <2>8 DEF FreshnessOf, policy
<1>6. \A e \in kept : FreshnessOf(e, later) = FreshnessOf(e, ctx)
  BY <1>4, <1>5
<1>7. FirstOf(kept, later) = FirstOf(kept, ctx)
  BY <1>6, AcceptedFacts, SameFirst
<1>8. \A e : Hops(e, later) = Hops(e, ctx)
  BY DEF Hops
<1> DEFINE first == FirstOf(kept, ctx)
           reference == Reference(req, g)
           w == WorkingOn(kept, first, reference, ctx, g)
<1>9. WorkingOn(kept, first, reference, later, g) = w
  <2> HIDE DEF kept, first, reference, g
  <2> QED BY <1>6, <1>8 DEF WorkingOn
<1>10. Working(req, later, g) = w /\ Working(req, ctx, g) = w
  BY <1>3, <1>7, <1>9, Zenon DEF Working
<1>11. TopologyMatches(later) <=> TopologyMatches(ctx)
  BY DEF TopologyMatches
<1>12. Gate(req, ctx, w) = Gate(req, later, w)
  <2> HIDE DEF w
  <2> QED BY <1>11, Zenon DEF Gate
<1>13. GenerationMatches(req, ctx)
  BY <1>1 DEF GenerationMatches
<1>14. compare(req, ctx) = Judged(req, ctx, w)
  BY <1>1, <1>3, <1>10, <1>13, Zenon DEF compare
<1> HIDE DEF w
<1>15. Judged(req, ctx, w).outcome = Gate(req, ctx, w)[1]
  BY DEF Judged, Result
<1> QED BY <1>1, <1>10, <1>12, <1>14, <1>15

\* Waiting does not make evidence better: a step of the clock makes a match only
\* of what had come from ahead of the clock.
THEOREM TheClockOnlyAges == Spec => ClockOnlyAges
<1> DEFINE Ages ==
        (context'.now > context.now /\ compare(request', context').outcome = "Match")
        => \/ current.outcome = "Match"
           \/ \E e \in Offered(request) : e.received_at > context.now
<1>1. EngineInv /\ EngineInv' /\ [Next]_vars => [Ages]_vars
  <2> SUFFICES ASSUME EngineInv, EngineInv', Next,
                      context'.now > context.now,
                      compare(request', context').outcome = "Match",
                      \A e \in Offered(request) : ~ (e.received_at > context.now)
               PROVE  compare(request, context).outcome = "Match"
    BY DEF current
  <2>1. /\ request \in Requests /\ context \in Contexts /\ context' \in Contexts
        /\ context.now \in Nat /\ context'.now \in Nat
    BY DEF EngineInv, Contexts
  <2>2. Tick
    <3>1. context'.now # context.now
      BY <2>1
    <3>2. ASSUME NEW e \in Evidence, AddEvidence(e) PROVE FALSE
      BY <3>1, <3>2 DEF AddEvidence
    <3>3. ASSUME NEW t \in Topologies, PublishTopology(t) PROVE FALSE
      BY <3>1, <3>3 DEF PublishTopology
    <3>4. ASSUME NEW t \in Topologies, NewEpoch(t) PROVE FALSE
      BY <3>1, <3>4 DEF NewEpoch
    <3>5. ASSUME SequenceGap PROVE FALSE
      BY <3>1, <3>5 DEF SequenceGap
    <3>6. ASSUME NewRevision PROVE FALSE
      BY <3>1, <3>6 DEF NewRevision
    <3> QED BY <3>2, <3>3, <3>4, <3>5, <3>6 DEF Next
  <2>3. request' = request
    BY <2>2 DEF Tick
  <2>4. /\ context'.epoch = context.epoch /\ context'.routes_epoch = context.routes_epoch
        /\ context'.revision = context.revision /\ context'.topology = context.topology
    BY <2>1, <2>2 DEF Tick, Contexts
  <2>5. context.now <= context'.now
    BY <2>1
  <2>6. compare(request, context').outcome = "Match"
    BY <2>3
  <2> QED BY <2>1, <2>4, <2>5, <2>6, MatchedBefore
<1> QED BY <1>1, EngineTypes, PTL DEF Spec, ClockOnlyAges
=============================================================================
