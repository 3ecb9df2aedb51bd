----------------------- MODULE EvidenceIngestionProofs -----------------------
(***************************************************************************)
(* Theorems about the way of an observation into the buckets and back from *)
(* the store (module EvidenceIngestion), for any sources, plans, records   *)
(* and bounds.                                                             *)
(***************************************************************************)
EXTENDS EvidenceIngestion, NaturalFacts, FiniteSetTheorems, SequenceTheorems

-----------------------------------------------------------------------------
\* The plans that may be current.
KeptPlans == {finalize(p) : p \in {x \in Plans : RoutesAccepted(x)}}

\* What a record of a bucket under key k is: valid, among the stored, and of no
\* other generation or group than the key's.
FitsKey(e, k, stored) ==
    /\ validate(e)
    /\ e.generation \in {None, k.generation}
    /\ e.group \in {None, k.group}
    /\ e \in stored

\* A bucket: absent, or a bounded sequence of different records that fit.
BucketOK(b, k, stored) ==
    \/ b = None
    \/ /\ b \in Seq(Evidence)
       /\ Len(b) <= MaxBucket
       /\ \A i, j \in DOMAIN b : b[i] = b[j] => i = j
       /\ \A i \in DOMAIN b : FitsKey(b[i], k, stored)

\* Buckets that are all so.
BucketsOK(held, stored) ==
    /\ held = [k \in SubjectKey |-> held[k]]
    /\ \A k \in SubjectKey : BucketOK(held[k], k, stored)

\* What the store holds is of its type, and its evidence is valid.
LogOK ==
    /\ log \in Seq(LogRecord)
    /\ Len(log) <= MaxLog
    /\ \A e \in Logged : validate(e)

\* The inductive invariant.
IngestionInv ==
    /\ phase \in {"running", "stopped", "failed"}
    /\ sources \in [Sources -> Descriptors \cup {None}]
    /\ highest \in [Sources -> Nat]
    /\ routes \in KeptPlans \cup {None}
    /\ BucketsOK(evidence, Logged)
    /\ LogOK
    /\ accepted \subseteq Evidence

-----------------------------------------------------------------------------
\* Subjects.

\* Entries of a list are found by their identity.
LEMMA NamedInList ==
    ASSUME NEW list, NEW id \in Identities(list)
    PROVE  Named(list, id) \in Range(list)
<1>1. \E i \in DOMAIN list : list[i].id = id
  BY DEF Identities
<1>2. PICK i \in DOMAIN list : i = CHOOSE j \in DOMAIN list : list[j].id = id
  BY <1>1
<1> QED BY <1>2 DEF Named, Range

\* What a current plan names are generations and groups.
LEMMA KeptPlanFacts ==
    ASSUME NEW plan \in KeptPlans
    PROVE  /\ plan.id \in Generations
           /\ \A p \in DOMAIN plan.paths : plan.paths[p].group \in Groups \cup {None}
           /\ DOMAIN plan.groups \subseteq Groups
<1>1. PICK d \in Plans : RoutesAccepted(d) /\ plan = finalize(d)
  BY DEF KeptPlans
<1>2. plan.id = d.id /\ DOMAIN plan.groups = Identities(d.groups)
      /\ plan.paths = [p \in Identities(d.paths) |->
                         [group |-> Named(d.paths, p).group, hops |-> Named(d.paths, p).hops]]
  BY <1>1 DEF finalize
<1>3. plan.id \in Generations
  BY <1>2 DEF Generations
<1>4. ASSUME NEW p \in DOMAIN plan.paths
      PROVE  plan.paths[p].group \in Groups \cup {None}
  <2>1. p \in Identities(d.paths) /\ plan.paths[p].group = Named(d.paths, p).group
    BY <1>2
  <2>2. Named(d.paths, p) \in Range(d.paths)
    BY <2>1, NamedInList
  <2>3. Named(d.paths, p).group \in {x.group : x \in Range(d.paths)}
    BY <2>2
  <2> QED BY <2>1, <2>3 DEF Groups
<1>5. None \notin Identities(d.groups)
  BY <1>1 DEF RoutesAccepted, Distinct
<1>6. DOMAIN plan.groups \subseteq Groups
  BY <1>2, <1>5 DEF Groups
<1> QED BY <1>3, <1>4, <1>6

\* The only group between two devices is a group.
LEMMA OnlyGroupIsGroup ==
    ASSUME NEW plan \in KeptPlans, NEW ends
    PROVE  OnlyGroupBetween(plan, ends) \in Groups \cup {None}
<1> DEFINE found == find_group_by_endpoints(plan, ends)
<1>1. found \subseteq Groups
  BY KeptPlanFacts DEF find_group_by_endpoints
<1>2. found \in SUBSET Nat
  BY <1>1, IngestionAssumption
<1> HIDE DEF found
<1>3. ASSUME Cardinality(found) = 1 PROVE Min(found) \in Groups
  <2>1. found # {}
    BY <1>3, FS_EmptySet
  <2>2. \E x \in found : \A y \in found : x <= y
    BY <1>2, <2>1, LeastNat
  <2>3. Min(found) \in found
    BY <2>2, Zenon DEF Min
  <2> QED BY <1>1, <2>3
<1> QED BY <1>3, Zenon DEF OnlyGroupBetween, found

\* A record whose subject is resolved belongs to a bucket that it fits.
LEMMA ResolvedFacts ==
    ASSUME NEW e \in Evidence, NEW plan \in KeptPlans \cup {None},
           GenerationOf(e, plan) # None
    PROVE  /\ resolve_subject(e, plan) \in SubjectKey
           /\ e.generation \in {None, resolve_subject(e, plan).generation}
           /\ e.group \in {None, resolve_subject(e, plan).group}
<1> DEFINE k == resolve_subject(e, plan)
<1>1. k.generation = GenerationOf(e, plan) /\ k.group = GroupOf(e, plan)
  BY DEF resolve_subject
<1>2. GenerationOf(e, plan) \in Generations
  <2>1. CASE e.generation # None
    BY <2>1 DEF GenerationOf, Generations
  <2>2. CASE e.generation = None
    <3>1. plan # None /\ GenerationOf(e, plan) = plan.id
      BY <2>2 DEF GenerationOf
    <3> QED BY <3>1, KeptPlanFacts
  <2> QED BY <2>1, <2>2
<1>3. GroupOf(e, plan) \in Groups \cup {None}
  <2>1. CASE e.group # None
    BY <2>1 DEF GroupOf, Groups
  <2>2. CASE e.group = None /\ (plan = None \/ plan.id # GenerationOf(e, plan))
    BY <2>2 DEF GroupOf
  <2>3. CASE e.group = None /\ plan # None /\ plan.id = GenerationOf(e, plan)
    <3>1. plan \in KeptPlans
      BY <2>3
    <3>2. find_path_group(plan, e.path) \in Groups \cup {None}
      BY <3>1, KeptPlanFacts DEF find_path_group
    <3>3. OnlyGroupBetween(plan, e.ends) \in Groups \cup {None}
      BY <3>1, OnlyGroupIsGroup
    <3> QED BY <2>3, <3>2, <3>3, Zenon DEF GroupOf
  <2> QED BY <2>1, <2>2, <2>3
<1>4. k \in SubjectKey
  BY <1>2, <1>3 DEF resolve_subject, SubjectKey
<1>5. e.generation \in {None, k.generation}
  BY <1>1 DEF GenerationOf
<1>6. e.group \in {None, k.group}
  BY <1>1 DEF GroupOf
<1> QED BY <1>4, <1>5, <1>6

-----------------------------------------------------------------------------
\* Buckets.

\* A bucket with room takes a new record that fits.
LEMMA PushKeeps ==
    ASSUME NEW b, NEW k, NEW stored, BucketOK(b, k, stored),
           NEW e \in Evidence, FitsKey(e, k, stored), ~ Full(b), e \notin Items(b)
    PROVE  BucketOK(Push(b, e), k, stored)
<1>1. CASE b = None
  <2>1. Push(b, e) = <<e>>
    BY <1>1 DEF Push
  <2>2. <<e>> \in Seq(Evidence) /\ Len(<<e>>) = 1 /\ DOMAIN <<e>> = {1} /\ <<e>>[1] = e
    OBVIOUS
  <2>3. Len(<<e>>) <= MaxBucket
    BY <2>2, IngestionAssumption
  <2> QED BY <2>1, <2>2, <2>3 DEF BucketOK
<1>2. CASE b # None
  <2> DEFINE c == Append(b, e)
             n == Len(b)
  <2>1. /\ b \in Seq(Evidence) /\ n <= MaxBucket
        /\ \A i, j \in DOMAIN b : b[i] = b[j] => i = j
        /\ \A i \in DOMAIN b : FitsKey(b[i], k, stored)
    BY <1>2 DEF BucketOK
  <2>2. n \in Nat /\ DOMAIN b = 1..n /\ MaxBucket \in Nat
    BY <2>1, IngestionAssumption
  <2>3. n + 1 <= MaxBucket
    BY <1>2, <2>2 DEF Full
  <2>4. c \in Seq(Evidence) /\ Len(c) = n + 1 /\ DOMAIN c = 1..(n + 1) /\ c[n + 1] = e
        /\ \A i \in 1..n : c[i] = b[i]
    BY <2>1
  <2>5. \A i \in 1..n : b[i] # e
    BY <1>2, <2>2 DEF Items, Range
  <2>6. Push(b, e) = c
    BY <1>2 DEF Push
  <2> HIDE DEF c, n
  <2>7. \A i \in 1..(n + 1) : i = n + 1 \/ i \in 1..n
    BY <2>2
  <2>8. \A i, j \in DOMAIN c : c[i] = c[j] => i = j
    BY <2>1, <2>2, <2>4, <2>5, <2>7
  <2>9. \A i \in DOMAIN c : FitsKey(c[i], k, stored)
    BY <2>1, <2>2, <2>4, <2>7
  <2>10. Len(c) <= MaxBucket
    BY <2>3, <2>4
  <2> QED BY <2>4, <2>6, <2>8, <2>9, <2>10 DEF BucketOK
<1> QED BY <1>1, <1>2

\* Buckets stay as they are when one of them is replaced by another such.
LEMMA ReplaceKeeps ==
    ASSUME NEW held, NEW stored, BucketsOK(held, stored),
           NEW k \in SubjectKey, NEW b, BucketOK(b, k, stored)
    PROVE  BucketsOK([held EXCEPT ![k] = b], stored)
<1> DEFINE new == [held EXCEPT ![k] = b]
<1>1. held = [j \in SubjectKey |-> held[j]] /\ \A j \in SubjectKey : BucketOK(held[j], j, stored)
  BY DEF BucketsOK
<1>2. DOMAIN held = SubjectKey
  BY <1>1, Zenon
<1>3. new = [j \in SubjectKey |-> new[j]] /\ new[k] = b
      /\ \A j \in SubjectKey : j # k => new[j] = held[j]
  BY <1>2
<1> HIDE DEF new
<1>4. \A j \in SubjectKey : BucketOK(new[j], j, stored)
  BY <1>1, <1>3
<1> QED BY <1>3, <1>4 DEF BucketsOK, new

\* What fits the stored records fits more stored records.
LEMMA MoreStored ==
    ASSUME NEW held, NEW stored, NEW more, stored \subseteq more, BucketsOK(held, stored)
    PROVE  BucketsOK(held, more)
<1>1. \A e, k : FitsKey(e, k, stored) => FitsKey(e, k, more)
  BY DEF FitsKey
<1>2. \A b, k : BucketOK(b, k, stored) => BucketOK(b, k, more)
  BY <1>1 DEF BucketOK
<1> QED BY <1>2 DEF BucketsOK

-----------------------------------------------------------------------------
\* Restoring.

\* What a restoration may have built up at any point.
Restorable ==
    {st \in [ok : BOOLEAN, sources : [Sources -> Descriptors \cup {None}],
             evidence : [SubjectKey -> Seq(Evidence) \cup {None}]] :
        BucketsOK(st.evidence, Logged)}

\* The records of the store.
LEMMA LogFacts ==
    ASSUME LogOK, NEW r \in Range(log)
    PROVE  \/ r.type = "Source" /\ r.value \in Descriptors
           \/ r.type = "Evidence" /\ r.value \in Evidence \cap Logged /\ validate(r.value)
<1>1. r \in LogRecord
  BY DEF LogOK, Range
<1>2. CASE r \in [type : {"Source"}, value : Descriptors]
  BY <1>2
<1>3. CASE r \in [type : {"Evidence"}, value : Evidence]
  <2>1. r.type = "Evidence" /\ r.value \in Evidence
    BY <1>3
  <2>2. r.value \in Logged
    BY <2>1 DEF Logged
  <2> QED BY <2>1, <2>2 DEF LogOK
<1> QED BY <1>1, <1>2, <1>3 DEF LogRecord

\* One record more keeps it so, whatever plan the restoration runs under.
LEMMA RestoreOneKeeps ==
    ASSUME LogOK, NEW st \in Restorable, NEW r \in Range(log),
           NEW plan \in KeptPlans \cup {None}
    PROVE  RestoreOne(st, r, plan) \in Restorable
<1>1. CASE ~ st.ok
  BY <1>1 DEF RestoreOne
<1>2. CASE st.ok /\ r.type = "Source"
  <2> DEFINE d == r.value
  <2>1. d \in Descriptors /\ d.source \in Sources
    BY <1>2, LogFacts DEF Sources
  <2>2. RestoreOne(st, r, plan) = RestoreSource(st, d)
    BY <1>2 DEF RestoreOne
  <2>3. [st EXCEPT !.ok = FALSE] \in Restorable
    BY DEF Restorable
  <2>4. [st EXCEPT !.sources[d.source] = d] \in Restorable
    BY <2>1 DEF Restorable
  <2> QED BY <2>2, <2>3, <2>4 DEF RestoreSource
<1>3. CASE st.ok /\ r.type # "Source"
  <2> DEFINE e == r.value
             k == resolve_subject(e, plan)
             b == st.evidence[k]
  <2>1. e \in Evidence /\ e \in Logged /\ validate(e)
    BY <1>3, LogFacts
  <2>2. RestoreOne(st, r, plan) = RestoreEvidence(st, e, plan)
    BY <1>3 DEF RestoreOne
  <2>3. CASE k.generation = None \/ Full(b) \/ e \in Items(b)
    BY <2>2, <2>3 DEF RestoreEvidence
  <2>4. CASE ~ (k.generation = None \/ Full(b) \/ e \in Items(b))
    <3>1. GenerationOf(e, plan) # None
      BY <2>4 DEF resolve_subject
    <3>2. k \in SubjectKey /\ FitsKey(e, k, Logged)
      BY <2>1, <3>1, ResolvedFacts DEF FitsKey
    <3>3. BucketsOK(st.evidence, Logged)
      BY DEF Restorable
    <3>4. BucketOK(b, k, Logged)
      BY <3>2, <3>3 DEF BucketsOK
    <3>5. BucketOK(Push(b, e), k, Logged)
      BY <2>1, <2>4, <3>2, <3>4, PushKeeps
    <3> DEFINE new == [st.evidence EXCEPT ![k] = Push(b, e)]
    <3>6. BucketsOK(new, Logged)
      BY <3>2, <3>3, <3>5, ReplaceKeeps
    <3>7. Push(b, e) \in Seq(Evidence) \cup {None}
      BY <3>5 DEF BucketOK
    <3>8. new \in [SubjectKey -> Seq(Evidence) \cup {None}]
      <4> HIDE DEF k, b, e
      <4> QED BY <3>2, <3>7 DEF Restorable
    <3>9. RestoreOne(st, r, plan) = [st EXCEPT !.evidence = new]
      BY <2>2, <2>4 DEF RestoreEvidence
    <3> HIDE DEF new
    <3> QED BY <3>6, <3>8, <3>9 DEF Restorable
  <2> QED BY <2>3, <2>4
<1> QED BY <1>1, <1>2, <1>3

\* So a whole restoration ends in such a state.
LEMMA RestoreKeeps ==
    ASSUME LogOK, NEW st \in Restorable, NEW plan \in KeptPlans \cup {None}
    PROVE  Restore(st, plan) \in Restorable
<1> DEFINE N == Len(log)
           step == [n \in 1..N |-> [x \in Restorable |-> RestoreOne(x, log[n], plan)]]
           Is(f) == f = [n \in 0..N |-> IF n = 0 THEN st
                                        ELSE RestoreOne(f[n - 1], log[n], plan)]
           run == CHOOSE f : Is(f)
<1>1. N \in Nat /\ DOMAIN log = 1..N
  BY DEF LogOK
<1>2. \A n \in 1..N : log[n] \in Range(log)
  BY <1>1 DEF Range
<1>3. \A n \in 1..N : \A x \in Restorable : RestoreOne(x, log[n], plan) \in Restorable
  BY <1>2, RestoreOneKeeps
<1>4. step \in [1..N -> [Restorable -> Restorable]]
  <2> HIDE DEF N
  <2> QED BY <1>3
<1>5. \A n \in 1..N : \A x \in Restorable : step[n][x] = RestoreOne(x, log[n], plan)
  <2> HIDE DEF N
  <2> QED OBVIOUS
<1> HIDE DEF N, step
<1>6. PICK f : IsRun(f, N, Restorable, st, step)
  BY <1>1, <1>4, RunExists, Zenon
<1>7. f \in [0..N -> Restorable] /\ f[0] = st /\ \A n \in 1..N : f[n] = step[n][f[n - 1]]
  BY <1>6 DEF IsRun
<1>8. ASSUME NEW n \in 0..N
      PROVE  f[n] = IF n = 0 THEN st ELSE RestoreOne(f[n - 1], log[n], plan)
  <2>1. CASE n = 0
    BY <1>7, <2>1
  <2>2. CASE n # 0
    <3>1. n \in 1..N /\ n - 1 \in 0..N
      BY <1>1, <2>2
    <3>2. f[n - 1] \in Restorable
      BY <1>7, <3>1
    <3> QED BY <1>5, <1>7, <2>2, <3>1, <3>2
  <2> QED BY <2>1, <2>2
<1>9. Is(f)
  <2>1. f = [n \in 0..N |-> f[n]]
    BY <1>7
  <2> QED BY <1>8, <2>1
<1>10. Is(run)
  BY <1>9, Zenon
<1>11. Restore(st, plan) = run[N]
  BY Zenon DEF Restore, N
<1> HIDE DEF run
<1>12. run[0] = st
  BY <1>1, <1>10
<1>13. \A n \in 1..N : run[n] = RestoreOne(run[n - 1], log[n], plan)
  BY <1>1, <1>10
<1> DEFINE S == {n \in 0..N : run[n] \in Restorable}
<1>14. 0 \in S
  BY <1>1, <1>12
<1>15. \A n \in 0..N : n \in S /\ n < N => n + 1 \in S
  <2> TAKE n \in 0..N
  <2> HAVE n \in S /\ n < N
  <2>1. n + 1 \in 1..N /\ n + 1 \in 0..N /\ (n + 1) - 1 = n
    BY <1>1
  <2>2. run[n + 1] = RestoreOne(run[n], log[n + 1], plan)
    BY <1>13, <2>1
  <2>3. run[n + 1] \in Restorable
    BY <1>3, <2>1, <2>2
  <2> QED BY <2>1, <2>3
<1> HIDE DEF S
<1>16. 0..N \subseteq S
  BY <1>1, <1>14, <1>15, InductionUpTo
<1>17. N \in S
  BY <1>1, <1>16
<1> QED BY <1>11, <1>17 DEF S

-----------------------------------------------------------------------------
\* Steps.

\* A record appended to the store is in it, with all that was.
LEMMA AppendedLog ==
    ASSUME LogOK, NEW r \in LogRecord, Len(log) < MaxLog, log' = Append(log, r),
           r.type = "Evidence" => validate(r.value)
    PROVE  /\ LogOK'
           /\ Logged \subseteq Logged'
           /\ r.type = "Evidence" => r.value \in Logged'
<1> DEFINE n == Len(log)
<1>1. log \in Seq(LogRecord) /\ n \in Nat /\ DOMAIN log = 1..n
  BY DEF LogOK
<1>2. /\ log' \in Seq(LogRecord) /\ Len(log') = n + 1 /\ DOMAIN log' = 1..(n + 1)
      /\ log'[n + 1] = r /\ \A i \in 1..n : log'[i] = log[i]
  BY <1>1
<1>3. \A i \in 1..(n + 1) : i = n + 1 \/ i \in 1..n
  BY <1>1
<1>4. n + 1 \in 1..(n + 1) /\ \A i \in 1..n : i \in 1..(n + 1)
  BY <1>1
<1> HIDE DEF n
<1>5. Range(log') = Range(log) \cup {r}
  BY <1>1, <1>2, <1>3, <1>4 DEF Range
<1>6. Logged' = {x.value : x \in {y \in Range(log') : y.type = "Evidence"}}
  BY DEF Logged
<1>7. Logged \subseteq Logged' /\ (r.type = "Evidence" => r.value \in Logged')
  BY <1>5, <1>6 DEF Logged
<1>8. \A e \in Logged' : validate(e)
  BY <1>5, <1>6 DEF Logged, LogOK
<1>9. Len(log') <= MaxLog
  BY <1>1, <1>2, IngestionAssumption DEF n
<1> QED BY <1>2, <1>7, <1>8, <1>9 DEF LogOK

\* At first nothing is held and nothing stored.
LEMMA IngestionInit == Init => IngestionInv
<1> SUFFICES ASSUME Init PROVE IngestionInv
  OBVIOUS
<1>1. Range(log) = {} /\ log \in Seq(LogRecord) /\ Len(log) = 0
  BY DEF Init, Range
<1>2. Logged = {}
  BY <1>1 DEF Logged
<1>3. LogOK
  BY <1>1, <1>2, IngestionAssumption DEF LogOK
<1>4. \A k : BucketOK(None, k, Logged)
  BY DEF BucketOK
<1>5. BucketsOK(evidence, Logged)
  BY <1>4 DEF Init, NoEvidence, BucketsOK
<1>6. sources \in [Sources -> Descriptors \cup {None}] /\ highest \in [Sources -> Nat]
  BY DEF Init, NoSources
<1> QED BY <1>3, <1>5, <1>6 DEF Init, IngestionInv

\* Registering a source.
LEMMA RegisterKeeps ==
    ASSUME IngestionInv, NEW d \in Descriptors, RegisterSource(d) PROVE IngestionInv'
<1> DEFINE r == [type |-> "Source", value |-> d]
<1>1. r \in LogRecord /\ r.type # "Evidence"
  BY DEF LogRecord
<1>2. Len(log) < MaxLog /\ log' = Append(log, r)
  BY DEF RegisterSource
<1>3. LogOK' /\ Logged \subseteq Logged'
  <2> HIDE DEF r
  <2> QED BY <1>1, <1>2, AppendedLog DEF IngestionInv
<1>4. BucketsOK(evidence, Logged')
  BY <1>3, MoreStored DEF IngestionInv
<1>5. d.source \in Sources
  BY DEF Sources
<1>6. sources' \in [Sources -> Descriptors \cup {None}]
  BY <1>5 DEF RegisterSource, IngestionInv
<1> QED BY <1>3, <1>4, <1>6 DEF RegisterSource, IngestionInv

\* A plan.
LEMMA PublishKeeps ==
    ASSUME IngestionInv, NEW p \in Plans, PublishRoutes(p) PROVE IngestionInv'
<1>1. routes' \in KeptPlans \cup {None}
  BY DEF PublishRoutes, IngestionInv, KeptPlans
<1>2. UNCHANGED <<phase, sources, highest, evidence, log, accepted>>
  BY DEF PublishRoutes
<1>3. Logged' = Logged /\ LogOK' = LogOK
  BY <1>2 DEF Logged, LogOK
<1> QED BY <1>1, <1>2, <1>3 DEF IngestionInv

\* The ledger takes the sequence of a record.
LEMMA ObservedFacts ==
    ASSUME IngestionInv, NEW e \in Evidence, Observed(e)
    PROVE  highest' \in [Sources -> Nat] /\ validate(e)
<1>1. e.source \in Sources /\ e.sequence \in Nat
  BY IngestionAssumption DEF Sources
<1> QED BY <1>1 DEF Observed, IngestionInv

\* Records that change no bucket.
LEMMA IngestAsideKeeps ==
    ASSUME IngestionInv, NEW e \in Evidence,
           \/ IngestRefused(e) \/ IngestReplay(e) \/ IngestUnresolved(e)
           \/ IngestBucketFull(e) \/ IngestDuplicate(e)
    PROVE  IngestionInv'
<1>1. UNCHANGED <<phase, sources, routes, evidence, log>>
  BY DEF IngestRefused, IngestReplay, IngestUnresolved, IngestBucketFull, IngestDuplicate
<1>2. Logged' = Logged /\ LogOK' = LogOK
  BY <1>1 DEF Logged, LogOK
<1>3. accepted' \subseteq Evidence
  BY DEF IngestRefused, IngestReplay, IngestUnresolved, IngestBucketFull,
         IngestDuplicate, IngestionInv
<1>4. highest' \in [Sources -> Nat]
  BY ObservedFacts DEF IngestRefused, IngestReplay, IngestUnresolved, IngestBucketFull,
                       IngestDuplicate, IngestionInv
<1> QED BY <1>1, <1>2, <1>3, <1>4 DEF IngestionInv

\* A new record belongs to a bucket that it fits, once it is stored.
LEMMA NewRecordFacts ==
    ASSUME IngestionInv, NEW e \in Evidence, NewRecord(e)
    PROVE  /\ resolve_subject(e, routes) \in SubjectKey
           /\ ~ Full(evidence[resolve_subject(e, routes)])
           /\ e \notin Items(evidence[resolve_subject(e, routes)])
           /\ \A stored : e \in stored => FitsKey(e, resolve_subject(e, routes), stored)
           /\ highest' \in [Sources -> Nat]
           /\ validate(e)
<1>1. Observed(e) /\ GenerationOf(e, routes) # None
  BY DEF NewRecord, resolve_subject
<1>2. highest' \in [Sources -> Nat] /\ validate(e)
  BY <1>1, ObservedFacts
<1>3. routes \in KeptPlans \cup {None}
  BY DEF IngestionInv
<1> QED BY <1>1, <1>2, <1>3, ResolvedFacts DEF NewRecord, FitsKey

\* A record that the store does not take leaves an empty bucket at most.
LEMMA NotPersistedKeeps ==
    ASSUME IngestionInv, NEW e \in Evidence, IngestNotPersisted(e) PROVE IngestionInv'
<1> DEFINE k == resolve_subject(e, routes)
<1>1. k \in SubjectKey /\ highest' \in [Sources -> Nat]
  BY NewRecordFacts DEF IngestNotPersisted
<1>2. UNCHANGED <<phase, sources, routes, log, accepted>>
  BY DEF IngestNotPersisted
<1>3. evidence' = [evidence EXCEPT ![k] = Touched(evidence[k])]
  BY DEF IngestNotPersisted
<1>4. Logged' = Logged /\ LogOK' = LogOK
  BY <1>2 DEF Logged, LogOK
<1>5. BucketsOK(evidence, Logged)
  BY DEF IngestionInv
<1>6. BucketOK(<<>>, k, Logged)
  <2>1. Len(<<>>) <= MaxBucket
    BY IngestionAssumption
  <2> QED BY <2>1 DEF BucketOK
<1>7. BucketOK(Touched(evidence[k]), k, Logged)
  BY <1>1, <1>5, <1>6 DEF BucketsOK, Touched
<1>8. BucketsOK(evidence', Logged)
  BY <1>1, <1>3, <1>5, <1>7, ReplaceKeeps
<1> QED BY <1>1, <1>2, <1>4, <1>8 DEF IngestionInv

\* A record that the store takes goes to its bucket.
LEMMA StoredKeeps ==
    ASSUME IngestionInv, NEW e \in Evidence, IngestStored(e) PROVE IngestionInv'
<1> DEFINE k == resolve_subject(e, routes)
           r == [type |-> "Evidence", value |-> e]
<1>1. /\ k \in SubjectKey /\ highest' \in [Sources -> Nat] /\ validate(e)
      /\ ~ Full(evidence[k]) /\ e \notin Items(evidence[k])
      /\ \A stored : e \in stored => FitsKey(e, k, stored)
  BY NewRecordFacts DEF IngestStored
<1>2. UNCHANGED <<phase, sources, routes>> /\ accepted' = accepted \cup {e}
  BY DEF IngestStored
<1>3. Len(log) < MaxLog /\ log' = Append(log, r)
      /\ evidence' = [evidence EXCEPT ![k] = Push(evidence[k], e)]
  BY DEF IngestStored
<1>4. r \in LogRecord /\ r.type = "Evidence" /\ r.value = e
  BY DEF LogRecord
<1>5. LogOK' /\ Logged \subseteq Logged' /\ e \in Logged'
  <2> HIDE DEF r
  <2> QED BY <1>1, <1>3, <1>4, AppendedLog DEF IngestionInv
<1>6. BucketsOK(evidence, Logged')
  BY <1>5, MoreStored DEF IngestionInv
<1>7. BucketOK(evidence[k], k, Logged')
  BY <1>1, <1>6 DEF BucketsOK
<1>8. BucketOK(Push(evidence[k], e), k, Logged')
  <2>1. FitsKey(e, k, Logged')
    BY <1>1, <1>5
  <2> HIDE DEF k
  <2> QED BY <1>1, <1>7, <2>1, PushKeeps
<1>9. BucketsOK(evidence', Logged')
  <2> HIDE DEF k
  <2> QED BY <1>1, <1>3, <1>6, <1>8, ReplaceKeeps
<1> QED BY <1>1, <1>2, <1>5, <1>9 DEF IngestionInv

\* start() on what may have been held, under a plan that may have been current.
LEMMA StartKeeps ==
    ASSUME IngestionInv, NEW st \in Restorable, NEW plan \in KeptPlans \cup {None},
           start(st, plan), highest' \in [Sources -> Nat], accepted' \subseteq Evidence
    PROVE  IngestionInv'
<1> DEFINE new == Restore(st, plan)
<1>1. new \in Restorable
  BY RestoreKeeps DEF IngestionInv
<1>2. /\ sources' = new.sources /\ evidence' = new.evidence
      /\ phase' = IF new.ok THEN "running" ELSE "failed"
      /\ routes' = IF new.ok THEN None ELSE plan
      /\ log' = log
  BY DEF start
<1> HIDE DEF new
<1>3. Logged' = Logged /\ LogOK' = LogOK
  BY <1>2 DEF Logged, LogOK
<1>4. sources' \in [Sources -> Descriptors \cup {None}] /\ BucketsOK(evidence', Logged)
  BY <1>1, <1>2 DEF Restorable
<1> QED BY <1>2, <1>3, <1>4 DEF IngestionInv

\* The buckets of a runtime are a function into sequences.
LEMMA BucketsTyped ==
    ASSUME NEW held, NEW stored, BucketsOK(held, stored)
    PROVE  held \in [SubjectKey -> Seq(Evidence) \cup {None}]
<1>1. \A k \in SubjectKey : held[k] \in Seq(Evidence) \cup {None}
  BY DEF BucketsOK, BucketOK
<1>2. held = [k \in SubjectKey |-> held[k]]
  BY DEF BucketsOK
<1>3. [k \in SubjectKey |-> held[k]] \in [SubjectKey -> Seq(Evidence) \cup {None}]
  BY <1>1
<1> QED BY <1>2, <1>3, Zenon

\* start() of the same runtime.
LEMMA StartAgainKeeps == ASSUME IngestionInv, StartAgain PROVE IngestionInv'
<1> DEFINE st == [ok |-> TRUE, sources |-> sources, evidence |-> evidence]
<1>1. evidence \in [SubjectKey -> Seq(Evidence) \cup {None}]
  BY BucketsTyped DEF IngestionInv
<1>2. st \in Restorable
  BY <1>1 DEF Restorable, IngestionInv
<1>3. start(st, routes) /\ routes \in KeptPlans \cup {None}
  BY DEF StartAgain, IngestionInv
<1>4. highest' \in [Sources -> Nat] /\ accepted' \subseteq Evidence
  BY DEF StartAgain, IngestionInv
<1> HIDE DEF st
<1> QED BY <1>2, <1>3, <1>4, StartKeeps

\* start() of a new process.
LEMMA StartNewKeeps == ASSUME IngestionInv, StartNewProcess PROVE IngestionInv'
<1> DEFINE st == [ok |-> TRUE, sources |-> NoSources, evidence |-> NoEvidence]
<1>1. \A k : BucketOK(None, k, Logged)
  BY DEF BucketOK
<1>2. BucketsOK(NoEvidence, Logged)
  BY <1>1 DEF NoEvidence, BucketsOK
<1>3. NoEvidence \in [SubjectKey -> Seq(Evidence) \cup {None}]
      /\ NoSources \in [Sources -> Descriptors \cup {None}]
  BY DEF NoEvidence, NoSources
<1>4. st \in Restorable
  BY <1>2, <1>3 DEF Restorable
<1>5. start(st, None) /\ highest' \in [Sources -> Nat] /\ accepted' \subseteq Evidence
  BY DEF StartNewProcess
<1> HIDE DEF st
<1> QED BY <1>4, <1>5, StartKeeps

\* Every step keeps the invariant.
LEMMA IngestionStep == IngestionInv /\ [Next]_vars => IngestionInv'
<1> SUFFICES ASSUME IngestionInv, [Next]_vars PROVE IngestionInv'
  OBVIOUS
<1>1. ASSUME NEW d \in Descriptors, RegisterSource(d) PROVE IngestionInv'
  BY <1>1, RegisterKeeps
<1>2. ASSUME NEW p \in Plans, PublishRoutes(p) PROVE IngestionInv'
  BY <1>2, PublishKeeps
<1>3. ASSUME NEW e \in Evidence, ingest_evidence(e) PROVE IngestionInv'
  <2>1. CASE \/ IngestRefused(e) \/ IngestReplay(e) \/ IngestUnresolved(e)
             \/ IngestBucketFull(e) \/ IngestDuplicate(e)
    BY <2>1, IngestAsideKeeps
  <2>2. CASE IngestNotPersisted(e)
    BY <2>2, NotPersistedKeeps
  <2>3. CASE IngestStored(e)
    BY <2>3, StoredKeeps
  <2> QED BY <1>3, <2>1, <2>2, <2>3 DEF ingest_evidence
<1>4. CASE Stop \/ UNCHANGED vars
  <2>1. UNCHANGED <<sources, highest, routes, evidence, log, accepted>>
        /\ phase' \in {phase, "stopped"}
    BY <1>4 DEF Stop, vars
  <2>2. Logged' = Logged /\ LogOK' = LogOK
    BY <2>1 DEF Logged, LogOK
  <2> QED BY <2>1, <2>2 DEF IngestionInv
<1>5. CASE StartAgain
  BY <1>5, StartAgainKeeps
<1>6. CASE StartNewProcess
  BY <1>6, StartNewKeeps
<1> QED BY <1>1, <1>2, <1>3, <1>4, <1>5, <1>6 DEF Next

\* It is an invariant.
LEMMA IngestionInvariant == Spec => []IngestionInv
<1> QED BY IngestionInit, IngestionStep, PTL DEF Spec

-----------------------------------------------------------------------------
\* Results.

\* What a comparison may read is in the store, for any sources, plans, records,
\* bounds and any sequence of deliveries, failed appends, crashes and restarts:
\* ingest_evidence() writes before it holds, and a restart holds only what it
\* reads.
THEOREM HeldEvidenceIsLogged == Spec => []HeldIsLogged
<1>1. IngestionInv => HeldIsLogged
  <2> SUFFICES ASSUME IngestionInv, NEW k \in SubjectKey, NEW e \in Items(evidence[k])
               PROVE  e \in Logged
    BY DEF HeldIsLogged, Held
  <2>1. BucketOK(evidence[k], k, Logged)
    BY DEF IngestionInv, BucketsOK
  <2>2. evidence[k] # None /\ \E i \in DOMAIN evidence[k] : evidence[k][i] = e
    BY DEF Items, Range
  <2> QED BY <2>1, <2>2 DEF BucketOK, FitsKey
<1> QED BY <1>1, IngestionInvariant, PTL

\* Whatever comparison is asked for, the engine is given well-formed records, each
\* of them once, no more than a comparison may take, and none that names another
\* generation or group than the one the request is about.
THEOREM EngineRequestsAreSound == Spec => []RequestsAreSound
<1>1. IngestionInv => TypeOK
  <2> SUFFICES ASSUME IngestionInv PROVE TypeOK
    OBVIOUS
  <2>1. \A s \in Sources : sources[s] \in Descriptors \cup {None} /\ highest[s] \in Nat
    BY DEF IngestionInv
  <2>2. \A k \in SubjectKey : Items(evidence[k]) \subseteq Evidence
    BY DEF IngestionInv, BucketsOK, BucketOK, Items, Range
  <2>3. Len(log) <= MaxLog /\ Range(log) \subseteq LogRecord
    BY DEF IngestionInv, LogOK, Range
  <2> QED BY <2>1, <2>2, <2>3 DEF IngestionInv, TypeOK, KeptPlans
<1>2. IngestionInv => RequestsAreSound
  <2> SUFFICES ASSUME IngestionInv, NEW k \in Buckets
               PROVE  /\ Len(evidence[k]) <= MaxBucket
                      /\ IsInjective(evidence[k])
                      /\ \A e \in Range(evidence[k]) :
                             /\ validate(e)
                             /\ e.generation \in {None, k.generation}
                             /\ e.group \in {None, k.group}
    BY <1>1 DEF RequestsAreSound, compare_all, Request
  <2>1. BucketOK(evidence[k], k, Logged) /\ evidence[k] # None
    BY DEF IngestionInv, BucketsOK, Buckets
  <2>2. IsInjective(evidence[k])
    BY <2>1 DEF BucketOK, IsInjective
  <2> QED BY <2>1, <2>2 DEF BucketOK, FitsKey, Range
<1> QED BY <1>2, IngestionInvariant, PTL
=============================================================================
