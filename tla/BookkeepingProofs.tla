-------------------------- MODULE BookkeepingProofs --------------------------
(***************************************************************************)
(* Theorems about what comparisons leave behind (modules FindingRegistry,  *)
(* History and Bookkeeping), for any subjects, findings and bounds.        *)
(***************************************************************************)
EXTENDS Bookkeeping, NaturalFacts, FiniteSetTheorems, SequenceTheorems

-----------------------------------------------------------------------------
\* The history.

\* How many records share a subject with one of them.
LEMMA SharingFacts ==
    ASSUME NEW s \in Seq(HistoryRecord), NEW i
    PROVE  /\ IsFiniteSet({j \in DOMAIN s : same_subject(s[j].subject, s[i].subject)})
           /\ Sharing(s, i) \in 0..Len(s)
<1> DEFINE A == {j \in DOMAIN s : same_subject(s[j].subject, s[i].subject)}
           n == Len(s)
<1>1. n \in Nat /\ DOMAIN s = 1..n
  OBVIOUS
<1>2. IsFiniteSet(1..n) /\ Cardinality(1..n) = n
  <2> HIDE DEF n
  <2>1. 1 \in Int /\ n \in Int
    BY <1>1
  <2> QED BY <1>1, <2>1, FS_Interval
<1>3. A \in SUBSET (1..n)
  BY <1>1
<1>4. IsFiniteSet(A) /\ Cardinality(A) <= n
  <2> HIDE DEF n, A
  <2> QED BY <1>2, <1>3, FS_Subset
<1>5. Cardinality(A) \in Nat
  <2> HIDE DEF A
  <2> QED BY <1>4, FS_CardinalityType
<1>6. Sharing(s, i) = Cardinality(A)
  BY DEF Sharing
<1> HIDE DEF A, n
<1>7. Sharing(s, i) \in 0..n
  BY <1>1, <1>4, <1>5, <1>6
<1> QED BY <1>4, <1>7 DEF A, n

\* When the cap is exceeded, the record to evict exists.
LEMMA WorstFacts ==
    ASSUME NEW s \in Seq(HistoryRecord), OverCap(s) # {}
    PROVE  /\ Worst(s) \in OverCap(s)
           /\ \A j \in OverCap(s) :
                  \/ Sharing(s, j) < Sharing(s, Worst(s))
                  \/ Sharing(s, j) = Sharing(s, Worst(s)) /\ Worst(s) <= j
<1> DEFINE n == Len(s)
           O == OverCap(s)
           T == {n - Sharing(s, i) : i \in O}
<1>1. n \in Nat /\ DOMAIN s = 1..n /\ O \subseteq 1..n
  BY DEF OverCap
<1>2. \A i : Sharing(s, i) \in 0..n
  BY SharingFacts
<1> HIDE DEF n, O
<1>3. T \in SUBSET Nat /\ T # {}
  BY <1>1, <1>2 DEF O
<1>4. PICK a \in O : \A j \in O : n - Sharing(s, a) <= n - Sharing(s, j)
  <2> DEFINE U == T
  <2>1. \A x \in U : \E i \in O : x = n - Sharing(s, i)
    OBVIOUS
  <2>2. \A i \in O : n - Sharing(s, i) \in U
    OBVIOUS
  <2>3. U \in SUBSET Nat /\ U # {}
    BY <1>3
  <2> HIDE DEF U
  <2>4. PICK x \in U : \A y \in U : x <= y
    BY <2>3, LeastNat
  <2>5. PICK i \in O : x = n - Sharing(s, i)
    BY <2>1
  <2>6. \A j \in O : n - Sharing(s, i) <= n - Sharing(s, j)
    BY <2>2, <2>4, <2>5
  <2> QED BY <2>6
<1>5. \A j \in O : Sharing(s, j) <= Sharing(s, a)
  BY <1>1, <1>2, <1>4
<1> DEFINE B == {i \in O : Sharing(s, i) = Sharing(s, a)}
<1>6. B \in SUBSET Nat /\ B # {}
  <2>1. \A i \in O : i \in Nat
    BY <1>1
  <2>2. a \in B
    BY <1>4
  <2> QED BY <2>1, <2>2
<1>7. PICK b \in B : \A j \in B : b <= j
  <2> HIDE DEF B
  <2> QED BY <1>6, LeastNat
<1>8. \A j \in O : \/ Sharing(s, j) < Sharing(s, b)
                   \/ Sharing(s, j) = Sharing(s, b) /\ b <= j
  <2> TAKE j \in O
  <2>1. Sharing(s, b) = Sharing(s, a)
    BY <1>7
  <2>2. Sharing(s, j) \in Nat /\ Sharing(s, a) \in Nat
    BY <1>1, <1>2
  <2>3. CASE Sharing(s, j) = Sharing(s, a)
    BY <1>7, <2>1, <2>3
  <2>4. CASE Sharing(s, j) # Sharing(s, a)
    BY <1>5, <2>1, <2>2, <2>4
  <2> QED BY <2>3, <2>4
<1>9. \E i \in O : \A j \in O : \/ Sharing(s, j) < Sharing(s, i)
                                \/ Sharing(s, j) = Sharing(s, i) /\ i <= j
  BY <1>7, <1>8
<1> QED BY <1>9, Zenon DEF Worst, O

\* A record taken out of a sequence.
LEMMA RemoveFacts ==
    ASSUME NEW S, NEW s \in Seq(S), NEW i \in 1..Len(s)
    PROVE  /\ RemoveAt(s, i) \in Seq(S)
           /\ Len(RemoveAt(s, i)) = Len(s) - 1
           /\ i < Len(s) => RemoveAt(s, i)[Len(s) - 1] = s[Len(s)]
<1> DEFINE n == Len(s)
           a == SubSeq(s, 1, i - 1)
           b == SubSeq(s, i + 1, n)
<1>1. n \in Nat /\ i \in 1..n /\ i - 1 \in Int /\ i + 1 \in Int /\ n \in Int
  OBVIOUS
<1>2. \A j \in 1..n : s[j] \in S
  OBVIOUS
<1>3. RemoveAt(s, i) = a \o b
  BY DEF RemoveAt
<1>4. s[n] = s[Len(s)]
  OBVIOUS
<1> HIDE DEF n
<1>5. a \in Seq(S) /\ Len(a) = i - 1
  <2>1. \A j \in 1..(i - 1) : s[j] \in S
    BY <1>1, <1>2
  <2>2. Len(a) = IF 1 <= i - 1 THEN (i - 1) - 1 + 1 ELSE 0
    BY <1>1, <2>1, SubSeqProperties
  <2>3. a \in Seq(S)
    BY <1>1, <2>1, SubSeqProperties
  <2> HIDE DEF a
  <2> QED BY <1>1, <2>2, <2>3
<1>6. /\ b \in Seq(S) /\ Len(b) = n - i
      /\ i < n => b[n - i] = s[n]
  <2>1. \A j \in (i + 1)..n : s[j] \in S
    BY <1>1, <1>2
  <2>2. /\ b \in Seq(S)
        /\ Len(b) = IF i + 1 <= n THEN n - (i + 1) + 1 ELSE 0
        /\ \A j \in 1..(n - (i + 1) + 1) : b[j] = s[(i + 1) + j - 1]
    BY <1>1, <2>1, SubSeqProperties
  <2> HIDE DEF b
  <2>3. Len(b) = n - i
    BY <1>1, <2>2
  <2>4. ASSUME i < n PROVE b[n - i] = s[n]
    <3>1. n - i \in 1..(n - (i + 1) + 1) /\ (i + 1) + (n - i) - 1 = n
      BY <1>1, <2>4
    <3> QED BY <2>2, <3>1
  <2> QED BY <2>2, <2>3, <2>4
<1> HIDE DEF a, b
<1>7. /\ a \o b \in Seq(S) /\ Len(a \o b) = Len(a) + Len(b)
      /\ \A j \in 1..(Len(a) + Len(b)) :
             (a \o b)[j] = IF j <= Len(a) THEN a[j] ELSE b[j - Len(a)]
  BY <1>5, <1>6, ConcatProperties
<1>8. Len(a \o b) = n - 1
  BY <1>1, <1>5, <1>6, <1>7
<1>9. ASSUME i < n PROVE (a \o b)[n - 1] = s[n]
  <2>1. n - 1 \in 1..(Len(a) + Len(b)) /\ ~ (n - 1 <= Len(a)) /\ (n - 1) - Len(a) = n - i
    BY <1>1, <1>5, <1>6, <1>9
  <2> QED BY <1>6, <1>7, <1>9, <2>1
<1> QED BY <1>3, <1>4, <1>7, <1>8, <1>9 DEF n

\* A round of the eviction loop takes a record out or finds nothing to evict.
LEMMA EvictOneFacts ==
    ASSUME NEW s \in Seq(HistoryRecord)
    PROVE  /\ EvictOne(s) \in Seq(HistoryRecord)
           /\ OverCap(s) = {} => EvictOne(s) = s
           /\ OverCap(s) # {} => Len(EvictOne(s)) = Len(s) - 1
<1>1. CASE OverCap(s) = {}
  BY <1>1 DEF EvictOne
<1>2. CASE OverCap(s) # {}
  <2>1. Worst(s) \in 1..Len(s)
    BY <1>2, WorstFacts DEF OverCap
  <2>2. EvictOne(s) = RemoveAt(s, Worst(s))
    BY <1>2 DEF EvictOne
  <2> QED BY <1>2, <2>1, <2>2, RemoveFacts
<1> QED BY <1>1, <1>2

\* The rounds of the loop, one after the other.
IsEviction(run, s) ==
    /\ run[0] = s
    /\ \A n \in 1..Len(s) : run[n] = EvictOne(run[n - 1])
    /\ \A n \in 0..Len(s) : run[n] \in Seq(HistoryRecord)
    /\ EvictRounds(s) = run[Len(s)]

\* There is such a run.
LEMMA EvictionRuns ==
    ASSUME NEW s \in Seq(HistoryRecord)
    PROVE  \E run : IsEviction(run, s)
<1> DEFINE N == Len(s)
           X == Seq(HistoryRecord)
           step == [n \in 1..N |-> [x \in X |-> EvictOne(x)]]
           Is(f) == f = [n \in 0..N |-> IF n = 0 THEN s ELSE EvictOne(f[n - 1])]
           run == CHOOSE f : Is(f)
<1>1. N \in Nat
  OBVIOUS
<1>2. \A x \in X : EvictOne(x) \in X
  BY EvictOneFacts
<1>3. EvictRounds(s) = run[N]
  BY Zenon DEF EvictRounds, N
<1>4. s \in X
  OBVIOUS
<1> HIDE DEF N, X
<1>5. step \in [1..N -> [X -> X]] /\ \A n \in 1..N : \A x \in X : step[n][x] = EvictOne(x)
  BY <1>2
<1> HIDE DEF step
<1>6. PICK f : IsRun(f, N, X, s, step)
  BY <1>1, <1>4, <1>5, RunExists, Zenon
<1>7. f \in [0..N -> X] /\ f[0] = s /\ \A n \in 1..N : f[n] = step[n][f[n - 1]]
  BY <1>6 DEF IsRun
<1>8. ASSUME NEW n \in 0..N PROVE f[n] = IF n = 0 THEN s ELSE EvictOne(f[n - 1])
  <2>1. CASE n = 0
    BY <1>7, <2>1
  <2>2. CASE n # 0
    <3>1. n \in 1..N /\ n - 1 \in 0..N
      BY <1>1, <2>2
    <3> QED BY <1>5, <1>7, <2>2, <3>1
  <2> QED BY <2>1, <2>2
<1>9. Is(f)
  <2>1. f = [n \in 0..N |-> f[n]]
    BY <1>7
  <2> QED BY <1>8, <2>1
<1>10. Is(run)
  BY <1>9, Zenon
<1> HIDE DEF run
<1>11. run[0] = s /\ \A n \in 1..N : run[n] = EvictOne(run[n - 1])
  BY <1>1, <1>10
<1> DEFINE G == {n \in 0..N : run[n] \in X}
<1>12. 0 \in G
  BY <1>1, <1>4, <1>11
<1>13. \A n \in 0..N : n \in G /\ n < N => n + 1 \in G
  <2> TAKE n \in 0..N
  <2> HAVE n \in G /\ n < N
  <2>1. n + 1 \in 1..N /\ n + 1 \in 0..N /\ (n + 1) - 1 = n
    BY <1>1
  <2> QED BY <1>2, <1>11, <2>1
<1> HIDE DEF G
<1>14. 0..N \subseteq G
  BY <1>1, <1>12, <1>13, InductionUpTo
<1>15. \A n \in 0..N : run[n] \in X
  BY <1>14 DEF G
<1> QED BY <1>3, <1>11, <1>15 DEF IsEviction, N, X

\* After as many rounds as there are records no subject is over its cap.
LEMMA EvictRoundsFacts ==
    ASSUME NEW s \in Seq(HistoryRecord)
    PROVE  EvictRounds(s) \in Seq(HistoryRecord) /\ OverCap(EvictRounds(s)) = {}
<1>1. PICK run : IsEviction(run, s)
  BY EvictionRuns
<1> DEFINE N == Len(s)
           G == {n \in 0..N : OverCap(run[n]) = {} \/ Len(run[n]) = N - n}
<1>2. /\ N \in Nat /\ run[0] = s /\ EvictRounds(s) = run[N]
      /\ \A n \in 1..N : run[n] = EvictOne(run[n - 1])
      /\ \A n \in 0..N : run[n] \in Seq(HistoryRecord)
  BY <1>1 DEF IsEviction
<1>3. 0 \in G
  BY <1>2
<1> HIDE DEF N
<1>4. \A n \in 0..N : n \in G /\ n < N => n + 1 \in G
  <2> TAKE n \in 0..N
  <2> HAVE n \in G /\ n < N
  <2>1. n + 1 \in 1..N /\ n + 1 \in 0..N /\ (n + 1) - 1 = n
    BY <1>2
  <2>2. run[n + 1] = EvictOne(run[n]) /\ run[n] \in Seq(HistoryRecord)
    BY <1>2, <2>1
  <2>3. CASE OverCap(run[n]) = {}
    BY <2>1, <2>2, <2>3, EvictOneFacts
  <2>4. CASE OverCap(run[n]) # {}
    <3>1. Len(run[n]) = N - n /\ Len(run[n + 1]) = Len(run[n]) - 1
      BY <2>2, <2>4, EvictOneFacts
    <3>2. Len(run[n + 1]) = N - (n + 1)
      BY <1>2, <3>1
    <3> QED BY <2>1, <3>2
  <2> QED BY <2>3, <2>4
<1> HIDE DEF G
<1>5. 0..N \subseteq G
  BY <1>2, <1>3, <1>4, InductionUpTo
<1>6. N \in 0..N
  BY <1>2
<1>7. OverCap(run[N]) = {} \/ Len(run[N]) = N - N
  BY <1>5, <1>6 DEF G
<1>8. ASSUME Len(run[N]) = N - N PROVE OverCap(run[N]) = {}
  <2>1. run[N] \in Seq(HistoryRecord) /\ Len(run[N]) = 0
    BY <1>2, <1>6, <1>8
  <2>2. DOMAIN run[N] = {}
    BY <2>1
  <2> QED BY <2>2 DEF OverCap
<1> QED BY <1>2, <1>6, <1>7, <1>8

\* The newer records of a sequence, from position m on.
LEMMA SuffixFacts ==
    ASSUME NEW s \in Seq(HistoryRecord), NEW m \in 1..(Len(s) + 1)
    PROVE  LET t == SubSeq(s, m, Len(s))
           IN  /\ t \in Seq(HistoryRecord)
               /\ Len(t) = Len(s) - m + 1
               /\ \A i \in 1..Len(t) : t[i] = s[m + i - 1]
<1> DEFINE n == Len(s)
           t == SubSeq(s, m, n)
<1>1. n \in Nat /\ m \in Int /\ n \in Int /\ m \in 1..(n + 1)
  OBVIOUS
<1>2. \A i \in 1..n : s[i] \in HistoryRecord
  OBVIOUS
<1> HIDE DEF n
<1>3. \A i \in m..n : s[i] \in HistoryRecord
  BY <1>1, <1>2
<1>4. /\ t \in Seq(HistoryRecord)
      /\ Len(t) = IF m <= n THEN n - m + 1 ELSE 0
      /\ \A i \in 1..(n - m + 1) : t[i] = s[m + i - 1]
  BY <1>1, <1>3, SubSeqProperties
<1> HIDE DEF t
<1>5. Len(t) = n - m + 1
  BY <1>1, <1>4
<1> QED BY <1>4, <1>5 DEF t, n

\* Dropping the oldest records brings no subject over its cap.
LEMMA SuffixWithinCap ==
    ASSUME NEW s \in Seq(HistoryRecord), NEW m \in 1..(Len(s) + 1), OverCap(s) = {}
    PROVE  OverCap(SubSeq(s, m, Len(s))) = {}
<1> DEFINE n == Len(s)
           t == SubSeq(s, m, n)
<1>1. /\ t \in Seq(HistoryRecord) /\ Len(t) = n - m + 1
      /\ \A i \in 1..Len(t) : t[i] = s[m + i - 1]
  BY SuffixFacts
<1>2. n \in Nat /\ m \in 1..(n + 1) /\ DOMAIN s = 1..n
  OBVIOUS
<1> HIDE DEF n, t
<1>3. DOMAIN t = 1..(n - m + 1)
  BY <1>1
<1>4. ASSUME NEW i \in DOMAIN t PROVE ~ (Sharing(t, i) > MaxPerSubject)
  <2> DEFINE A == {j \in DOMAIN t : same_subject(t[j].subject, t[i].subject)}
             B == {j \in DOMAIN s : same_subject(s[j].subject, s[m + i - 1].subject)}
             f == [j \in A |-> m + j - 1]
  <2>1. \A j \in DOMAIN t : m + j - 1 \in DOMAIN s /\ t[j] = s[m + j - 1]
    BY <1>1, <1>2, <1>3
  <2>2. \A j \in A : m + j - 1 \in B
    BY <2>1
  <2>3. \A j, k \in A : m + j - 1 = m + k - 1 => j = k
    BY <1>2, <1>3
  <2>4. Sharing(t, i) = Cardinality(A) /\ Sharing(s, m + i - 1) = Cardinality(B)
    BY DEF Sharing
  <2>5. IsFiniteSet(B) /\ Sharing(s, m + i - 1) \in 0..Len(s)
    BY SharingFacts
  <2>6. Sharing(t, i) \in 0..Len(t)
    BY <1>1, SharingFacts
  <2> HIDE DEF A, B
  <2>7. f \in [A -> B] /\ DOMAIN f = A /\ \A j \in A : f[j] = m + j - 1
    BY <2>2
  <2> HIDE DEF f
  <2>8. f \in Injection(A, B)
    BY <2>3, <2>7 DEF Injection, IsInjective
  <2>9. Cardinality(A) <= Cardinality(B)
    BY <2>5, <2>8, FS_Injection
  <2>10. ~ (Sharing(s, m + i - 1) > MaxPerSubject)
    BY <2>1 DEF OverCap
  <2>11. MaxPerSubject \in Nat /\ Sharing(s, m + i - 1) \in Nat /\ Sharing(t, i) \in Nat
    BY <1>1, <1>2, <2>5, <2>6, HistoryAssumption
  <2> QED BY <2>4, <2>9, <2>10, <2>11
<1> QED BY <1>4 DEF OverCap, t, n

\* What the history is: of its type and within its bounds.
HistoryOK(s) ==
    /\ s \in Seq(HistoryRecord)
    /\ Len(s) <= MaxRecords
    /\ OverCap(s) = {}

\* append() leaves it so.
LEMMA AppendToFacts ==
    ASSUME NEW s \in Seq(HistoryRecord), NEW r \in HistoryRecord
    PROVE  HistoryOK(AppendTo(s, r))
<1> DEFINE t == EvictRounds(Append(s, r))
           n == Len(t)
           m == 1 + (IF n > MaxRecords THEN n - MaxRecords ELSE 0)
           u == SubSeq(t, m, n)
<1>1. t \in Seq(HistoryRecord) /\ OverCap(t) = {}
  <2>1. Append(s, r) \in Seq(HistoryRecord)
    OBVIOUS
  <2> QED BY <2>1, EvictRoundsFacts
<1>2. AppendTo(s, r) = u
  BY DEF AppendTo, KeepNewest
<1> HIDE DEF t
<1>3. n \in Nat /\ MaxRecords \in Nat
  BY <1>1, HistoryAssumption
<1>4. m \in 1..(n + 1) /\ n - m + 1 <= MaxRecords
  BY <1>3
<1> HIDE DEF m
<1>5. u \in Seq(HistoryRecord) /\ Len(u) = n - m + 1
  BY <1>1, <1>4, SuffixFacts
<1>6. OverCap(u) = {}
  BY <1>1, <1>4, SuffixWithinCap
<1> HIDE DEF u, n
<1> QED BY <1>2, <1>4, <1>5, <1>6 DEF HistoryOK

\* No group and no path has more records than its share.
LEMMA SharesBounded ==
    ASSUME NEW s, HistoryOK(s), NEW name, name # None
    PROVE  /\ Cardinality({i \in DOMAIN s : s[i].subject.group = name}) <= MaxPerSubject
           /\ Cardinality({i \in DOMAIN s : s[i].subject.path = name}) <= MaxPerSubject
<1>1. s \in Seq(HistoryRecord) /\ OverCap(s) = {} /\ MaxPerSubject \in Nat
  BY HistoryAssumption DEF HistoryOK
<1>2. ASSUME NEW A, NEW i, A \subseteq {j \in DOMAIN s :
                                  same_subject(s[j].subject, s[i].subject)},
             i \in DOMAIN s
      PROVE  Cardinality(A) <= MaxPerSubject
  <2> DEFINE B == {j \in DOMAIN s : same_subject(s[j].subject, s[i].subject)}
  <2>1. IsFiniteSet(B) /\ Sharing(s, i) \in 0..Len(s) /\ Len(s) \in Nat
    BY <1>1, SharingFacts
  <2>2. Sharing(s, i) = Cardinality(B)
    BY DEF Sharing
  <2>3. A \in SUBSET B
    BY <1>2
  <2> HIDE DEF B
  <2>4. IsFiniteSet(A) /\ Cardinality(A) <= Cardinality(B)
    BY <2>1, <2>3, FS_Subset
  <2>5. Cardinality(A) \in Nat
    BY <2>4, FS_CardinalityType
  <2>6. ~ (Sharing(s, i) > MaxPerSubject)
    BY <1>1, <1>2 DEF OverCap
  <2> QED BY <1>1, <2>1, <2>2, <2>4, <2>5, <2>6
<1>3. Cardinality({}) <= MaxPerSubject
  BY <1>1, FS_EmptySet
<1> DEFINE A == {i \in DOMAIN s : s[i].subject.group = name}
           C == {i \in DOMAIN s : s[i].subject.path = name}
<1>4. Cardinality(A) <= MaxPerSubject
  <2>1. CASE A = {}
    BY <1>3, <2>1
  <2>2. CASE A # {}
    <3>1. PICK i \in A : TRUE
      BY <2>2
    <3>2. A \subseteq {j \in DOMAIN s : same_subject(s[j].subject, s[i].subject)}
      BY <3>1 DEF same_subject
    <3>3. i \in DOMAIN s
      BY <3>1
    <3> HIDE DEF A
    <3> QED BY <1>2, <3>2, <3>3
  <2> QED BY <2>1, <2>2
<1>5. Cardinality(C) <= MaxPerSubject
  <2>1. CASE C = {}
    BY <1>3, <2>1
  <2>2. CASE C # {}
    <3>1. PICK i \in C : TRUE
      BY <2>2
    <3>2. C \subseteq {j \in DOMAIN s : same_subject(s[j].subject, s[i].subject)}
      BY <3>1 DEF same_subject
    <3>3. i \in DOMAIN s
      BY <3>1
    <3> HIDE DEF C
    <3> QED BY <1>2, <3>2, <3>3
  <2> QED BY <2>1, <2>2
<1> QED BY <1>4, <1>5

\* prune() drops the records before the first that is in the window.
LEMMA PrunedFacts ==
    ASSUME NEW t \in Nat, records \in Seq(HistoryRecord)
    PROVE  \E m \in 1..(Len(records) + 1) :
               /\ Pruned(t) = SubSeq(records, m, Len(records))
               /\ \A i \in 1..(m - 1) : Expired(records[i], t)
<1> DEFINE n == Len(records)
           kept == {i \in DOMAIN records : ~ Expired(records[i], t)}
<1>1. n \in Nat /\ DOMAIN records = 1..n
  OBVIOUS
<1>2. Pruned(t) = IF kept = {} THEN <<>> ELSE SubSeq(records, Min(kept), n)
  BY DEF Pruned
<1> HIDE DEF n
<1>3. \A i \in 1..n : i \notin kept => Expired(records[i], t)
  BY <1>1
<1>4. kept \subseteq 1..n /\ kept \in SUBSET Nat
  BY <1>1
<1> HIDE DEF kept
<1>5. CASE kept = {}
  <2>1. SubSeq(records, n + 1, n) = <<>>
    <3>1. n + 1 \in Int /\ n \in Int /\ n < n + 1
      BY <1>1
    <3> QED BY <3>1, SubSeqEmpty
  <2>2. Pruned(t) = SubSeq(records, n + 1, n)
    BY <1>2, <1>5, <2>1
  <2>3. n + 1 \in 1..(n + 1) /\ (n + 1) - 1 = n
    BY <1>1
  <2>4. \A i \in 1..((n + 1) - 1) : Expired(records[i], t)
    BY <1>3, <1>5, <2>3
  <2> QED BY <2>2, <2>3, <2>4 DEF n
<1>6. CASE kept # {}
  <2>1. \E x \in kept : \A y \in kept : x <= y
    BY <1>4, <1>6, LeastNat
  <2>2. Min(kept) \in kept /\ \A y \in kept : Min(kept) <= y
    BY <2>1, Zenon DEF Min
  <2>3. PICK m : m = Min(kept)
    OBVIOUS
  <2>4. m \in 1..n /\ m \in 1..(n + 1) /\ Pruned(t) = SubSeq(records, m, n)
    <3>1. m \in kept
      BY <2>2, <2>3, Zenon
    <3>2. Pruned(t) = SubSeq(records, m, n)
      BY <1>2, <1>6, <2>3, Zenon
    <3> QED BY <1>1, <1>4, <3>1, <3>2
  <2>5. ASSUME NEW i \in 1..(m - 1) PROVE Expired(records[i], t)
    <3>1. i \in 1..n /\ ~ (m <= i)
      BY <1>1, <2>4
    <3>2. i \notin kept
      BY <2>2, <2>3, <3>1
    <3> QED BY <1>3, <3>1, <3>2
  <2> QED BY <2>4, <2>5 DEF n
<1> QED BY <1>5, <1>6

-----------------------------------------------------------------------------
\* The registry of findings.

\* Of its type, within its bound, and of no comparison after the c-th.
RegistryOK(fs, c) ==
    /\ fs \in [Keys -> Finding \cup {Absent}]
    /\ IsFiniteSet(Present(fs))
    /\ Cardinality(Present(fs)) <= MaxFindings
    /\ \A k \in Keys : fs[k] # Absent => fs[k].last_comparison <= c

\* A finding put in the place of another, or where there is room.
LEMMA SetFinding ==
    ASSUME NEW c \in Nat, NEW d \in Nat, c <= d, NEW fs, RegistryOK(fs, c),
           NEW k \in Keys, NEW f \in Finding, f.last_comparison <= d, Fits(fs, k)
    PROVE  RegistryOK([fs EXCEPT ![k] = f], d)
<1> DEFINE new == [fs EXCEPT ![k] = f]
           P == Present(fs)
<1>1. fs \in [Keys -> Finding \cup {Absent}] /\ IsFiniteSet(P) /\ Cardinality(P) <= MaxFindings
      /\ \A j \in Keys : fs[j] # Absent => fs[j].last_comparison <= c
  BY DEF RegistryOK
<1>2. new \in [Keys -> Finding \cup {Absent}] /\ new[k] = f
      /\ \A j \in Keys : j # k => new[j] = fs[j]
  BY <1>1
<1>3. f # Absent
  BY FindingAssumption
<1> HIDE DEF new
<1>4. Present(new) = P \cup {k}
  BY <1>2, <1>3 DEF Present
<1>5. k \in P \/ Cardinality(P) < MaxFindings
  <2>1. Cardinality(P) \in Nat /\ MaxFindings \in Nat
    <3> HIDE DEF P
    <3> QED BY <1>1, FS_CardinalityType, FindingAssumption
  <2>2. k \in P \/ ~ (Cardinality(P) >= MaxFindings)
    BY DEF Fits, Full, Present
  <2> HIDE DEF P
  <2> QED BY <2>1, <2>2
<1> HIDE DEF P
<1>6. IsFiniteSet(P \cup {k})
      /\ Cardinality(P \cup {k}) = IF k \in P THEN Cardinality(P) ELSE Cardinality(P) + 1
  BY <1>1, FS_AddElement
<1>7. Cardinality(P \cup {k}) <= MaxFindings
  <2>1. Cardinality(P) \in Nat /\ MaxFindings \in Nat
    BY <1>1, FS_CardinalityType, FindingAssumption
  <2> QED BY <1>1, <1>5, <1>6, <2>1
<1>8. ASSUME NEW j \in Keys, new[j] # Absent PROVE new[j].last_comparison <= d
  <2>1. CASE j = k
    BY <1>2, <2>1
  <2>2. CASE j # k
    <3>1. new[j] = fs[j] /\ fs[j] \in Finding /\ fs[j].last_comparison <= c
      BY <1>1, <1>2, <1>8, <2>2
    <3>2. fs[j].last_comparison \in Nat
      BY <3>1 DEF Finding
    <3> QED BY <3>1, <3>2
  <2> QED BY <2>1, <2>2
<1> QED BY <1>2, <1>4, <1>6, <1>7, <1>8 DEF RegistryOK, new

\* A finding given up makes room.
LEMMA DropFinding ==
    ASSUME NEW c \in Nat, NEW fs, RegistryOK(fs, c), NEW v \in Present(fs)
    PROVE  /\ RegistryOK([fs EXCEPT ![v] = Absent], c)
           /\ ~ Full([fs EXCEPT ![v] = Absent])
<1> DEFINE new == [fs EXCEPT ![v] = Absent]
           P == Present(fs)
<1>1. fs \in [Keys -> Finding \cup {Absent}] /\ IsFiniteSet(P) /\ Cardinality(P) <= MaxFindings
      /\ v \in Keys /\ v \in P
  BY DEF RegistryOK, Present
<1>2. new \in [Keys -> Finding \cup {Absent}] /\ new[v] = Absent
      /\ \A j \in Keys : j # v => new[j] = fs[j]
  BY <1>1
<1> HIDE DEF new
<1>3. Present(new) = P \ {v}
  BY <1>2 DEF Present
<1>4. \A j \in Keys : new[j] # Absent => new[j].last_comparison <= c
  BY <1>1, <1>2 DEF RegistryOK
<1> HIDE DEF P
<1>5. IsFiniteSet(P \ {v}) /\ Cardinality(P \ {v}) = Cardinality(P) - 1
  BY <1>1, FS_RemoveElement
<1>6. Cardinality(P) \in Nat /\ MaxFindings \in Nat
  BY <1>1, FS_CardinalityType, FindingAssumption
<1>7. Cardinality(P \ {v}) < MaxFindings /\ Cardinality(P \ {v}) <= MaxFindings
      /\ ~ (Cardinality(P \ {v}) >= MaxFindings)
  BY <1>1, <1>5, <1>6
<1> QED BY <1>2, <1>3, <1>4, <1>5, <1>7 DEF RegistryOK, Full, new

\* The finding that a further occurrence makes of an older one.
LEMMA AgainFacts ==
    ASSUME NEW c \in Nat, NEW t \in Nat, NEW k \in Keys, findings[k] \in Finding,
           findings \in [Keys -> Finding \cup {Absent}]
    PROVE  \E f \in Finding : f.last_comparison = c /\ Again(k, c, t) = [findings EXCEPT ![k] = f]
<1> DEFINE g == findings[k]
           f == [status |-> IF g.status = "Resolved" THEN "Open" ELSE g.status,
                 occurrences |-> g.occurrences + 1, last_seen |-> t, last_comparison |-> c]
<1>1. g \in Finding
  OBVIOUS
<1>2. Again(k, c, t) = [findings EXCEPT ![k] = f]
  BY DEF Again
<1> HIDE DEF g
<1>3. f \in Finding /\ f.last_comparison = c
  BY <1>1 DEF Finding
<1> QED BY <1>2, <1>3

\* record(): within the bound, of this comparison, and without a loss of open
\* findings.
LEMMA RecordedFacts ==
    ASSUME NEW c \in Nat, RegistryOK(findings, c), NEW t \in Nat, NEW k \in Keys,
           NEW fs \in Recorded(k, c + 1, t)
    PROVE  /\ RegistryOK(fs, c + 1)
           /\ fs[k] \in Finding /\ fs[k].last_comparison = c + 1
           /\ \A j \in Keys : IsOpen(findings[j]) => fs[j] # Absent
<1>1. findings \in [Keys -> Finding \cup {Absent}] /\ c + 1 \in Nat /\ c <= c + 1
  BY DEF RegistryOK
<1>2. ASSUME NEW f \in Finding, f.last_comparison = c + 1, Fits(findings, k),
             fs = [findings EXCEPT ![k] = f]
      PROVE  /\ RegistryOK(fs, c + 1)
             /\ fs[k] \in Finding /\ fs[k].last_comparison = c + 1
             /\ \A j \in Keys : IsOpen(findings[j]) => fs[j] # Absent
  <2>1. f.last_comparison <= c + 1
    BY <1>1, <1>2
  <2>2. RegistryOK(fs, c + 1)
    BY <1>1, <1>2, <2>1, SetFinding
  <2>3. fs[k] = f /\ \A j \in Keys : j # k => fs[j] = findings[j]
    BY <1>1, <1>2
  <2>4. f # Absent
    BY FindingAssumption
  <2> QED BY <1>2, <2>2, <2>3, <2>4 DEF IsOpen
<1>3. CASE findings[k] # Absent
  <2>1. findings[k] \in Finding /\ Fits(findings, k)
    BY <1>1, <1>3 DEF Fits
  <2>2. fs = Again(k, c + 1, t)
    BY <1>3 DEF Recorded
  <2> QED BY <1>1, <1>2, <2>1, <2>2, AgainFacts
<1>4. Fresh(c + 1, t) \in Finding /\ Fresh(c + 1, t).last_comparison = c + 1
  BY <1>1 DEF Fresh, Finding
<1>5. CASE findings[k] = Absent /\ ~ Full(findings)
  <2>1. fs = [findings EXCEPT ![k] = Fresh(c + 1, t)] /\ Fits(findings, k)
    BY <1>5 DEF Recorded, Fits
  <2> QED BY <1>2, <1>4, <2>1
<1>6. CASE findings[k] = Absent /\ Full(findings)
  <2>1. PICK v \in Victims : fs = [findings EXCEPT ![v] = Absent, ![k] = Fresh(c + 1, t)]
    BY <1>6 DEF Recorded
  <2>2. v \in Present(findings) /\ findings[v].status = "Resolved" /\ v \in Keys /\ v # k
    BY <1>6 DEF Victims, Present
  <2> DEFINE mid == [findings EXCEPT ![v] = Absent]
             f == Fresh(c + 1, t)
  <2>3. RegistryOK(mid, c) /\ ~ Full(mid)
    BY <2>2, DropFinding
  <2>4. mid \in [Keys -> Finding \cup {Absent}] /\ \A j \in Keys : j # v => mid[j] = findings[j]
    BY <1>1, <2>2
  <2>5. fs = [mid EXCEPT ![k] = f]
    <3> HIDE DEF f
    <3> QED BY <1>1, <2>1, <2>2 DEF f
  <2> HIDE DEF mid, f
  <2>6. Fits(mid, k)
    BY <2>3 DEF Fits
  <2>7. f \in Finding /\ f.last_comparison = c + 1 /\ f # Absent
    BY <1>4, FindingAssumption DEF f
  <2>8. RegistryOK(fs, c + 1)
    <3>1. f.last_comparison <= c + 1
      BY <1>1, <2>7
    <3> QED BY <1>1, <2>3, <2>5, <2>6, <2>7, <3>1, SetFinding
  <2>9. fs[k] = f /\ \A j \in Keys : j # k => fs[j] = mid[j]
    BY <2>4, <2>5
  <2>10. ASSUME NEW j \in Keys, IsOpen(findings[j]) PROVE fs[j] # Absent
    <3>1. j # v
      BY <2>2, <2>10 DEF IsOpen
    <3> QED BY <2>4, <2>7, <2>9, <2>10, <3>1 DEF IsOpen
  <2> QED BY <2>7, <2>8, <2>9, <2>10
<1> QED BY <1>3, <1>5, <1>6

\* resolve_from_match() and acknowledge() change findings and drop none.
LEMMA SettledFacts ==
    ASSUME NEW c \in Nat, RegistryOK(findings, c), NEW t \in Nat, NEW k \in Keys
    PROVE  /\ \A outcome : /\ RegistryOK(ResolvedFromMatch(k, outcome, t), c)
                           /\ Present(ResolvedFromMatch(k, outcome, t)) = Present(findings)
           /\ findings[k] # Absent =>
                  /\ RegistryOK(Acknowledged(k, t), c)
                  /\ Present(Acknowledged(k, t)) = Present(findings)
<1>1. findings \in [Keys -> Finding \cup {Absent}]
      /\ \A j \in Keys : findings[j] # Absent => findings[j].last_comparison <= c
  BY DEF RegistryOK
<1>2. \A f \in Finding, w \in {"Acknowledged", "Resolved"} :
          /\ [f EXCEPT !.status = w, !.last_seen = t] \in Finding
          /\ [f EXCEPT !.status = w, !.last_seen = t].last_comparison = f.last_comparison
          /\ [f EXCEPT !.status = w, !.last_seen = t] # Absent
  <2>1. \A f \in Finding, w \in {"Acknowledged", "Resolved"} :
            /\ [f EXCEPT !.status = w, !.last_seen = t] \in Finding
            /\ [f EXCEPT !.status = w, !.last_seen = t].last_comparison = f.last_comparison
    BY DEF Finding
  <2> QED BY <2>1, FindingAssumption
<1>3. ASSUME NEW outcome
      PROVE  /\ RegistryOK(ResolvedFromMatch(k, outcome, t), c)
             /\ Present(ResolvedFromMatch(k, outcome, t)) = Present(findings)
  <2> DEFINE new == ResolvedFromMatch(k, outcome, t)
  <2>1. \A j \in Keys :
            \/ new[j] = findings[j]
            \/ findings[j] \in Finding /\ findings[j] # Absent
               /\ new[j] = [findings[j] EXCEPT !.status = "Resolved", !.last_seen = t]
    BY <1>1 DEF ResolvedFromMatch, Resolves, IsOpen
  <2>2. new = [j \in Keys |-> new[j]]
    BY DEF ResolvedFromMatch
  <2> HIDE DEF new
  <2>3. \A j \in Keys : /\ new[j] \in Finding \cup {Absent}
                        /\ new[j] # Absent <=> findings[j] # Absent
                        /\ new[j] # Absent => new[j].last_comparison <= c
    <3> TAKE j \in Keys
    <3>1. CASE new[j] = findings[j]
      BY <1>1, <3>1
    <3>2. CASE /\ findings[j] \in Finding /\ findings[j] # Absent
               /\ new[j] = [findings[j] EXCEPT !.status = "Resolved", !.last_seen = t]
      BY <1>1, <1>2, <3>2
    <3> QED BY <2>1, <3>1, <3>2
  <2>4. new \in [Keys -> Finding \cup {Absent}]
    BY <2>2, <2>3
  <2>5. Present(new) = Present(findings)
    BY <2>3 DEF Present
  <2> QED BY <2>3, <2>4, <2>5 DEF RegistryOK, new
<1>4. ASSUME findings[k] # Absent
      PROVE  /\ RegistryOK(Acknowledged(k, t), c)
             /\ Present(Acknowledged(k, t)) = Present(findings)
  <2>1. CASE findings[k].status # "Open"
    BY <2>1 DEF Acknowledged
  <2>2. CASE findings[k].status = "Open"
    <3> DEFINE new == Acknowledged(k, t)
    <3>1. new = [findings EXCEPT ![k].status = "Acknowledged", ![k].last_seen = t]
      BY <2>2 DEF Acknowledged
    <3>2. findings[k] \in Finding
      BY <1>1, <1>4
    <3>3. new = [findings EXCEPT ![k] = [findings[k] EXCEPT !.status = "Acknowledged",
                                                            !.last_seen = t]]
      <4> HIDE DEF new
      <4> QED BY <1>1, <3>1, <3>2 DEF Finding
    <3> HIDE DEF new
    <3>4. \A j \in Keys : j # k => new[j] = findings[j]
      BY <1>1, <3>3
    <3>5. new[k] = [findings[k] EXCEPT !.status = "Acknowledged", !.last_seen = t]
      BY <1>1, <3>3
    <3>6. new[k] \in Finding /\ new[k].last_comparison <= c /\ new[k] # Absent
      BY <1>1, <1>2, <1>4, <3>2, <3>5
    <3>7. new \in [Keys -> Finding \cup {Absent}]
      <4>1. [findings[k] EXCEPT !.status = "Acknowledged", !.last_seen = t] \in Finding
        BY <3>5, <3>6
      <4> QED BY <1>1, <3>3, <4>1
    <3>8. Present(new) = Present(findings)
      BY <1>4, <3>4, <3>6 DEF Present
    <3>9. \A j \in Keys : new[j] # Absent => new[j].last_comparison <= c
      BY <1>1, <3>4, <3>6
    <3> QED BY <3>7, <3>8, <3>9 DEF RegistryOK, new
  <2> QED BY <2>1, <2>2
<1> QED BY <1>3, <1>4

-----------------------------------------------------------------------------
\* The store.

\* The records the runtime writes up to the c-th comparison.
Entries(c) ==
    [type : {"Comparison"}, record : {r \in HistoryRecord : r.id <= c}]
    \cup [type : {"Finding"}, key : Keys, finding : {f \in Finding : f.last_comparison <= c}]

\* What an entry is, by its type.
LEMMA EntryFacts ==
    ASSUME NEW c \in Nat, NEW e \in Entries(c)
    PROVE  \/ /\ e.type = "Comparison" /\ e.record \in HistoryRecord
              /\ e.record.id \in Nat /\ e.record.id <= c
           \/ /\ e.type = "Finding" /\ e.key \in Keys /\ e.finding \in Finding
              /\ e.finding.last_comparison \in Nat /\ e.finding.last_comparison <= c
<1>1. CASE e \in [type : {"Comparison"}, record : {r \in HistoryRecord : r.id <= c}]
  BY <1>1 DEF HistoryRecord
<1>2. CASE e \in [type : {"Finding"}, key : Keys,
                 finding : {f \in Finding : f.last_comparison <= c}]
  BY <1>2 DEF Finding
<1> QED BY <1>1, <1>2 DEF Entries

\* Entries stay what they are as comparisons are made.
LEMMA EntriesGrow ==
    ASSUME NEW c \in Nat, NEW d \in Nat, c <= d
    PROVE  Entries(c) \subseteq Entries(d)
<1>1. {r \in HistoryRecord : r.id <= c} \subseteq {r \in HistoryRecord : r.id <= d}
  BY DEF HistoryRecord
<1>2. {f \in Finding : f.last_comparison <= c} \subseteq {f \in Finding : f.last_comparison <= d}
  BY DEF Finding
<1> QED BY <1>1, <1>2 DEF Entries

\* What a store holds: what ComparisonFirst says of the runtime's, and that is
\* bounded and of comparisons that have been made.
InOrder(l) ==
    \A i, j \in DOMAIN l :
        /\ l[i].type = "Finding"
        /\ l[j].type = "Comparison"
        /\ l[i].finding.last_comparison = l[j].record.id
        => j < i

LogOK(l, c) == l \in Seq(Entries(c)) /\ Len(l) <= MaxLog /\ InOrder(l)

\* Appends keep findings behind the comparisons they name, when only the first
\* appended record is a comparison and it is a new one.
LEMMA AppendedFacts ==
    ASSUME NEW c \in Nat, NEW d \in Nat, c <= d, LogOK(log, c),
           NEW es \in Seq(Entries(d)), Appended(es),
           \A i \in 1..Len(es) : es[i].type = "Comparison" => i = 1 /\ es[i].record.id > c
    PROVE  LogOK(log', d)
<1> DEFINE N == Len(log)
<1>1. PICK n \in 0..Len(es) : N + n <= MaxLog /\ log' = log \o SubSeq(es, 1, n)
  BY DEF Appended
<1>2. Entries(c) \subseteq Entries(d)
  BY EntriesGrow
<1>3. log \in Seq(Entries(c)) /\ log \in Seq(Entries(d)) /\ N \in Nat /\ n \in Nat
      /\ DOMAIN log = 1..N
  <2>1. log \in Seq(Entries(c))
    BY DEF LogOK
  <2> QED BY <1>2, <2>1, SeqMonotonic
<1> DEFINE tail == SubSeq(es, 1, n)
<1>4. tail \in Seq(Entries(d)) /\ Len(tail) = n /\ \A i \in 1..n : tail[i] = es[i]
  <2>1. \A i \in 1..n : es[i] \in Entries(d)
    OBVIOUS
  <2>2. 1 \in Int /\ n \in Int
    OBVIOUS
  <2>3. /\ tail \in Seq(Entries(d)) /\ Len(tail) = IF 1 <= n THEN n - 1 + 1 ELSE 0
        /\ \A i \in 1..(n - 1 + 1) : tail[i] = es[1 + i - 1]
    BY <2>1, <2>2, SubSeqProperties
  <2> HIDE DEF tail
  <2>4. Len(tail) = n /\ \A i \in 1..n : i \in 1..(n - 1 + 1) /\ 1 + i - 1 = i
    BY <1>3, <2>3
  <2> QED BY <2>3, <2>4
<1> HIDE DEF tail
<1>5. /\ log' \in Seq(Entries(d)) /\ Len(log') = N + n
      /\ \A i \in 1..(N + n) : log'[i] = IF i <= N THEN log[i] ELSE es[i - N]
  <2>1. log' = log \o tail
    BY <1>1 DEF tail
  <2>2. /\ log \o tail \in Seq(Entries(d)) /\ Len(log \o tail) = Len(log) + Len(tail)
        /\ \A i \in 1..(Len(log) + Len(tail)) :
               (log \o tail)[i] = IF i <= Len(log) THEN log[i] ELSE tail[i - Len(log)]
    BY <1>3, <1>4, ConcatProperties
  <2> HIDE DEF N
  <2>3. \A i \in 1..(N + n) : ~ (i <= N) => i - N \in 1..n
    BY <1>3
  <2> QED BY <1>4, <2>1, <2>2, <2>3 DEF N
<1>6. DOMAIN log' = 1..(N + n)
  BY <1>5
<1> HIDE DEF N
<1>7. ASSUME NEW i \in DOMAIN log', NEW j \in DOMAIN log',
             log'[i].type = "Finding", log'[j].type = "Comparison",
             log'[i].finding.last_comparison = log'[j].record.id
      PROVE  j < i
  <2>1. i \in 1..(N + n) /\ j \in 1..(N + n) /\ i \in Nat /\ j \in Nat
    BY <1>3, <1>6
  <2>2. CASE i <= N /\ j <= N
    <3>1. i \in DOMAIN log /\ j \in DOMAIN log /\ log'[i] = log[i] /\ log'[j] = log[j]
      BY <1>3, <1>5, <2>1, <2>2
    <3> QED BY <1>7, <3>1 DEF LogOK, InOrder
  <2>3. CASE ~ (i <= N) /\ j <= N
    BY <1>3, <2>1, <2>3
  <2>4. CASE i <= N /\ ~ (j <= N)
    <3>1. log'[i] = log[i] /\ log[i] \in Entries(c) /\ log'[j] = es[j - N] /\ j - N \in 1..n
      BY <1>3, <1>5, <2>1, <2>4
    <3>2. j - N \in 1..Len(es)
      BY <3>1
    <3>3. es[j - N].record.id > c
      BY <1>7, <3>1, <3>2
    <3>4. log[i].finding.last_comparison \in Nat /\ log[i].finding.last_comparison <= c
      BY <1>7, <3>1, EntryFacts
    <3> QED BY <1>7, <3>1, <3>3, <3>4
  <2>5. CASE ~ (i <= N) /\ ~ (j <= N)
    <3>1. log'[i] = es[i - N] /\ log'[j] = es[j - N] /\ i - N \in 1..n /\ j - N \in 1..n
      BY <1>3, <1>5, <2>1, <2>5
    <3>2. j - N \in 1..Len(es)
      BY <3>1
    <3>3. j - N = 1
      BY <1>7, <3>1, <3>2
    <3>4. i # j
      BY <1>7
    <3> QED BY <1>3, <2>1, <3>1, <3>3, <3>4
  <2> QED BY <2>2, <2>3, <2>4, <2>5
<1>8. InOrder(log')
  BY <1>7 DEF InOrder
<1>9. Len(log') <= MaxLog
  BY <1>1, <1>5 DEF N
<1> QED BY <1>5, <1>8, <1>9 DEF LogOK

\* The same store, later.
LEMMA LogStays ==
    ASSUME NEW c \in Nat, NEW d \in Nat, c <= d, LogOK(log, c), log' = log
    PROVE  LogOK(log', d)
<1>1. log \in Seq(Entries(c)) /\ Entries(c) \subseteq Entries(d)
  BY EntriesGrow DEF LogOK
<1>2. log' \in Seq(Entries(d))
  BY <1>1, SeqMonotonic
<1> QED BY <1>2 DEF LogOK, InOrder

-----------------------------------------------------------------------------
\* Restoring.

\* What a restoration may have built up at any point.
Restorable ==
    [ok : BOOLEAN,
     findings : {fs \in [Keys -> Finding \cup {Absent}] : RegistryOK(fs, made)},
     records : {rs \in Seq(HistoryRecord) : HistoryOK(rs)}]

\* One record more: it stays so, and loses no finding.
LEMMA RestoreEntryFacts ==
    ASSUME made \in Nat, NEW acc \in Restorable, NEW e \in Entries(made)
    PROVE  /\ RestoreEntry(acc, e) \in Restorable
           /\ \A k \in Keys : acc.findings[k] # Absent =>
                  RestoreEntry(acc, e).findings[k] # Absent
<1>1. /\ acc.ok \in BOOLEAN /\ RegistryOK(acc.findings, made) /\ HistoryOK(acc.records)
      /\ acc.findings \in [Keys -> Finding \cup {Absent}]
  BY DEF Restorable
<1>2. CASE ~ acc.ok
  BY <1>2 DEF RestoreEntry
<1>3. CASE acc.ok /\ e.type = "Comparison"
  <2> DEFINE rs == AppendTo(acc.records, e.record)
  <2>1. e.record \in HistoryRecord
    BY <1>3, EntryFacts
  <2>2. HistoryOK(rs)
    BY <1>1, <2>1, AppendToFacts DEF HistoryOK
  <2>3. RestoreEntry(acc, e) = [acc EXCEPT !.records = rs]
    BY <1>3 DEF RestoreEntry
  <2> HIDE DEF rs
  <2>4. rs \in {x \in Seq(HistoryRecord) : HistoryOK(x)}
    BY <2>2 DEF HistoryOK
  <2> QED BY <2>3, <2>4 DEF Restorable
<1>4. CASE acc.ok /\ e.type = "Finding"
  <2>1. e.key \in Keys /\ e.finding \in Finding /\ e.finding.last_comparison <= made
    BY <1>4, EntryFacts
  <2>2. CASE ~ Fits(acc.findings, e.key)
    <3>1. RestoreEntry(acc, e) = [acc EXCEPT !.ok = FALSE]
      BY <1>4, <2>2 DEF RestoreEntry
    <3> QED BY <3>1 DEF Restorable
  <2>3. CASE Fits(acc.findings, e.key)
    <3> DEFINE fs == RestoredOne(acc.findings, e.key, e.finding)
    <3>1. RestoreEntry(acc, e) = [acc EXCEPT !.findings = fs]
      BY <1>4, <2>3 DEF RestoreEntry
    <3>2. RegistryOK([acc.findings EXCEPT ![e.key] = e.finding], made)
      BY <1>1, <2>1, <2>3, SetFinding
    <3>3. RegistryOK(fs, made)
      BY <1>1, <3>2 DEF RestoredOne
    <3>4. e.finding # Absent
      BY <2>1, FindingAssumption
    <3>5. \A k \in Keys : acc.findings[k] # Absent => fs[k] # Absent
      BY <1>1, <2>1, <3>4 DEF RestoredOne
    <3> HIDE DEF fs
    <3>6. fs \in {x \in [Keys -> Finding \cup {Absent}] : RegistryOK(x, made)}
      BY <3>3 DEF RegistryOK
    <3> QED BY <3>1, <3>5, <3>6 DEF Restorable
  <2> QED BY <2>2, <2>3
<1> QED BY <1>2, <1>3, <1>4, EntryFacts

\* The restoration, record by record.
IsRestoration(run, fs, rs) ==
    /\ run[0] = [ok |-> TRUE, findings |-> fs, records |-> rs]
    /\ \A n \in 1..Len(log) : run[n] = RestoreEntry(run[n - 1], log[n])
    /\ \A n \in 0..Len(log) : run[n] \in Restorable
    /\ restore_from_store(fs, rs) = run[Len(log)]

\* There is such a run.
LEMMA RestorationRuns ==
    ASSUME made \in Nat, LogOK(log, made), NEW fs, RegistryOK(fs, made), NEW rs, HistoryOK(rs)
    PROVE  \E run : IsRestoration(run, fs, rs)
<1> DEFINE N == Len(log)
           base == [ok |-> TRUE, findings |-> fs, records |-> rs]
           step == [n \in 1..N |-> [x \in Restorable |-> RestoreEntry(x, log[n])]]
           Is(f) == f = [n \in 0..N |-> IF n = 0 THEN base ELSE RestoreEntry(f[n - 1], log[n])]
           run == CHOOSE f : Is(f)
<1>1. N \in Nat /\ \A n \in 1..N : log[n] \in Entries(made)
  BY DEF LogOK
<1>2. \A n \in 1..N : \A x \in Restorable : RestoreEntry(x, log[n]) \in Restorable
  BY <1>1, RestoreEntryFacts
<1>3. restore_from_store(fs, rs) = run[N]
  BY Zenon DEF restore_from_store, N, base
<1>4. base \in Restorable
  BY DEF Restorable, RegistryOK, HistoryOK
<1> HIDE DEF N, base
<1>5. /\ step \in [1..N -> [Restorable -> Restorable]]
      /\ \A n \in 1..N : \A x \in Restorable : step[n][x] = RestoreEntry(x, log[n])
  BY <1>2
<1> HIDE DEF step
<1>6. PICK f : IsRun(f, N, Restorable, base, step)
  BY <1>1, <1>4, <1>5, RunExists, Zenon
<1>7. f \in [0..N -> Restorable] /\ f[0] = base /\ \A n \in 1..N : f[n] = step[n][f[n - 1]]
  BY <1>6 DEF IsRun
<1>8. ASSUME NEW n \in 0..N
      PROVE  f[n] = IF n = 0 THEN base ELSE RestoreEntry(f[n - 1], log[n])
  <2>1. CASE n = 0
    BY <1>7, <2>1
  <2>2. CASE n # 0
    <3>1. n \in 1..N /\ n - 1 \in 0..N
      BY <1>1, <2>2
    <3>2. f[n - 1] \in Restorable
      BY <1>7, <3>1
    <3> QED BY <1>5, <1>7, <2>2, <3>1, <3>2
  <2> QED BY <2>1, <2>2
<1>9. Is(f)
  <2>1. f = [n \in 0..N |-> f[n]]
    BY <1>7
  <2> QED BY <1>8, <2>1
<1>10. Is(run)
  BY <1>9, Zenon
<1> HIDE DEF run
<1>11. run[0] = base /\ \A n \in 1..N : run[n] = RestoreEntry(run[n - 1], log[n])
  BY <1>1, <1>10
<1> DEFINE G == {n \in 0..N : run[n] \in Restorable}
<1>12. 0 \in G
  BY <1>1, <1>4, <1>11
<1>13. \A n \in 0..N : n \in G /\ n < N => n + 1 \in G
  <2> TAKE n \in 0..N
  <2> HAVE n \in G /\ n < N
  <2>1. n + 1 \in 1..N /\ n + 1 \in 0..N /\ (n + 1) - 1 = n
    BY <1>1
  <2>2. run[n + 1] = RestoreEntry(run[n], log[n + 1])
    BY <1>11, <2>1
  <2> QED BY <1>2, <2>1, <2>2
<1> HIDE DEF G
<1>14. 0..N \subseteq G
  BY <1>1, <1>12, <1>13, InductionUpTo
<1>15. \A n \in 0..N : run[n] \in Restorable
  BY <1>14 DEF G
<1> QED BY <1>3, <1>11, <1>15 DEF IsRestoration, N, base

\* A restoration on registries that are in order leaves them in order, and drops no
\* finding that was held.
LEMMA RestoredFacts ==
    ASSUME made \in Nat, LogOK(log, made), NEW fs, RegistryOK(fs, made), NEW rs, HistoryOK(rs)
    PROVE  /\ restore_from_store(fs, rs) \in Restorable
           /\ \A k \in Keys : fs[k] # Absent =>
                  restore_from_store(fs, rs).findings[k] # Absent
<1> DEFINE N == Len(log)
<1>1. PICK run : IsRestoration(run, fs, rs)
  BY RestorationRuns
<1>2. /\ run[0].findings = fs /\ restore_from_store(fs, rs) = run[N]
      /\ \A n \in 1..N : run[n] = RestoreEntry(run[n - 1], log[n])
      /\ \A n \in 0..N : run[n] \in Restorable
  BY <1>1 DEF IsRestoration
<1>3. N \in Nat /\ \A n \in 1..N : log[n] \in Entries(made)
  BY DEF LogOK
<1> HIDE DEF N
<1> DEFINE G == {n \in 0..N : \A k \in Keys : fs[k] # Absent => run[n].findings[k] # Absent}
<1>4. 0 \in G
  BY <1>2, <1>3
<1>5. \A n \in 0..N : n \in G /\ n < N => n + 1 \in G
  <2> TAKE n \in 0..N
  <2> HAVE n \in G /\ n < N
  <2>1. n + 1 \in 1..N /\ n + 1 \in 0..N /\ (n + 1) - 1 = n
    BY <1>3
  <2>2. run[n + 1] = RestoreEntry(run[n], log[n + 1]) /\ run[n] \in Restorable
        /\ log[n + 1] \in Entries(made)
    BY <1>2, <1>3, <2>1
  <2>3. \A k \in Keys : run[n].findings[k] # Absent => run[n + 1].findings[k] # Absent
    BY <2>2, RestoreEntryFacts
  <2> QED BY <2>1, <2>3
<1> HIDE DEF G
<1>6. 0..N \subseteq G
  BY <1>3, <1>4, <1>5, InductionUpTo
<1>7. N \in 0..N
  BY <1>3
<1>8. \A k \in Keys : fs[k] # Absent => run[N].findings[k] # Absent
  BY <1>6, <1>7 DEF G
<1> QED BY <1>2, <1>7, <1>8

-----------------------------------------------------------------------------
\* The inductive invariant: the registries and the store are in order, and what
\* they name are comparisons that have been made.
BookInv ==
    /\ RegistryOK(findings, made)
    /\ HistoryOK(records)
    /\ LogOK(log, made)
    /\ now \in 1..MaxTime
    /\ made \in 0..MaxCompared
    /\ phase \in {"running", "stopped", "failed"}

\* An empty registry and an empty history are in order.
LEMMA NothingHeld ==
    /\ \A c \in Nat : RegistryOK(NoFindings, c)
    /\ HistoryOK(<<>>)
<1>1. Present(NoFindings) = {}
  BY DEF Present, NoFindings
<1>2. IsFiniteSet({}) /\ Cardinality({}) <= MaxFindings
  BY FS_EmptySet, FindingAssumption
<1>3. NoFindings \in [Keys -> Finding \cup {Absent}] /\ \A k \in Keys : NoFindings[k] = Absent
  BY DEF NoFindings
<1>4. \A c \in Nat : RegistryOK(NoFindings, c)
  BY <1>1, <1>2, <1>3 DEF RegistryOK
<1>5. <<>> \in Seq(HistoryRecord) /\ Len(<<>>) = 0 /\ DOMAIN <<>> = {}
  OBVIOUS
<1>6. OverCap(<<>>) = {}
  BY <1>5 DEF OverCap
<1>7. Len(<<>>) <= MaxRecords
  BY <1>5, HistoryAssumption
<1> QED BY <1>4, <1>5, <1>6, <1>7 DEF HistoryOK

\* At first.
LEMMA BookInit == Init => BookInv
<1> SUFFICES ASSUME Init PROVE BookInv
  OBVIOUS
<1>1. RegistryOK(findings, made) /\ HistoryOK(records)
  BY NothingHeld DEF Init
<1>2. log \in Seq(Entries(made)) /\ Len(log) = 0 /\ DOMAIN log = {}
  BY DEF Init
<1>3. LogOK(log, made)
  BY <1>2, BookkeepingAssumption DEF LogOK, InOrder
<1>4. now \in 1..MaxTime /\ made \in 0..MaxCompared
  BY BookkeepingAssumption DEF Init
<1> QED BY <1>1, <1>3, <1>4 DEF Init, BookInv

\* The numbers of a state that is in order.
LEMMA BookNumbers == BookInv => made \in Nat /\ made + 1 \in Nat /\ made <= made + 1 /\ now \in Nat
<1>1. MaxTime \in Nat /\ MaxCompared \in Nat
  BY BookkeepingAssumption
<1> QED BY <1>1 DEF BookInv

\* The entries a comparison writes.
LEMMA NewEntries ==
    ASSUME BookInv, NEW k \in Keys
    PROVE  /\ Result(k) \in HistoryRecord /\ Result(k).id = made + 1
           /\ ComparisonEntry(Result(k)) \in Entries(made + 1)
           /\ \A f \in Finding : f.last_comparison = made + 1 =>
                  FindingEntry(k, f) \in Entries(made + 1)
<1>1. made \in Nat /\ made + 1 \in Nat /\ now \in Nat /\ k.subject \in Subjects
  BY BookNumbers, BookkeepingAssumption
<1>2. Result(k) \in HistoryRecord /\ Result(k).id = made + 1
  BY <1>1 DEF Result, HistoryRecord
<1>3. Result(k) \in {r \in HistoryRecord : r.id <= made + 1}
  BY <1>1, <1>2
<1>4. ComparisonEntry(Result(k)) \in Entries(made + 1)
  BY <1>3 DEF ComparisonEntry, Entries
<1>5. ASSUME NEW f \in Finding, f.last_comparison = made + 1
      PROVE  FindingEntry(k, f) \in Entries(made + 1)
  <2>1. f \in {g \in Finding : g.last_comparison <= made + 1}
    BY <1>1, <1>5
  <2> QED BY <2>1 DEF FindingEntry, Entries
<1> QED BY <1>2, <1>4, <1>5

\* compare_bucket() with a class: the registry and the store.
LEMMA WithClassKeeps ==
    ASSUME BookInv, NEW k \in Keys, WithClass(k)
    PROVE  RegistryOK(findings', made + 1) /\ LogOK(log', made + 1)
<1>1. made \in Nat /\ made + 1 \in Nat /\ made <= made + 1 /\ now \in Nat
  BY BookNumbers
<1>2. PICK fs \in Recorded(k, made + 1, now) :
          /\ findings' = fs
          /\ Appended(<<ComparisonEntry(Result(k)), FindingEntry(k, fs[k])>>)
  BY DEF WithClass
<1>3. RegistryOK(fs, made + 1) /\ fs[k] \in Finding /\ fs[k].last_comparison = made + 1
  BY <1>1, RecordedFacts DEF BookInv
<1> DEFINE a == ComparisonEntry(Result(k))
           b == FindingEntry(k, fs[k])
           es == <<a, b>>
<1>4. a \in Entries(made + 1) /\ b \in Entries(made + 1)
  BY <1>3, NewEntries
<1>5. a.record.id = made + 1 /\ b.type = "Finding"
  BY NewEntries DEF ComparisonEntry, FindingEntry
<1> HIDE DEF a, b
<1>6. es \in Seq(Entries(made + 1)) /\ Len(es) = 2 /\ es[1] = a /\ es[2] = b
  BY <1>4
<1>7. \A i \in 1..Len(es) : es[i].type = "Comparison" => i = 1 /\ es[i].record.id > made
  <2>1. \A i \in 1..2 : i = 1 \/ i = 2
    OBVIOUS
  <2> HIDE DEF es
  <2> QED BY <1>1, <1>5, <1>6, <2>1
<1>8. Appended(es)
  BY <1>2 DEF a, b
<1> HIDE DEF es
<1>9. LogOK(log', made + 1)
  BY <1>1, <1>6, <1>7, <1>8, AppendedFacts DEF BookInv
<1> QED BY <1>2, <1>3, <1>9

\* ... and without one.
LEMMA WithoutClassKeeps ==
    ASSUME BookInv, NEW k \in Keys, NEW outcome, WithoutClass(k, outcome)
    PROVE  RegistryOK(findings', made + 1) /\ LogOK(log', made + 1)
<1>1. made \in Nat /\ made + 1 \in Nat /\ made <= made + 1 /\ now \in Nat
  BY BookNumbers
<1> DEFINE a == ComparisonEntry(Result(k))
           es == <<a>>
<1>2. RegistryOK(findings', made)
  BY <1>1, SettledFacts DEF BookInv, WithoutClass
<1>3. RegistryOK(findings', made + 1)
  <2>1. \A f \in Finding : f.last_comparison <= made => f.last_comparison <= made + 1
    BY <1>1 DEF Finding
  <2> QED BY <1>2, <2>1 DEF RegistryOK
<1>4. a \in Entries(made + 1) /\ a.record.id = made + 1
  BY NewEntries DEF ComparisonEntry
<1>5. Appended(es)
  BY DEF WithoutClass
<1> HIDE DEF a
<1>6. es \in Seq(Entries(made + 1)) /\ Len(es) = 1 /\ es[1] = a
  BY <1>4
<1>7. \A i \in 1..Len(es) : es[i].type = "Comparison" => i = 1 /\ es[i].record.id > made
  <2>1. \A i \in 1..1 : i = 1
    OBVIOUS
  <2> HIDE DEF es
  <2> QED BY <1>1, <1>4, <1>6, <2>1
<1> HIDE DEF es
<1>8. LogOK(log', made + 1)
  BY <1>1, <1>5, <1>6, <1>7, AppendedFacts DEF BookInv
<1> QED BY <1>3, <1>8

\* compare_bucket().
LEMMA CompareKeeps ==
    ASSUME BookInv, NEW k \in Keys, NEW outcome, compare_bucket(k, outcome)
    PROVE  BookInv'
<1>1. made \in Nat /\ made + 1 \in Nat /\ made <= made + 1
  BY BookNumbers
<1>2. made' = made + 1 /\ made < MaxCompared /\ UNCHANGED <<now, phase>>
      /\ records' = AppendTo(records, Result(k))
  BY DEF compare_bucket
<1>3. HistoryOK(records')
  BY <1>2, NewEntries, AppendToFacts DEF BookInv, HistoryOK
<1>4. RegistryOK(findings', made + 1) /\ LogOK(log', made + 1)
  <2>1. CASE WithClass(k)
    BY <2>1, WithClassKeeps
  <2>2. CASE Refused(k)
    <3>1. findings' = findings /\ log' = log
      BY <2>2 DEF Refused
    <3>2. \A f \in Finding : f.last_comparison <= made => f.last_comparison <= made + 1
      BY <1>1 DEF Finding
    <3>3. RegistryOK(findings', made + 1)
      BY <3>1, <3>2 DEF RegistryOK, BookInv
    <3>4. LogOK(log', made + 1)
      BY <1>1, <3>1, LogStays DEF BookInv
    <3> QED BY <3>3, <3>4
  <2>3. CASE WithoutClass(k, outcome)
    BY <2>3, WithoutClassKeeps
  <2> QED BY <2>1, <2>2, <2>3 DEF compare_bucket
<1>5. made' \in 0..MaxCompared
  BY <1>1, <1>2, BookkeepingAssumption
<1> QED BY <1>2, <1>3, <1>4, <1>5 DEF BookInv

\* A finite set in some order.
LEMMA InSomeOrder ==
    ASSUME NEW S, IsFiniteSet(S)
    PROVE  /\ Cardinality(S) \in Nat
           /\ SetToSeq(S) \in [1..Cardinality(S) -> S]
<1>1. Cardinality(S) \in Nat /\ ExistsBijection(1..Cardinality(S), S)
  BY FS_CardinalityType
<1>2. \E f \in [1..Cardinality(S) -> S] : IsInjective(f)
  BY <1>1, Zenon DEF ExistsBijection, Bijection, Injection
<1>3. SetToSeq(S) \in [1..Cardinality(S) -> S]
  BY <1>2, Zenon DEF SetToSeq
<1> QED BY <1>1, <1>3

\* flush() writes findings that are held, and no comparison.
LEMMA FlushKeeps == ASSUME BookInv, flush PROVE BookInv'
<1> DEFINE P == Present(findings)
           all == SetToSeq(P)
           n == Cardinality(P)
           es == [i \in DOMAIN all |-> FindingEntry(all[i], findings[all[i]])]
<1>1. made \in Nat
  BY BookNumbers
<1>2. IsFiniteSet(P) /\ findings \in [Keys -> Finding \cup {Absent}]
      /\ \A k \in Keys : findings[k] # Absent => findings[k].last_comparison <= made
  BY DEF BookInv, RegistryOK
<1>3. ASSUME NEW k \in P PROVE FindingEntry(k, findings[k]) \in Entries(made)
  <2>1. k \in Keys /\ findings[k] \in {f \in Finding : f.last_comparison <= made}
    BY <1>2 DEF Present
  <2> QED BY <2>1 DEF FindingEntry, Entries
<1>4. n \in Nat /\ all \in [1..n -> P]
  <2> HIDE DEF P
  <2> QED BY <1>2, InSomeOrder
<1>5. Appended(es) /\ UNCHANGED <<findings, records, now, made, phase>>
  BY DEF flush
<1> HIDE DEF P, all, n
<1>6. DOMAIN es = 1..n /\ \A i \in 1..n : es[i] = FindingEntry(all[i], findings[all[i]])
                                        /\ all[i] \in P
  BY <1>4
<1>7. es \in [1..n -> Entries(made)]
  BY <1>3, <1>4
<1> HIDE DEF es
<1>8. es \in Seq(Entries(made)) /\ Len(es) = n
  BY <1>4, <1>7
<1>9. \A i \in 1..Len(es) : es[i].type # "Comparison"
  BY <1>6, <1>8 DEF FindingEntry
<1>10. LogOK(log', made)
  <2>1. made <= made
    BY <1>1
  <2> QED BY <1>1, <1>5, <1>8, <1>9, <2>1, AppendedFacts DEF BookInv
<1> QED BY <1>5, <1>10 DEF BookInv

\* prune() keeps the bounds.
LEMMA PruneKeeps == ASSUME BookInv, prune_history PROVE BookInv'
<1>1. records' = Pruned(now) /\ UNCHANGED <<findings, log, now, made, phase>>
  BY DEF prune_history
<1>2. records \in Seq(HistoryRecord) /\ Len(records) <= MaxRecords /\ OverCap(records) = {}
      /\ now \in Nat /\ MaxRecords \in Nat
  BY BookNumbers, HistoryAssumption DEF BookInv, HistoryOK
<1>3. PICK m \in 1..(Len(records) + 1) : Pruned(now) = SubSeq(records, m, Len(records))
  BY <1>2, PrunedFacts
<1>4. records' \in Seq(HistoryRecord) /\ Len(records') = Len(records) - m + 1
      /\ OverCap(records') = {}
  BY <1>1, <1>2, <1>3, SuffixFacts, SuffixWithinCap
<1>5. Len(records) \in Nat
  BY <1>2
<1>6. Len(records') <= MaxRecords
  BY <1>2, <1>3, <1>4, <1>5
<1> QED BY <1>1, <1>4, <1>6 DEF BookInv, HistoryOK

\* start() on registries that are in order.
LEMMA StartKeeps ==
    ASSUME BookInv, NEW fs, RegistryOK(fs, made), NEW rs, HistoryOK(rs), start(fs, rs)
    PROVE  BookInv'
<1> DEFINE new == restore_from_store(fs, rs)
<1>1. /\ UNCHANGED <<log, now, made>> /\ findings' = new.findings /\ records' = new.records
      /\ phase' = IF new.ok THEN "running" ELSE "failed"
  BY DEF start
<1>2. new \in Restorable
  BY BookNumbers, RestoredFacts DEF BookInv
<1> HIDE DEF new
<1>3. RegistryOK(findings', made) /\ HistoryOK(records')
  BY <1>1, <1>2 DEF Restorable
<1> QED BY <1>1, <1>3 DEF BookInv

\* Every step keeps the invariant.
LEMMA BookStep == BookInv /\ [Next]_vars => BookInv'
<1> SUFFICES ASSUME BookInv, [Next]_vars PROVE BookInv'
  OBVIOUS
<1>1. made \in Nat /\ now \in Nat
  BY BookNumbers
<1>2. ASSUME NEW k \in Keys, NEW outcome, compare_bucket(k, outcome) PROVE BookInv'
  BY <1>2, CompareKeeps
<1>3. ASSUME NEW k \in Keys, acknowledge_finding(k) PROVE BookInv'
  <2>1. RegistryOK(findings', made)
    BY <1>1, <1>3, SettledFacts DEF BookInv, acknowledge_finding
  <2> QED BY <1>3, <2>1 DEF BookInv, acknowledge_finding
<1>4. CASE prune_history
  BY <1>4, PruneKeeps
<1>5. CASE flush
  BY <1>5, FlushKeeps
<1>6. ASSUME NEW t \in 1..MaxTime, SetClock(t) PROVE BookInv'
  BY <1>6 DEF SetClock, BookInv
<1>7. CASE stop \/ UNCHANGED vars
  BY <1>7 DEF stop, vars, BookInv
<1>8. CASE StartNewProcess
  BY <1>1, <1>8, NothingHeld, StartKeeps DEF StartNewProcess
<1>9. CASE StartAgain
  BY <1>9, StartKeeps DEF StartAgain, BookInv
<1> QED BY <1>2, <1>3, <1>4, <1>5, <1>6, <1>7, <1>8, <1>9 DEF Next

\* It is an invariant.
LEMMA BookInvariant == Spec => []BookInv
<1> QED BY BookInit, BookStep, PTL DEF Spec

-----------------------------------------------------------------------------
\* Results.

\* For any subjects, keys and limits: neither the registry of findings, nor the
\* history, nor the share of a group or of a path in it exceeds its bound, after
\* any comparisons, evictions, crashes and repeated restores.
THEOREM RegistriesAreBounded == Spec => []WithinBounds
<1>1. BookInv => TypeOK
  <2> SUFFICES ASSUME BookInv PROVE TypeOK
    OBVIOUS
  <2>1. made \in Nat
    BY BookNumbers
  <2>2. ASSUME NEW i \in DOMAIN log
        PROVE  \/ log[i].type = "Comparison" /\ log[i].record \in HistoryRecord
               \/ log[i].type = "Finding" /\ log[i].finding \in Finding
    <3>1. log[i] \in Entries(made)
      BY <2>2 DEF BookInv, LogOK
    <3> QED BY <2>1, <3>1, EntryFacts
  <2> QED BY <2>2 DEF TypeOK, BookInv, RegistryOK, HistoryOK, LogOK
<1>2. ASSUME BookInv, NEW name, name # None
      PROVE  \A f \in {"group", "path"} :
                 Cardinality({i \in DOMAIN records : records[i].subject[f] = name})
                     <= MaxPerSubject
  <2>1. /\ Cardinality({i \in DOMAIN records : records[i].subject.group = name})
               <= MaxPerSubject
        /\ Cardinality({i \in DOMAIN records : records[i].subject.path = name})
               <= MaxPerSubject
    BY <1>2, SharesBounded DEF BookInv
  <2> QED BY <2>1
<1>3. BookInv => WithinBounds
  BY <1>1, <1>2 DEF WithinBounds, BookInv, RegistryOK, HistoryOK
<1> QED BY <1>3, BookInvariant, PTL

\* No state of the store, so no crash and no failed append, has a finding before
\* the comparison that it names.
THEOREM ComparisonsComeFirst == Spec => []ComparisonFirst
<1>1. BookInv => ComparisonFirst
  BY DEF BookInv, LogOK, InOrder, ComparisonFirst
<1> QED BY <1>1, BookInvariant, PTL

\* No call but the start of a new process makes the runtime forget an open finding.
THEOREM OpenFindingsAreKept == Spec => OpenIsKept
<1>1. ASSUME BookInv, [Next]_vars, NEW k \in Keys, IsOpen(findings[k]), findings'[k] = Absent
      PROVE  StartNewProcess
  <2>1. made \in Nat /\ now \in Nat /\ RegistryOK(findings, made) /\ findings[k] # Absent
    BY <1>1, BookNumbers DEF BookInv, IsOpen
  <2>2. ASSUME Present(findings') = Present(findings) PROVE FALSE
    BY <1>1, <2>1, <2>2 DEF Present
  <2>3. ASSUME NEW j \in Keys, NEW outcome, compare_bucket(j, outcome) PROVE FALSE
    <3>1. CASE WithClass(j)
      BY <1>1, <2>1, <3>1, RecordedFacts DEF WithClass
    <3>2. CASE Refused(j)
      BY <2>2, <3>2 DEF Refused
    <3>3. CASE WithoutClass(j, outcome)
      BY <2>1, <2>2, <3>3, SettledFacts DEF WithoutClass
    <3> QED BY <2>3, <3>1, <3>2, <3>3 DEF compare_bucket
  <2>4. ASSUME NEW j \in Keys, acknowledge_finding(j) PROVE FALSE
    BY <2>1, <2>2, <2>4, SettledFacts DEF acknowledge_finding
  <2>5. CASE \/ prune_history \/ flush \/ stop \/ UNCHANGED vars
             \/ \E t \in 1..MaxTime : SetClock(t)
    <3>1. findings' = findings
      BY <2>5 DEF prune_history, flush, stop, vars, SetClock
    <3> QED BY <2>2, <3>1
  <2>6. CASE StartAgain
    <3>1. findings' = restore_from_store(findings, records).findings
      BY <2>6 DEF StartAgain, start
    <3>2. restore_from_store(findings, records).findings[k] # Absent
      BY <1>1, <2>1, RestoredFacts DEF BookInv
    <3> QED BY <1>1, <3>1, <3>2
  <2> QED BY <1>1, <2>3, <2>4, <2>5, <2>6 DEF Next
<1>2. BookInv /\ [Next]_vars =>
          [(\E k \in Keys : IsOpen(findings[k]) /\ findings'[k] = Absent)
               => StartNewProcess]_vars
  BY <1>1
<1> QED BY <1>2, BookInvariant, PTL DEF Spec, OpenIsKept

-----------------------------------------------------------------------------
\* What a new process finds.

\* What the first n records of the store say of a finding.
StoredUpTo(k, n) ==
    {log[i].finding : i \in {j \in 1..n : log[j].type = "Finding" /\ log[j].key = k}}

\* The order in which restore() prefers records of one finding.
NoNewer(f, g) ==
    \/ f.last_seen < g.last_seen
    \/ f.last_seen = g.last_seen /\ f.occurrences <= g.occurrences

\* A registry that has the newest of them.
HasNewest(fs, k, n) ==
    IF StoredUpTo(k, n) = {} THEN fs[k] = Absent
    ELSE fs[k] \in StoredUpTo(k, n) /\ \A f \in StoredUpTo(k, n) : NoNewer(f, fs[k])

\* That order is the one of finder_keeps_newest(): total and transitive.
LEMMA NoNewerFacts ==
    ASSUME NEW f \in Finding, NEW g \in Finding
    PROVE  /\ ~ KeepsNewest(g, f) => NoNewer(f, g)
           /\ KeepsNewest(g, f) => NoNewer(g, f)
           /\ NoNewer(f, f)
           /\ \A h \in Finding : NoNewer(f, g) /\ NoNewer(g, h) => NoNewer(f, h)
<1>1. \A h \in Finding : h.last_seen \in Nat /\ h.occurrences \in Nat
  BY DEF Finding
<1> QED BY <1>1 DEF NoNewer, KeepsNewest

\* One record of the store more.
LEMMA NewestOneMore ==
    ASSUME made \in Nat, LogOK(log, made), NEW n \in 0..Len(log), n < Len(log),
           NEW acc \in Restorable, NEW k \in Keys, HasNewest(acc.findings, k, n),
           RestoreEntry(acc, log[n + 1]).ok
    PROVE  HasNewest(RestoreEntry(acc, log[n + 1]).findings, k, n + 1)
<1> DEFINE e == log[n + 1]
           new == RestoreEntry(acc, e)
           old == acc.findings
<1>1. n \in Nat /\ n + 1 \in 1..Len(log) /\ \A i \in 1..(n + 1) : i = n + 1 \/ i \in 1..n
  BY DEF LogOK
<1>2. \A i \in 1..Len(log) : log[i] \in Entries(made)
  BY DEF LogOK
<1>3. e \in Entries(made)
  BY <1>1, <1>2
<1>4. old \in [Keys -> Finding \cup {Absent}]
  BY DEF Restorable
<1>5. StoredUpTo(k, n) \subseteq Finding
  <2> SUFFICES ASSUME NEW i \in 1..n, log[i].type = "Finding" PROVE log[i].finding \in Finding
    BY DEF StoredUpTo
  <2>1. log[i] \in Entries(made)
    <3>1. i \in 1..Len(log)
      BY <1>1 DEF LogOK
    <3> QED BY <1>2, <3>1
  <2> QED BY <2>1, EntryFacts
<1>6. StoredUpTo(k, n + 1) = StoredUpTo(k, n) \cup
          (IF e.type = "Finding" /\ e.key = k THEN {e.finding} ELSE {})
  <2>1. n + 1 \in 1..(n + 1) /\ \A i \in 1..n : i \in 1..(n + 1)
    BY <1>1
  <2>2. CASE e.type = "Finding" /\ e.key = k
    BY <1>1, <2>1, <2>2 DEF StoredUpTo
  <2>3. CASE ~ (e.type = "Finding" /\ e.key = k)
    BY <1>1, <2>1, <2>3 DEF StoredUpTo
  <2> QED BY <2>2, <2>3
<1>7. new.ok
  OBVIOUS
<1>8. HasNewest(old, k, n)
  OBVIOUS
<1> HIDE DEF e
<1>9. acc.ok
  BY <1>7 DEF RestoreEntry
<1>10. CASE e.type = "Comparison"
  <2>1. new.findings = old
    BY <1>9, <1>10 DEF RestoreEntry, Restorable
  <2>2. StoredUpTo(k, n + 1) = StoredUpTo(k, n)
    BY <1>6, <1>10
  <2> QED BY <1>8, <2>1, <2>2 DEF HasNewest, e
<1>11. CASE e.type = "Finding"
  <2>1. e.key \in Keys /\ e.finding \in Finding
    BY <1>3, <1>11, EntryFacts
  <2>2. Fits(old, e.key)
    <3>1. CASE ~ Fits(old, e.key)
      <4>1. new = [acc EXCEPT !.ok = FALSE]
        BY <1>9, <1>11, <3>1 DEF RestoreEntry
      <4>2. ~ new.ok
        BY <4>1 DEF Restorable
      <4> QED BY <1>7, <4>2
    <3> QED BY <3>1
  <2>3. new.findings = RestoredOne(old, e.key, e.finding)
    BY <1>9, <1>11, <2>2 DEF RestoreEntry, Restorable
  <2> HIDE DEF new, old
  <2>4. CASE e.key # k
    <3>1. new.findings[k] = old[k]
      BY <1>4, <2>1, <2>3, <2>4 DEF RestoredOne
    <3>2. StoredUpTo(k, n + 1) = StoredUpTo(k, n)
      BY <1>6, <2>4
    <3> QED BY <1>8, <3>1, <3>2 DEF HasNewest, e, new
  <2>5. CASE e.key = k
    <3> DEFINE g == e.finding
               T == StoredUpTo(k, n)
    <3>1. StoredUpTo(k, n + 1) = T \cup {g}
      BY <1>6, <1>11, <2>5
    <3>2. new.findings[k] = IF old[k] = Absent \/ KeepsNewest(old[k], g) THEN g ELSE old[k]
      BY <1>4, <2>1, <2>3, <2>5 DEF RestoredOne
    <3>3. IF T = {} THEN old[k] = Absent
          ELSE old[k] \in T /\ \A f \in T : NoNewer(f, old[k])
      BY <1>8 DEF HasNewest
    <3>4. Absent \notin T /\ T \subseteq Finding
      BY <1>5, FindingAssumption
    <3>5. g \in Finding
      BY <2>1
    <3> HIDE DEF T, g
    <3>6. /\ new.findings[k] \in T \cup {g}
          /\ \A f \in T \cup {g} : NoNewer(f, new.findings[k])
      <4>1. CASE old[k] = Absent
        <5>1. T = {} /\ new.findings[k] = g
          BY <3>2, <3>3, <3>4, <4>1
        <5> QED BY <3>5, <5>1, NoNewerFacts
      <4>2. CASE old[k] # Absent /\ KeepsNewest(old[k], g)
        <5>1. old[k] \in T /\ old[k] \in Finding /\ new.findings[k] = g
              /\ \A f \in T : NoNewer(f, old[k])
          BY <3>2, <3>3, <3>4, <4>2
        <5>2. NoNewer(old[k], g) /\ NoNewer(g, g)
          BY <3>5, <4>2, <5>1, NoNewerFacts
        <5>3. \A f \in T : NoNewer(f, g)
          BY <3>4, <3>5, <5>1, <5>2, NoNewerFacts
        <5> QED BY <5>1, <5>2, <5>3
      <4>3. CASE old[k] # Absent /\ ~ KeepsNewest(old[k], g)
        <5>1. old[k] \in T /\ old[k] \in Finding /\ new.findings[k] = old[k]
              /\ \A f \in T : NoNewer(f, old[k])
          BY <3>2, <3>3, <3>4, <4>3
        <5>2. NoNewer(g, old[k])
          BY <3>5, <4>3, <5>1, NoNewerFacts
        <5> QED BY <5>1, <5>2
      <4> QED BY <4>1, <4>2, <4>3
    <3>7. T \cup {g} # {}
      OBVIOUS
    <3> QED BY <3>1, <3>6, <3>7 DEF HasNewest, e, new
  <2> QED BY <2>4, <2>5
<1> QED BY <1>3, <1>10, <1>11, EntryFacts

\* So a restoration from nothing that succeeds has the newest record of every
\* finding that the store names.
LEMMA RestoredNewest ==
    ASSUME BookInv, restore_from_store(NoFindings, <<>>).ok, NEW k \in Keys
    PROVE  HasNewest(restore_from_store(NoFindings, <<>>).findings, k, Len(log))
<1> DEFINE N == Len(log)
<1>1. made \in Nat /\ LogOK(log, made)
  BY BookNumbers DEF BookInv
<1>2. RegistryOK(NoFindings, made) /\ HistoryOK(<<>>)
  BY <1>1, NothingHeld
<1>3. PICK run : IsRestoration(run, NoFindings, <<>>)
  BY <1>1, <1>2, RestorationRuns
<1>4. /\ run[0].findings = NoFindings /\ restore_from_store(NoFindings, <<>>) = run[N]
      /\ \A n \in 1..N : run[n] = RestoreEntry(run[n - 1], log[n])
      /\ \A n \in 0..N : run[n] \in Restorable
  BY <1>3 DEF IsRestoration
<1>5. N \in Nat
  BY <1>1 DEF LogOK
<1> DEFINE G == {n \in 0..N : run[n].ok => HasNewest(run[n].findings, k, n)}
<1>6. 0 \in G
  <2>1. 1..0 = {}
    OBVIOUS
  <2>2. StoredUpTo(k, 0) = {}
    BY <2>1 DEF StoredUpTo
  <2>3. HasNewest(NoFindings, k, 0)
    BY <2>2 DEF HasNewest, NoFindings
  <2> HIDE DEF N
  <2> QED BY <1>4, <1>5, <2>3
<1>7. \A n \in 0..N : n \in G /\ n < N => n + 1 \in G
  <2> TAKE n \in 0..N
  <2> HAVE n \in G /\ n < N
  <2>1. n + 1 \in 1..N /\ n + 1 \in 0..N /\ (n + 1) - 1 = n
    BY <1>5
  <2>2. run[n + 1] = RestoreEntry(run[n], log[n + 1]) /\ run[n] \in Restorable
    BY <1>4, <2>1
  <2>3. ASSUME run[n + 1].ok PROVE HasNewest(run[n + 1].findings, k, n + 1)
    <3>1. run[n].ok
      BY <2>2, <2>3 DEF RestoreEntry
    <3>2. HasNewest(run[n].findings, k, n)
      BY <3>1
    <3> QED BY <1>1, <2>2, <2>3, <3>2, NewestOneMore
  <2> QED BY <2>1, <2>3
<1> HIDE DEF G, N
<1>8. 0..N \subseteq G
  BY <1>5, <1>6, <1>7, InductionUpTo
<1>9. N \in 0..N
  BY <1>5
<1>10. run[N].ok => HasNewest(run[N].findings, k, N)
  BY <1>8, <1>9 DEF G
<1> QED BY <1>4, <1>10 DEF N

\* A new process that starts holds exactly the findings that the store names, each
\* as its newest record says, whatever was flushed, how often, and however the
\* clock was set.
THEOREM RestoresTheNewest == Spec => RestoredIsNewest
<1>1. ASSUME BookInv, StartNewProcess, phase' = "running", NEW k \in Keys
      PROVE  IF StoredAs(k) = {} THEN findings'[k] = Absent
             ELSE /\ findings'[k] \in StoredAs(k)
                  /\ \A f \in StoredAs(k) :
                         \/ f.last_seen < findings'[k].last_seen
                         \/ /\ f.last_seen = findings'[k].last_seen
                            /\ f.occurrences <= findings'[k].occurrences
  <2> DEFINE new == restore_from_store(NoFindings, <<>>)
  <2>1. findings' = new.findings /\ phase' = IF new.ok THEN "running" ELSE "failed"
    BY <1>1 DEF StartNewProcess, start
  <2>2. new.ok
    BY <1>1, <2>1
  <2>3. HasNewest(new.findings, k, Len(log))
    BY <1>1, <2>2, RestoredNewest
  <2>4. StoredAs(k) = StoredUpTo(k, Len(log))
    <3>1. DOMAIN log = 1..Len(log)
      BY <1>1 DEF BookInv, LogOK
    <3> QED BY <3>1 DEF StoredAs, StoredUpTo
  <2> HIDE DEF new
  <2> QED BY <2>1, <2>3, <2>4 DEF HasNewest, NoNewer
<1>2. BookInv /\ [Next]_vars =>
         [StartNewProcess /\ phase' = "running" =>
           \A k \in Keys :
               IF StoredAs(k) = {} THEN findings'[k] = Absent
               ELSE /\ findings'[k] \in StoredAs(k)
                    /\ \A f \in StoredAs(k) :
                           \/ f.last_seen < findings'[k].last_seen
                           \/ /\ f.last_seen = findings'[k].last_seen
                              /\ f.occurrences <= findings'[k].occurrences]_vars
  BY <1>1
<1> QED BY <1>2, BookInvariant, PTL DEF Spec, RestoredIsNewest

-----------------------------------------------------------------------------
\* The comparison just made.

\* No subject is a group and a path at once.  The runtime compares groups only.
OneName == \A s \in Subjects : s.group = None \/ s.path = None

\* Then sharing a subject is having the same one, so of the records that share
\* with the most the newest of all is never the first.
LEMMA NewestIsNotWorst ==
    ASSUME OneName, NEW s \in Seq(HistoryRecord), OverCap(s) # {}
    PROVE  Worst(s) \in 1..Len(s) /\ Worst(s) < Len(s)
<1> DEFINE n == Len(s)
           w == Worst(s)
           A(i) == {j \in DOMAIN s : same_subject(s[j].subject, s[i].subject)}
<1>1. n \in Nat /\ DOMAIN s = 1..n
  OBVIOUS
<1>2. /\ w \in OverCap(s)
      /\ \A j \in OverCap(s) : \/ Sharing(s, j) < Sharing(s, w)
                               \/ Sharing(s, j) = Sharing(s, w) /\ w <= j
  BY WorstFacts
<1>3. w \in 1..n /\ Sharing(s, w) > MaxPerSubject
  BY <1>2 DEF OverCap
<1>4. Sharing(s, w) \in Nat /\ MaxPerSubject \in Nat /\ MaxPerSubject >= 1
  <2>1. Sharing(s, w) \in 0..n
    BY SharingFacts
  <2> HIDE DEF w, n
  <2> QED BY <1>1, <2>1, HistoryAssumption
<1> HIDE DEF w
<1>5. ASSUME w = n PROVE FALSE
  <2>1. Sharing(s, n) = Cardinality(A(n)) /\ Sharing(s, n) > 1
    BY <1>3, <1>4, <1>5 DEF Sharing
  <2>2. PICK j \in A(n) : j # n
    <3>1. CASE A(n) \subseteq {n}
      <4>1. Cardinality({n}) = 1 /\ IsFiniteSet({n})
        BY FS_Singleton
      <4>2. Cardinality(A(n)) <= 1
        <5> DEFINE B == A(n)
        <5>1. B \in SUBSET {n}
          BY <3>1
        <5> HIDE DEF B
        <5>2. Cardinality(B) <= Cardinality({n})
          BY <4>1, <5>1, FS_Subset
        <5> QED BY <4>1, <5>2 DEF B
      <4> QED BY <1>4, <1>5, <2>1, <4>2
    <3> QED BY <3>1
  <2>3. j \in 1..n /\ same_subject(s[j].subject, s[n].subject) /\ n \in 1..n
    BY <1>1, <1>3, <1>5, <2>2
  <2>4. \A i \in 1..n : s[i].subject \in Subjects
    <3>1. \A i \in 1..n : s[i] \in HistoryRecord
      OBVIOUS
    <3> HIDE DEF n
    <3> QED BY <3>1 DEF HistoryRecord
  <2>5. \A x \in Subjects :
            same_subject(x, s[j].subject) <=> same_subject(x, s[n].subject)
    BY <2>3, <2>4 DEF OneName, same_subject
  <2>6. A(j) = A(n)
    BY <1>1, <2>4, <2>5
  <2>7. Sharing(s, j) = Sharing(s, n)
    BY <2>6 DEF Sharing
  <2>8. j \in OverCap(s)
    BY <1>1, <1>3, <1>5, <2>3, <2>7 DEF OverCap
  <2>9. Sharing(s, j) = Sharing(s, w) /\ w <= j
    BY <1>2, <1>4, <1>5, <2>7, <2>8
  <2> QED BY <1>1, <1>5, <2>2, <2>3, <2>9
<1> QED BY <1>1, <1>3, <1>5 DEF w

\* A sequence that ends with a record.
EndsWith(s, r) == s \in Seq(HistoryRecord) /\ Len(s) >= 1 /\ s[Len(s)] = r

\* So append() keeps the record that it is given.
LEMMA AppendToKeeps ==
    ASSUME OneName, NEW s \in Seq(HistoryRecord), NEW r \in HistoryRecord
    PROVE  EndsWith(AppendTo(s, r), r)
<1> DEFINE a == Append(s, r)
           N == Len(a)
<1>1. a \in Seq(HistoryRecord) /\ EndsWith(a, r) /\ N \in Nat
  BY DEF EndsWith
<1>2. ASSUME NEW t, EndsWith(t, r) PROVE EndsWith(EvictOne(t), r)
  <2>1. t \in Seq(HistoryRecord) /\ Len(t) \in Nat /\ Len(t) >= 1 /\ t[Len(t)] = r
    BY <1>2 DEF EndsWith
  <2>2. CASE OverCap(t) = {}
    BY <1>2, <2>2 DEF EvictOne
  <2>3. CASE OverCap(t) # {}
    <3>1. Worst(t) \in 1..Len(t) /\ Worst(t) < Len(t) /\ EvictOne(t) = RemoveAt(t, Worst(t))
      BY <2>1, <2>3, NewestIsNotWorst DEF EvictOne
    <3>2. /\ EvictOne(t) \in Seq(HistoryRecord) /\ Len(EvictOne(t)) = Len(t) - 1
          /\ EvictOne(t)[Len(t) - 1] = t[Len(t)]
      BY <2>1, <3>1, RemoveFacts
    <3>3. Len(EvictOne(t)) >= 1
      BY <2>1, <3>1, <3>2
    <3> QED BY <2>1, <3>2, <3>3 DEF EndsWith
  <2> QED BY <2>2, <2>3
<1> HIDE DEF a
<1>3. PICK run : IsEviction(run, a)
  BY <1>1, EvictionRuns
<1>4. /\ run[0] = a /\ EvictRounds(a) = run[N]
      /\ \A n \in 1..N : run[n] = EvictOne(run[n - 1])
  BY <1>3 DEF IsEviction
<1> HIDE DEF N
<1> DEFINE G == {n \in 0..N : EndsWith(run[n], r)}
<1>5. 0 \in G
  BY <1>1, <1>4
<1>6. \A n \in 0..N : n \in G /\ n < N => n + 1 \in G
  <2> TAKE n \in 0..N
  <2> HAVE n \in G /\ n < N
  <2>1. n + 1 \in 1..N /\ n + 1 \in 0..N /\ (n + 1) - 1 = n
    BY <1>1
  <2>2. run[n + 1] = EvictOne(run[n])
    BY <1>4, <2>1
  <2> QED BY <1>2, <2>1, <2>2
<1> HIDE DEF G
<1>7. 0..N \subseteq G
  BY <1>1, <1>5, <1>6, InductionUpTo
<1>8. EndsWith(run[N], r)
  <2>1. N \in 0..N
    BY <1>1
  <2> QED BY <1>7, <2>1 DEF G
<1> DEFINE t == run[N]
           n == Len(t)
           m == 1 + (IF n > MaxRecords THEN n - MaxRecords ELSE 0)
           u == SubSeq(t, m, n)
<1>9. AppendTo(s, r) = u
  BY <1>4 DEF AppendTo, KeepNewest, a
<1> HIDE DEF t
<1>10. t \in Seq(HistoryRecord) /\ n \in Nat /\ n >= 1 /\ t[n] = r
       /\ MaxRecords \in Nat /\ MaxRecords >= 1
  BY <1>8, HistoryAssumption DEF EndsWith, t
<1>11. m \in 1..(n + 1) /\ m \in 1..n
  BY <1>10
<1> HIDE DEF m
<1>12. u \in Seq(HistoryRecord) /\ Len(u) = n - m + 1 /\ \A i \in 1..Len(u) : u[i] = t[m + i - 1]
  BY <1>10, <1>11, SuffixFacts
<1> HIDE DEF u, n
<1>13. Len(u) \in 1..Len(u) /\ m + Len(u) - 1 = n /\ Len(u) >= 1
  BY <1>10, <1>11, <1>12
<1>14. u[Len(u)] = r
  BY <1>10, <1>12, <1>13
<1> QED BY <1>9, <1>12, <1>13, <1>14 DEF EndsWith

\* When no subject is a group and a path at once, as in the runtime, the comparison
\* just made is the last record of the history, whatever its bounds.
THEOREM JustComparedIsKept == OneName => (Spec => JustComparedIsHeld)
<1> SUFFICES ASSUME OneName PROVE Spec => JustComparedIsHeld
  OBVIOUS
<1>1. ASSUME BookInv, [Next]_vars, made' # made
      PROVE  records' # <<>> /\ Last(records').id = made'
  <2>1. PICK k \in Keys : \E outcome : compare_bucket(k, outcome)
    BY <1>1 DEF Next, vars, acknowledge_finding, prune_history, flush, SetClock, stop,
                StartNewProcess, StartAgain, start
  <2>2. records' = AppendTo(records, Result(k)) /\ made' = made + 1
    BY <2>1 DEF compare_bucket
  <2>3. records \in Seq(HistoryRecord) /\ Result(k) \in HistoryRecord
        /\ Result(k).id = made + 1
    BY <1>1, NewEntries DEF BookInv, HistoryOK
  <2>4. EndsWith(records', Result(k))
    BY <2>2, <2>3, AppendToKeeps
  <2>5. records' # <<>>
    BY <2>4 DEF EndsWith
  <2> QED BY <2>2, <2>3, <2>4, <2>5 DEF EndsWith, Last
<1>2. BookInv /\ [Next]_vars =>
          [made' # made => records' # <<>> /\ Last(records').id = made']_vars
  BY <1>1
<1> QED BY <1>2, BookInvariant, PTL DEF Spec, JustComparedIsHeld

-----------------------------------------------------------------------------
\* Queries.

\* The loop of query(), record by record.
IsSelection(run, s, q, t) ==
    /\ run[0] = <<>>
    /\ \A n \in 1..Len(s) :
           run[n] = IF Passes(s[n], q, t) THEN Append(run[n - 1], s[n]) ELSE run[n - 1]
    /\ Selected(s, q, t) = run[Len(s)]

\* There is such a run.
LEMMA SelectionRuns ==
    ASSUME NEW s \in Seq(HistoryRecord), NEW q, NEW t
    PROVE  \E run : IsSelection(run, s, q, t)
<1> DEFINE N == Len(s)
           X == Seq(HistoryRecord)
           Take(x, n) == IF Passes(s[n], q, t) THEN Append(x, s[n]) ELSE x
           step == [n \in 1..N |-> [x \in X |-> Take(x, n)]]
           Is(f) == f = [n \in 0..N |-> IF n = 0 THEN <<>>
                                        ELSE IF Passes(s[n], q, t) THEN Append(f[n - 1], s[n])
                                        ELSE f[n - 1]]
           run == CHOOSE f : Is(f)
<1>1. N \in Nat /\ <<>> \in X
  OBVIOUS
<1>2. \A n \in 1..N : \A x \in X : Take(x, n) \in X
  OBVIOUS
<1>3. Selected(s, q, t) = run[N]
  BY Zenon DEF Selected, N
<1> HIDE DEF N, X
<1>4. /\ step \in [1..N -> [X -> X]]
      /\ \A n \in 1..N : \A x \in X : step[n][x] = Take(x, n)
  <2> HIDE DEF Take
  <2> QED BY <1>2
<1> HIDE DEF step
<1>5. PICK f : IsRun(f, N, X, <<>>, step)
  BY <1>1, <1>4, RunExists, Zenon
<1>6. f \in [0..N -> X] /\ f[0] = <<>> /\ \A n \in 1..N : f[n] = step[n][f[n - 1]]
  BY <1>5 DEF IsRun
<1>7. ASSUME NEW n \in 0..N PROVE f[n] = IF n = 0 THEN <<>> ELSE Take(f[n - 1], n)
  <2> HIDE DEF Take
  <2>1. CASE n = 0
    BY <1>6, <2>1
  <2>2. CASE n # 0
    <3>1. n \in 1..N /\ n - 1 \in 0..N
      BY <1>1, <2>2
    <3>2. f[n - 1] \in X
      BY <1>6, <3>1
    <3> QED BY <1>4, <1>6, <2>2, <3>1, <3>2
  <2> QED BY <2>1, <2>2
<1>8. Is(f)
  <2>1. f = [n \in 0..N |-> f[n]]
    BY <1>6
  <2> QED BY <1>7, <2>1
<1>9. Is(run)
  BY <1>8, Zenon
<1> HIDE DEF run
<1>10. /\ run[0] = <<>>
       /\ \A n \in 1..N : run[n] = IF Passes(s[n], q, t) THEN Append(run[n - 1], s[n])
                                   ELSE run[n - 1]
  <2>1. \A n \in 0..N : run[n] = IF n = 0 THEN <<>>
                                 ELSE IF Passes(s[n], q, t) THEN Append(run[n - 1], s[n])
                                 ELSE run[n - 1]
    BY <1>9, Zenon
  <2>2. 0 \in 0..N /\ \A n \in 1..N : n \in 0..N /\ n # 0
    BY <1>1
  <2> QED BY <2>1, <2>2, Zenon
<1> QED BY <1>3, <1>10 DEF IsSelection, N

\* Records in front that a query does not select make no difference to it.
LEMMA SameSelection ==
    ASSUME NEW s \in Seq(HistoryRecord), NEW m \in 1..(Len(s) + 1), NEW q, NEW t,
           \A i \in 1..(m - 1) : ~ Passes(s[i], q, t)
    PROVE  Selected(SubSeq(s, m, Len(s)), q, t) = Selected(s, q, t)
<1> DEFINE n == Len(s)
           u == SubSeq(s, m, n)
           k == m - 1
<1>1. /\ u \in Seq(HistoryRecord) /\ Len(u) = n - m + 1
      /\ \A i \in 1..Len(u) : u[i] = s[m + i - 1]
  BY SuffixFacts
<1>2. n \in Nat
  OBVIOUS
<1> HIDE DEF u
<1>3. PICK f : IsSelection(f, s, q, t)
  BY SelectionRuns
<1>4. PICK g : IsSelection(g, u, q, t)
  BY <1>1, SelectionRuns
<1>5. /\ f[0] = <<>> /\ Selected(s, q, t) = f[n]
      /\ \A i \in 1..n :
             f[i] = IF Passes(s[i], q, t) THEN Append(f[i - 1], s[i]) ELSE f[i - 1]
  BY <1>3 DEF IsSelection
<1>6. /\ g[0] = <<>> /\ Selected(u, q, t) = g[Len(u)]
      /\ \A i \in 1..Len(u) :
             g[i] = IF Passes(u[i], q, t) THEN Append(g[i - 1], u[i]) ELSE g[i - 1]
  BY <1>4 DEF IsSelection
<1>7. k \in Nat /\ k <= n /\ Len(u) = n - k /\ \A i \in 1..Len(u) : u[i] = s[k + i]
  <2>1. k \in Nat /\ k <= n /\ Len(u) = n - k /\ \A i \in 1..Len(u) : m + i - 1 = k + i
    BY <1>1, <1>2
  <2> QED BY <1>1, <2>1
<1>8. \A i \in 1..k : ~ Passes(s[i], q, t)
  OBVIOUS
<1> HIDE DEF n, k
<1> DEFINE F == {i \in 0..k : f[i] = <<>>}
<1>9. f[k] = <<>>
  <2>1. 0 \in F
    BY <1>5, <1>7
  <2>2. \A i \in 0..k : i \in F /\ i < k => i + 1 \in F
    <3> TAKE i \in 0..k
    <3> HAVE i \in F /\ i < k
    <3>1. i + 1 \in 1..k /\ i + 1 \in 1..n /\ i + 1 \in 0..k /\ (i + 1) - 1 = i
      BY <1>2, <1>7
    <3>2. f[i + 1] = f[i]
      BY <1>5, <1>8, <3>1
    <3> QED BY <3>1, <3>2
  <2> HIDE DEF F
  <2>3. 0..k \subseteq F
    BY <1>7, <2>1, <2>2, InductionUpTo
  <2>4. k \in 0..k
    BY <1>7
  <2> QED BY <2>3, <2>4 DEF F
<1> DEFINE L == Len(u)
           G == {i \in 0..L : g[i] = f[k + i]}
<1>10. L \in Nat /\ k + 0 = k /\ k + L = n
  BY <1>2, <1>7
<1>11. 0 \in G
  BY <1>6, <1>9, <1>10
<1>12. \A i \in 0..L : i \in G /\ i < L => i + 1 \in G
  <2> TAKE i \in 0..L
  <2> HAVE i \in G /\ i < L
  <2>1. i + 1 \in 1..L /\ i + 1 \in 0..L /\ (i + 1) - 1 = i
        /\ k + (i + 1) \in 1..n /\ (k + (i + 1)) - 1 = k + i
    BY <1>2, <1>7, <1>10
  <2>2. u[i + 1] = s[k + (i + 1)]
    BY <1>7, <2>1
  <2>3. g[i + 1] = f[k + (i + 1)]
    BY <1>5, <1>6, <2>1, <2>2
  <2> QED BY <2>1, <2>3
<1> HIDE DEF G, L
<1>13. 0..L \subseteq G
  BY <1>10, <1>11, <1>12, InductionUpTo
<1>14. g[L] = f[k + L]
  <2>1. L \in 0..L
    BY <1>10
  <2> QED BY <1>13, <2>1 DEF G
<1> QED BY <1>5, <1>6, <1>10, <1>14 DEF u, L, n

\* prune() is invisible to every query that applies the window: for any history,
\* window, limit and reading of the clock the answer is the same before and after.
THEOREM PruningIsInvisible == Spec => PruneIsInvisible
<1>1. ASSUME BookInv, prune_history, NEW q
      PROVE  query(records', q, now) = query(records, q, now)
  <2>1. records' = Pruned(now) /\ records \in Seq(HistoryRecord) /\ now \in Nat
    BY <1>1, BookNumbers DEF prune_history, BookInv, HistoryOK
  <2>2. PICK m \in 1..(Len(records) + 1) :
            /\ Pruned(now) = SubSeq(records, m, Len(records))
            /\ \A i \in 1..(m - 1) : Expired(records[i], now)
    BY <2>1, PrunedFacts
  <2>3. \A i \in 1..(m - 1) : ~ Passes(records[i], q, now)
    BY <2>2 DEF Passes
  <2>4. Selected(SubSeq(records, m, Len(records)), q, now) = Selected(records, q, now)
    BY <2>1, <2>3, SameSelection
  <2>5. Selected(records', q, now) = Selected(records, q, now)
    BY <2>1, <2>2, <2>4
  <2> QED BY <2>5, Zenon DEF query
<1>2. BookInv /\ [Next]_vars =>
          [prune_history => \A q \in Queries :
               query(records', q, now) = query(records, q, now)]_vars
  BY <1>1
<1> QED BY <1>2, BookInvariant, PTL DEF Spec, PruneIsInvisible
=============================================================================
