---------------------------- MODULE NaturalFacts ----------------------------
(***************************************************************************)
(* Least elements and induction for sets of natural numbers, stated about  *)
(* sets so that they can be cited without an operator as parameter.        *)
(***************************************************************************)
EXTENDS Naturals, WellFoundedInduction, TLAPS

\* Every inhabited set of natural numbers has a least element.
LEMMA LeastNat ==
    ASSUME NEW T \in SUBSET Nat, T # {}
    PROVE  \E n \in T : \A m \in T : n <= m
<1> DEFINE R == {p \in Nat \X Nat : p[1] < p[2]}
<1>1. IsWellFoundedOn(R, Nat)
  BY NatLessThanWellFounded, Zenon DEF OpToRel
<1>2. \A x, y \in Nat : <<y, x>> \in R <=> y < x
  OBVIOUS
<1> HIDE DEF R
<1>3. PICK x \in T : \A y \in T : ~ (<<y, x>> \in R)
  BY WFMin, <1>1, Zenon
<1>4. \A y \in T : x <= y
  <2> TAKE y \in T
  <2>1. x \in Nat /\ y \in Nat
    OBVIOUS
  <2>2. ~ (<<y, x>> \in R)
    BY <1>3
  <2>3. ~ (y < x)
    BY <1>2, <2>1, <2>2, Zenon
  <2> QED BY <2>1, <2>3
<1> QED BY <1>4

\* A set of natural numbers that holds 0 and the successor of each of its members
\* below a bound holds every number up to the bound.
LEMMA InductionUpTo ==
    ASSUME NEW N \in Nat, NEW S, 0 \in S,
           \A n \in 0..N : n \in S /\ n < N => n + 1 \in S
    PROVE  0..N \subseteq S
<1> DEFINE T == (0..N) \ S
<1> SUFFICES ASSUME T # {} PROVE FALSE
  OBVIOUS
<1>0. T \in SUBSET Nat /\ T = (0..N) \ S
  OBVIOUS
<1> HIDE DEF T
<1>1. PICK n \in T : \A m \in T : n <= m
  BY <1>0, LeastNat
<1>2. n \in 1..N /\ n - 1 \in 0..N /\ n - 1 < N /\ (n - 1) + 1 = n
  BY <1>0, <1>1
<1>3. n - 1 \in S
  BY <1>0, <1>1, <1>2
<1> QED
  BY <1>0, <1>1, <1>2, <1>3

\* A run of N steps from a first state, as a function from the number of steps
\* taken to the state reached.
IsRun(f, N, X, base, step) ==
    /\ f \in [0..N -> X]
    /\ f[0] = base
    /\ \A n \in 1..N : f[n] = step[n][f[n - 1]]

\* When each step stays in a set of states, there is a run.
LEMMA RunExists ==
    ASSUME NEW N \in Nat, NEW X, NEW base \in X, NEW step \in [1..N -> [X -> X]]
    PROVE  \E f : IsRun(f, N, X, base, step)
<1> DEFINE Runs(m) == {f \in [0..m -> X] :
                         f[0] = base /\ \A n \in 1..m : f[n] = step[n][f[n - 1]]}
           S == {m \in 0..N : Runs(m) # {}}
<1>1. 0 \in S
  <2>1. [n \in 0..0 |-> base] \in Runs(0)
    OBVIOUS
  <2> QED BY <2>1
<1>2. \A m \in 0..N : m \in S /\ m < N => m + 1 \in S
  <2> SUFFICES ASSUME NEW m \in 0..N, m \in S, m < N PROVE m + 1 \in S
    OBVIOUS
  <2>1. PICK f \in [0..m -> X] :
            f[0] = base /\ \A n \in 1..m : f[n] = step[n][f[n - 1]]
    OBVIOUS
  <2> DEFINE x == step[m + 1][f[m]]
             h == [n \in 0..(m + 1) |-> IF n = m + 1 THEN x ELSE f[n]]
  <2>2. m + 1 \in 1..N /\ m \in 0..m
    OBVIOUS
  <2>3. x \in X
    BY <2>1, <2>2
  <2>4. h \in [0..(m + 1) -> X]
    <3>1. \A n \in 0..(m + 1) : n # m + 1 => n \in 0..m
      OBVIOUS
    <3> HIDE DEF x
    <3> QED BY <2>1, <2>3, <3>1
  <2>5. h[0] = base
    BY <2>1, <2>2
  <2>6. ASSUME NEW n \in 1..(m + 1) PROVE h[n] = step[n][h[n - 1]]
    <3>1. n - 1 \in 0..m /\ n - 1 # m + 1
      BY <2>2
    <3>2. h[n - 1] = f[n - 1]
      BY <2>2, <3>1
    <3>3. CASE n = m + 1
      BY <3>2, <3>3
    <3>4. CASE n # m + 1
      <4>1. n \in 1..m /\ n \in 0..(m + 1)
        BY <2>2, <3>4
      <4>2. h[n] = f[n]
        BY <3>4, <4>1
      <4> QED BY <2>1, <3>2, <4>1, <4>2
    <3> QED BY <3>3, <3>4
  <2> HIDE DEF h
  <2>7. h \in Runs(m + 1)
    BY <2>4, <2>5, <2>6
  <2>8. m + 1 \in 0..N
    BY <2>2
  <2> HIDE DEF Runs
  <2> QED BY <2>7, <2>8
<1> HIDE DEF S
<1>3. 0..N \subseteq S
  BY <1>1, <1>2, InductionUpTo
<1>4. Runs(N) # {}
  BY <1>3 DEF S
<1> QED BY <1>4 DEF IsRun
=============================================================================
