----------------------------- MODULE Freshness -----------------------------
(***************************************************************************)
(* How old evidence is judged to be: src/src/freshness.cpp.  Times are     *)
(* natural numbers; 0 is a time that was never set.                        *)
(***************************************************************************)
EXTENDS Integers

freshness_severity ==
    [Fresh |-> 0, Unknown |-> 1, Stale |-> 2, Expired |-> 3, Future |-> 4]

FreshnessState == DOMAIN freshness_severity

worse_of(a, b) ==
    IF freshness_severity[a] >= freshness_severity[b] THEN a ELSE b

\* FreshnessPolicy::validate()
ValidFreshnessPolicy(policy) ==
    /\ policy.evidence_max_age \in Nat
    /\ policy.evidence_expiry \in Nat
    /\ policy.clock_skew_tolerance \in Nat
    /\ policy.max_observation_latency \in Nat
    /\ policy.evidence_max_age <= policy.evidence_expiry

\* Mutant: the first comparison is turned round.
ClassifyTurned(age, max_age, expiry) ==
    IF age >= max_age THEN "Fresh" ELSE IF age <= expiry THEN "Stale" ELSE "Expired"

classify_age(age, max_age, expiry) ==
    IF age <= max_age THEN "Fresh" ELSE IF age <= expiry THEN "Stale" ELSE "Expired"

\* The age alone: a receive time ahead of the clock counts as no age as long as
\* the clocks may differ by so much.
AgeState(received_at, now, policy) ==
    IF received_at > now + policy.clock_skew_tolerance THEN "Future"
    ELSE IF received_at > now THEN "Fresh"
    ELSE classify_age(now - received_at, policy.evidence_max_age,
                      policy.evidence_expiry)

\* The source's own clock can only make the verdict worse.
SkewState(observed_at, received_at, policy) ==
    IF observed_at = 0 THEN "Fresh"
    ELSE IF observed_at - received_at > policy.clock_skew_tolerance THEN "Future"
    ELSE IF received_at - observed_at > policy.max_observation_latency THEN "Unknown"
    ELSE "Fresh"

\* A receive time in the future is final; otherwise the worse verdict counts,
\* and no verdict is worse than Future.
assess_evidence(e, now, policy) ==
    IF now = 0 \/ e.received_at = 0 THEN "Unknown"
    ELSE worse_of(AgeState(e.received_at, now, policy),
                  SkewState(e.observed_at, e.received_at, policy))
=============================================================================
