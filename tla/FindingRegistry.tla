-------------------------- MODULE FindingRegistry --------------------------
(***************************************************************************)
(* The registry of findings: src/src/finding.cpp.  Its calls are operators *)
(* on the registry that Bookkeeping makes under the runtime's mutex.       *)
(*                                                                         *)
(* A finding is identified by a digest of its class, subject, generations, *)
(* evidence and hops; here its key is the subject and generation that the  *)
(* code compares, and a variant that stands for the rest.                  *)
(***************************************************************************)
EXTENDS Subject, Naturals, FiniteSets

CONSTANTS Keys,         \* finding identities: subject, generation and variant
          MaxFindings,  \* limits.max_findings
          Absent        \* no finding with this key

Finding == [status : {"Open", "Acknowledged", "Resolved"},
            occurrences : Nat, last_seen : Nat, last_comparison : Nat]

ASSUME FindingAssumption ==
    /\ \A k \in Keys : k.generation \in Nat
    /\ MaxFindings \in Nat
    /\ Absent \notin Finding

VARIABLE findings  \* findings_

Present(fs) == {k \in Keys : fs[k] # Absent}
IsOpen(f) == f # Absent /\ f.status # "Resolved"
Full(fs) == Cardinality(Present(fs)) >= MaxFindings

-----------------------------------------------------------------------------
\* record() of comparison c with a primary class, at time t: the registries it
\* may leave.  Of a known finding it is another occurrence, and a resolved one
\* opens again.
Again(k, c, t) ==
    [findings EXCEPT ![k] =
        [status |-> IF @.status = "Resolved" THEN "Open" ELSE @.status,
         occurrences |-> @.occurrences + 1, last_seen |-> t,
         last_comparison |-> c]]

Fresh(c, t) ==
    [status |-> "Open", occurrences |-> 1, last_seen |-> t, last_comparison |-> c]

\* A full registry gives up the resolved finding seen least recently; a tie is
\* broken by identity, which is opaque here.
\* (AnyVictims is a mutant: whatever its status.)
AnyVictims ==
    {k \in Present(findings) : \A j \in Present(findings) :
         findings[k].last_seen <= findings[j].last_seen}

Victims ==
    LET resolved == {k \in Present(findings) : findings[k].status = "Resolved"}
    IN  {k \in resolved : \A j \in resolved :
             findings[k].last_seen <= findings[j].last_seen}

\* No registry at all when it is full of open findings: CapacityExceeded.
\* (RecordedOneMore is a mutant: the registry takes one finding more.)
RecordedOneMore(k, c, t) ==
    IF findings[k] # Absent THEN {Again(k, c, t)}
    ELSE IF Cardinality(Present(findings)) <= MaxFindings
         THEN {[findings EXCEPT ![k] = Fresh(c, t)]}
    ELSE {[findings EXCEPT ![v] = Absent, ![k] = Fresh(c, t)] : v \in Victims}

Recorded(k, c, t) ==
    IF findings[k] # Absent THEN {Again(k, c, t)}
    ELSE IF ~ Full(findings) THEN {[findings EXCEPT ![k] = Fresh(c, t)]}
    ELSE {[findings EXCEPT ![v] = Absent, ![k] = Fresh(c, t)] : v \in Victims}

\* resolve_from_match() of a match on subject and generation of k.
Resolves(k, f) ==
    /\ IsOpen(findings[f])
    /\ same_subject(f.subject, k.subject)
    /\ f.generation <= k.generation

ResolvedFromMatch(k, outcome, t) ==
    [f \in Keys |->
        IF outcome = "Match" /\ Resolves(k, f)
        THEN [findings[f] EXCEPT !.status = "Resolved", !.last_seen = t]
        ELSE findings[f]]

Acknowledged(k, t) ==
    IF findings[k].status = "Open"
    THEN [findings EXCEPT ![k].status = "Acknowledged", ![k].last_seen = t]
    ELSE findings

-----------------------------------------------------------------------------
\* restore(): finder_keeps_newest() decides between two records of a finding.
\* Mutant: the older record wins.
KeepsOldest(existing, candidate) == candidate.last_seen < existing.last_seen

KeepsNewest(existing, candidate) ==
    \/ candidate.last_seen > existing.last_seen
    \/ /\ candidate.last_seen = existing.last_seen
       /\ candidate.occurrences > existing.occurrences

\* A record of a finding that is not held does not fit into a full registry.
Fits(fs, k) == fs[k] # Absent \/ ~ Full(fs)

RestoredOne(fs, k, finding) ==
    IF fs[k] = Absent \/ KeepsNewest(fs[k], finding)
    THEN [fs EXCEPT ![k] = finding] ELSE fs
=============================================================================
