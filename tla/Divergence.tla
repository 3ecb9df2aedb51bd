----------------------------- MODULE Divergence -----------------------------
(***************************************************************************)
(* The classes a comparison can report and the precedence among them:      *)
(* src/src/divergence.cpp.                                                 *)
(***************************************************************************)
EXTENDS Naturals, Sequences

\* kDescriptors, by ascending precedence.  No two classes share one, so the
\* order is all that select_primary() sees of the numbers.
Descriptors ==
    <<"EpochFenced", "EpochAhead", "IncarnationFenced", "SourceSequenceReplay",
      "RevisionFenced", "RevisionAhead", "RouteGenerationMismatch",
      "TopologyGenerationMismatch", "AuthorityInsufficient",
      "EvidenceUnsupported", "EvidenceExpired", "EvidenceStale",
      "EvidenceConflicting", "EvidenceIncomplete", "EvidenceAmbiguous",
      "EvidenceUnknown", "ObservationGap", "LinkUnresolved",
      "PathUnknownToPlan", "HopMissing", "HopUnexpected", "HopOrderViolation",
      "DeviceMismatch", "PortMismatch", "LinkMismatch">>

DivergenceClass == {Descriptors[i] : i \in DOMAIN Descriptors}

\* The classes that report an observed departure from the plan.
Structural ==
    {"PathUnknownToPlan", "HopMissing", "HopUnexpected", "HopOrderViolation",
     "DeviceMismatch", "PortMismatch", "LinkMismatch"}

precedence_of(class) == CHOOSE i \in DOMAIN Descriptors : Descriptors[i] = class

select_primary(classes) ==
    IF classes = {} THEN "None"
    ELSE CHOOSE c \in classes :
             \A d \in classes : precedence_of(c) <= precedence_of(d)
=============================================================================
