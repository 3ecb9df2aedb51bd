SPECIFICATION Spec
CONSTANTS
    None = None
    a = a
    b = b
    c = c
    d = d
    l1 = l1
    l2 = l2
    l3 = l3
    observer = observer
    stranger = stranger
    Plan <- MCPlan
    Limits <- MCLimits
    Topologies <- MCTopologies
    Sources <- MCSources
    Subjects <- MCSubjects
    Policy <- MCPolicy
    Evidence <- MCEvidence
    MaxEvidence = 2
    MaxTime = 4
    MaxRevision = 2
    MaxEpoch = 2
INVARIANTS
    MatchIsSound
    DivergenceIsProved
    OrderShowsByClaimOnly
PROPERTIES
    ClockOnlyAges
