SPECIFICATION Spec
CONSTANTS
    None = None
    a = a
    b = b
    c = c
    d = d
    l1 = l1
    l2 = l2
    l3 = l3
    observer = observer
    stranger = stranger
    Plan <- MCPlan
    Limits <- MCLimits
    Topologies <- MCTopologies
    Sources <- MCSources
    Subjects <- MCSubjects
    Policy <- MCPolicy
    Evidence <- MCClaims
    MaxEvidence = 2
    MaxTime = 1
    MaxRevision = 1
    MaxEpoch = 1
INVARIANTS
    OrderIndependent
