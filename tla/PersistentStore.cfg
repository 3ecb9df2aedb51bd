SPECIFICATION Spec
CONSTANTS
    Records = {r1, r2, r3}
    MaxRecords = 2
    MaxGeneration = 6
    Torn = Torn
INVARIANTS
    AckedSurvive
    HeaderSurvives
    ReopensWithinBound
    HeaderTellsSessions
PROPERTY
    IsDurableLog
CHECK_DEADLOCK FALSE
