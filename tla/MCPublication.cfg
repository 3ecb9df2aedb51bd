SPECIFICATION Spec
CONSTANTS
    Sources = {s1}
    TopologyIds = {t1, t2}
    RouteIds = {r1, r2}
    Incarnations = {a, b}
    MaxEpoch = 2
    MaxRevision = 2
    None = None
SYMMETRY IdSymmetry
PROPERTIES
    FencesHold
    NewEpochSuspendsRoutes
