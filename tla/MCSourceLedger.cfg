SPECIFICATION LedgerSpec
CONSTANTS
    Sources = {s1}
    Incarnations = {a, b}
    NoIncarnation = NoIncarnation
    MaxSequence = 5
SYMMETRY LedgerSymmetry
INVARIANTS
    MissingIsExact
    FlagAgrees
PROPERTY
    AcceptedInOrder
