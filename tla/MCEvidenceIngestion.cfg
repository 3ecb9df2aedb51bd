SPECIFICATION Spec
CONSTANTS
    s = s
    a = a
    b = b
    None = None
    Limits <- MCLimits
    Plans <- MCPlans
    Descriptors <- MCDescriptors
    Evidence <- MCEvidence
    MaxBucket = 2
    MaxLog = 4
INVARIANTS
    HeldIsLogged
    RequestsAreSound
