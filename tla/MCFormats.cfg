SPECIFICATION Spec
CHECK_DEADLOCK FALSE
CONSTANTS
    None = None
    Unset = Unset
    Refused = Refused
    Undefined = Undefined
    ZeroDigest = ZeroDigest
    Garbage = Garbage
    d1 = d1
    d2 = d2
    Limits <- MCLimits
    Stored <- MCStored
    Trees <- MCTrees
    Texts <- MCTexts
    Bytes <- MCBytes
    Bounds <- MCBounds
    Years <- MCYears
    OtherText = "pathobs.topology_generatioX"
    MaxName = 28
    MaxNote = 28
    NanosPerMilli = 10
    MaxAgeMillis = 2
    IndexRange = 8
    MaxBatch = 2
INVARIANTS
    StoredReadsBack
    DamageIsSeen
    
    CalendarIsExact
    JsonIsExact
