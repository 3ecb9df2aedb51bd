SPECIFICATION Spec
CONSTANTS
    Subjects <- RuntimeSubjects
    Keys <- RuntimeKeys
    None = None
    Absent = Absent
    MaxFindings = 1
    MaxRecords = 2
    MaxPerSubject = 1
    MaxExport = 1
    Window = 0
    MaxLog = 2
    MaxTime = 2
    MaxCompared = 3
INVARIANTS
    WithinBounds
    
PROPERTIES
    OpenIsKept
    RestoredIsNewest
    JustComparedIsHeld
    
