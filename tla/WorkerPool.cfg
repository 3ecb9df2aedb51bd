SPECIFICATION FairSpec
CONSTANTS
    Tasks = {t1, t2, t3}
    Spinners = {t1}
    NumThreads = 2
    MaxQueue = 2
    CancelArgs = {TRUE}
    NoTask = NoTask
INVARIANTS
    ActiveCountsHolders
    TaskHasOneOwner
    NothingLost
PROPERTIES
    ShutdownReturns
    AcceptedTaskFinishes
