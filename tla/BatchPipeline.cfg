SPECIFICATION FairPipelineSpec
CONSTANTS
    Tasks = {t1, t2, t3}
    Spinners = {}
    NumThreads = 1
    MaxQueue = 4
    CancelArgs = {FALSE}
    NoTask = NoTask
    Clients = {c1, c2}
    MaxPending = 1
    Orders = {"pending first"}
    MaxGenerations = 2
    NoPool = NoPool
INVARIANTS
    
    PendingBounded
    StoppedIsQuiet

    
CHECK_DEADLOCK FALSE
