\* Progress of signal handling and of shutdown, for master maps that never
\* list a registered entry again and a pthread_create that succeeds.
CONSTANTS
    p1 = p1
    p2 = p2
    NoOwner = NoOwner
    Paths = {p1, p2}
    MasterMaps <- MCDisjointMaps
    SigBudget <- MCSigBudget
    MaxEnvPipe = 1
    CreateFails = FALSE
SPECIFICATION Spec
PROPERTY ShutdownReachesWorker
PROPERTY SignalHandlingCompletes
CHECK_DEADLOCK FALSE
