\* master_read_master's extra unlocks release a lock a worker holds.
CONSTANTS
    p1 = p1
    p2 = p2
    NoOwner = NoOwner
    Paths = {p1, p2}
    MasterMaps <- MCDisjointMaps
    SigBudget <- MCTermOnly
    MaxEnvPipe = 1
    CreateFails = FALSE
SPECIFICATION Spec
INVARIANT MasterMutexExclusive
CHECK_DEADLOCK FALSE
