\* SIGUSR1 reaching an entry that is not READY fails the assertion.
CONSTANTS
    p1 = p1
    p2 = p2
    NoOwner = NoOwner
    Paths = {p1, p2}
    MasterMaps <- MCDisjointMaps
    SigBudget <- MCUsr1Only
    MaxEnvPipe = 1
    CreateFails = FALSE
SPECIFICATION Spec
INVARIANT NoAssertionFailure
CHECK_DEADLOCK FALSE
