\* Safety of the lifecycle with every path enabled: thread-creation
\* failure, a relisted entry, all three fanned-out signals.
CONSTANTS
    p1 = p1
    p2 = p2
    NoOwner = NoOwner
    Paths = {p1, p2}
    MasterMaps <- MCRelistMaps
    SigBudget <- MCAllSignals
    MaxEnvPipe = 1
    CreateFails = TRUE
SPECIFICATION Spec
INVARIANT TypeOK
CHECK_DEADLOCK FALSE
