\* A re-read that lists a registered entry again.
CONSTANTS
    p1 = p1
    p2 = p2
    NoOwner = NoOwner
    Paths = {p1, p2}
    MasterMaps <- MCRelistMaps
    SigBudget <- MCTermOnly
    MaxEnvPipe = 1
    CreateFails = FALSE
SPECIFICATION Spec
PROPERTY SignalHandlingCompletes
CHECK_DEADLOCK FALSE
