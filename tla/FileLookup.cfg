CONSTANTS
    f1 = f1
    f2 = f2
    k1 = k1
    k2 = k2
    e1 = e1
    e2 = e2
    NoKey = NoKey
    NoEnt = NoEnt
    NoFile = NoFile
    Files = {f1, f2}
    Keys = {k1, k2}
    Ents = {e1, e2}
    Top = f1
    MasterTop = f1
    Versions <- MCIncludeAll
    MasterContent <- MCMasterSelfInclude
    MaxIncludeDepth = 1
    NegativeTimeout = 2
    MaxTime = 4
    IncludeActions <- MCNoActions
    Ghost = TRUE
    Indirect = TRUE

SPECIFICATION Spec
INVARIANT TypeOK
PROPERTY ReadMapMatchesReference
INVARIANT ReadMasterMatchesReference
