CONSTANTS
    k1 = k1
    k2 = k2
    k3 = k3
    kw = kw
    kp = kp
    Star = kw
    PlusKeys = {kp}
    NisTable = {k3, kw, kp}
    HesiodKeys = {k3}
    Keys <- MCKeys
    ModuleKeys <- MCModuleKeys
    ActionTables <- MCActionTables
    MaxSources = 2
SPECIFICATION Spec
INVARIANT TypeOK
INVARIANT ReadMapCacheReflectsSources
INVARIANT NoStaleIndirectMount
CHECK_DEADLOCK FALSE
