SPECIFICATION Spec
CONSTANTS
    Workers = {w1, w2, w3}
    Origins <- MCOrigins
    MaxFaults = 2
INVARIANTS
    TypeOK
    VersionTellsSchema
PROPERTY EveryWorkerServes
CHECK_DEADLOCK FALSE
