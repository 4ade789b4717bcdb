SPECIFICATION LiveSpec
CONSTANTS
    Calls = {c1, c2, c3}
    NoCall = NoCall
    Workers = 2
INVARIANTS
    TypeOK
    OnlyOrphansBeside
    LockHasLoader
PROPERTY
    EveryCallEnds
CHECK_DEADLOCK FALSE
