SPECIFICATION Spec
CONSTANTS
    Calls = {c1, c2}
    NoCall = NoCall
    Workers = 2
INVARIANT
    OneConstruction
CHECK_DEADLOCK FALSE
