SPECIFICATION LiveSpec
CONSTANTS
    Runs = {r1, r2}
    f1 = f1
    f2 = f2
    f3 = f3
    FlightIds = {f1, f2, f3}
    Files <- MCFiles
    Fields = {origin, month}
    EmbedBatch = 2
    UpsertBatch = 3
INVARIANTS
    TypeOK
    NoRowLost
    DoneIsComplete
    EveryRowCounted
PROPERTY
    EveryRunSucceeds
CHECK_DEADLOCK FALSE
