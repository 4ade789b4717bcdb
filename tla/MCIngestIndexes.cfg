SPECIFICATION Spec
CONSTANTS
    Runs = {r1}
    f1 = f1
    f2 = f2
    f3 = f3
    FlightIds = {f1, f2, f3}
    Files <- MCFiles
    Fields = {origin}
    EmbedBatch = 2
    UpsertBatch = 3
PROPERTY
    IndexesEnsured
CHECK_DEADLOCK FALSE
