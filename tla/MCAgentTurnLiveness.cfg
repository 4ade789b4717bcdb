SPECIFICATION LiveSpec
CONSTANTS
    Keys = {k1}
    NoKey = NoKey
    BookingIds = {b1}
    NoRow = NoRow
    Snapshots = {s1}
    Turns = {t1, t2}
    Sessions = {u1}
    NoSession = NoSession
    NoTurn = NoTurn
    NoJob = NoJob
    MaxRounds = 2
    MaxCalls <- MCOneCall
    Tokens <- MCTokens
    TokenLimit = 4
    MinKeep = 0
    Summarize = TRUE
    Durable = FALSE
PROPERTY EveryTurnEnds
CHECK_DEADLOCK FALSE
