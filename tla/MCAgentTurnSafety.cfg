SPECIFICATION Spec
CONSTANTS
    Keys = {k1}
    NoKey = NoKey
    BookingIds = {b1, b2}
    NoRow = NoRow
    Snapshots = {s1}
    Turns = {t1, t2}
    Sessions = {u1}
    NoSession = NoSession
    NoTurn = NoTurn
    NoJob = NoJob
    MaxRounds = 2
    MaxCalls <- MCMaxCalls
    Tokens <- MCTokens
    TokenLimit = 4
    MinKeep = 2
    Summarize = TRUE
    Durable = TRUE
SYMMETRY Symmetry
INVARIANTS
    TypeOK
    SavedReplayable
    TurnsWhole
    ResultsMatchHistory
    RoundsSaved
    PromptCoherent
    PromptBounded
    RetryTellsSameBooking
PROPERTIES
    OnlyStaleSaveDrops
CHECK_DEADLOCK FALSE
