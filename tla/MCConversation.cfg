SPECIFICATION Spec
CONSTANTS
    Tabs = {u1}
    Nobody = Nobody
    NoSession = NoSession
    Sessions = {s1, s2, s3}
    Foreign = {s3}
    Messages <- MCMessages
    MaxMessages = 3
    MaxPosts = 3
    MaxSessions = 2
    TTL = 1
SYMMETRY Symmetry
INVARIANTS
    TypeOK
    HistoryOnScreen
PROPERTIES
    OnlyExpiredOrCrowdedOut
    ImplementsSessionMap
CHECK_DEADLOCK FALSE
