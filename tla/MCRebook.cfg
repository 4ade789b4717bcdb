SPECIFICATION Spec
CONSTANTS
    Clients = {c1}
    Keys = {k1}
    NoKey = NoKey
    BookingIds = {b1}
    NoRow = NoRow
    Snapshots = {s1}
    NoId = NoId
    NoCall = NoCall
    NoAnswer = NoAnswer
    PoolSize = 1
    MaxKeyless = 0
INVARIANT
    CreateReturnsConfirmed
