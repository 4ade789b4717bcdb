SPECIFICATION LiveSpec
CONSTANTS
    Clients = {c1, c2, c3}
    Keys = {k1}
    NoKey = NoKey
    BookingIds = {b1}
    NoRow = NoRow
    Snapshots = {s1}
    NoId = NoId
    NoCall = NoCall
    NoAnswer = NoAnswer
    PoolSize = 2
    MaxKeyless = 0
PROPERTY
    EveryCallReturns
