SPECIFICATION Spec
CONSTANTS
    Clients = {c1, c2, c3}
    Keys = {k1}
    NoKey = NoKey
    BookingIds = {b1, b2}
    NoRow = NoRow
    Snapshots = {s1, s2}
    NoId = NoId
    NoCall = NoCall
    NoAnswer = NoAnswer
    PoolSize = 2
    MaxKeyless = 1
SYMMETRY Symmetry
INVARIANTS
    TypeOK
    SameKeySameBooking
    UniqueKey
    WinnerFound
    NoAnswerBeforeCancel
    StoredSnapshotRead
    LockHoldersConnected
PROPERTY
    ImplementsLedger
