SPECIFICATION LiveSpec
CONSTANTS
    Calls = {c1, c2}
    Queries = {q1, q2, q3}
    NoRequest = NoRequest
    Flights = {f1, f2}
    Matching = {f1}
    q1 = q1
    q2 = q2
    q3 = q3
    Requests <- MCRequests
    CacheMax = 2
    HasRedis = TRUE
    Rerank = TRUE
    FetchK = 2
    ReturnN = 2
INVARIANTS
    TypeOK
    AnswersRequest
PROPERTIES
    CacheFifo
    SamplesBypassCache
    EverySearchEnds
CHECK_DEADLOCK FALSE
