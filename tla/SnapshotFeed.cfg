CONSTANTS
    Routers = {r1, r2}
    NoRouter = NoRouter
    RowIds = {1, 2}
    Workers = {w1, w2}
    NoWorker = NoWorker
    Clients = {c1}
    MaxSeq = 2
SPECIFICATION FairSpec
INVARIANTS
    TypeOK
    LabelMatchesSnapshot
    ActiveIsSaved
    DetachedIsQuiet
    NewestReachesClient
PROPERTIES
    PublishedInOrder
    FeedRecovers
    HangUpIsNoticed
