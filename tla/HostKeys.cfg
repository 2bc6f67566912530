CONSTANTS
    Transports = {t1, t2}
    Endpoints = {h1, h2}
    Keys = {k1, k2}
    RetryCount = 1
SPECIFICATION FairSpec
INVARIANTS
    TypeOK
    OneKeyPerEndpoint
    SessionsMatchRecords
PROPERTIES
    LostOnlyByStaleCopies
    CallsEnd
