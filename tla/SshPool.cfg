CONSTANTS
    Callers = {t1, t2, t3}
    Conns = {1, 2, 3, 4}
    NoConn = NoConn
    PoolSize = 2
    MaxCancels = 1
SPECIFICATION FairSpec
INVARIANTS
    TypeOK
    NeverOverbooked
    OneOwner
    NoLostWakeup
    ClosedPoolIsEmpty
PROPERTIES
    WaitersAreServed
