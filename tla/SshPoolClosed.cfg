CONSTANTS
    Callers = {t1, t2}
    Conns = {1, 2}
    NoConn = NoConn
    PoolSize = 1
    MaxCancels = 0
SPECIFICATION Spec
PROPERTIES
    ClosedPoolOpensNothing
