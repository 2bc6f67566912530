CONSTANTS
    Routers = {r1}
    NoRouter = NoRouter
    RowIds = {1}
    Workers = {w1}
    NoWorker = NoWorker
    Clients = {c1}
    MaxSeq = 2
SPECIFICATION Spec
INVARIANTS
    RemovedRouterNotServed
