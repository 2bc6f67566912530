CONSTANTS
    Transports = {t1, t2}
    Endpoints = {h1, h2}
    Keys = {k1}
    RetryCount = 0
SPECIFICATION Spec
PROPERTIES
    RecordsAreKept
