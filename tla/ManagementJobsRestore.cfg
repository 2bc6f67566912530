CONSTANTS
    Jobs = {j1}
    Backups = {b1}
    NoBackup = NoBackup
    Threads = {w1, w2}
    NoJob = NoJob
    MaxCalls = 1
SPECIFICATION Spec
INVARIANTS
    OneRestoreAtATime
