CONSTANTS
    Jobs = {j1}
    Backups = {b1}
    NoBackup = NoBackup
    Threads = {w1}
    NoJob = NoJob
    MaxCalls = 1
SPECIFICATION FairSpec
PROPERTIES
    ServiceJobsRun
