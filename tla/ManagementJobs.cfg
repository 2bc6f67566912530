CONSTANTS
    Jobs = {j1, j2}
    Backups = {b1, b2}
    NoBackup = NoBackup
    Threads = {w1, w2}
    NoJob = NoJob
    MaxCalls = 1
SPECIFICATION FairSpec
INVARIANTS
    TypeOK
    NobodyIsAbandoned
    BackupIsDownloadable
    
    OnlyStagedIsUploaded
PROPERTIES
    JobsFinish
