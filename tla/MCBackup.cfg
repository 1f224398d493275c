SPECIFICATION BackupSpec
CONSTANTS
    Keys = {k1, k2}
    Requests = {r1, r2}
    MaxEntries = 1
    MaxBackupRuns = 2
    MaxBackupFaults = 1
    MaxCrashes = 1
INVARIANTS
    PairAgrees
    SucceededIsRestorable
PROPERTIES
    ServiceResumes
CHECK_DEADLOCK FALSE
