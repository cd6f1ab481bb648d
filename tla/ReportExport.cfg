CONSTANTS
    Jobs = {j1, j2}
    Workers = {w1}
    MaxAttempts = 2
    StalledLimit = 1
    MaxErrors = 2
    MaxCrashes = 1
    MaxLinks = 1
    NoJob = NoJob
SPECIFICATION FairSpec
CHECK_DEADLOCK FALSE
INVARIANTS
    UploadIsStored
    QueueAgreesWithRow
PROPERTIES
    ExportKeepsPromise
    ExportSettles
