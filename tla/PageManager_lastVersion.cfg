SPECIFICATION Spec
CONSTANTS
    FirstData = 2
    NewData = 1
    NewRaw = 1
    History = 2
    entriesPerPage = 2
    pagesPerFile = 5
    FirstBatchCrashes = FALSE
    MaxWrites = 5
    MaxVersions = 3
    MaxCrashes = 0
CHECK_DEADLOCK FALSE
INVARIANTS
    LastVersionIsReadable
