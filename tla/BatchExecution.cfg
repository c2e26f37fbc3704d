SPECIFICATION Spec
CONSTANTS
    KeyBits = 3
    Keys <- MCKeys
    Values = {0, 1, 2, 3}
    Programs = {3}
    InitContents <- MCInitContents
    stateManagerPurge = TRUE
    Workloads <- MCWorkloads
    MaxBatches = 1
CHECK_DEADLOCK FALSE
INVARIANTS
    IndexesInRange
    FlushNeverFails
    FlushedTreeIsWhole
    FlushedRootIsStored
    WorkingTreeIsReadable
    FlushedProgramsAreThere
