SPECIFICATION FairSpec
CONSTANTS
    Nodes = {n1}
    Programs = {p1}
    dbStateRootKey = rootKey
    Readers = {r1}
    dbReadRetryCounter = 1
    MaxWrites = 3
    MaxFlush = 2
    MaxRoots = 0
    MaxFailures = 1
    MaxCrashes = 0
CHECK_DEADLOCK FALSE
PROPERTIES
    FlushEventuallyStored
INVARIANTS
    ProgramReadYourWrites
