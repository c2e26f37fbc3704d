SPECIFICATION Spec
CONSTANTS
    Nodes = {n1}
    Programs = {p1}
    dbStateRootKey = rootKey
    Readers = {r1}
    dbReadRetryCounter = 1
    MaxWrites = 3
    MaxFlush = 2
    MaxRoots = 1
    MaxFailures = 1
    MaxCrashes = 0
CHECK_DEADLOCK FALSE
INVARIANTS
    NodeReadYourWrites
