SPECIFICATION Spec
CONSTANTS
    Nodes = {n1}
    Programs = {p1}
    dbStateRootKey = rootKey
    Readers = {}
    dbReadRetryCounter = 1
    MaxWrites = 2
    MaxFlush = 2
    MaxRoots = 2
    MaxFailures = 1
    MaxCrashes = 1
CHECK_DEADLOCK FALSE
INVARIANTS
    TypeOK
    FlushDurability
    RootAfterItsNodes
    PendingIsPrivate
    DeliveredIsStored
PROPERTIES
    RootNeverGoesBack
    StoredNeverGoesBack
    ImplementsFlushService
