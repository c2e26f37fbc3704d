SPECIFICATION FairSpec
CONSTANTS
    r1 = r1
    r2 = r2
    r3 = r3
    Requests = {r1, r2, r3}
    Kind <- MCKind
    Asked = {}
    NULL = null
INVARIANTS
    RequestAccounted
    FirstInFirstOut
    IdleMeansDone
    NoLostWakeup
PROPERTIES
    EventuallyCompleted
