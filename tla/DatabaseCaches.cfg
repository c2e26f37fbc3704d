SPECIFICATION Spec
CONSTANTS
    root = root
    a = a
    b = b
    c = c
    d = d
    Keys = {root, a, b, c, d}
    Values = {0, 1, 2}
    NodeValue = 0
    RootValues = {1, 2}
    RecordSize <- MCRecordSize
    maxSize = 5
    NULL = null
    slots <- MCSlots
    indexesSize = 8
    cacheSize = 4
    RawValues = 16
    NoEntry = none
    dbStateRootKey = root
CHECK_DEADLOCK FALSE
INVARIANTS
    ListIsRecency
    SizeIsBounded
    EntriesReachable
PROPERTIES
    ImplementsCache
