SPECIFICATION TornSpec
CONSTANTS
    r1 = r1
    r2 = r2
    r3 = r3
    Requests = {r1, r2, r3}
    Kind <- MCKind
    Asked = {r1, r2, r3}
    NULL = null
INVARIANTS
    RequestAccounted
