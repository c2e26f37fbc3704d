SPECIFICATION AggregatorSpec
CONSTANTS
    r1 = r1
    r2 = r2
    Requests = {r1, r2}
    Kind <- MCKind
    Asked = {r1}
    NULL = null
    aggregatorClientMaxStreams = 2
CHECK_DEADLOCK FALSE
INVARIANTS
    WatchdogNotMisused
PROPERTIES
    HungChannelEnds
    DeliveredAnswersNeverGoBack
