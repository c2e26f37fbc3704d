SPECIFICATION FairSpec
CONSTANTS
    HashDBThreads = {h1}
    ExecutorThreads = {e1}
    Sender = sender
    Uncounted = {prover, loader}
    dbNumberOfPoolConnections = 3
    NULL = null
    MaxFailures = 2
CHECK_DEADLOCK FALSE
INVARIANTS
    ConnectionsAreExclusive
    RetryIsReconnected
    ExhaustedOnlyByUncounted
PROPERTIES
    ConnectionsReturn
