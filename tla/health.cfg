SPECIFICATION Spec
CONSTANTS
    QueueLoop = queue_loop
    ConnectionLoop = connection_loop
    Requests = {r1}
    Enqueuers = {e1, e2}
    FailureThreshold = 2
    MaxConnectionAttempts = 1
    None = None
INVARIANTS
    TypeOK
    ClaimMatchesStore
    DeclaredFailureStands
PROPERTY
    DownMeansFallback
