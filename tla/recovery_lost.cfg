SPECIFICATION Spec
CONSTANTS
    QueueLoop = queue_loop
    ConnectionLoop = connection_loop
    Requests = {}
    Enqueuers = {e1, e2}
    FailureThreshold = 2
    MaxConnectionAttempts = 1
    None = None
PROPERTY
    UpMeansRQ
