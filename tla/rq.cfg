SPECIFICATION Spec
CONSTANTS
    r1 = r1
    r2 = r2
    u1 = u1
    u2 = u2
    Requests = {r1, r2}
    User <- TwoOfOneUser
    Workers = {w1}
    Processors = {p1}
    MaxMigrations = 1
    None = None
INVARIANTS
    TypeOK
    PushedOnce
    ReturnedJobHoldsKey
    RunningHasHands
