SPECIFICATION Spec
CONSTANTS
    j1 = j1
    w1 = w1
    w2 = w2
    c1 = c1
    c2 = c2
    Jobs <- OneJob
    Caught <- OneJob
    Workers <- TwoWorkers
    Clients <- TwoClients
    LockDuration = 1
    RetryDelay = 1
    Retries = 2
    MaxTime = 3
    Nobody = Nobody
    NoRow = NoRow
    Idle = Idle
SYMMETRY Symmetric
CHECK_DEADLOCK FALSE
INVARIANTS  AcceptedOnce
   
