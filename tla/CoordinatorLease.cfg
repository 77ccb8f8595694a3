SPECIFICATION Spec
CONSTANTS
    n1 = n1
    n2 = n2
    w1 = w1
    w2 = w2
    Workers = {w1, w2}
    Nodes = {n1, n2}
    NodeOf <- OneEach
    LeaseTimeout = 1
    HeartbeatTimeout = 1
    MaxTime = 3
    MaxToken = 4
    NoLease = NoLease
INVARIANTS
    OneOwnerPerToken
PROPERTIES
    RejectedTokenStaysRejected
