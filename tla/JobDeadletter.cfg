SPECIFICATION Spec
CONSTANTS
    e1 = e1
    e2 = e2
    w1 = w1
    w2 = w2
    w3 = w3
    j1 = j1
    j2 = j2
    j3 = j3
    Jobs <- OneJob
    Exclusive <- OneJob
    Engines <- TwoEngines
    Tasks <- ThreeTasks
    Engine <- ThreeOnTwo
    MaxRetries = 2
    Configs <- Optimistic
    Nobody = Nobody
    NoRow = NoRow
    NoJob = NoJob
PROPERTY DeadletterStays
