SPECIFICATION FairSpec
CONSTANTS
    e1 = e1
    e2 = e2
    w1 = w1
    w2 = w2
    w3 = w3
    j1 = j1
    j2 = j2
    j3 = j3
    Jobs <- TwoJobs
    Exclusive <- TwoJobs
    Engines <- TwoEngines
    Tasks <- TwoTasks
    Engine <- OneEach
    MaxRetries = 2
    Configs <- GlobalLocks
    Nobody = Nobody
    NoRow = NoRow
    NoJob = NoJob
PROPERTIES EveryJobSettles DeadletterStays
