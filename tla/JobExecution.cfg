SPECIFICATION Spec
CONSTANTS
    e1 = e1
    e2 = e2
    w1 = w1
    w2 = w2
    w3 = w3
    j1 = j1
    j2 = j2
    j3 = j3
    Jobs <- ThreeJobs
    Exclusive <- TwoJobs
    Engines <- OneEngine
    Tasks <- TwoTasks
    Engine <- BothOnOne
    MaxRetries = 2
    Configs <- Disturbed
    Nobody = Nobody
    NoRow = NoRow
    NoJob = NoJob
INVARIANTS
    NoJobLost
    RunsOnce
    ExclusiveScope
SYMMETRY TaskSymmetry
