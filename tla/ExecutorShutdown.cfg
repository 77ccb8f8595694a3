SPECIFICATION FairSpec
CONSTANTS
    j1 = j1 j2 = j2 j3 = j3 w1 = w1 w2 = w2 async = async timer = timer
    Client = client Dispatcher = dispatcher NoJob = NoJob NoWork = NoWork
    Configs <- ScheduledOnly
    Jobs <- ThreeJobs
    MaxPools = 1
    Workers <- OneWorker
    Pool <- OneInFirst
    Acquirers <- OneAcquirer
    Checked <- NoAcquirer
    QueueSize = 1
    MaxLeases = 1
PROPERTIES HintAnswered
CHECK_DEADLOCK FALSE
