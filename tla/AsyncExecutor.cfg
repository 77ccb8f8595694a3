SPECIFICATION FairSpec
CONSTANTS
    j1 = j1 j2 = j2 j3 = j3 w1 = w1 w2 = w2 async = async timer = timer
    Client = client Dispatcher = dispatcher NoJob = NoJob NoWork = NoWork
    Configs <- AllConfigs
    Jobs <- TwoJobs
    MaxPools = 2
    Workers <- TwoWorkers
    Pool <- OneEach
    Acquirers <- TwoAcquirers
    Checked <- AsyncOnly
    QueueSize = 1
    MaxLeases = 2
INVARIANTS TypeOK   UnlockedByRunnerOnly
PROPERTIES StopReturns HintAnswered AcceptedRun HistoryReceived
CHECK_DEADLOCK FALSE
