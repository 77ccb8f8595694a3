SPECIFICATION FairSpec
CONSTANTS
    m1 = m1
    m2 = m2
    j1 = j1
    j2 = j2
    Managers <- TwoManagers
    Jobs <- TwoJobs
    LeaseTime = 2
    Nobody = Nobody
    NoRow = NoRow
INVARIANTS LeaseExclusive
PROPERTIES OverwriteNeedsLateHolder DeadHolderReplaced
