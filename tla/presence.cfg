\* One instance; five seconds are one unit of time.
SPECIFICATION FairSpec
CONSTANTS
    Instances = {i1}
    Interval = 6
    Longest = 2
    LossAfter = 18
    FailsAfterPush = FALSE
INVARIANTS
    LostOnlyAfterMisses
PROPERTIES
    RecoveryAfterLoss
    NoticesInTurn
    LossTold
    RecoveryTold
