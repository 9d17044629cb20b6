\* Two instances; the sweep and a heartbeat may overlap.
SPECIFICATION FairSpec
CONSTANTS
    Instances = {i1, i2}
    Interval = 1
    Longest = 0
    LossAfter = 2
    FailsAfterPush = FALSE
PROPERTIES
    RecoveryTold
