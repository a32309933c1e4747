CONSTANTS
    m1 = m1
    m2 = m2
    Me = me
    MN = {me, m1, m2}
    Epochs = {1, 2}
    Versions = {1, 2}
    KeepEpochs = 2
    Bases <- MCBases
    Assigned <- MCAssigned
    Interval = 8
    ForkHeight = 99
    Heights = {15, 16, 22, 23}
    StartHeight = 15
    ListHeight = 99
    Announcers = {m1}
    Reporters = {m2}
    Targets = {m1}
    MaxTicks = 1
    MaxReorgs = 0
    MaxRestarts = 1
    MaxSyncLosses = 1
SPECIFICATION Spec
INVARIANT TypeOK
INVARIANT NoEquivocation
PROPERTY NoFalseMissed
CHECK_DEADLOCK FALSE
