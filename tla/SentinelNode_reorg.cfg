CONSTANTS
    m1 = m1
    m2 = m2
    Me = me
    MN = {me, m1, m2}
    Epochs = {1, 2}
    Versions = {1, 2}
    KeepEpochs = 2
    Bases <- MCBases
    Assigned <- MCAssigned
    Interval = 8
    ForkHeight = 12
    Heights = {7, 8, 14, 16, 22}
    StartHeight = 7
    ListHeight = 99
    Announcers = {m1}
    Reporters = {}
    Targets = {m1}
    MaxTicks = 1
    MaxReorgs = 1
    MaxRestarts = 0
    MaxSyncLosses = 0
SPECIFICATION Spec
INVARIANT DeliveredIsKept
 
INVARIANT OwnReportsOnBase
PROPERTY NoFalseMissed
CHECK_DEADLOCK FALSE
