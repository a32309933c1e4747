SPECIFICATION Spec
CONSTANTS
    ProTx = {m1, m2}
    Interval = 1
    ActivationHeight = 0
    EnforcementHeight = 2
    V2Height = 2
    SuspendEpochs = 1
    BanEpochs = 2
    MassOutagePct = 100
    MaxPenalty = 3
    DKGPenalty = 2
    MaxHeight = 4
    MaxTxs = 1
SYMMETRY Symmetry
CHECK_DEADLOCK FALSE
INVARIANTS
    TypeOK
    CounterIsMissedRun
    ServicePenaltiesEarned
    OutageIsBanned
PROPERTIES
    ServiceBanHealsOnline
    BanWaveBounded
