SPECIFICATION Spec
CONSTANTS
    ProTx = {m1, m2}
    Interval = 1
    ActivationHeight = 0
    EnforcementHeight = 1
    V2Height = 1
    SuspendEpochs = 1
    BanEpochs = 1
    MassOutagePct = 100
    MaxPenalty = 3
    DKGPenalty = 2
    MaxHeight = 3
    MaxTxs = 1
SYMMETRY Symmetry
CHECK_DEADLOCK FALSE
INVARIANTS
    InoperableIsBanned
