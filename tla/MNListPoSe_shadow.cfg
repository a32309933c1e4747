SPECIFICATION Spec
CONSTANTS
    ProTx = {m1, m2}
    Interval = 2
    ActivationHeight = 0
    EnforcementHeight = 100
    V2Height = 1
    SuspendEpochs = 1
    BanEpochs = 2
    MassOutagePct = 100
    MaxPenalty = 3
    DKGPenalty = 2
    MaxHeight = 3
    MaxTxs = 2
SYMMETRY Symmetry
CHECK_DEADLOCK FALSE
INVARIANTS
    InoperableIsBanned
    MaxPenaltyIsBanned
    OneCommitmentPerEpoch
