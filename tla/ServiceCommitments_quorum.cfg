CONSTANTS
    Nodes = {n1, n2}
    Members = {n1, n2}
    DoubleSigners = {n2}
    Threshold = 2
    Sentinels = {s1, s2, s3}
    Equivocators = {}
    Targets = {t1}
    Agree = 2
    WithObserved = TRUE
    Window = 2
    MaxKept = 4
    MaxExpiries = 1
    MaxRestarts = 1
    None = None
SPECIFICATION Spec
SYMMETRY Symmetry
INVARIANTS TypeOK OneCommitmentSigned AttachedIsSigned RelayedIsAttached VotesMeet VerdictBacked CompleteVotesAgree
CHECK_DEADLOCK FALSE
