SPECIFICATION Spec
CONSTANTS
    MN = {m1}
    Unlisted = {u1}
    Signatures = {good, bad1, bad2, bad3}
    Valid = good
    Conns = {h, p1, p2}
    Honest = {h}
    MaxOthers = 2
    HoldMax = 3
    VouchersMax = 2
    Interval = 1
    Base = 2
    StartHeight = 1
    LastHeight = 2
SYMMETRY Symmetry
INVARIANTS TypeOK TallyExact ChecksBounded
PROPERTIES HonestHeld SkippedForCause
CHECK_DEADLOCK FALSE
