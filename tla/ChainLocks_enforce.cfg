SPECIFICATION Spec
CONSTANTS
    g = g
    a1 = a1
    a2 = a2
    b1 = b1
    b2 = b2
    None = None
    Blocks <- Tree
    Genesis = g
    Parent <- TreeParent
    Locked = {a1, a2}
    Paused = {}
    SeenExpires = FALSE
    MaxSporkChanges = 1
    HeaderFirst = {a2}
INVARIANTS TypeOK LockedBranchUsable EnforcedLockOfBest
PROPERTIES ImplementsFinality LockEventuallyActive
