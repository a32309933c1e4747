SPECIFICATION Spec
CONSTANTS
    a = a
    b = b
    c = c
    g = g
    x = x
    y = y
    o1 = o1
    o2 = o2
    None = None
    TxOrder <- Pair
    Outpoints = {o1, o2}
    Inputs <- Spends
    Source <- Coins
    Lockable = {a}
    BlockTxs <- Contents
    Blocks <- Tree
    Genesis = g
    Parent <- TreeParent
    Final = {}
    Confirmations = 6
    MaxPending = 1
    MaxEvents = 1
INVARIANTS ConflictsCollected
CHECK_DEADLOCK FALSE
