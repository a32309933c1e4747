---------------------------- MODULE MCChainLocks ----------------------------
(* Two branches from the genesis block: a1 a2, which is locked, and b1 b2.   *)
EXTENDS ChainLocks

CONSTANTS g, a1, a2, b1, b2

Tree == {g, a1, a2, b1, b2}

TreeParent == [b \in Tree \ {g} |-> CASE b = a2 -> a1 [] b = b2 -> b1 [] OTHER -> g]
=============================================================================
