--------------------------- MODULE MCInstantSend ----------------------------
(* A transaction a that the quorum locks, a rival b of the same coin and a    *)
(* child c of a.  Two blocks on the genesis: x has b and y has a.  The pair    *)
(* leaves out the child, the line leaves out the rival.                       *)
EXTENDS InstantSend

CONSTANTS a, b, c, g, x, y, o1, o2

Pair == <<a, b>>
Three == <<a, b, c>>
Line == <<a, c>>
Spends == [t \in {a, b, c} |-> IF t = c THEN {o2} ELSE {o1}]
Coins == [o \in {o1, o2} |-> IF o = o1 THEN None ELSE a]

Tree == {g, x, y}
TreeParent == [k \in {x, y} |-> g]
Contents == [k \in Tree |-> CASE k = x -> <<b>> [] k = y -> <<a>> [] OTHER -> <<>>]
LineContents == [k \in Tree |-> IF k = y THEN <<a>> ELSE <<>>]
=============================================================================
