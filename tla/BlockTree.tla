----------------------------- MODULE BlockTree ------------------------------
(***************************************************************************)
(* The tree of blocks the network has produced (CBlockIndex), with its     *)
(* ancestors and heights.  Work is height.                                 *)
(***************************************************************************)
EXTENDS Integers, FiniteSets

CONSTANTS Blocks,
          Genesis,
          Parent           \* the parent of every block but Genesis

\* A set of blocks that has the parent of each of its members.
Closed(S) == \A b \in S \ {Genesis} : Parent[b] \in S

\* A block and its ancestors (pprev down to the genesis): the least closed set
\* that has the block.
Chain ==
    [b \in Blocks |-> {a \in Blocks : \A S \in SUBSET Blocks :
                                        b \in S /\ Closed(S) => a \in S}]

\* The blocks form a tree with the genesis block as its root.
ASSUME TreeAssumption ==
    /\ IsFiniteSet(Blocks) /\ Genesis \in Blocks
    /\ Parent \in [Blocks \ {Genesis} -> Blocks]
    /\ \A b \in Blocks : Genesis \in Chain[b]
    /\ \A b \in Blocks \ {Genesis} : b \notin Chain[Parent[b]]

Depth == [b \in Blocks |-> Cardinality(Chain[b]) - 1]

Height(b) == Depth[b]

Lowest(S) == CHOOSE b \in S : \A c \in S : Height(b) <= Height(c)

Highest(S) == CHOOSE b \in S : \A c \in S : Height(b) >= Height(c)

\* The blocks to connect on the way from the tip t to b.
Path(t, b) == Chain[b] \ Chain[t]

MostWork(S) == {b \in S : \A c \in S : Height(c) <= Height(b)}
=============================================================================
