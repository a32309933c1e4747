------------------------ MODULE MCServiceCommitments ------------------------
(***************************************************************************)
(* ServiceCommitments on small quorums; every node is a member.            *)
(***************************************************************************)
EXTENDS ServiceCommitments, TLC

Symmetry == Permutations(Sentinels \ Equivocators) \cup Permutations(Nodes \ DoubleSigners)
=============================================================================
