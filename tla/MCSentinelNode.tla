--------------------------- MODULE MCSentinelNode ---------------------------
(***************************************************************************)
(* SentinelNode with three masternodes over two epochs of eight blocks.    *)
(***************************************************************************)
EXTENDS SentinelNode

CONSTANTS m1, m2

\* From list version 2 on, m2 is no longer assigned to m1.
MCAssigned(v, t) == IF t # m1 THEN {} ELSE IF v = 1 THEN {Me, m2} ELSE {Me}

MCBases == AllBases
=============================================================================
