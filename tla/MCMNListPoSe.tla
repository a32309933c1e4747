---------------------------- MODULE MCMNListPoSe ----------------------------
(* TLC instance of MNListPoSe: interchangeable masternodes.                *)
EXTENDS MNListPoSe, TLC

Symmetry == Permutations(ProTx)
=============================================================================
