----------------------------- MODULE MCEarlyHold ----------------------------
(***************************************************************************)
(* EarlyHold with one honest relay and other connections that come and go. *)
(***************************************************************************)
EXTENDS EarlyHold, TLC

Symmetry == Permutations(MN) \cup Permutations(Unlisted)
            \cup Permutations(Signatures \ {Valid}) \cup Permutations(Conns \ Honest)
=============================================================================
