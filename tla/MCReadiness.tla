----------------------------- MODULE MCReadiness -----------------------------
(* Small instances of Readiness for TLC.                                   *)
EXTENDS Readiness, TLC

CONSTANTS anne, ben, loop

AskerSymmetry == Permutations(Askers)
==============================================================================
