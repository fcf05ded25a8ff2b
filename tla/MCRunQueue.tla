----------------------------- MODULE MCRunQueue -----------------------------
(***************************************************************************)
(* RunQueue for TLC.                                                       *)
(***************************************************************************)
EXTENDS RunQueue, TLC

Symmetry == Permutations(Runs \ BadSeed) \cup Permutations(Workers)
=============================================================================
