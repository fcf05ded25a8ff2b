------------------------------ MODULE MCBreaker ------------------------------
(***************************************************************************)
(* Breaker for TLC.                                                        *)
(***************************************************************************)
EXTENDS Breaker, TLC

Symmetry == Permutations(Calls)
=============================================================================
