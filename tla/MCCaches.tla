------------------------------- MODULE MCCaches -------------------------------
(* Small instances of the caches of one user. *)
EXTENDS Caches, TLC

CONSTANTS session1, session2, session3

Symmetry == Permutations(Sessions)
=============================================================================
