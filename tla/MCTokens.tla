------------------------------- MODULE MCTokens -------------------------------
(* Small instances of the tokens of one user. *)
EXTENDS Tokens, TLC

CONSTANTS session1, session2, session3

Symmetry == Permutations(Sessions)
=============================================================================
