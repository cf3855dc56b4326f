------------------------------- MODULE MCCodes -------------------------------
(* Small instances of the codes for one address. *)
EXTENDS Codes, TLC

CONSTANTS user1, user2, session1, session2

Symmetry == Permutations({session1, session2}) \cup Permutations({user1, user2})
=============================================================================
