------------------------------- MODULE MCChat -------------------------------
(* Small instances of the chats of a publisher and his buyers. *)
EXTENDS Chat, TLC

CONSTANTS user1, user2, user3, session1, session2

Symmetry == Permutations({session1, session2})
Buyer_Symmetry == Permutations({session1, session2}) \cup Permutations({user2, user3})
=============================================================================
