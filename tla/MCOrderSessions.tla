--------------------------- MODULE MCOrderSessions ---------------------------
(* Small instances of the interleaved handlers. *)
EXTENDS OrderSessions, TLC

CONSTANTS applicant, other, seller, post, order1, order2, order3, session1, session2

MCApplicantOf == [o \in Orders |-> IF o = order3 THEN other ELSE applicant]
MCSellerOf == [o \in Orders |-> seller]
MCPostOf == [o \in Orders |-> post]
\* The orders of one applicant take every course, the other one is accepted or cancelled.
MCBefore == [o \in Orders |-> IF o = order3 THEN {"CONFIRMED"} ELSE {"NONE"}]
Symmetry == Permutations(Sessions)
=============================================================================
