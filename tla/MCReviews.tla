------------------------------ MODULE MCReviews ------------------------------
(* Small instances of the reviews. *)
EXTENDS Reviews, TLC

CONSTANTS buyer, seller, order1, request1, request2

MCPartiesOf == [o \in Orders |-> {buyer, seller}]
=============================================================================
