----------------------------- MODULE MCOrderBook -----------------------------
(* Small instances of OrderBook for TLC. *)
EXTENDS OrderBook, TLC

CONSTANTS publisher, guest1, guest2, guest3, post, goods

MCPublisherOf == [i \in Posts \cup Goods |-> publisher]

\* The guests are interchangeable: nothing distinguishes them in Init or Next.
GuestSymmetry == Permutations(Users \ {publisher})
=============================================================================
