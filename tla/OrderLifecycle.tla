--------------------------- MODULE OrderLifecycle ---------------------------
(***************************************************************************)
(* What the marketplace promises about an order and about credit, leaving  *)
(* aside posts, goods, queues and quotas: an order is placed once, its     *)
(* parties never change, it moves forward only, several applicants may be  *)
(* turned away together but nobody already taken is, and a seller's credit *)
(* moves only when one of his orders completes, by one award.              *)
(***************************************************************************)
EXTENDS Integers

CONSTANTS Ids, Rows, NoRow, Users, InitialCredit, Award

VARIABLES row, stage, credit

vars == <<row, stage, credit>>

Init ==
    /\ row = [o \in Ids |-> NoRow]
    /\ stage = [o \in Ids |-> "NONE"]
    /\ credit = [u \in Users |-> InitialCredit]

Place(o) ==
    /\ stage[o] = "NONE"
    /\ stage' = [stage EXCEPT ![o] = "PENDING"]
    /\ \E r \in Rows : row' = [row EXCEPT ![o] = r]
    /\ UNCHANGED credit

\* The applicants in taken go ahead, those in turnedAway are rejected.
Decide(taken, turnedAway) ==
    /\ \A o \in taken \cup turnedAway : stage[o] = "PENDING"
    /\ stage' = [o \in Ids |-> IF o \in taken THEN "ONGOING"
                               ELSE IF o \in turnedAway THEN "REJECTED"
                               ELSE stage[o]]
    /\ UNCHANGED <<row, credit>>

Deliver(o) ==
    /\ stage[o] = "ONGOING"
    /\ stage' = [stage EXCEPT ![o] = "CONFIRMED"]
    /\ UNCHANGED <<row, credit>>

Complete(o) ==
    /\ stage[o] \in {"ONGOING", "CONFIRMED"}
    /\ stage' = [stage EXCEPT ![o] = "COMPLETED"]
    /\ \/ credit' = [credit EXCEPT ![row[o].seller] = @ + Award]
       \/ UNCHANGED credit
    /\ UNCHANGED row

Cancel(o) ==
    /\ stage[o] \in {"PENDING", "ONGOING", "CONFIRMED"}
    /\ stage' = [stage EXCEPT ![o] = "CANCELED"]
    /\ UNCHANGED <<row, credit>>

Next ==
    \/ \E o \in Ids : Place(o) \/ Deliver(o) \/ Complete(o) \/ Cancel(o)
    \/ \E taken, turnedAway \in SUBSET Ids : Decide(taken, turnedAway)

Spec == Init /\ [][Next]_vars
=============================================================================
