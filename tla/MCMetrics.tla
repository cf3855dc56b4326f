------------------------------ MODULE MCMetrics ------------------------------
(* Small instances of the counters. *)
EXTENDS Metrics, TLC

CONSTANTS item, other, ghost, user, remark, slot1, slot2, worker1, worker2

MCOnItem == [c \in Comments |-> item]
Symmetry == Permutations({slot1, slot2}) \cup Permutations({worker1, worker2})
=============================================================================
