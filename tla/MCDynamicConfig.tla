---------------------------- MODULE MCDynamicConfig ----------------------------
(* Small instances of the dynamic configuration. *)
EXTENDS DynamicConfig, TLC

CONSTANTS proc1, proc2, update1, update2, key1, key2

Symmetry == Permutations(Procs) \cup Permutations(Updates) \cup Permutations(Keys)
=============================================================================
