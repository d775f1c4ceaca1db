---------------------------- MODULE MCSharedManager ----------------------------
(* A few callers share the manager of one server. *)
EXTENDS SharedManager, TLC

Symmetric == Permutations(Callers) \cup Permutations(Configs)
=============================================================================
