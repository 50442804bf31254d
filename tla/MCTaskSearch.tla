---------------------------- MODULE MCTaskSearch ----------------------------
(* TLC instance of TaskSearch: two sessions compete for two tasks. *)
EXTENDS TaskSearch, TLC

Symmetry == Permutations(TaskId) \cup Permutations(SessionId)

=============================================================================
