----------------------------- MODULE MCTaskCalls -----------------------------
(* TLC instance of TaskCalls. *)
EXTENDS TaskCalls, TLC

Symmetry == Permutations(TaskId) \cup Permutations(SessionId) \cup Permutations(Slot)

\* The event logs are history that no guard reads (MaxNotes = 0).
WithoutEvents == <<tasks, sessions, segments, checkpoints, clock, calls, goals, goalChanges>>

=============================================================================
