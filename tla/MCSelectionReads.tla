-------------------------- MODULE MCSelectionReads --------------------------
(* TLC instance of SelectionReads: one engine of one session. *)
EXTENDS SelectionReads

Symmetry == Permutations(Message) \cup Permutations(TaskId)

\* The event logs of the services and the last answers are history that no guard
\* here reads.
WithoutEvents ==
    <<tasks, sessions, segments, checkpoints, clock, conversation, archives, archiveOf,
      attempts, engine, reading, overlap>>

=============================================================================
