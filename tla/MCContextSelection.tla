------------------------- MODULE MCContextSelection -------------------------
(* TLC instance of ContextSelection: one session switches between tasks. *)
EXTENDS ContextSelection

Symmetry == Permutations(TaskId)

\* What the guards of SelectionNext and the properties read: not the logs, the
\* versions and the counters (a call passes the version it has just read), nor
\* which of two statuses that allow the same a task has, nor whether a call that
\* names a task was a create or a resume.
Standing(t) ==
    CASE tasks[t].status \in Resumable -> "resumable"
      [] tasks[t].status \in Finished  -> "finished"
      [] OTHER                         -> tasks[t].status

Spoken(message) ==
    [message EXCEPT !.kind = IF @ = "resume" THEN "create" ELSE @]

Relevant ==
    <<[t \in TaskId |-> Standing(t)],
      [s \in SessionId |-> <<sessions[s].task, sessions[s].segment>>],
      [g \in DOMAIN segments |-> <<segments[g].task, segments[g].checkpoint, IsOpen(g)>>],
      checkpoints,
      [s \in SessionId |-> [i \in DOMAIN conversation[s] |-> Spoken(conversation[s][i])]],
      cursors>>

=============================================================================
