----------------------------- MODULE TaskSearch -----------------------------
(***************************************************************************)
(* The search index of tasks (store.py): one document per task, rebuilt by *)
(* some repository calls inside the transaction of the operation, and not  *)
(* by others. task_search_fallback and, where SQLite has the trigram       *)
(* tokenizer, task_search_fts hold the same document; index stands for     *)
(* both. A document is abstracted to the rows it was built from.           *)
(***************************************************************************)
EXTENDS TaskLeaseRefinement

VARIABLE index       \* per task: the document, NoDocument when there is none

searchVars == <<vars, index>>

-----------------------------------------------------------------------------
(* Documents *)

NoDocument == [row |-> <<>>, log |-> <<>>]

\* What _task_search_text reads of the tables: the row (its version stands for the
\* texts) and the latest checkpoint, if there is one ...
SearchedRow(t) == <<tasks[t].version, {c \in CheckpointsOf(t) : IsLatestCheckpoint(c, t)}>>

\* ... and of the event log, by place. (It takes the newest 50 of these.)
SearchedEvents == {"GOAL_CHANGED", "DECISION_MADE", "DECISION_REVOKED", "PHASE_COMPLETED"}

SearchedLog(log) ==
    [i \in {i \in DOMAIN log : log[i].type \in SearchedEvents} |-> log[i]]

SearchText(t) ==
    IF tasks[t].status = "absent" THEN NoDocument
    ELSE [row |-> SearchedRow(t), log |-> SearchedLog(events[t])]

-----------------------------------------------------------------------------
(* What a step does to the index *)

\* Plausible bug: only what an Agent appends itself refreshes the index.
NotesAlone == {"DECISION_MADE", "DECISION_REVOKED", "PHASE_COMPLETED"}

\* The events append_event rebuilds the document for.
RefreshingEvents == {"GOAL_CHANGED", "DECISION_MADE", "DECISION_REVOKED", "PHASE_COMPLETED"}

EventRefreshes(t) ==
    \E i \in (Len(events[t]) + 1)..Len(events'[t]) : events'[t][i].type \in RefreshingEvents

\* create_task and update_task (each raises the version), and create_checkpoint.
RowRefreshes(t) ==
    \/ tasks'[t] # tasks[t]
    \/ CheckpointsOf(t)' # CheckpointsOf(t)

\* The services write the rows first and append their events last: a document
\* rebuilt for a row does not have the events that are still to come.
Refreshed(t) ==
    IF EventRefreshes(t)
      THEN [row |-> SearchedRow(t)', log |-> SearchedLog(events'[t])]
      ELSE IF RowRefreshes(t)
        THEN [row |-> SearchedRow(t)', log |-> SearchedLog(events[t])]
        ELSE index[t]

SearchInit == Init /\ index = [t \in TaskId |-> NoDocument]

SearchNext == Next /\ index' = [t \in TaskId |-> Refreshed(t)]

SearchSpec == SearchInit /\ [][SearchNext]_searchVars

-----------------------------------------------------------------------------

\* README.md:129: task search covers the state, the selected decision events and
\* the checkpoints. Whatever operation wrote last, the document is the one a
\* rebuild would give: nothing that is searched for is found too late or never.
IndexFresh == \A t \in TaskId : index[t] = SearchText(t)

=============================================================================
