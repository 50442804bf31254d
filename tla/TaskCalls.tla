------------------------------ MODULE TaskCalls ------------------------------
(***************************************************************************)
(* Tool calls that overlap. A call observes what its arguments name (the   *)
(* version, the active segment, a checkpoint), reads the clock, and waits  *)
(* for the database (update_task also reads the stored goal meanwhile);     *)
(* other calls, of other sessions, threads or processes, may commit before  *)
(* it does. When its transaction runs, the checks are    *)
(* made on the state of that moment but the clock reading is the old one   *)
(* (task_service.py:106,273,306,417, handoff_service.py:81,                *)
(* checkpoint_service.py:69).                                              *)
(***************************************************************************)
EXTENDS TaskLifecycle

CONSTANTS
    Slot,        \* calls that may be under way at once
    Goal,        \* goals a task may have
    Transitions  \* what an Agent moves tasks to: blocked, completed, cancelled

ASSUME GoalAssumption == None \notin Goal /\ Goal # {}
ASSUME TransitionsAssumption == Transitions \subseteq Finished \cup {"blocked"}

VARIABLES
    calls,       \* per slot: the call under way, or NoCall
    goals,       \* tasks.goal, None when there is no row
    goalChanges  \* per task: old_goal and new_goal of its GOAL_CHANGED events

callVars == <<vars, calls, goals, goalChanges>>

NoCall == [op |-> "none"]

\* A call of session s on task t, its clock reading and what its arguments name:
\* the version of the task, the active segment, a checkpoint, the status or the
\* goal to set. stored is the goal update_task has read, None before it has.
Call(op, s, t) ==
    [op |-> op, session |-> s, task |-> t, now |-> clock, version |-> 0, segment |-> 0,
     checkpoint |-> 0, status |-> "", goal |-> None, stored |-> None]

Versioned(call) == [call EXCEPT !.version = tasks[call.task].version]

CallInit ==
    /\ Init
    /\ calls = [k \in Slot |-> NoCall]
    /\ goals = [t \in TaskId |-> None]
    /\ goalChanges = [t \in TaskId |-> <<>>]

\* Every task is created with the same goal; which one makes no difference.
FirstGoal == CHOOSE goal \in Goal : TRUE

Calls(s, t) ==
    {Versioned(Call(op, s, t)) : op \in {"pause", "resume"}}
    \cup {Versioned([Call("transition", s, t) EXCEPT !.status = status]) :
            status \in Transitions}
    \cup {[Versioned(Call("update", s, t)) EXCEPT !.goal = goal, !.now = 0] : goal \in Goal}
    \cup {[Call("create", s, t) EXCEPT !.goal = FirstGoal], Call("checkpoint", s, t)}
    \cup {[Call("rotate", s, t) EXCEPT !.checkpoint = c, !.segment = sessions[s].segment] :
            c \in CheckpointsOf(t)}

\* An Agent acts on what it sees when it decides to call; other calls are
\* refused unless the state changes in their favour.
Sensible(call) ==
    CASE call.op = "create" -> tasks[call.task].status = "absent"
      [] call.op = "resume" -> tasks[call.task].status \in Resumable
      [] call.op = "update" -> /\ sessions[call.session].task = call.task
                               /\ goals[call.task] # call.goal
                               /\ \A t \in TaskId : goalChanges[t] = <<>>
      [] OTHER              -> sessions[call.session].task = call.task

Begin(k) ==
    /\ calls[k] = NoCall
    /\ \E s \in SessionId, t \in TaskId :
          \E call \in Calls(s, t) :
              /\ Sensible(call)
              /\ calls' = [calls EXCEPT ![k] = call]
    /\ UNCHANGED <<vars, goals, goalChanges>>

\* task = self._require_task(task_id), before the transaction.
ReadGoal(k) ==
    /\ calls[k].op = "update"
    /\ calls[k].stored = None
    /\ goals[calls[k].task] # None
    /\ calls' = [calls EXCEPT ![k].stored = goals[calls[k].task]]
    /\ UNCHANGED <<vars, goals, goalChanges>>

\* The update changes the goal, as far as the call can tell.
ChangesGoal(call) == call.goal \notin {None, call.stored}

\* The transaction of the call runs, with the reading taken when it began.
Perform(call) ==
    LET s == call.session
        t == call.task
    IN  CASE call.op = "create"     -> CreateTask(s, t, None, call.now)
          [] call.op = "update"     -> /\ call.stored # None
                                       /\ UpdateTask(s, t, call.version, ChangesGoal(call))
          [] call.op = "pause"      -> PauseTask(s, t, call.version, call.now)
          [] call.op = "resume"     -> ResumeTask(s, t, call.version, call.now)
          [] call.op = "transition" -> TransitionTask(s, t, call.version, call.status, call.now)
          [] call.op = "checkpoint" -> CreateCheckpoint(s, t, call.now)
          [] call.op = "rotate"     -> Rotate(s, t, call.checkpoint, call.segment, call.now)

Commit(k) ==
    /\ calls[k] # NoCall
    /\ Perform(calls[k])
    /\ LET call == calls[k]
        IN  /\ goals' = IF call.goal = None THEN goals
                        ELSE [goals EXCEPT ![call.task] = call.goal]
            /\ goalChanges' =
                  IF call.op = "update" /\ ChangesGoal(call)
                    THEN [goalChanges EXCEPT ![call.task] =
                            Append(@, [old |-> call.stored, new |-> call.goal])]
                    ELSE goalChanges
    /\ calls' = [calls EXCEPT ![k] = NoCall]

\* Plausible bug: a call that fails leaves its event behind.
FailLeavesEvent(k) ==
    /\ calls[k] # NoCall
    /\ events' = [events EXCEPT ![calls[k].task] =
                    Append(@, Event("TASK_PAUSED", calls[k].session, 0))]
    /\ calls' = [calls EXCEPT ![k] = NoCall]
    /\ UNCHANGED <<tasks, sessions, segments, checkpoints, clock, goals, goalChanges>>

\* A check failed, or the database stayed busy: rolled back, nothing changed.
Fail(k) ==
    /\ calls[k] # NoCall
    /\ calls' = [calls EXCEPT ![k] = NoCall]
    /\ UNCHANGED <<vars, goals, goalChanges>>

CallNext ==
    \/ \E k \in Slot : Begin(k) \/ ReadGoal(k) \/ Commit(k) \/ Fail(k)
    \/ Tick /\ UNCHANGED <<calls, goals, goalChanges>>

CallSpec == CallInit /\ [][CallNext]_callVars

-----------------------------------------------------------------------------
(* What overlapping calls keep. LinearHistory (TaskLifecycle) is checked    *)
(* here too: the version and the segment a call must name are tokens no     *)
(* stale call still holds.                                                  *)

\* Overlapping calls do nothing that calls made one after the other, with old
\* clock readings, could not do: every invariant and action property of
\* TaskLifecycle checked with StaleStamps carries over.
SerialLifecycle == Init /\ [][Next]_vars

\* What the log says of a task's goal is what happened to it: each change starts
\* from the goal the one before it set, and the last one set the goal of today,
\* although update_task compares with a goal it read before its transaction.
GoalHistory ==
    \A t \in TaskId : LET log == goalChanges[t] IN log # <<>> =>
        /\ \A i \in 1..(Len(log) - 1) : log[i + 1].old = log[i].new
        /\ log[Len(log)].new = goals[t]
        /\ \A i \in DOMAIN log : log[i].old # log[i].new

\* README.md:57, of a session without an active task: it "never skips a newer
\* uncheckpointed Task to recover an older Task's cursor". The cursor is the
\* newest segment by start_time; a segment opened after it (a higher rowid), of
\* another task and without a checkpoint, would be a skipped one.
RecoverySkipsNothing ==
    \A s \in SessionId : \A g, h \in SegmentsOfSession(s) :
        /\ ~Attached(s)
        /\ IsLatestIn(g, SegmentsOfSession(s))
        /\ segments[g].checkpoint # 0
        /\ segments[h].checkpoint = 0
        /\ segments[h].task # segments[g].task
        => h < g

=============================================================================
