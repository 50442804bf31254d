---------------------------- MODULE TaskLifecycle ----------------------------
(***************************************************************************)
(* The durable state of the plugin and the operations that change it:      *)
(* TaskService, CheckpointService and HandoffService over TaskRepository   *)
(* (task_service.py, checkpoint_service.py, handoff_service.py, store.py). *)
(* Every operation runs inside one BEGIN IMMEDIATE transaction, so each is *)
(* one atomic action here; a call whose checks fail raises, rolls back and *)
(* leaves the state as it was, so a failed check is a disabled action.     *)
(*                                                                         *)
(* An operation reads the clock (`now') before it waits for the database.  *)
(* With StaleStamps = FALSE every call commits before the clock moves on;  *)
(* with StaleStamps = TRUE a call may carry any earlier reading.           *)
(***************************************************************************)
EXTENDS Integers, Sequences, FiniteSets

CONSTANTS
    TaskId,          \* task ids an Agent may use
    SessionId,       \* Hermes sessions
    None,            \* SQL NULL where an id is expected
    StaleStamps,     \* may a call commit with an earlier clock reading?
    MaxTime,         \* bound: clock readings
    MaxSegments,     \* bound: context_segments rows
    MaxCheckpoints,  \* bound: checkpoints rows
    MaxUpdates,      \* bound: tasks.version when an Agent updates a task
    MaxNotes         \* bound: events of one task when an Agent appends one

ASSUME NoneAssumption == None \notin TaskId \cup SessionId
ASSUME StampAssumption == StaleStamps \in BOOLEAN
ASSUME BoundAssumption ==
    /\ MaxTime \in Nat \ {0}
    /\ MaxSegments \in Nat
    /\ MaxCheckpoints \in Nat
    /\ MaxUpdates \in Nat
    /\ MaxNotes \in Nat

VARIABLES
    tasks,        \* tasks table
    sessions,     \* session_context_state table
    segments,     \* context_segments table, in rowid order
    checkpoints,  \* checkpoints table, in rowid order
    events,       \* what services and Agents log in task_events: one log per task,
                  \* in sequence order (the rest is EmergencyCompression's attempts)
    clock         \* what utc_now() returns

vars == <<tasks, sessions, segments, checkpoints, events, clock>>

-----------------------------------------------------------------------------
(* Rows *)

\* Plausible bug: a cancelled task may be resumed.
ResumableOrCancelled == {"paused", "blocked", "cancelled"}

Resumable == {"paused", "blocked"}
Finished == {"completed", "cancelled"}
TaskStatus == {"active"} \cup Resumable \cup Finished

TaskEvents == {"TASK_CREATED", "NEW_TASK_STARTED", "TASK_PAUSED", "TASK_RESUMED",
               "TASK_BLOCKED", "TASK_COMPLETED", "TASK_CANCELLED", "GOAL_CHANGED"}
\* The types an Agent appends itself: one of its own, and one that the services
\* log too, for the tool offers every type there is (task_tools.py:162).
Notes == {"DECISION_MADE", "HANDOFF_COMPLETED"}
EventType == TaskEvents \cup Notes \cup {"CHECKPOINT_CREATED"}

HandoffReason == {"", "handoff", "task_paused", "blocked", "completed", "cancelled"}

\* A row that does not exist has status "absent".
TaskRecord == [status: TaskStatus \cup {"absent"}, version: Nat, resumeCount: Nat,
               lastSession: SessionId \cup {None}, parent: TaskId \cup {None}]

NoTask == [status |-> "absent", version |-> 0, resumeCount |-> 0,
           lastSession |-> None, parent |-> None]

\* A session without a row has exists = FALSE; segment 0 is a NULL pointer.
SessionContextState == [exists: BOOLEAN, task: TaskId \cup {None},
                        segment: Nat, version: Nat]

NoSession == [exists |-> FALSE, task |-> None, segment |-> 0, version |-> 0]

\* parent 0, checkpoint 0 and endTime 0 stand for NULL.
ContextSegment == [session: SessionId, task: TaskId, parent: Nat, checkpoint: Nat,
                   startTime: Nat, endTime: Nat, reason: HandoffReason]

\* valid: the stored content still has the stored checksum.
Checkpoint == [task: TaskId, createdAt: Nat, valid: BOOLEAN]

\* ref: the segment or checkpoint the payload names, 0 for none. byService is not
\* in the row; it tells the properties what an Agent has appended itself.
TaskEvent == [type: EventType, session: SessionId, ref: Nat, byService: BOOLEAN]

-----------------------------------------------------------------------------
(* Queries *)

Attached(s) == sessions[s].task # None

IsOpen(g) == segments[g].endTime = 0

SegmentsOfTask(t) == {g \in DOMAIN segments : segments[g].task = t}
SegmentsOfSession(s) == {g \in DOMAIN segments : segments[g].session = s}
CheckpointsOf(t) == {c \in DOMAIN checkpoints : checkpoints[c].task = t}

\* Plausible bug: no tie-break by rowid, and SQLite returns the older row.
IsFirstOfLatest(g, rows) ==
    /\ g \in rows
    /\ \A h \in rows \ {g} :
          \/ segments[h].startTime < segments[g].startTime
          \/ segments[h].startTime = segments[g].startTime /\ g < h

\* ORDER BY start_time DESC, rowid DESC LIMIT 1
IsLatestIn(g, rows) ==
    /\ g \in rows
    /\ \A h \in rows \ {g} :
          \/ segments[h].startTime < segments[g].startTime
          \/ segments[h].startTime = segments[g].startTime /\ h < g

\* get_latest_segment: 0 when the task has no segment.
IsLatestSegment(g, t) ==
    \/ IsLatestIn(g, SegmentsOfTask(t))
    \/ g = 0 /\ SegmentsOfTask(t) = {}

\* get_latest_checkpoint: ORDER BY created_at DESC, rowid DESC LIMIT 1
IsLatestCheckpoint(c, t) ==
    /\ c \in CheckpointsOf(t)
    /\ \A d \in CheckpointsOf(t) \ {c} :
          \/ checkpoints[d].createdAt < checkpoints[c].createdAt
          \/ checkpoints[d].createdAt = checkpoints[c].createdAt /\ d < c

\* _require_active_session: the session owns the task and no other one does.
ActiveSession(t, s) ==
    /\ sessions[s].task = t
    /\ \A o \in SessionId : sessions[o].task = t => o = s

\* The clock readings a call that commits now may carry.
CallTimes == IF StaleStamps THEN 1..clock ELSE {clock}

\* Plausible bug: the payload does not name the segment.
EventWithoutReference(type, s, ref) ==
    [type |-> type, session |-> s, ref |-> 0, byService |-> TRUE]

Event(type, s, ref) ==
    [type |-> type, session |-> s, ref |-> ref, byService |-> TRUE]

-----------------------------------------------------------------------------
(* Steps that operations share *)

\* Plausible bug: the version stays as it was.
UpdatedTaskSameVersion(t, s, status) ==
    [tasks[t] EXCEPT !.status = status, !.lastSession = s]

UpdatedTask(t, s, status) ==
    [tasks[t] EXCEPT !.status = status, !.version = @ + 1, !.lastSession = s]

\* Plausible bug: UPDATE ... WHERE task_id, without AND end_time IS NULL.
ClosedSegmentsOfTask(g, now, reason) ==
    [h \in DOMAIN segments |->
        IF segments[h].task = segments[g].task
          THEN [segments[h] EXCEPT !.endTime = now, !.reason = reason]
          ELSE segments[h]]

ClosedSegments(g, now, reason) ==
    [segments EXCEPT ![g].endTime = now, ![g].reason = reason]

\* Plausible bug: the parent is not stored.
NewSegmentWithoutParent(t, s, now, parent, c) ==
    [session |-> s, task |-> t, parent |-> 0, checkpoint |-> c,
     startTime |-> now, endTime |-> 0, reason |-> ""]

NewSegment(t, s, now, parent, c) ==
    [session |-> s, task |-> t, parent |-> parent, checkpoint |-> c,
     startTime |-> now, endTime |-> 0, reason |-> ""]

PointedSession(s, t, g) ==
    [exists |-> TRUE, task |-> t, segment |-> g,
     version |-> IF sessions[s].exists THEN sessions[s].version + 1 ELSE 0]

\* _pause_for_switch succeeds with checkpoint c as the latest of the task.
PauseAllowed(s, c) ==
    /\ IsLatestCheckpoint(c, sessions[s].task)
    /\ checkpoints[c].valid
    /\ IsOpen(sessions[s].segment)

\* The current task of s, if it has one, can be paused (c = 0: nothing to pause).
SwitchAllowed(s, c) == IF Attached(s) THEN PauseAllowed(s, c) ELSE c = 0

\* Plausible bugs: the task left is not paused, or is marked as finished.
TasksNotPaused(s) == tasks

TasksFinishedBySwitch(s) ==
    IF Attached(s)
      THEN [tasks EXCEPT ![sessions[s].task] = UpdatedTask(sessions[s].task, s, "completed")]
      ELSE tasks

TasksAfterSwitch(s) ==
    IF Attached(s)
      THEN [tasks EXCEPT ![sessions[s].task] = UpdatedTask(sessions[s].task, s, "paused")]
      ELSE tasks

\* Plausible bugs: the segment left is not closed, or gets the status as reason.
SegmentsKeptOpen(s, now) == segments

SegmentsPausedByStatus(s, now) ==
    IF Attached(s) THEN ClosedSegments(sessions[s].segment, now, "paused") ELSE segments

SegmentsAfterSwitch(s, now) ==
    IF Attached(s) THEN ClosedSegments(sessions[s].segment, now, "task_paused")
                   ELSE segments

EventsAfterSwitch(s, c) ==
    IF Attached(s)
      THEN [events EXCEPT ![sessions[s].task] = Append(@, Event("TASK_PAUSED", s, c))]
      ELSE events

-----------------------------------------------------------------------------
(* TaskService *)

Init ==
    /\ tasks = [t \in TaskId |-> NoTask]
    /\ sessions = [s \in SessionId |-> NoSession]
    /\ segments = <<>>
    /\ checkpoints = <<>>
    /\ events = [t \in TaskId |-> <<>>]
    /\ clock = 1

CreateTask(s, t, parent, now) ==
    /\ tasks[t].status = "absent"          \* PRIMARY KEY
    /\ parent # None => tasks[parent].status # "absent"
    /\ Len(segments) < MaxSegments
    /\ \E c \in 0..Len(checkpoints) :
        /\ SwitchAllowed(s, c)
        /\ events' = [EventsAfterSwitch(s, c) EXCEPT ![t] =
                        <<Event("TASK_CREATED", s, 0)>> \o
                        IF Attached(s) THEN <<Event("NEW_TASK_STARTED", s, 0)>> ELSE <<>>]
    /\ tasks' = [TasksAfterSwitch(s) EXCEPT ![t] =
                    [status |-> "active", version |-> 0, resumeCount |-> 0,
                     lastSession |-> s, parent |-> parent]]
    /\ segments' = Append(SegmentsAfterSwitch(s, now), NewSegment(t, s, now, 0, 0))
    /\ sessions' = [sessions EXCEPT ![s] = PointedSession(s, t, Len(segments) + 1)]
    /\ UNCHANGED <<checkpoints, clock>>

\* Plausible bug: UPDATE ... WHERE task_id, without AND version.
UpdateTaskBlindly(s, t, v, goalChanged) ==
    /\ ActiveSession(t, s)
    /\ v < MaxUpdates
    /\ tasks' = [tasks EXCEPT ![t] = UpdatedTask(t, s, @.status)]
    /\ events' = IF goalChanged
                   THEN [events EXCEPT ![t] = Append(@, Event("GOAL_CHANGED", s, 0))]
                   ELSE events
    /\ UNCHANGED <<sessions, segments, checkpoints, clock>>

\* goalChanged: the changes carry a goal other than the stored one.
UpdateTask(s, t, v, goalChanged) ==
    /\ ActiveSession(t, s)
    /\ tasks[t].version = v
    /\ v < MaxUpdates
    /\ tasks' = [tasks EXCEPT ![t] = UpdatedTask(t, s, @.status)]
    /\ events' = IF goalChanged
                   THEN [events EXCEPT ![t] = Append(@, Event("GOAL_CHANGED", s, 0))]
                   ELSE events
    /\ UNCHANGED <<sessions, segments, checkpoints, clock>>

PauseTask(s, t, v, now) ==
    /\ tasks[t].version = v
    /\ sessions[s].task = t
    /\ \E c \in DOMAIN checkpoints :
        /\ PauseAllowed(s, c)
        /\ events' = EventsAfterSwitch(s, c)
    /\ tasks' = TasksAfterSwitch(s)
    /\ segments' = SegmentsAfterSwitch(s, now)
    /\ sessions' = [sessions EXCEPT ![s] = PointedSession(s, None, 0)]
    /\ UNCHANGED <<checkpoints, clock>>

ResumeTask(s, t, v, now) ==
    /\ tasks[t].version = v
    /\ tasks[t].status \in Resumable
    /\ \A o \in SessionId : sessions[o].task # t
    /\ Len(segments) < MaxSegments
    /\ \E checkpoint \in CheckpointsOf(t), c \in 0..Len(checkpoints),
          parent \in 0..Len(segments) :
        /\ IsLatestCheckpoint(checkpoint, t)
        /\ checkpoints[checkpoint].valid
        /\ SwitchAllowed(s, c)
        /\ IsLatestSegment(parent, t)
        /\ segments' = Append(SegmentsAfterSwitch(s, now),
                              NewSegment(t, s, now, parent, checkpoint))
        /\ events' = [EventsAfterSwitch(s, c) EXCEPT ![t] =
                        Append(@, Event("TASK_RESUMED", s, Len(segments) + 1))]
    /\ tasks' = [TasksAfterSwitch(s) EXCEPT ![t] =
                    [UpdatedTask(t, s, "active") EXCEPT !.resumeCount = @ + 1]]
    /\ sessions' = [sessions EXCEPT ![s] = PointedSession(s, t, Len(segments) + 1)]
    /\ UNCHANGED <<checkpoints, clock>>

\* What block, complete (and finalize) and cancel record.
TransitionEvent == [blocked |-> "TASK_BLOCKED", completed |-> "TASK_COMPLETED",
                    cancelled |-> "TASK_CANCELLED"]

TransitionTask(s, t, v, status, now) ==
    /\ tasks[t].version = v
    /\ ActiveSession(t, s)
    /\ status = "blocked" => CheckpointsOf(t) # {}
    /\ IsOpen(sessions[s].segment)
    /\ tasks' = [tasks EXCEPT ![t] = UpdatedTask(t, s, status)]
    /\ segments' = ClosedSegments(sessions[s].segment, now, status)
    /\ sessions' = [sessions EXCEPT ![s] = PointedSession(s, None, 0)]
    /\ events' = [events EXCEPT ![t] = Append(@, Event(TransitionEvent[status], s, 0))]
    /\ UNCHANGED <<checkpoints, clock>>

AppendEvent(s, t, type) ==
    /\ ActiveSession(t, s)
    /\ Len(events[t]) < MaxNotes
    /\ events' = [events EXCEPT ![t] =
                    Append(@, [Event(type, s, 0) EXCEPT !.byService = FALSE])]
    /\ UNCHANGED <<tasks, sessions, segments, checkpoints, clock>>

-----------------------------------------------------------------------------
(* CheckpointService and HandoffService *)

\* Plausible bug: any session may add a checkpoint to any task that exists.
CreateCheckpointUnchecked(s, t, now) ==
    /\ tasks[t].status # "absent"
    /\ Len(checkpoints) < MaxCheckpoints
    /\ checkpoints' = Append(checkpoints, [task |-> t, createdAt |-> now, valid |-> TRUE])
    /\ events' = [events EXCEPT ![t] =
                    Append(@, Event("CHECKPOINT_CREATED", s, Len(checkpoints) + 1))]
    /\ UNCHANGED <<tasks, sessions, segments, clock>>

CreateCheckpoint(s, t, now) ==
    /\ ActiveSession(t, s)
    /\ Len(checkpoints) < MaxCheckpoints
    /\ checkpoints' = Append(checkpoints, [task |-> t, createdAt |-> now, valid |-> TRUE])
    /\ events' = [events EXCEPT ![t] =
                    Append(@, Event("CHECKPOINT_CREATED", s, Len(checkpoints) + 1))]
    /\ UNCHANGED <<tasks, sessions, segments, clock>>

\* g: the segment the caller believes to be active.
Rotate(s, t, c, g, now) ==
    /\ checkpoints[c].task = t
    /\ checkpoints[c].valid
    /\ tasks[t].status = "active"
    /\ sessions[s].task = t
    /\ sessions[s].segment = g
    /\ segments[g].session = s
    /\ segments[g].task = t
    /\ IsOpen(g)
    /\ Len(segments) < MaxSegments
    /\ segments' = Append(ClosedSegments(g, now, "handoff"), NewSegment(t, s, now, g, c))
    /\ sessions' = [sessions EXCEPT ![s] = PointedSession(s, t, Len(segments) + 1)]
    /\ events' = [events EXCEPT ![t] =
                    Append(@, Event("HANDOFF_COMPLETED", s, Len(segments) + 1))]
    /\ UNCHANGED <<tasks, checkpoints, clock>>

-----------------------------------------------------------------------------
(* The environment *)

Tick ==
    /\ clock < MaxTime
    /\ clock' = clock + 1
    /\ UNCHANGED <<tasks, sessions, segments, checkpoints, events>>

\* Stored checkpoint content stops matching its checksum.
CorruptCheckpoint(c) ==
    /\ checkpoints[c].valid
    /\ checkpoints' = [checkpoints EXCEPT ![c].valid = FALSE]
    /\ UNCHANGED <<tasks, sessions, segments, events, clock>>

-----------------------------------------------------------------------------

\* v: the version the caller passes as expected_version; another one is refused.
TaskOperation(s, t, v, now) ==
    \/ \E parent \in TaskId \cup {None} : CreateTask(s, t, parent, now)
    \/ \E changed \in BOOLEAN : UpdateTask(s, t, v, changed)
    \/ PauseTask(s, t, v, now)
    \/ ResumeTask(s, t, v, now)
    \/ \E status \in Finished \cup {"blocked"} : TransitionTask(s, t, v, status, now)
    \/ \E type \in Notes : AppendEvent(s, t, type)

Next ==
    \/ \E s \in SessionId, t \in TaskId, now \in CallTimes :
          \/ TaskOperation(s, t, tasks[t].version, now)
          \/ CreateCheckpoint(s, t, now)
          \/ \E c \in DOMAIN checkpoints, g \in DOMAIN segments : Rotate(s, t, c, g, now)
    \/ Tick
    \/ \E c \in DOMAIN checkpoints : CorruptCheckpoint(c)

Spec == Init /\ [][Next]_vars

-----------------------------------------------------------------------------
(* Type invariant *)

\* Every table holds rows of its type; row numbers are within their tables.
TypeOK ==
    /\ tasks \in [TaskId -> TaskRecord]
    /\ sessions \in [SessionId -> SessionContextState]
    /\ segments \in Seq(ContextSegment)
    /\ checkpoints \in Seq(Checkpoint)
    /\ events \in [TaskId -> Seq(TaskEvent)]
    /\ clock \in 1..MaxTime

-----------------------------------------------------------------------------
(* Safety *)

\* A session points at a task only through an open segment of that session
\* and that task, and only while the task is active.
PointerWellFormed ==
    \A s \in SessionId :
        IF Attached(s)
          THEN /\ sessions[s].segment \in DOMAIN segments
               /\ segments[sessions[s].segment].session = s
               /\ segments[sessions[s].segment].task = sessions[s].task
               /\ IsOpen(sessions[s].segment)
               /\ tasks[sessions[s].task].status = "active"
          ELSE sessions[s].segment = 0

\* No two sessions hold the same task.
SingleOwner ==
    \A s, o \in SessionId : Attached(s) /\ sessions[s].task = sessions[o].task => s = o

\* An active task is held by a session: none is active and out of reach of
\* pause, update and checkpoint.
ActiveIsOwned ==
    \A t \in TaskId : tasks[t].status = "active" => \E s \in SessionId : sessions[s].task = t

\* Whatever mixture of create, switch, resume, rotate and transition ran, no
\* segment is left open behind: the open ones are the sessions' current ones.
OpenIsCurrent ==
    \A g \in DOMAIN segments : IsOpen(g) => sessions[segments[g].session].segment = g

\* The ownership promise: sessions, tasks and open segments agree one to one
\* (what _validate_active_pointer, _require_active_session, resume's attached
\* check and rotate's pointer checks each guard one side of).
Ownership ==
    /\ PointerWellFormed
    /\ SingleOwner
    /\ ActiveIsOwned
    /\ OpenIsCurrent

\* A segment continues a closed earlier segment of the same task exactly when
\* it starts from a checkpoint, and that checkpoint is the task's own: a
\* Bootstrap built from it cannot mix two tasks.
Lineage ==
    \A g \in DOMAIN segments :
        /\ segments[g].parent = 0 <=> segments[g].checkpoint = 0
        /\ segments[g].parent # 0 =>
              /\ segments[g].parent \in SegmentsOfTask(segments[g].task)
              /\ segments[g].parent < g
              /\ ~IsOpen(segments[g].parent)
              /\ segments[g].checkpoint \in CheckpointsOf(segments[g].task)

\* How the newest segment of a task ended is how the task stands.
StatusOfReason == [active |-> "", paused |-> "task_paused", blocked |-> "blocked",
                   completed |-> "completed", cancelled |-> "cancelled"]

StatusExplained ==
    \A g \in DOMAIN segments :
        (\A h \in SegmentsOfTask(segments[g].task) : h <= g) =>
            segments[g].reason = StatusOfReason[tasks[segments[g].task].status]

\* What the services logged of a task names every segment that continued it, in
\* the order the segments were opened (old segments stay traceable through the
\* event log).
ContinuationEvents(t) ==
    {i \in DOMAIN events[t] :
        events[t][i].byService /\ events[t][i].type \in {"TASK_RESUMED", "HANDOFF_COMPLETED"}}

Traceable ==
    \A t \in TaskId :
        LET named == ContinuationEvents(t)
            continued == {g \in SegmentsOfTask(t) : segments[g].parent # 0}
        IN  /\ {events[t][i].ref : i \in named} = continued
            /\ \A i, j \in named : i < j => events[t][i].ref < events[t][j].ref

\* A resumed task continues where it was paused: whatever ran in between, the
\* segment starts from the very checkpoint that the pause was allowed with, the
\* one its event names (each of the two calls looks up the latest checkpoint for
\* itself, and nothing in the tables ties the segment to the pause).
LogsPause(t, i) == events[t][i].byService /\ events[t][i].type = "TASK_PAUSED"
LogsResume(t, i) == events[t][i].byService /\ events[t][i].type = "TASK_RESUMED"

ResumesWherePaused ==
    \A t \in TaskId : \A i, j \in DOMAIN events[t] :
        /\ i < j
        /\ LogsPause(t, i)
        /\ LogsResume(t, j)
        /\ \A k \in (i + 1)..(j - 1) : ~LogsResume(t, k)
        => segments[events[t][j].ref].checkpoint = events[t][i].ref

-----------------------------------------------------------------------------
(* Recency: what the ORDER BY ... _time DESC queries are relied on for.    *)

\* The segments of one task form one chain in commit order: each resume and
\* each rotation continues the segment that was really the last one.
LinearHistory ==
    \A g \in DOMAIN segments :
        LET earlier == {h \in SegmentsOfTask(segments[g].task) : h < g}
        IN  IF earlier = {} THEN segments[g].parent = 0
            ELSE /\ segments[g].parent \in earlier
                 /\ \A h \in earlier : h <= segments[g].parent

\* The segment a session without an active task recovers from is the last one
\* it opened: no newer task of the session is skipped.
NewestIsRecovered ==
    \A s \in SessionId : \A g \in SegmentsOfSession(s) :
        ~Attached(s) /\ IsLatestIn(g, SegmentsOfSession(s)) =>
            \A h \in SegmentsOfSession(s) : h <= g

\* The recorded life of a task is a sequence of intervals: a segment starts no
\* earlier than any earlier one of the task ended. One may end before it started
\* itself, when the call that closed it is older than the segment; but only if a
\* switch closed it, for that needs no version of the task that is left, or if a
\* rotation had opened it, for that leaves the version as it was.
TaskTimeline ==
    \A g \in DOMAIN segments :
        /\ \A h \in SegmentsOfTask(segments[g].task) :
              h < g => segments[h].endTime <= segments[g].startTime
        /\ ~IsOpen(g) /\ segments[g].endTime < segments[g].startTime =>
              \/ segments[g].reason = "task_paused"
              \/ segments[g].parent # 0 /\ segments[segments[g].parent].reason = "handoff"

-----------------------------------------------------------------------------
(* What a step may never do *)

\* No tool call changes a completed or cancelled task, although update_task,
\* append_event and create_checkpoint do not look at its status: its row, its
\* segments and its checkpoints stay as they are, and neither services nor Agents
\* log anything about it. (Emergency compression does: FinishedOnlySettles.)
ToolsLeaveFinished ==
    [][\A t \in TaskId : tasks[t].status \in Finished =>
          /\ tasks'[t] = tasks[t]
          /\ events'[t] = events[t]
          /\ SegmentsOfTask(t)' = SegmentsOfTask(t)
          /\ CheckpointsOf(t)' = CheckpointsOf(t)]_vars

\* Segments are append-only and never reopened: a closed one keeps its row.
ClosedIsFinal ==
    [][\A g \in DOMAIN segments : ~IsOpen(g) =>
          g \in DOMAIN segments' /\ segments'[g] = segments[g]]_vars

=============================================================================
