------------------------ MODULE TaskLifecycle_proofs ------------------------
(* Proofs about TaskLifecycle for every number of tasks, sessions, segments *)
(* and checkpoints, and for StaleStamps TRUE and FALSE alike.               *)
EXTENDS TaskLifecycle, SequenceTheorems, TLAPS

-----------------------------------------------------------------------------
(* Type correctness *)

LEMMA TypeInit == Init => TypeOK
  BY BoundAssumption DEF Init, TypeOK, NoTask, NoSession, TaskRecord, SessionContextState

\* A clock reading a call may carry is a positive number, never NULL.
LEMMA CallTimesAreNat ==
  ASSUME TypeOK, NEW now \in CallTimes
  PROVE  now \in Nat /\ now # 0
  BY DEF TypeOK, CallTimes

\* update_task writes a well-typed row.
LEMMA UpdatedTaskType ==
  ASSUME TypeOK, NEW t \in TaskId, NEW s \in SessionId,
         NEW status \in TaskStatus \cup {"absent"}
  PROVE  UpdatedTask(t, s, status) \in TaskRecord
<1>1. tasks[t] \in TaskRecord
  BY DEF TypeOK
<1>2. tasks[t].version + 1 \in Nat
  BY <1>1 DEF TaskRecord
<1>3. status \in TaskStatus \cup {"absent"} /\ s \in SessionId \cup {None}
  OBVIOUS
<1> QED BY <1>1, <1>2, <1>3 DEF UpdatedTask, TaskRecord

\* close_segment changes one row at most and keeps the table well typed.
LEMMA ClosedSegmentsType ==
  ASSUME TypeOK, NEW g \in Nat, NEW now \in Nat, NEW reason \in HandoffReason
  PROVE  /\ ClosedSegments(g, now, reason) \in Seq(ContextSegment)
         /\ Len(ClosedSegments(g, now, reason)) = Len(segments)
<1> DEFINE row == [segments[g] EXCEPT !.endTime = now, !.reason = reason]
<1>1. segments \in Seq(ContextSegment)
  BY DEF TypeOK
<1>2. ClosedSegments(g, now, reason) = [segments EXCEPT ![g] = row]
  BY <1>1 DEF ClosedSegments
<1>3. CASE g \in 1..Len(segments)
  <2>1. segments[g] \in ContextSegment
    BY <1>1, <1>3, ElementOfSeq
  <2>2. row \in ContextSegment
    BY <2>1 DEF ContextSegment
  <2> HIDE DEF row
  <2> QED BY <1>1, <1>2, <1>3, <2>2, ExceptSeq
<1>4. CASE g \notin 1..Len(segments)
  <2>1. segments \in [1..Len(segments) -> ContextSegment]
    BY <1>1, LenProperties
  <2> HIDE DEF row
  <2>2. [segments EXCEPT ![g] = row] = segments
    BY <1>4, <2>1
  <2> QED BY <1>1, <1>2, <2>2
<1> QED BY <1>3, <1>4

\* Pausing the current task for a switch keeps the tables well typed.
LEMMA SwitchTypes ==
  ASSUME TypeOK, NEW s \in SessionId, NEW c \in Nat, NEW now \in Nat
  PROVE  /\ TasksAfterSwitch(s) \in [TaskId -> TaskRecord]
         /\ SegmentsAfterSwitch(s, now) \in Seq(ContextSegment)
         /\ Len(SegmentsAfterSwitch(s, now)) = Len(segments)
         /\ EventsAfterSwitch(s, c) \in [TaskId -> Seq(TaskEvent)]
<1>1. sessions[s].task \in TaskId \cup {None}
  BY DEF TypeOK, SessionContextState
<1>2. CASE ~Attached(s)
  BY <1>2 DEF TypeOK, TasksAfterSwitch, SegmentsAfterSwitch, EventsAfterSwitch
<1>3. CASE Attached(s)
  <2>1. sessions[s].task \in TaskId
    BY <1>1, <1>3 DEF Attached
  <2>2. TasksAfterSwitch(s) \in [TaskId -> TaskRecord]
    <3>1. UpdatedTask(sessions[s].task, s, "paused") \in TaskRecord
      BY <2>1, UpdatedTaskType DEF TaskStatus, Resumable
    <3> QED BY <1>3, <2>1, <3>1 DEF TypeOK, TasksAfterSwitch
  <2>3. EventsAfterSwitch(s, c) \in [TaskId -> Seq(TaskEvent)]
    <3>1. Event("TASK_PAUSED", s, c) \in TaskEvent
      BY DEF Event, TaskEvent, EventType, TaskEvents
    <3> QED BY <1>3, <2>1, <3>1 DEF TypeOK, EventsAfterSwitch
  <2>4. /\ SegmentsAfterSwitch(s, now) \in Seq(ContextSegment)
        /\ Len(SegmentsAfterSwitch(s, now)) = Len(segments)
    <3>1. sessions[s].segment \in Nat /\ "task_paused" \in HandoffReason
      BY DEF TypeOK, SessionContextState, HandoffReason
    <3> QED BY <1>3, <3>1, ClosedSegmentsType DEF SegmentsAfterSwitch
  <2> QED BY <2>2, <2>3, <2>4
<1> QED BY <1>2, <1>3

\* The pointer an operation leaves a session with is well typed.
LEMMA PointedSessionType ==
  ASSUME TypeOK, NEW s \in SessionId, NEW t \in TaskId \cup {None}, NEW g \in Nat
  PROVE  [sessions EXCEPT ![s] = PointedSession(s, t, g)] \in [SessionId -> SessionContextState]
<1>1. sessions[s] \in SessionContextState
  BY DEF TypeOK
<1>2. PointedSession(s, t, g) \in SessionContextState
  BY <1>1 DEF PointedSession, SessionContextState
<1> QED BY <1>2 DEF TypeOK

\* Opening a segment after the switch keeps the table well typed.
LEMMA OpenedSegmentType ==
  ASSUME TypeOK, NEW s \in SessionId, NEW t \in TaskId, NEW now \in Nat,
         NEW parent \in Nat, NEW c \in Nat,
         NEW closed \in Seq(ContextSegment)
  PROVE  Append(closed, NewSegment(t, s, now, parent, c)) \in Seq(ContextSegment)
<1>1. NewSegment(t, s, now, parent, c) \in ContextSegment
  BY DEF NewSegment, ContextSegment, HandoffReason
<1> QED BY <1>1, AppendProperties

\* Appending one event to the log of one task keeps the logs well typed.
LEMMA AppendedEventType ==
  ASSUME NEW log \in [TaskId -> Seq(TaskEvent)], NEW t \in TaskId, NEW s \in SessionId,
         NEW type \in EventType, NEW ref \in Nat
  PROVE  [log EXCEPT ![t] = Append(@, Event(type, s, ref))] \in [TaskId -> Seq(TaskEvent)]
<1>1. Event(type, s, ref) \in TaskEvent
  BY DEF Event, TaskEvent
<1>2. Append(log[t], Event(type, s, ref)) \in Seq(TaskEvent)
  BY <1>1, AppendProperties
<1> QED BY <1>2

LEMMA SegmentCountIsNat ==
  ASSUME TypeOK
  PROVE  /\ Len(segments) \in Nat
         /\ DOMAIN segments = 1..Len(segments)
         /\ Len(checkpoints) \in Nat
         /\ DOMAIN checkpoints = 1..Len(checkpoints)
  BY LenProperties DEF TypeOK

LEMMA CreateTaskType ==
  ASSUME TypeOK, NEW s \in SessionId, NEW t \in TaskId, NEW parent \in TaskId \cup {None},
         NEW now \in Nat, CreateTask(s, t, parent, now)
  PROVE  TypeOK'
<1>1. PICK c \in 0..Len(checkpoints) :
        events' = [EventsAfterSwitch(s, c) EXCEPT ![t] =
                     <<Event("TASK_CREATED", s, 0)>> \o
                     IF Attached(s) THEN <<Event("NEW_TASK_STARTED", s, 0)>> ELSE <<>>]
  BY DEF CreateTask
<1>2. c \in Nat /\ Len(segments) + 1 \in Nat
  BY SegmentCountIsNat
<1>3. tasks' \in [TaskId -> TaskRecord]
  <2>1. [status |-> "active", version |-> 0, resumeCount |-> 0,
         lastSession |-> s, parent |-> parent] \in TaskRecord
    BY DEF TaskRecord, TaskStatus
  <2> QED BY <1>2, <2>1, SwitchTypes DEF CreateTask
<1>4. segments' \in Seq(ContextSegment)
  BY <1>2, SwitchTypes, OpenedSegmentType DEF CreateTask
<1>5. sessions' \in [SessionId -> SessionContextState]
  BY <1>2, PointedSessionType DEF CreateTask
<1>6. events' \in [TaskId -> Seq(TaskEvent)]
  <2>1. Event("TASK_CREATED", s, 0) \in TaskEvent /\ Event("NEW_TASK_STARTED", s, 0) \in TaskEvent
    BY DEF Event, TaskEvent, EventType, TaskEvents
  <2>2. <<Event("TASK_CREATED", s, 0)>> \o
          (IF Attached(s) THEN <<Event("NEW_TASK_STARTED", s, 0)>> ELSE <<>>) \in Seq(TaskEvent)
    BY <2>1
  <2> QED BY <1>1, <1>2, <2>2, SwitchTypes
<1> QED BY <1>3, <1>4, <1>5, <1>6 DEF CreateTask, TypeOK

LEMMA UpdateTaskType ==
  ASSUME TypeOK, NEW s \in SessionId, NEW t \in TaskId, NEW changed \in BOOLEAN,
         UpdateTask(s, t, tasks[t].version, changed)
  PROVE  TypeOK'
<1>1. tasks' \in [TaskId -> TaskRecord]
  <2>1. tasks[t].status \in TaskStatus \cup {"absent"}
    BY DEF TypeOK, TaskRecord
  <2> QED BY <2>1, UpdatedTaskType DEF TypeOK, UpdateTask
<1>2. events' \in [TaskId -> Seq(TaskEvent)]
  <2>1. "GOAL_CHANGED" \in EventType
    BY DEF EventType, TaskEvents
  <2> QED BY <2>1, AppendedEventType DEF TypeOK, UpdateTask
<1> QED BY <1>1, <1>2 DEF UpdateTask, TypeOK

LEMMA PauseTaskType ==
  ASSUME TypeOK, NEW s \in SessionId, NEW t \in TaskId, NEW now \in Nat,
         PauseTask(s, t, tasks[t].version, now)
  PROVE  TypeOK'
<1>1. PICK c \in DOMAIN checkpoints : events' = EventsAfterSwitch(s, c)
  BY DEF PauseTask
<1>2. c \in Nat
  BY SegmentCountIsNat
<1>3. sessions' \in [SessionId -> SessionContextState]
  BY PointedSessionType DEF PauseTask
<1> QED BY <1>1, <1>2, <1>3, SwitchTypes DEF PauseTask, TypeOK

LEMMA ResumeTaskType ==
  ASSUME TypeOK, NEW s \in SessionId, NEW t \in TaskId, NEW now \in Nat,
         ResumeTask(s, t, tasks[t].version, now)
  PROVE  TypeOK'
<1>1. PICK checkpoint \in CheckpointsOf(t), c \in 0..Len(checkpoints),
           parent \in 0..Len(segments) :
        /\ segments' = Append(SegmentsAfterSwitch(s, now),
                              NewSegment(t, s, now, parent, checkpoint))
        /\ events' = [EventsAfterSwitch(s, c) EXCEPT ![t] =
                        Append(@, Event("TASK_RESUMED", s, Len(segments) + 1))]
  BY DEF ResumeTask
<1>2. /\ c \in Nat /\ parent \in Nat /\ checkpoint \in Nat
      /\ Len(segments) + 1 \in Nat
  BY SegmentCountIsNat DEF CheckpointsOf
<1>3. tasks' \in [TaskId -> TaskRecord]
  <2>1. UpdatedTask(t, s, "active") \in TaskRecord
    BY UpdatedTaskType DEF TaskStatus
  <2>2. [UpdatedTask(t, s, "active") EXCEPT !.resumeCount = @ + 1] \in TaskRecord
    <3> DEFINE row == UpdatedTask(t, s, "active")
    <3>1. row.resumeCount + 1 \in Nat
      BY <2>1 DEF TaskRecord
    <3> HIDE DEF row
    <3>2. [row EXCEPT !.resumeCount = row.resumeCount + 1] \in TaskRecord
      BY <2>1, <3>1 DEF TaskRecord, row
    <3> QED BY <3>2 DEF row
  <2> QED BY <1>2, <2>2, SwitchTypes DEF ResumeTask
<1>4. segments' \in Seq(ContextSegment)
  BY <1>1, <1>2, SwitchTypes, OpenedSegmentType
<1>5. sessions' \in [SessionId -> SessionContextState]
  BY <1>2, PointedSessionType DEF ResumeTask
<1>6. events' \in [TaskId -> Seq(TaskEvent)]
  <2>1. "TASK_RESUMED" \in EventType
    BY DEF EventType, TaskEvents
  <2>2. EventsAfterSwitch(s, c) \in [TaskId -> Seq(TaskEvent)]
    BY <1>2, SwitchTypes
  <2> QED BY <1>1, <1>2, <2>1, <2>2, AppendedEventType
<1> QED BY <1>3, <1>4, <1>5, <1>6 DEF ResumeTask, TypeOK

LEMMA TransitionTaskType ==
  ASSUME TypeOK, NEW s \in SessionId, NEW t \in TaskId, NEW now \in Nat,
         NEW status \in Finished \cup {"blocked"},
         TransitionTask(s, t, tasks[t].version, status, now)
  PROVE  TypeOK'
<1>1. tasks' \in [TaskId -> TaskRecord]
  <2>1. status \in TaskStatus \cup {"absent"}
    BY DEF TaskStatus, Finished, Resumable
  <2> QED BY <2>1, UpdatedTaskType DEF TypeOK, TransitionTask
<1>2. segments' \in Seq(ContextSegment)
  <2>1. sessions[s].segment \in Nat /\ status \in HandoffReason
    BY DEF TypeOK, SessionContextState, HandoffReason, Finished
  <2> QED BY <2>1, ClosedSegmentsType DEF TransitionTask
<1>3. sessions' \in [SessionId -> SessionContextState]
  BY PointedSessionType DEF TransitionTask
<1>4. events' \in [TaskId -> Seq(TaskEvent)]
  <2>1. TransitionEvent[status] \in EventType
    BY DEF TransitionEvent, EventType, TaskEvents, Finished
  <2> QED BY <2>1, AppendedEventType DEF TypeOK, TransitionTask
<1> QED BY <1>1, <1>2, <1>3, <1>4 DEF TransitionTask, TypeOK

LEMMA AppendEventType ==
  ASSUME TypeOK, NEW s \in SessionId, NEW t \in TaskId, NEW type \in Notes,
         AppendEvent(s, t, type)
  PROVE  TypeOK'
<1> DEFINE note == [Event(type, s, 0) EXCEPT !.byService = FALSE]
<1>1. note \in TaskEvent
  BY DEF Event, TaskEvent, EventType
<1> HIDE DEF note
<1>2. Append(events[t], note) \in Seq(TaskEvent)
  BY <1>1, AppendProperties DEF TypeOK
<1>3. events' = [events EXCEPT ![t] = Append(events[t], note)]
  BY DEF AppendEvent, note
<1> QED BY <1>2, <1>3 DEF TypeOK, AppendEvent

LEMMA CreateCheckpointType ==
  ASSUME TypeOK, NEW s \in SessionId, NEW t \in TaskId, NEW now \in Nat,
         CreateCheckpoint(s, t, now)
  PROVE  TypeOK'
<1>1. checkpoints' \in Seq(Checkpoint)
  <2>1. [task |-> t, createdAt |-> now, valid |-> TRUE] \in Checkpoint
    BY DEF Checkpoint
  <2> QED BY <2>1, AppendProperties DEF TypeOK, CreateCheckpoint
<1>2. events' \in [TaskId -> Seq(TaskEvent)]
  <2>1. "CHECKPOINT_CREATED" \in EventType /\ Len(checkpoints) + 1 \in Nat
    BY SegmentCountIsNat DEF EventType
  <2> QED BY <2>1, AppendedEventType DEF TypeOK, CreateCheckpoint
<1> QED BY <1>1, <1>2 DEF CreateCheckpoint, TypeOK

LEMMA RotateType ==
  ASSUME TypeOK, NEW s \in SessionId, NEW t \in TaskId, NEW now \in Nat,
         NEW c \in DOMAIN checkpoints, NEW g \in DOMAIN segments,
         Rotate(s, t, c, g, now)
  PROVE  TypeOK'
<1>1. c \in Nat /\ g \in Nat /\ Len(segments) + 1 \in Nat
  BY SegmentCountIsNat
<1>2. segments' \in Seq(ContextSegment)
  <2>1. "handoff" \in HandoffReason
    BY DEF HandoffReason
  <2> QED BY <1>1, <2>1, ClosedSegmentsType, OpenedSegmentType DEF Rotate
<1>3. sessions' \in [SessionId -> SessionContextState]
  BY <1>1, PointedSessionType DEF Rotate
<1>4. events' \in [TaskId -> Seq(TaskEvent)]
  <2>1. "HANDOFF_COMPLETED" \in EventType
    BY DEF EventType, Notes
  <2> QED BY <1>1, <2>1, AppendedEventType DEF TypeOK, Rotate
<1> QED BY <1>2, <1>3, <1>4 DEF Rotate, TypeOK

LEMMA CorruptCheckpointType ==
  ASSUME TypeOK, NEW c \in DOMAIN checkpoints, CorruptCheckpoint(c)
  PROVE  TypeOK'
<1>1. checkpoints \in Seq(Checkpoint) /\ c \in 1..Len(checkpoints)
  BY SegmentCountIsNat DEF TypeOK
<1>2. [checkpoints[c] EXCEPT !.valid = FALSE] \in Checkpoint
  <2>1. checkpoints[c] \in Checkpoint
    BY <1>1, ElementOfSeq
  <2> QED BY <2>1 DEF Checkpoint
<1>3. checkpoints' \in Seq(Checkpoint)
  BY <1>1, <1>2, ExceptSeq DEF CorruptCheckpoint
<1> QED BY <1>3 DEF CorruptCheckpoint, TypeOK

LEMMA TypeStep ==
  ASSUME TypeOK, [Next]_vars
  PROVE  TypeOK'
<1>1. ASSUME NEW s \in SessionId, NEW t \in TaskId, NEW now \in CallTimes,
             TaskOperation(s, t, tasks[t].version, now)
      PROVE  TypeOK'
  BY <1>1, CallTimesAreNat, CreateTaskType, UpdateTaskType, PauseTaskType, ResumeTaskType,
     TransitionTaskType, AppendEventType DEF TaskOperation
<1>2. ASSUME NEW s \in SessionId, NEW t \in TaskId, NEW now \in CallTimes,
             CreateCheckpoint(s, t, now)
      PROVE  TypeOK'
  BY <1>2, CallTimesAreNat, CreateCheckpointType
<1>3. ASSUME NEW s \in SessionId, NEW t \in TaskId, NEW now \in CallTimes,
             NEW c \in DOMAIN checkpoints, NEW g \in DOMAIN segments,
             Rotate(s, t, c, g, now)
      PROVE  TypeOK'
  BY <1>3, CallTimesAreNat, RotateType
<1>4. ASSUME Tick PROVE TypeOK'
  BY <1>4, BoundAssumption DEF Tick, TypeOK
<1>5. ASSUME NEW c \in DOMAIN checkpoints, CorruptCheckpoint(c) PROVE TypeOK'
  BY <1>5, CorruptCheckpointType
<1>6. ASSUME UNCHANGED vars PROVE TypeOK'
  BY <1>6 DEF vars, TypeOK
<1> QED BY <1>1, <1>2, <1>3, <1>4, <1>5, <1>6 DEF Next

\* Every row of every table keeps its type, whatever the calls and the clock
\* readings they carry.
THEOREM TypeCorrect == Spec => []TypeOK
<1>1. TypeOK /\ [Next]_vars => TypeOK'
  BY TypeStep
<1> QED BY <1>1, TypeInit, PTL DEF Spec

-----------------------------------------------------------------------------
(* Ownership. Three shapes of step cover the operations: a session opens a  *)
(* new segment (create, resume, rotate), a session lets its task go (pause, *)
(* block, complete, cancel), and everything else.                           *)

\* A row of the segments table has the fields of its type.
LEMMA SegmentRow ==
  ASSUME TypeOK, NEW g \in 1..Len(segments)
  PROVE  segments[g] \in ContextSegment
  BY ElementOfSeq DEF TypeOK

\* close_segment leaves every other row alone, and session, task, parent,
\* checkpoint and start time of the row it closes.
LEMMA ClosedSegmentsRows ==
  ASSUME TypeOK, NEW g \in Nat, NEW now \in Nat, NEW reason \in HandoffReason,
         NEW h \in 1..Len(segments)
  PROVE  /\ ClosedSegments(g, now, reason)[h].session = segments[h].session
         /\ ClosedSegments(g, now, reason)[h].task = segments[h].task
         /\ ClosedSegments(g, now, reason)[h].parent = segments[h].parent
         /\ ClosedSegments(g, now, reason)[h].checkpoint = segments[h].checkpoint
         /\ ClosedSegments(g, now, reason)[h].startTime = segments[h].startTime
         /\ ClosedSegments(g, now, reason)[h].endTime = IF h = g THEN now ELSE segments[h].endTime
         /\ ClosedSegments(g, now, reason)[h].reason = IF h = g THEN reason ELSE segments[h].reason
         /\ h # g => ClosedSegments(g, now, reason)[h] = segments[h]
<1>1. segments[h] \in ContextSegment
  BY SegmentRow
<1>2. h \in DOMAIN segments
  BY SegmentCountIsNat
<1>3. CASE h = g
  <2>1. ClosedSegments(g, now, reason)[h]
          = [[segments[h] EXCEPT !.endTime = now] EXCEPT !.reason = reason]
    BY <1>2, <1>3 DEF ClosedSegments
  <2> QED BY <1>1, <1>3, <2>1 DEF ContextSegment
<1>4. CASE h # g
  BY <1>2, <1>4 DEF ClosedSegments
<1> QED BY <1>3, <1>4

\* The same for a switch, which closes the current segment of s if it has one.
LEMMA SwitchRows ==
  ASSUME TypeOK, Ownership, NEW s \in SessionId, NEW now \in Nat, NEW h \in 1..Len(segments)
  PROVE  /\ SegmentsAfterSwitch(s, now)[h].session = segments[h].session
         /\ SegmentsAfterSwitch(s, now)[h].task = segments[h].task
         /\ SegmentsAfterSwitch(s, now)[h].parent = segments[h].parent
         /\ SegmentsAfterSwitch(s, now)[h].checkpoint = segments[h].checkpoint
         /\ SegmentsAfterSwitch(s, now)[h].startTime = segments[h].startTime
         /\ SegmentsAfterSwitch(s, now)[h].endTime =
              IF h = sessions[s].segment THEN now ELSE segments[h].endTime
         /\ SegmentsAfterSwitch(s, now)[h].reason =
              IF h = sessions[s].segment THEN "task_paused" ELSE segments[h].reason
         /\ h # sessions[s].segment => SegmentsAfterSwitch(s, now)[h] = segments[h]
<1>1. CASE Attached(s)
  <2>1. sessions[s].segment \in Nat /\ "task_paused" \in HandoffReason
    BY DEF TypeOK, SessionContextState, HandoffReason
  <2> QED BY <1>1, <2>1, ClosedSegmentsRows, SMTT(30) DEF SegmentsAfterSwitch
<1>2. CASE ~Attached(s)
  <2>1. h # sessions[s].segment
    BY <1>2 DEF Ownership, PointerWellFormed
  <2> QED BY <1>2, <2>1 DEF SegmentsAfterSwitch
<1> QED BY <1>1, <1>2

\* A task that is not active is in nobody's hands.
LEMMA InactiveIsFree ==
  ASSUME Ownership, NEW t \in TaskId, tasks[t].status # "active", NEW o \in SessionId
  PROVE  sessions[o].task # t
  BY NoneAssumption DEF Ownership, PointerWellFormed, Attached

\* The segments table in a step in which s closes the segment it points at: no
\* other column of any row changes.
ClosesCurrent(s, now, reason) ==
    \A h \in 1..Len(segments) :
        /\ segments'[h].session = segments[h].session
        /\ segments'[h].task = segments[h].task
        /\ segments'[h].parent = segments[h].parent
        /\ segments'[h].checkpoint = segments[h].checkpoint
        /\ segments'[h].startTime = segments[h].startTime
        /\ segments'[h].endTime = IF h = sessions[s].segment THEN now ELSE segments[h].endTime
        /\ segments'[h].reason = IF h = sessions[s].segment THEN reason ELSE segments[h].reason

\* The row an operation opens a segment with.
LEMMA NewSegmentFields ==
  ASSUME NEW s, NEW t, NEW now, NEW parent, NEW c
  PROVE  /\ NewSegment(t, s, now, parent, c).session = s
         /\ NewSegment(t, s, now, parent, c).task = t
         /\ NewSegment(t, s, now, parent, c).parent = parent
         /\ NewSegment(t, s, now, parent, c).checkpoint = c
         /\ NewSegment(t, s, now, parent, c).startTime = now
         /\ NewSegment(t, s, now, parent, c).endTime = 0
  BY DEF NewSegment

\* s opens a segment of task t, which nobody else holds; whatever it held is paused.
Opens(s, t, parent, c, now) ==
    /\ now # 0
    /\ Len(segments') = Len(segments) + 1
    /\ ClosesCurrent(s, now, IF sessions[s].task = t THEN "handoff" ELSE "task_paused")
    /\ segments'[Len(segments) + 1] = NewSegment(t, s, now, parent, c)
    /\ sessions' = [sessions EXCEPT ![s] = PointedSession(s, t, Len(segments) + 1)]
    /\ tasks'[t].status = "active"
    /\ \A u \in TaskId \ {t} :
          tasks'[u].status = IF u = sessions[s].task THEN "paused" ELSE tasks[u].status
    /\ \A o \in SessionId \ {s} : sessions[o].task # t

LEMMA OpeningKeepsOwnership ==
  ASSUME TypeOK, Ownership, TypeOK',
         NEW s \in SessionId, NEW t \in TaskId, NEW now \in Nat, NEW parent, NEW c,
         Opens(s, t, parent, c, now)
  PROVE  Ownership'
<1> DEFINE n == Len(segments)
<1>0. /\ now # 0
      /\ Len(segments') = n + 1
      /\ \A h \in 1..n :
            /\ segments'[h].session = segments[h].session
            /\ segments'[h].task = segments[h].task
            /\ segments'[h].endTime = IF h = sessions[s].segment THEN now ELSE segments[h].endTime
      /\ segments'[n + 1].session = s
      /\ segments'[n + 1].task = t
      /\ segments'[n + 1].endTime = 0
      /\ sessions' = [sessions EXCEPT ![s] = PointedSession(s, t, n + 1)]
      /\ tasks'[t].status = "active"
      /\ \A u \in TaskId \ {t} :
            tasks'[u].status = IF u = sessions[s].task THEN "paused" ELSE tasks[u].status
      /\ \A o \in SessionId \ {s} : sessions[o].task # t
  <2>1. ClosesCurrent(s, now, IF sessions[s].task = t THEN "handoff" ELSE "task_paused")
    BY DEF Opens
  <2>2. \A h \in 1..n :
          /\ segments'[h].session = segments[h].session
          /\ segments'[h].task = segments[h].task
          /\ segments'[h].endTime = IF h = sessions[s].segment THEN now ELSE segments[h].endTime
    BY <2>1 DEF ClosesCurrent
  <2>3. segments'[n + 1] = NewSegment(t, s, now, parent, c)
    BY DEF Opens
  <2>4. /\ segments'[n + 1].session = s
        /\ segments'[n + 1].task = t
        /\ segments'[n + 1].endTime = 0
    BY <2>3, NewSegmentFields
  <2> QED BY <2>2, <2>4 DEF Opens
<1>1. /\ n \in Nat /\ DOMAIN segments = 1..n
      /\ DOMAIN segments' = 1..(n + 1)
  <2>1. DOMAIN segments' = 1..Len(segments')
    BY LenProperties DEF TypeOK
  <2> QED BY <1>0, <2>1, SegmentCountIsNat
<1>2. /\ sessions'[s].task = t
      /\ sessions'[s].segment = n + 1
      /\ \A o \in SessionId \ {s} : sessions'[o] = sessions[o]
  BY <1>0 DEF TypeOK, PointedSession
<1>3. t # None
  BY NoneAssumption
<1>4. \A o \in SessionId \ {s} : Attached(o) =>
        /\ sessions[o].segment \in 1..n
        /\ sessions[o].segment # sessions[s].segment
        /\ sessions[o].task # sessions[s].task
        /\ sessions[o].task \in TaskId \ {t}
  <2> TAKE o \in SessionId \ {s}
  <2> HAVE Attached(o)
  <2>1. sessions[o].segment \in 1..n /\ segments[sessions[o].segment].session = o
    BY <1>1 DEF Ownership, PointerWellFormed
  <2>2. sessions[o].segment # sessions[s].segment
    <3>1. CASE Attached(s)
      BY <2>1, <3>1 DEF Ownership, PointerWellFormed
    <3>2. CASE ~Attached(s)
      BY <1>1, <2>1, <3>2 DEF Ownership, PointerWellFormed
    <3> QED BY <3>1, <3>2
  <2>3. sessions[o].task # sessions[s].task
    BY DEF Ownership, SingleOwner
  <2>4. sessions[o].task \in TaskId
    BY DEF TypeOK, SessionContextState, Attached
  <2> QED BY <1>0, <2>1, <2>2, <2>3, <2>4
<1>5. PointerWellFormed'
  <2> SUFFICES ASSUME NEW o \in SessionId
               PROVE  IF Attached(o)'
                        THEN /\ sessions'[o].segment \in DOMAIN segments'
                             /\ segments'[sessions'[o].segment].session = o
                             /\ segments'[sessions'[o].segment].task = sessions'[o].task
                             /\ segments'[sessions'[o].segment].endTime = 0
                             /\ tasks'[sessions'[o].task].status = "active"
                        ELSE sessions'[o].segment = 0
    BY DEF PointerWellFormed, IsOpen
  <2>1. CASE o = s
    BY <1>0, <1>1, <1>2, <1>3, <2>1 DEF Attached
  <2>2. CASE o # s /\ Attached(o)
    BY <1>0, <1>1, <1>2, <1>4, <2>2 DEF Attached, Ownership, PointerWellFormed, IsOpen
  <2>3. CASE o # s /\ ~Attached(o)
    BY <1>2, <2>3 DEF Attached, Ownership, PointerWellFormed
  <2> QED BY <2>1, <2>2, <2>3
<1>6. SingleOwner'
  BY <1>0, <1>2, <1>3 DEF Ownership, SingleOwner, Attached
<1>7. ActiveIsOwned'
  <2> SUFFICES ASSUME NEW u \in TaskId, tasks'[u].status = "active"
               PROVE  \E o \in SessionId : sessions'[o].task = u
    BY DEF ActiveIsOwned
  <2>1. CASE u = t
    BY <1>2, <2>1
  <2>2. CASE u # t
    <3>1. u # sessions[s].task /\ tasks[u].status = "active"
      BY <1>0, <2>2
    <3> QED BY <1>2, <3>1 DEF Ownership, ActiveIsOwned
  <2> QED BY <2>1, <2>2
<1>8. OpenIsCurrent'
  <2> SUFFICES ASSUME NEW g \in 1..(n + 1), segments'[g].endTime = 0
               PROVE  sessions'[segments'[g].session].segment = g
    BY <1>1 DEF OpenIsCurrent, IsOpen
  <2>1. CASE g = n + 1
    BY <1>0, <1>2, <2>1
  <2>2. CASE g \in 1..n
    <3>1. g # sessions[s].segment /\ segments[g].endTime = 0
      BY <1>0, <2>2
    <3>2. sessions[segments[g].session].segment = g
      BY <1>1, <2>2, <3>1 DEF Ownership, OpenIsCurrent, IsOpen
    <3>3. segments[g].session \in SessionId
      BY <2>2, SegmentRow DEF ContextSegment
    <3> QED BY <1>0, <1>2, <2>2, <3>1, <3>2, <3>3
  <2> QED BY <1>1, <2>1, <2>2
<1> QED BY <1>5, <1>6, <1>7, <1>8 DEF Ownership

\* s closes the segment of the task t it holds and lets the task go.
Releases(s, t, status, now) ==
    /\ now # 0
    /\ sessions[s].task = t
    /\ Len(segments') = Len(segments)
    /\ ClosesCurrent(s, now, StatusOfReason[status])
    /\ sessions' = [sessions EXCEPT ![s] = PointedSession(s, None, 0)]
    /\ status # "active"
    /\ tasks'[t].status = status
    /\ \A u \in TaskId \ {t} : tasks'[u].status = tasks[u].status

LEMMA ReleasingKeepsOwnership ==
  ASSUME TypeOK, Ownership, TypeOK',
         NEW s \in SessionId, NEW t \in TaskId, NEW now \in Nat, NEW status,
         Releases(s, t, status, now)
  PROVE  Ownership'
<1> USE DEF Releases, ClosesCurrent
<1> DEFINE n == Len(segments)
<1>1. /\ n \in Nat /\ DOMAIN segments = 1..n
      /\ DOMAIN segments' = 1..n
  <2>1. DOMAIN segments' = 1..Len(segments')
    BY LenProperties DEF TypeOK
  <2> QED BY <2>1, SegmentCountIsNat
<1>2. /\ sessions'[s].task = None
      /\ sessions'[s].segment = 0
      /\ \A o \in SessionId \ {s} : sessions'[o] = sessions[o]
  BY DEF TypeOK, PointedSession
<1>3. Attached(s)
  BY NoneAssumption DEF Attached
<1>4. \A o \in SessionId \ {s} : Attached(o) =>
        /\ sessions[o].segment \in 1..n
        /\ sessions[o].segment # sessions[s].segment
        /\ sessions[o].task \in TaskId \ {t}
  <2> TAKE o \in SessionId \ {s}
  <2> HAVE Attached(o)
  <2>1. sessions[o].segment \in 1..n /\ segments[sessions[o].segment].session = o
    BY <1>1 DEF Ownership, PointerWellFormed
  <2>2. segments[sessions[s].segment].session = s
    BY <1>3 DEF Ownership, PointerWellFormed
  <2>3. sessions[o].task # t
    BY DEF Ownership, SingleOwner
  <2>4. sessions[o].task \in TaskId
    BY DEF TypeOK, SessionContextState, Attached
  <2> QED BY <2>1, <2>2, <2>3, <2>4
<1>5. PointerWellFormed'
  <2> SUFFICES ASSUME NEW o \in SessionId
               PROVE  IF Attached(o)'
                        THEN /\ sessions'[o].segment \in DOMAIN segments'
                             /\ segments'[sessions'[o].segment].session = o
                             /\ segments'[sessions'[o].segment].task = sessions'[o].task
                             /\ segments'[sessions'[o].segment].endTime = 0
                             /\ tasks'[sessions'[o].task].status = "active"
                        ELSE sessions'[o].segment = 0
    BY DEF PointerWellFormed, IsOpen
  <2>1. CASE o = s
    BY <1>2, <2>1 DEF Attached
  <2>2. CASE o # s /\ Attached(o)
    BY <1>1, <1>2, <1>4, <2>2 DEF Attached, Ownership, PointerWellFormed, IsOpen
  <2>3. CASE o # s /\ ~Attached(o)
    BY <1>2, <2>3 DEF Attached, Ownership, PointerWellFormed
  <2> QED BY <2>1, <2>2, <2>3
<1>6. SingleOwner'
  BY <1>2 DEF Ownership, SingleOwner, Attached
<1>7. ActiveIsOwned'
  BY <1>2 DEF Ownership, ActiveIsOwned
<1>8. OpenIsCurrent'
  <2> SUFFICES ASSUME NEW g \in 1..n, segments'[g].endTime = 0
               PROVE  sessions'[segments'[g].session].segment = g
    BY <1>1 DEF OpenIsCurrent, IsOpen
  <2>1. g # sessions[s].segment /\ segments[g].endTime = 0
    OBVIOUS
  <2>2. sessions[segments[g].session].segment = g
    BY <1>1, <2>1 DEF Ownership, OpenIsCurrent, IsOpen
  <2>3. segments[g].session \in SessionId
    BY SegmentRow DEF ContextSegment
  <2> QED BY <1>2, <2>1, <2>2, <2>3
<1> QED BY <1>5, <1>6, <1>7, <1>8 DEF Ownership

LEMMA QuietKeepsOwnership ==
  ASSUME Ownership, UNCHANGED <<sessions, segments>>,
         \A u \in TaskId : tasks'[u].status = tasks[u].status,
         \A s \in SessionId : sessions[s].task \in TaskId \cup {None}
  PROVE  Ownership'
  BY DEF Ownership, PointerWellFormed, SingleOwner, ActiveIsOwned, OpenIsCurrent, IsOpen, Attached

\* What a switch leaves in the tasks table.
LEMMA SwitchStatus ==
  ASSUME TypeOK, Ownership, NEW s \in SessionId, NEW u \in TaskId
  PROVE  TasksAfterSwitch(s)[u].status =
            IF u = sessions[s].task THEN "paused" ELSE tasks[u].status
<1>1. tasks[u] \in TaskRecord
  BY DEF TypeOK
<1>2. CASE u = sessions[s].task
  <2>1. Attached(s)
    BY <1>2, NoneAssumption DEF Attached
  <2>2. TasksAfterSwitch(s)[u] = UpdatedTask(u, s, "paused")
    BY <1>2, <2>1 DEF TasksAfterSwitch, TypeOK
  <2> QED BY <1>1, <1>2, <2>2 DEF UpdatedTask, TaskRecord
<1>3. CASE u # sessions[s].task
  BY <1>3 DEF TasksAfterSwitch, TypeOK
<1> QED BY <1>2, <1>3

\* The rows after a switch that opens a segment: the old ones as the switch
\* leaves them, then the new one.
LEMMA OpenedAfterSwitchRows ==
  ASSUME TypeOK, Ownership, NEW s \in SessionId, NEW t \in TaskId, NEW now \in Nat,
         NEW parent \in Nat, NEW c \in Nat,
         segments' = Append(SegmentsAfterSwitch(s, now), NewSegment(t, s, now, parent, c))
  PROVE  /\ Len(segments') = Len(segments) + 1
         /\ \A h \in 1..Len(segments) : segments'[h] = SegmentsAfterSwitch(s, now)[h]
         /\ segments'[Len(segments) + 1] = NewSegment(t, s, now, parent, c)
<1>1. NewSegment(t, s, now, parent, c) \in ContextSegment
  BY DEF NewSegment, ContextSegment, HandoffReason
<1>2. /\ SegmentsAfterSwitch(s, now) \in Seq(ContextSegment)
      /\ Len(SegmentsAfterSwitch(s, now)) = Len(segments)
  BY SwitchTypes
<1> QED BY <1>1, <1>2, AppendProperties

\* A step that opens a segment after a switch, with its tasks and pointers.
LEMMA OpensAfterSwitch ==
  ASSUME TypeOK, Ownership, NEW s \in SessionId, NEW t \in TaskId,
         NEW parent \in Nat, NEW c \in Nat, NEW now \in Nat, now # 0,
         segments' = Append(SegmentsAfterSwitch(s, now), NewSegment(t, s, now, parent, c)),
         sessions' = [sessions EXCEPT ![s] = PointedSession(s, t, Len(segments) + 1)],
         tasks'[t].status = "active",
         \A u \in TaskId \ {t} : tasks'[u] = TasksAfterSwitch(s)[u],
         \A o \in SessionId : sessions[o].task # t
  PROVE  Opens(s, t, parent, c, now)
<1>1. /\ Len(segments') = Len(segments) + 1
      /\ \A h \in 1..Len(segments) : segments'[h] = SegmentsAfterSwitch(s, now)[h]
      /\ segments'[Len(segments) + 1] = NewSegment(t, s, now, parent, c)
  BY OpenedAfterSwitchRows
<1>2. ClosesCurrent(s, now, "task_paused")
  BY <1>1, SwitchRows DEF ClosesCurrent
<1>3. \A u \in TaskId \ {t} :
        tasks'[u].status = IF u = sessions[s].task THEN "paused" ELSE tasks[u].status
  BY SwitchStatus
<1> QED BY <1>1, <1>2, <1>3 DEF Opens

LEMMA CreateTaskOpens ==
  ASSUME TypeOK, Ownership, NEW s \in SessionId, NEW t \in TaskId,
         NEW parent \in TaskId \cup {None}, NEW now \in Nat, now # 0,
         CreateTask(s, t, parent, now)
  PROVE  Opens(s, t, 0, 0, now)
<1>1. \A o \in SessionId : sessions[o].task # t
  BY InactiveIsFree DEF CreateTask
<1>2. /\ tasks'[t].status = "active"
      /\ \A u \in TaskId \ {t} : tasks'[u] = TasksAfterSwitch(s)[u]
  BY SwitchTypes DEF CreateTask
<1>3. /\ segments' = Append(SegmentsAfterSwitch(s, now), NewSegment(t, s, now, 0, 0))
      /\ sessions' = [sessions EXCEPT ![s] = PointedSession(s, t, Len(segments) + 1)]
  BY DEF CreateTask
<1> QED BY <1>1, <1>2, <1>3, OpensAfterSwitch

LEMMA ResumeTaskOpens ==
  ASSUME TypeOK, Ownership, NEW s \in SessionId, NEW t \in TaskId,
         NEW now \in Nat, now # 0,
         ResumeTask(s, t, tasks[t].version, now)
  PROVE  \E parent \in 0..Len(segments), c \in CheckpointsOf(t) :
            /\ Opens(s, t, parent, c, now)
            /\ IsLatestSegment(parent, t)
            /\ IsLatestCheckpoint(c, t)
<1>1. PICK c \in CheckpointsOf(t), parent \in 0..Len(segments) :
        /\ IsLatestCheckpoint(c, t)
        /\ IsLatestSegment(parent, t)
        /\ segments' = Append(SegmentsAfterSwitch(s, now), NewSegment(t, s, now, parent, c))
  BY DEF ResumeTask
<1>2. parent \in Nat /\ c \in Nat
  BY SegmentCountIsNat DEF CheckpointsOf
<1>3. tasks'[t].status = "active"
  <2>1. tasks[t] \in TaskRecord
    BY DEF TypeOK
  <2>2. tasks'[t] = [UpdatedTask(t, s, "active") EXCEPT !.resumeCount = @ + 1]
    BY SwitchTypes DEF ResumeTask
  <2> QED BY <2>1, <2>2 DEF UpdatedTask, TaskRecord
<1>4. \A u \in TaskId \ {t} : tasks'[u] = TasksAfterSwitch(s)[u]
  BY SwitchTypes DEF ResumeTask
<1>5. /\ sessions' = [sessions EXCEPT ![s] = PointedSession(s, t, Len(segments) + 1)]
      /\ \A o \in SessionId : sessions[o].task # t
  BY DEF ResumeTask
<1>6. Opens(s, t, parent, c, now)
  BY <1>1, <1>2, <1>3, <1>4, <1>5, OpensAfterSwitch
<1> QED BY <1>1, <1>6

LEMMA RotateOpens ==
  ASSUME TypeOK, Ownership, NEW s \in SessionId, NEW t \in TaskId,
         NEW now \in Nat, now # 0,
         NEW c \in DOMAIN checkpoints, NEW g \in DOMAIN segments,
         Rotate(s, t, c, g, now)
  PROVE  Opens(s, t, g, c, now)
<1>1. c \in Nat /\ g \in Nat /\ "handoff" \in HandoffReason
  BY SegmentCountIsNat DEF HandoffReason
<1>2. /\ Len(segments') = Len(segments) + 1
      /\ \A h \in 1..Len(segments) : segments'[h] = ClosedSegments(g, now, "handoff")[h]
      /\ segments'[Len(segments) + 1] = NewSegment(t, s, now, g, c)
  <2>1. NewSegment(t, s, now, g, c) \in ContextSegment
    BY <1>1 DEF NewSegment, ContextSegment, HandoffReason
  <2>2. /\ ClosedSegments(g, now, "handoff") \in Seq(ContextSegment)
        /\ Len(ClosedSegments(g, now, "handoff")) = Len(segments)
    BY <1>1, ClosedSegmentsType
  <2>3. segments' = Append(ClosedSegments(g, now, "handoff"), NewSegment(t, s, now, g, c))
    BY DEF Rotate
  <2> QED BY <2>1, <2>2, <2>3, AppendProperties
<1>3. ClosesCurrent(s, now, "handoff") /\ sessions[s].task = t
  <2>1. sessions[s].segment = g /\ sessions[s].task = t
    BY DEF Rotate
  <2> QED BY <1>1, <1>2, <2>1, ClosedSegmentsRows DEF ClosesCurrent
<1>4. /\ tasks'[t].status = "active"
      /\ \A u \in TaskId \ {t} :
            tasks'[u].status = IF u = sessions[s].task THEN "paused" ELSE tasks[u].status
  BY DEF Rotate
<1>5. \A o \in SessionId \ {s} : sessions[o].task # t
  BY NoneAssumption DEF Rotate, Ownership, SingleOwner, Attached
<1>6. sessions' = [sessions EXCEPT ![s] = PointedSession(s, t, Len(segments) + 1)]
  BY DEF Rotate
<1> QED BY <1>2, <1>3, <1>4, <1>5, <1>6 DEF Opens

LEMMA PauseTaskReleases ==
  ASSUME TypeOK, Ownership, NEW s \in SessionId, NEW t \in TaskId,
         NEW now \in Nat, now # 0,
         PauseTask(s, t, tasks[t].version, now)
  PROVE  Releases(s, t, "paused", now)
<1>1. sessions[s].task = t /\ segments' = SegmentsAfterSwitch(s, now)
  BY DEF PauseTask
<1>2. Len(segments') = Len(segments)
  <2>1. 0 \in Nat
    OBVIOUS
  <2> QED BY <1>1, <2>1, SwitchTypes
<1>3. ClosesCurrent(s, now, StatusOfReason["paused"])
  BY <1>1, SwitchRows DEF ClosesCurrent, StatusOfReason
<1>4. /\ tasks'[t].status = "paused"
      /\ \A u \in TaskId \ {t} : tasks'[u].status = tasks[u].status
  BY <1>1, SwitchStatus DEF PauseTask
<1>5. sessions' = [sessions EXCEPT ![s] = PointedSession(s, None, 0)]
  BY DEF PauseTask
<1> QED BY <1>1, <1>2, <1>3, <1>4, <1>5 DEF Releases

LEMMA TransitionTaskReleases ==
  ASSUME TypeOK, Ownership, NEW s \in SessionId, NEW t \in TaskId,
         NEW now \in Nat, now # 0, NEW status \in Finished \cup {"blocked"},
         TransitionTask(s, t, tasks[t].version, status, now)
  PROVE  Releases(s, t, status, now)
<1> DEFINE g == sessions[s].segment
<1>1. sessions[s].task = t /\ segments' = ClosedSegments(g, now, status)
  BY DEF TransitionTask, ActiveSession
<1>2. g \in Nat /\ status \in HandoffReason
  BY DEF TypeOK, SessionContextState, HandoffReason, Finished
<1>3. Len(segments') = Len(segments)
  BY <1>1, <1>2, ClosedSegmentsType
<1>4. ClosesCurrent(s, now, StatusOfReason[status])
  <2> HIDE DEF g
  <2>1. \A h \in 1..Len(segments) :
          /\ segments'[h].session = segments[h].session
          /\ segments'[h].task = segments[h].task
          /\ segments'[h].parent = segments[h].parent
          /\ segments'[h].checkpoint = segments[h].checkpoint
          /\ segments'[h].startTime = segments[h].startTime
          /\ segments'[h].endTime = IF h = g THEN now ELSE segments[h].endTime
          /\ segments'[h].reason = IF h = g THEN status ELSE segments[h].reason
    BY <1>1, <1>2, ClosedSegmentsRows
  <2>2. StatusOfReason[status] = status
    <3>1. CASE status = "completed"
      BY <3>1 DEF StatusOfReason
    <3>2. CASE status = "cancelled"
      BY <3>2 DEF StatusOfReason
    <3>3. CASE status = "blocked"
      BY <3>3 DEF StatusOfReason
    <3> QED BY <3>1, <3>2, <3>3 DEF Finished
  <2> QED BY <2>1, <2>2 DEF ClosesCurrent, g
<1>5. /\ tasks'[t].status = status
      /\ \A u \in TaskId \ {t} : tasks'[u].status = tasks[u].status
  <2>1. tasks[t] \in TaskRecord /\ tasks'[t] = UpdatedTask(t, s, status)
    BY DEF TransitionTask, TypeOK
  <2>2. tasks'[t].status = status
    BY <2>1 DEF UpdatedTask, TaskRecord
  <2> QED BY <2>2 DEF TransitionTask, TypeOK
<1>6. status # "active"
  BY DEF Finished
<1>7. sessions' = [sessions EXCEPT ![s] = PointedSession(s, None, 0)]
  BY DEF TransitionTask
<1> QED BY <1>1, <1>3, <1>4, <1>5, <1>6, <1>7 DEF Releases

\* The steps that neither open nor close a segment.
QuietStep ==
    \/ \E s \in SessionId, t \in TaskId, changed \in BOOLEAN :
          UpdateTask(s, t, tasks[t].version, changed)
    \/ \E s \in SessionId, t \in TaskId, type \in Notes : AppendEvent(s, t, type)
    \/ \E s \in SessionId, t \in TaskId, now \in CallTimes : CreateCheckpoint(s, t, now)
    \/ Tick
    \/ \E c \in DOMAIN checkpoints : CorruptCheckpoint(c)
    \/ UNCHANGED vars

\* They change no pointer, no segment and no status.
LEMMA QuietStepRows ==
  ASSUME TypeOK, QuietStep
  PROVE  /\ UNCHANGED <<sessions, segments>>
         /\ \A u \in TaskId : tasks'[u].status = tasks[u].status
<1>1. UNCHANGED <<sessions, segments>>
  BY DEF QuietStep, UpdateTask, AppendEvent, CreateCheckpoint, Tick, CorruptCheckpoint, vars
<1>2. \A u \in TaskId : tasks'[u].status = tasks[u].status
  <2>1. ASSUME NEW s \in SessionId, NEW t \in TaskId, NEW changed \in BOOLEAN,
               UpdateTask(s, t, tasks[t].version, changed), NEW u \in TaskId
        PROVE  tasks'[u].status = tasks[u].status
    <3>1. tasks[t] \in TaskRecord
      BY DEF TypeOK
    <3>2. UpdatedTask(t, s, tasks[t].status).status = tasks[t].status
      BY <3>1 DEF UpdatedTask, TaskRecord
    <3> QED BY <2>1, <3>2 DEF UpdateTask, TypeOK
  <2>2. CASE UNCHANGED tasks
    BY <2>2
  <2> QED BY <2>1, <2>2
        DEF QuietStep, AppendEvent, CreateCheckpoint, Tick, CorruptCheckpoint, vars
<1> QED BY <1>1, <1>2

\* Every step has one of the three shapes.
LEMMA StepShapes ==
  ASSUME TypeOK, Ownership, [Next]_vars
  PROVE  \/ \E s \in SessionId, t \in TaskId, now \in CallTimes :
               /\ tasks[t].status = "absent"
               /\ Opens(s, t, 0, 0, now)
         \/ \E s \in SessionId, t \in TaskId, now \in CallTimes :
               /\ tasks[t].status \in Resumable
               /\ \A o \in SessionId : sessions[o].task # t
               /\ \E parent \in 0..Len(segments), c \in CheckpointsOf(t) :
                     /\ IsLatestSegment(parent, t)
                     /\ Opens(s, t, parent, c, now)
         \/ \E s \in SessionId, t \in TaskId, now \in CallTimes :
               /\ tasks[t].status = "active"
               /\ sessions[s].task = t
               /\ \E c \in CheckpointsOf(t) : Opens(s, t, sessions[s].segment, c, now)
         \/ \E s \in SessionId, t \in TaskId, now \in CallTimes, status \in Resumable \cup Finished :
               Releases(s, t, status, now)
         \/ QuietStep
<1>1. ASSUME NEW s \in SessionId, NEW t \in TaskId, NEW now \in CallTimes,
             NEW parent \in TaskId \cup {None}, CreateTask(s, t, parent, now)
      PROVE  tasks[t].status = "absent" /\ Opens(s, t, 0, 0, now)
  BY <1>1, CallTimesAreNat, CreateTaskOpens DEF CreateTask
<1>2. ASSUME NEW s \in SessionId, NEW t \in TaskId, NEW now \in CallTimes,
             PauseTask(s, t, tasks[t].version, now)
      PROVE  "paused" \in Resumable \cup Finished /\ Releases(s, t, "paused", now)
  BY <1>2, CallTimesAreNat, PauseTaskReleases DEF Resumable
<1>3. ASSUME NEW s \in SessionId, NEW t \in TaskId, NEW now \in CallTimes,
             ResumeTask(s, t, tasks[t].version, now)
      PROVE  /\ tasks[t].status \in Resumable
             /\ \A o \in SessionId : sessions[o].task # t
             /\ \E parent \in 0..Len(segments), c \in CheckpointsOf(t) :
                   IsLatestSegment(parent, t) /\ Opens(s, t, parent, c, now)
  BY <1>3, CallTimesAreNat, ResumeTaskOpens DEF ResumeTask
<1>4. ASSUME NEW s \in SessionId, NEW t \in TaskId, NEW now \in CallTimes,
             NEW status \in Finished \cup {"blocked"},
             TransitionTask(s, t, tasks[t].version, status, now)
      PROVE  status \in Resumable \cup Finished /\ Releases(s, t, status, now)
  BY <1>4, CallTimesAreNat, TransitionTaskReleases DEF Resumable, Finished
<1>5. ASSUME NEW s \in SessionId, NEW t \in TaskId, NEW now \in CallTimes,
             NEW c \in DOMAIN checkpoints, NEW g \in DOMAIN segments,
             Rotate(s, t, c, g, now)
      PROVE  /\ tasks[t].status = "active"
             /\ sessions[s].task = t
             /\ c \in CheckpointsOf(t)
             /\ Opens(s, t, sessions[s].segment, c, now)
  BY <1>5, CallTimesAreNat, RotateOpens DEF Rotate, CheckpointsOf
<1> QED BY <1>1, <1>2, <1>3, <1>4, <1>5 DEF Next, TaskOperation, QuietStep

LEMMA OwnershipStep ==
  ASSUME TypeOK, TypeOK', Ownership, [Next]_vars
  PROVE  Ownership'
<1>1. \A s \in SessionId : sessions[s].task \in TaskId \cup {None}
  BY DEF TypeOK, SessionContextState
<1>2. QuietStep => Ownership'
  BY <1>1, QuietStepRows, QuietKeepsOwnership
<1> QED BY <1>2, CallTimesAreNat, StepShapes, OpeningKeepsOwnership, ReleasingKeepsOwnership

\* Sessions, active tasks and open segments agree one to one at every moment,
\* whatever order the calls commit in and whatever clock readings they carry.
THEOREM OwnershipHolds == Spec => []Ownership
<1>1. Init => Ownership
  BY NoneAssumption
     DEF Init, NoTask, NoSession, Ownership, PointerWellFormed, SingleOwner, ActiveIsOwned,
         OpenIsCurrent, Attached
<1>2. TypeOK /\ TypeOK' /\ Ownership /\ [Next]_vars => Ownership'
  BY OwnershipStep
<1> QED BY <1>1, <1>2, TypeCorrect, PTL DEF Spec

-----------------------------------------------------------------------------
(* What a step may never do *)

\* The segments table in one step: a row is never dropped or given to another
\* task, a closed row stays as it is, and a new row belongs to a task that was
\* not finished.
SegmentsKept ==
    /\ \A h \in DOMAIN segments :
          /\ h \in DOMAIN segments'
          /\ segments'[h].task = segments[h].task
          /\ ~IsOpen(h) => segments'[h] = segments[h]
    /\ \A h \in DOMAIN segments' \ DOMAIN segments :
          tasks[segments'[h].task].status \notin Finished

\* The row a session points at is open, so the row a step closes was open.
LEMMA PointedRowIsOpen ==
  ASSUME TypeOK, Ownership, NEW s \in SessionId, NEW h \in DOMAIN segments, ~IsOpen(h)
  PROVE  h # sessions[s].segment
  BY SegmentCountIsNat DEF Ownership, PointerWellFormed

LEMMA OpenedAfterSwitchKept ==
  ASSUME TypeOK, Ownership, TypeOK', NEW s \in SessionId, NEW t \in TaskId, NEW now \in Nat,
         NEW parent \in Nat, NEW c \in Nat, tasks[t].status \notin Finished,
         segments' = Append(SegmentsAfterSwitch(s, now), NewSegment(t, s, now, parent, c))
  PROVE  SegmentsKept
<1>1. /\ Len(segments') = Len(segments) + 1
      /\ \A h \in 1..Len(segments) : segments'[h] = SegmentsAfterSwitch(s, now)[h]
      /\ segments'[Len(segments) + 1] = NewSegment(t, s, now, parent, c)
  BY OpenedAfterSwitchRows
<1>2. DOMAIN segments = 1..Len(segments) /\ Len(segments) \in Nat
      /\ DOMAIN segments' = 1..(Len(segments) + 1)
  <2>1. DOMAIN segments' = 1..Len(segments')
    BY LenProperties DEF TypeOK
  <2> QED BY <1>1, <2>1, SegmentCountIsNat
<1>3. ASSUME NEW h \in DOMAIN segments
      PROVE  /\ h \in DOMAIN segments'
             /\ segments'[h].task = segments[h].task
             /\ ~IsOpen(h) => segments'[h] = segments[h]
  BY <1>1, <1>2, SwitchRows, PointedRowIsOpen
<1>4. \A h \in DOMAIN segments' \ DOMAIN segments : segments'[h].task = t
  BY <1>1, <1>2, NewSegmentFields
<1> QED BY <1>3, <1>4 DEF SegmentsKept

LEMMA ClosedKept ==
  ASSUME TypeOK, Ownership, TypeOK', NEW s \in SessionId, NEW now \in Nat,
         NEW reason \in HandoffReason,
         segments' = ClosedSegments(sessions[s].segment, now, reason)
  PROVE  SegmentsKept
<1> DEFINE g == sessions[s].segment
<1>1. g \in Nat
  BY DEF TypeOK, SessionContextState
<1>2. /\ Len(segments') = Len(segments)
      /\ \A h \in 1..Len(segments) :
            /\ segments'[h].task = segments[h].task
            /\ h # g => segments'[h] = segments[h]
  <2>1. Len(ClosedSegments(g, now, reason)) = Len(segments)
    BY <1>1, ClosedSegmentsType
  <2>2. \A h \in 1..Len(segments) :
          /\ ClosedSegments(g, now, reason)[h].task = segments[h].task
          /\ h # g => ClosedSegments(g, now, reason)[h] = segments[h]
    BY <1>1, ClosedSegmentsRows, SMTT(30)
  <2> QED BY <2>1, <2>2
<1>3. DOMAIN segments = 1..Len(segments) /\ DOMAIN segments' = 1..Len(segments)
  <2>1. DOMAIN segments' = 1..Len(segments')
    BY LenProperties DEF TypeOK
  <2> QED BY <1>2, <2>1, SegmentCountIsNat
<1> QED BY <1>2, <1>3, PointedRowIsOpen DEF SegmentsKept

LEMMA SegmentsKeptStep ==
  ASSUME TypeOK, TypeOK', Ownership, [Next]_vars
  PROVE  SegmentsKept
<1>1. ASSUME NEW s \in SessionId, NEW t \in TaskId, NEW now \in CallTimes,
             NEW parent \in TaskId \cup {None}, CreateTask(s, t, parent, now)
      PROVE  SegmentsKept
  BY <1>1, CallTimesAreNat, OpenedAfterSwitchKept DEF CreateTask, Finished
<1>2. ASSUME NEW s \in SessionId, NEW t \in TaskId, NEW now \in CallTimes,
             PauseTask(s, t, tasks[t].version, now)
      PROVE  SegmentsKept
  <2>1. Attached(s) /\ "task_paused" \in HandoffReason
    BY <1>2, NoneAssumption DEF PauseTask, Attached, HandoffReason
  <2> QED BY <1>2, <2>1, CallTimesAreNat, ClosedKept DEF PauseTask, SegmentsAfterSwitch
<1>3. ASSUME NEW s \in SessionId, NEW t \in TaskId, NEW now \in CallTimes,
             ResumeTask(s, t, tasks[t].version, now)
      PROVE  SegmentsKept
  <2>1. PICK checkpoint \in CheckpointsOf(t), parent \in 0..Len(segments) :
          segments' = Append(SegmentsAfterSwitch(s, now),
                             NewSegment(t, s, now, parent, checkpoint))
    BY <1>3 DEF ResumeTask
  <2>2. parent \in Nat /\ checkpoint \in Nat
    BY SegmentCountIsNat DEF CheckpointsOf
  <2>3. tasks[t].status \notin Finished
    BY <1>3 DEF ResumeTask, Resumable, Finished
  <2> QED BY <2>1, <2>2, <2>3, CallTimesAreNat, OpenedAfterSwitchKept
<1>4. ASSUME NEW s \in SessionId, NEW t \in TaskId, NEW now \in CallTimes,
             NEW status \in Finished \cup {"blocked"},
             TransitionTask(s, t, tasks[t].version, status, now)
      PROVE  SegmentsKept
  <2>1. status \in HandoffReason
    BY DEF HandoffReason, Finished
  <2> QED BY <1>4, <2>1, CallTimesAreNat, ClosedKept DEF TransitionTask
<1>5. ASSUME NEW s \in SessionId, NEW t \in TaskId, NEW now \in CallTimes,
             NEW c \in DOMAIN checkpoints, NEW g \in DOMAIN segments,
             Rotate(s, t, c, g, now)
      PROVE  SegmentsKept
  <2>1. Attached(s) /\ sessions[s].segment = g
    BY <1>5, NoneAssumption DEF Rotate, Attached
  <2>2. g \in Nat /\ c \in Nat /\ "handoff" \in HandoffReason /\ now \in Nat
    BY SegmentCountIsNat, CallTimesAreNat DEF HandoffReason
  <2>3. /\ ClosedSegments(g, now, "handoff") \in Seq(ContextSegment)
        /\ Len(ClosedSegments(g, now, "handoff")) = Len(segments)
    BY <2>2, ClosedSegmentsType
  <2>4. NewSegment(t, s, now, g, c) \in ContextSegment
    BY <2>2 DEF NewSegment, ContextSegment, HandoffReason
  <2>5. segments' = Append(ClosedSegments(g, now, "handoff"), NewSegment(t, s, now, g, c))
    BY <1>5 DEF Rotate
  <2>6. /\ Len(segments') = Len(segments) + 1
        /\ \A h \in 1..Len(segments) : segments'[h] = ClosedSegments(g, now, "handoff")[h]
        /\ segments'[Len(segments) + 1] = NewSegment(t, s, now, g, c)
    BY <2>3, <2>4, <2>5, AppendProperties
  <2>7. /\ DOMAIN segments = 1..Len(segments) /\ Len(segments) \in Nat
        /\ DOMAIN segments' = 1..(Len(segments) + 1)
    <3>1. DOMAIN segments' = 1..Len(segments')
      BY LenProperties DEF TypeOK
    <3> QED BY <2>6, <3>1, SegmentCountIsNat
  <2>8. ASSUME NEW h \in DOMAIN segments
        PROVE  /\ h \in DOMAIN segments'
               /\ segments'[h].task = segments[h].task
               /\ ~IsOpen(h) => segments'[h] = segments[h]
    BY <2>1, <2>2, <2>6, <2>7, ClosedSegmentsRows, PointedRowIsOpen
  <2>9. \A h \in DOMAIN segments' \ DOMAIN segments : segments'[h].task = t
    BY <2>6, <2>7, NewSegmentFields
  <2> QED BY <1>5, <2>8, <2>9 DEF SegmentsKept, Rotate, Finished
<1>6. ASSUME QuietStep
      PROVE  SegmentsKept
  <2>1. UNCHANGED segments
    BY <1>6 DEF QuietStep, UpdateTask, AppendEvent, CreateCheckpoint, Tick, CorruptCheckpoint, vars
  <2> QED BY <2>1 DEF SegmentsKept
<1> QED BY <1>1, <1>2, <1>3, <1>4, <1>5, <1>6 DEF Next, TaskOperation, QuietStep

\* Segments are append-only and never reopened, whatever the calls do.
THEOREM ClosedIsFinalHolds == Spec => ClosedIsFinal
<1>1. TypeOK /\ TypeOK' /\ Ownership /\ [Next]_vars =>
        [\A g \in DOMAIN segments : ~IsOpen(g) =>
            g \in DOMAIN segments' /\ segments'[g] = segments[g]]_vars
  BY SegmentsKeptStep DEF SegmentsKept
<1> QED BY <1>1, TypeCorrect, OwnershipHolds, PTL DEF Spec, ClosedIsFinal

\* A switch leaves a task that is not active alone: it is nobody's current task.
LEMMA SwitchSparesInactive ==
  ASSUME TypeOK, Ownership, NEW s \in SessionId, NEW t \in TaskId,
         tasks[t].status # "active", NEW c \in Nat
  PROVE  /\ sessions[s].task # t
         /\ TasksAfterSwitch(s)[t] = tasks[t]
         /\ EventsAfterSwitch(s, c)[t] = events[t]
<1>1. sessions[s].task # t
  BY InactiveIsFree
<1> QED BY <1>1 DEF TypeOK, TasksAfterSwitch, EventsAfterSwitch

\* The row, the log and the checkpoints of task t in one step.
RecordsKept(t) ==
    /\ tasks'[t] = tasks[t]
    /\ events'[t] = events[t]
    /\ CheckpointsOf(t)' = CheckpointsOf(t)

\* No step touches them while the task is not active and does not become it.
LEMMA RecordsKeptStep ==
  ASSUME TypeOK, Ownership, [Next]_vars, NEW t \in TaskId,
         tasks[t].status # "active", tasks'[t].status # "active"
  PROVE  RecordsKept(t)
<1>1. \A s \in SessionId : sessions[s].task # t
  BY InactiveIsFree
<1>2. ASSUME NEW s \in SessionId, NEW u \in TaskId, NEW now \in CallTimes,
             NEW parent \in TaskId \cup {None}, CreateTask(s, u, parent, now)
      PROVE  RecordsKept(t)
  <2>1. PICK c \in 0..Len(checkpoints) :
          events' = [EventsAfterSwitch(s, c) EXCEPT ![u] =
                       <<Event("TASK_CREATED", s, 0)>> \o
                       IF Attached(s) THEN <<Event("NEW_TASK_STARTED", s, 0)>> ELSE <<>>]
    BY <1>2 DEF CreateTask
  <2>2. c \in Nat /\ 0 \in Nat
    BY SegmentCountIsNat
  <2>3. u # t
    BY <1>2, CallTimesAreNat, CreateTaskOpens DEF Opens
  <2>4. events'[t] = EventsAfterSwitch(s, c)[t]
    BY <2>1, <2>2, <2>3, SwitchTypes
  <2>5. tasks'[t] = TasksAfterSwitch(s)[t]
    BY <1>2, <2>2, <2>3, SwitchTypes DEF CreateTask
  <2> QED BY <1>2, <2>2, <2>4, <2>5, SwitchSparesInactive
          DEF CreateTask, RecordsKept, CheckpointsOf
<1>3. ASSUME NEW s \in SessionId, NEW u \in TaskId, NEW now \in CallTimes,
             PauseTask(s, u, tasks[u].version, now)
      PROVE  RecordsKept(t)
  <2>1. PICK c \in DOMAIN checkpoints : events' = EventsAfterSwitch(s, c)
    BY <1>3 DEF PauseTask
  <2>2. c \in Nat
    BY SegmentCountIsNat
  <2> QED BY <1>3, <2>1, <2>2, SwitchSparesInactive DEF PauseTask, RecordsKept, CheckpointsOf
<1>4. ASSUME NEW s \in SessionId, NEW u \in TaskId, NEW now \in CallTimes,
             ResumeTask(s, u, tasks[u].version, now)
      PROVE  RecordsKept(t)
  <2>1. PICK c \in 0..Len(checkpoints) :
          events' = [EventsAfterSwitch(s, c) EXCEPT ![u] =
                       Append(@, Event("TASK_RESUMED", s, Len(segments) + 1))]
    BY <1>4 DEF ResumeTask
  <2>2. c \in Nat /\ 0 \in Nat
    BY SegmentCountIsNat
  <2>3. u # t
    BY <1>4, CallTimesAreNat, ResumeTaskOpens DEF Opens
  <2>4. events'[t] = EventsAfterSwitch(s, c)[t]
    BY <2>1, <2>2, <2>3, SwitchTypes
  <2>5. tasks'[t] = TasksAfterSwitch(s)[t]
    BY <1>4, <2>2, <2>3, SwitchTypes DEF ResumeTask
  <2> QED BY <1>4, <2>2, <2>4, <2>5, SwitchSparesInactive
          DEF ResumeTask, RecordsKept, CheckpointsOf
<1>5. ASSUME NEW s \in SessionId, NEW u \in TaskId, NEW now \in CallTimes,
             NEW status \in Finished \cup {"blocked"},
             TransitionTask(s, u, tasks[u].version, status, now)
      PROVE  RecordsKept(t)
  BY <1>1, <1>5 DEF TransitionTask, ActiveSession, TypeOK, RecordsKept, CheckpointsOf
<1>6. ASSUME NEW s \in SessionId, NEW u \in TaskId, NEW now \in CallTimes,
             NEW c \in DOMAIN checkpoints, NEW g \in DOMAIN segments,
             Rotate(s, u, c, g, now)
      PROVE  RecordsKept(t)
  BY <1>1, <1>6 DEF Rotate, TypeOK, RecordsKept, CheckpointsOf
<1>7. ASSUME NEW s \in SessionId, NEW u \in TaskId, NEW changed \in BOOLEAN,
             UpdateTask(s, u, tasks[u].version, changed)
      PROVE  RecordsKept(t)
  BY <1>1, <1>7 DEF UpdateTask, ActiveSession, TypeOK, RecordsKept, CheckpointsOf
<1>8. ASSUME NEW s \in SessionId, NEW u \in TaskId, NEW type \in Notes,
             AppendEvent(s, u, type)
      PROVE  RecordsKept(t)
  BY <1>1, <1>8 DEF AppendEvent, ActiveSession, TypeOK, RecordsKept, CheckpointsOf
<1>9. ASSUME NEW s \in SessionId, NEW u \in TaskId, NEW now \in CallTimes,
             CreateCheckpoint(s, u, now)
      PROVE  RecordsKept(t)
  <2> DEFINE row == [task |-> u, createdAt |-> now, valid |-> TRUE]
  <2>1. u # t
    BY <1>1, <1>9 DEF CreateCheckpoint, ActiveSession
  <2>2. row \in Checkpoint /\ row.task = u
    BY CallTimesAreNat DEF Checkpoint
  <2> HIDE DEF row
  <2>3. checkpoints' = Append(checkpoints, row)
    BY <1>9 DEF CreateCheckpoint, row
  <2>4. /\ DOMAIN checkpoints = 1..Len(checkpoints) /\ Len(checkpoints) \in Nat
        /\ DOMAIN checkpoints' = 1..(Len(checkpoints) + 1)
        /\ \A c \in 1..Len(checkpoints) : checkpoints'[c] = checkpoints[c]
        /\ checkpoints'[Len(checkpoints) + 1] = row
    <3>1. checkpoints \in Seq(Checkpoint)
      BY DEF TypeOK
    <3>2. /\ checkpoints' \in Seq(Checkpoint)
          /\ Len(checkpoints') = Len(checkpoints) + 1
          /\ \A c \in 1..Len(checkpoints) : checkpoints'[c] = checkpoints[c]
          /\ checkpoints'[Len(checkpoints) + 1] = row
      BY <2>2, <2>3, <3>1, AppendProperties
    <3>3. DOMAIN checkpoints' = 1..Len(checkpoints')
      BY <3>2, LenProperties
    <3> QED BY <3>2, <3>3, SegmentCountIsNat
  <2>5. CheckpointsOf(t)' = CheckpointsOf(t)
    BY <2>1, <2>2, <2>4 DEF CheckpointsOf
  <2> QED BY <1>9, <2>1, <2>5 DEF CreateCheckpoint, TypeOK, RecordsKept
<1>10. ASSUME NEW c \in DOMAIN checkpoints, CorruptCheckpoint(c)
       PROVE  RecordsKept(t)
  <2>1. /\ DOMAIN checkpoints' = DOMAIN checkpoints
        /\ \A d \in DOMAIN checkpoints : checkpoints'[d].task = checkpoints[d].task
    <3>1. \A d \in DOMAIN checkpoints : checkpoints[d] \in Checkpoint
      BY SegmentCountIsNat, ElementOfSeq DEF TypeOK
    <3> QED BY <1>10, <3>1 DEF CorruptCheckpoint, Checkpoint
  <2>2. CheckpointsOf(t)' = CheckpointsOf(t)
    BY <2>1 DEF CheckpointsOf
  <2> QED BY <1>10, <2>2 DEF CorruptCheckpoint, RecordsKept
<1>11. ASSUME Tick \/ UNCHANGED vars
       PROVE  RecordsKept(t)
  BY <1>11 DEF Tick, vars, RecordsKept, CheckpointsOf
<1> QED BY <1>2, <1>3, <1>4, <1>5, <1>6, <1>7, <1>8, <1>9, <1>10, <1>11 DEF Next, TaskOperation

\* A finished task does not become active again.
LEMMA FinishedStaysInactive ==
  ASSUME TypeOK, Ownership, [Next]_vars, NEW t \in TaskId, tasks[t].status \in Finished
  PROVE  tasks'[t].status # "active"
<1>1. ASSUME NEW s \in SessionId, NEW u \in TaskId, NEW now, NEW parent, NEW c,
             tasks[u].status \notin Finished, Opens(s, u, parent, c, now)
      PROVE  tasks'[t].status # "active"
  BY <1>1 DEF Opens, Finished
<1>2. ASSUME NEW s \in SessionId, NEW u \in TaskId, NEW now, NEW status, Releases(s, u, status, now)
      PROVE  tasks'[t].status # "active"
  BY <1>2 DEF Releases, Finished
<1>3. QuietStep => tasks'[t].status # "active"
  BY QuietStepRows DEF Finished
<1> QED BY <1>1, <1>2, <1>3, StepShapes DEF Finished, Resumable

LEMMA FinishedSegmentsKept ==
  ASSUME TypeOK, TypeOK', SegmentsKept, NEW t \in TaskId, tasks[t].status \in Finished
  PROVE  SegmentsOfTask(t)' = SegmentsOfTask(t)
  BY DEF SegmentsKept, SegmentsOfTask

\* No call of a tool changes a completed or cancelled task, or logs about it: only
\* the pointer that finishing it has cleared lets one through (task_service.py
\* _require_active_session).
THEOREM ToolsLeaveFinishedHolds == Spec => ToolsLeaveFinished
<1>1. ASSUME TypeOK, TypeOK', Ownership, [Next]_vars
      PROVE  [\A t \in TaskId : tasks[t].status \in Finished =>
                /\ tasks'[t] = tasks[t]
                /\ events'[t] = events[t]
                /\ SegmentsOfTask(t)' = SegmentsOfTask(t)
                /\ CheckpointsOf(t)' = CheckpointsOf(t)]_vars
  <2>1. SegmentsKept
    BY <1>1, SegmentsKeptStep
  <2>2. \A t \in TaskId : tasks[t].status \in Finished => RecordsKept(t)
    BY <1>1, FinishedStaysInactive, RecordsKeptStep DEF Finished
  <2> QED BY <1>1, <2>1, <2>2, FinishedSegmentsKept DEF RecordsKept
<1> QED BY <1>1, TypeCorrect, OwnershipHolds, PTL DEF Spec, ToolsLeaveFinished

=============================================================================
