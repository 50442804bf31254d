------------------------- MODULE TaskHistory_proofs -------------------------
(* What the rows of context_segments say about the past, for any tasks and  *)
(* sessions: how the segments of a task continue one another, how the last  *)
(* one explains the task's status, and, when no call commits with an old    *)
(* clock reading, that the newest row by time is the last one written.      *)
EXTENDS TaskLifecycle_proofs

-----------------------------------------------------------------------------
(* The rows a step leaves, row by row *)

LEMMA OpenedRows ==
  ASSUME TypeOK, TypeOK', NEW s \in SessionId, NEW t \in TaskId, NEW now \in Nat,
         NEW parent, NEW c, Opens(s, t, parent, c, now)
  PROVE  /\ Len(segments) \in Nat
         /\ DOMAIN segments = 1..Len(segments)
         /\ DOMAIN segments' = 1..(Len(segments) + 1)
         /\ \A h \in 1..Len(segments) :
               /\ segments'[h].session = segments[h].session
               /\ segments'[h].task = segments[h].task
               /\ segments'[h].parent = segments[h].parent
               /\ segments'[h].checkpoint = segments[h].checkpoint
               /\ segments'[h].startTime = segments[h].startTime
               /\ segments'[h].endTime = IF h = sessions[s].segment THEN now ELSE segments[h].endTime
         /\ segments'[Len(segments) + 1].session = s
         /\ segments'[Len(segments) + 1].task = t
         /\ segments'[Len(segments) + 1].parent = parent
         /\ segments'[Len(segments) + 1].checkpoint = c
         /\ segments'[Len(segments) + 1].startTime = now
         /\ segments'[Len(segments) + 1].endTime = 0
         /\ sessions'[s].task = t
         /\ sessions'[s].segment = Len(segments) + 1
         /\ \A o \in SessionId \ {s} : sessions'[o] = sessions[o]
<1>1. DOMAIN segments' = 1..Len(segments')
  BY LenProperties DEF TypeOK
<1>2. \A h \in 1..Len(segments) :
        /\ segments'[h].session = segments[h].session
        /\ segments'[h].task = segments[h].task
        /\ segments'[h].parent = segments[h].parent
        /\ segments'[h].checkpoint = segments[h].checkpoint
        /\ segments'[h].startTime = segments[h].startTime
        /\ segments'[h].endTime = IF h = sessions[s].segment THEN now ELSE segments[h].endTime
  BY DEF Opens, ClosesCurrent
<1>3. segments'[Len(segments) + 1] = NewSegment(t, s, now, parent, c)
  BY DEF Opens
<1>4. /\ segments'[Len(segments) + 1].session = s
      /\ segments'[Len(segments) + 1].task = t
      /\ segments'[Len(segments) + 1].parent = parent
      /\ segments'[Len(segments) + 1].checkpoint = c
      /\ segments'[Len(segments) + 1].startTime = now
      /\ segments'[Len(segments) + 1].endTime = 0
  BY <1>3, NewSegmentFields
<1>5. /\ sessions'[s].task = t
      /\ sessions'[s].segment = Len(segments) + 1
      /\ \A o \in SessionId \ {s} : sessions'[o] = sessions[o]
  BY DEF Opens, TypeOK, PointedSession
<1>6. Len(segments') = Len(segments) + 1
  BY DEF Opens
<1> QED BY <1>1, <1>2, <1>4, <1>5, <1>6, SegmentCountIsNat

LEMMA ReleasedRows ==
  ASSUME TypeOK, TypeOK', NEW s \in SessionId, NEW t \in TaskId, NEW now \in Nat,
         NEW status, Releases(s, t, status, now)
  PROVE  /\ Len(segments) \in Nat
         /\ DOMAIN segments = 1..Len(segments)
         /\ DOMAIN segments' = 1..Len(segments)
         /\ \A h \in 1..Len(segments) :
               /\ segments'[h].session = segments[h].session
               /\ segments'[h].task = segments[h].task
               /\ segments'[h].parent = segments[h].parent
               /\ segments'[h].checkpoint = segments[h].checkpoint
               /\ segments'[h].startTime = segments[h].startTime
               /\ segments'[h].endTime = IF h = sessions[s].segment THEN now ELSE segments[h].endTime
         /\ sessions[s].task = t
         /\ sessions'[s].task = None
         /\ \A o \in SessionId \ {s} : sessions'[o] = sessions[o]
<1>1. DOMAIN segments' = 1..Len(segments')
  BY LenProperties DEF TypeOK
<1>2. Len(segments') = Len(segments) /\ sessions[s].task = t
  BY DEF Releases
<1>3. /\ sessions'[s].task = None
      /\ \A o \in SessionId \ {s} : sessions'[o] = sessions[o]
  BY DEF Releases, TypeOK, PointedSession
<1> QED BY <1>1, <1>2, <1>3, SegmentCountIsNat DEF Releases, ClosesCurrent

-----------------------------------------------------------------------------
(* The invariant the others rest on *)

\* A task that exists has a segment, and one that does not has none.
HasSegments ==
    \A t \in TaskId :
        tasks[t].status # "absent" <=> \E h \in DOMAIN segments : segments[h].task = t

\* The segment a session points at is the last one of its task and of the session.
CurrentIsNewest ==
    \A s \in SessionId : Attached(s) =>
        \A h \in DOMAIN segments :
            segments[h].task = sessions[s].task \/ segments[h].session = s
                => h <= sessions[s].segment

History == HasSegments /\ CurrentIsNewest

LEMMA OpeningKeepsHistory ==
  ASSUME TypeOK, TypeOK', Ownership, History,
         NEW s \in SessionId, NEW t \in TaskId, NEW now \in Nat, NEW parent, NEW c,
         Opens(s, t, parent, c, now)
  PROVE  History'
<1> DEFINE n == Len(segments)
<1>1. /\ n \in Nat /\ DOMAIN segments = 1..n /\ DOMAIN segments' = 1..(n + 1)
      /\ \A h \in 1..n : /\ segments'[h].session = segments[h].session
                         /\ segments'[h].task = segments[h].task
      /\ segments'[n + 1].session = s /\ segments'[n + 1].task = t
      /\ sessions'[s].task = t /\ sessions'[s].segment = n + 1
      /\ \A o \in SessionId \ {s} : sessions'[o] = sessions[o]
  BY OpenedRows
<1>2. /\ tasks'[t].status = "active"
      /\ \A u \in TaskId \ {t} :
            tasks'[u].status = IF u = sessions[s].task THEN "paused" ELSE tasks[u].status
      /\ \A o \in SessionId \ {s} : sessions[o].task # t
  BY DEF Opens
<1>3. HasSegments'
  <2> SUFFICES ASSUME NEW u \in TaskId
               PROVE  tasks'[u].status # "absent"
                        <=> \E h \in 1..(n + 1) : segments'[h].task = u
    BY <1>1 DEF HasSegments
  <2>1. CASE u = t
    BY <1>1, <1>2, <2>1
  <2>2. CASE u # t
    <3>1. (\E h \in 1..(n + 1) : segments'[h].task = u) <=> \E h \in 1..n : segments[h].task = u
      BY <1>1, <2>2
    <3>2. tasks'[u].status # "absent" <=> tasks[u].status # "absent"
      <4>1. u = sessions[s].task => tasks[u].status # "absent"
        BY InactiveIsFree
      <4> QED BY <1>2, <2>2, <4>1
    <3> QED BY <1>1, <3>1, <3>2 DEF History, HasSegments
  <2> QED BY <2>1, <2>2
<1>4. CurrentIsNewest'
  <2> SUFFICES ASSUME NEW o \in SessionId, sessions'[o].task # None, NEW h \in 1..(n + 1),
                      segments'[h].task = sessions'[o].task \/ segments'[h].session = o
               PROVE  h <= sessions'[o].segment
    BY <1>1 DEF CurrentIsNewest, Attached
  <2>1. CASE o = s
    BY <1>1, <2>1
  <2>2. CASE o # s
    <3>1. /\ sessions'[o] = sessions[o]
          /\ h \in 1..n
          /\ segments[h].task = sessions[o].task \/ segments[h].session = o
      BY <1>1, <1>2, <2>2
    <3> QED BY <1>1, <3>1 DEF History, CurrentIsNewest, Attached
  <2> QED BY <2>1, <2>2
<1> QED BY <1>3, <1>4 DEF History

LEMMA ReleasingKeepsHistory ==
  ASSUME TypeOK, TypeOK', Ownership, History,
         NEW s \in SessionId, NEW t \in TaskId, NEW now \in Nat,
         NEW status \in Resumable \cup Finished, Releases(s, t, status, now)
  PROVE  History'
<1> DEFINE n == Len(segments)
<1>1. /\ n \in Nat /\ DOMAIN segments = 1..n /\ DOMAIN segments' = 1..n
      /\ \A h \in 1..n : /\ segments'[h].session = segments[h].session
                         /\ segments'[h].task = segments[h].task
      /\ sessions[s].task = t /\ sessions'[s].task = None
      /\ \A o \in SessionId \ {s} : sessions'[o] = sessions[o]
  BY ReleasedRows
<1>2. /\ tasks'[t].status # "absent" /\ tasks[t].status # "absent"
      /\ \A u \in TaskId \ {t} : tasks'[u].status = tasks[u].status
  BY <1>1, InactiveIsFree DEF Releases, Resumable, Finished
<1>3. HasSegments'
  BY <1>1, <1>2 DEF History, HasSegments
<1>4. CurrentIsNewest'
  BY <1>1 DEF History, CurrentIsNewest, Attached
<1> QED BY <1>3, <1>4 DEF History

LEMMA HistoryStep ==
  ASSUME TypeOK, TypeOK', Ownership, History, [Next]_vars
  PROVE  History'
<1>1. ASSUME QuietStep
      PROVE  History'
  <2>1. /\ UNCHANGED <<sessions, segments>>
        /\ \A u \in TaskId : tasks'[u].status = tasks[u].status
    BY <1>1, QuietStepRows
  <2> QED BY <2>1 DEF History, HasSegments, CurrentIsNewest, Attached
<1> QED BY <1>1, CallTimesAreNat, StepShapes, OpeningKeepsHistory, ReleasingKeepsHistory

LEMMA HistoryHolds == Spec => []History
<1>1. Init => History
  BY DEF Init, NoTask, NoSession, History, HasSegments, CurrentIsNewest, Attached
<1>2. TypeOK /\ TypeOK' /\ Ownership /\ History /\ [Next]_vars => History'
  BY HistoryStep
<1> QED BY <1>1, <1>2, TypeCorrect, OwnershipHolds, PTL DEF Spec

-----------------------------------------------------------------------------
(* Lineage *)

\* Checkpoints are append-only, and keep their task and their time.
CheckpointsKept ==
    \A c \in DOMAIN checkpoints :
        /\ c \in DOMAIN checkpoints'
        /\ checkpoints'[c].task = checkpoints[c].task
        /\ checkpoints'[c].createdAt = checkpoints[c].createdAt

\* What changes the checkpoints table.
LEMMA CheckpointSteps ==
  ASSUME [Next]_vars
  PROVE  \/ \E s \in SessionId, t \in TaskId, now \in CallTimes : CreateCheckpoint(s, t, now)
         \/ \E c \in DOMAIN checkpoints : CorruptCheckpoint(c)
         \/ UNCHANGED checkpoints
<1>1. ASSUME NEW s \in SessionId, NEW t \in TaskId, NEW now \in CallTimes,
             TaskOperation(s, t, tasks[t].version, now)
      PROVE  UNCHANGED checkpoints
  <2>1. ASSUME NEW parent, CreateTask(s, t, parent, now)
        PROVE  UNCHANGED checkpoints
    BY <2>1 DEF CreateTask
  <2>2. ASSUME NEW changed, UpdateTask(s, t, tasks[t].version, changed)
        PROVE  UNCHANGED checkpoints
    BY <2>2 DEF UpdateTask
  <2>3. ASSUME PauseTask(s, t, tasks[t].version, now)
        PROVE  UNCHANGED checkpoints
    BY <2>3 DEF PauseTask
  <2>4. ASSUME ResumeTask(s, t, tasks[t].version, now)
        PROVE  UNCHANGED checkpoints
    BY <2>4 DEF ResumeTask
  <2>5. ASSUME NEW status, TransitionTask(s, t, tasks[t].version, status, now)
        PROVE  UNCHANGED checkpoints
    BY <2>5 DEF TransitionTask
  <2>6. ASSUME NEW type, AppendEvent(s, t, type)
        PROVE  UNCHANGED checkpoints
    BY <2>6 DEF AppendEvent
  <2> QED BY <1>1, <2>1, <2>2, <2>3, <2>4, <2>5, <2>6 DEF TaskOperation
<1>2. ASSUME NEW s, NEW t, NEW now, NEW c, NEW g, Rotate(s, t, c, g, now)
      PROVE  UNCHANGED checkpoints
  BY <1>2 DEF Rotate
<1>3. (Tick \/ UNCHANGED vars) => UNCHANGED checkpoints
  BY DEF Tick, vars
<1> QED BY <1>1, <1>2, <1>3 DEF Next

LEMMA CheckpointsKeptStep ==
  ASSUME TypeOK, [Next]_vars
  PROVE  CheckpointsKept
<1>1. ASSUME NEW s \in SessionId, NEW t \in TaskId, NEW now \in CallTimes,
             CreateCheckpoint(s, t, now)
      PROVE  CheckpointsKept
  <2> DEFINE row == [task |-> t, createdAt |-> now, valid |-> TRUE]
  <2>1. row \in Checkpoint /\ checkpoints \in Seq(Checkpoint)
    BY CallTimesAreNat DEF Checkpoint, TypeOK
  <2>2. checkpoints' = Append(checkpoints, row)
    BY <1>1 DEF CreateCheckpoint
  <2> HIDE DEF row
  <2>3. /\ checkpoints' \in Seq(Checkpoint)
        /\ Len(checkpoints') = Len(checkpoints) + 1
        /\ \A c \in 1..Len(checkpoints) : checkpoints'[c] = checkpoints[c]
    BY <2>1, <2>2, AppendProperties
  <2>4. DOMAIN checkpoints' = 1..(Len(checkpoints) + 1)
    BY <2>3, LenProperties
  <2> QED BY <2>3, <2>4, SegmentCountIsNat DEF CheckpointsKept
<1>2. ASSUME NEW c \in DOMAIN checkpoints, CorruptCheckpoint(c)
      PROVE  CheckpointsKept
  <2>1. \A d \in DOMAIN checkpoints : checkpoints[d] \in Checkpoint
    BY SegmentCountIsNat, ElementOfSeq DEF TypeOK
  <2>2. /\ DOMAIN checkpoints' = DOMAIN checkpoints
        /\ \A d \in DOMAIN checkpoints :
              /\ checkpoints'[d].task = checkpoints[d].task
              /\ checkpoints'[d].createdAt = checkpoints[d].createdAt
    BY <1>2, <2>1 DEF CorruptCheckpoint, Checkpoint
  <2> QED BY <2>2 DEF CheckpointsKept
<1>3. UNCHANGED checkpoints => CheckpointsKept
  BY DEF CheckpointsKept
<1> QED BY <1>1, <1>2, <1>3, CheckpointSteps

\* The segments of a task nobody holds are closed.
LEMMA UnheldIsClosed ==
  ASSUME TypeOK, Ownership, NEW t \in TaskId, \A o \in SessionId : sessions[o].task # t,
         NEW g \in DOMAIN segments, segments[g].task = t
  PROVE  ~IsOpen(g)
<1>1. segments[g].session \in SessionId /\ g # 0
  BY SegmentRow, SegmentCountIsNat DEF ContextSegment
<1> QED BY <1>1 DEF Ownership, OpenIsCurrent, PointerWellFormed

\* Lineage, row by row.
LineageOf(g) ==
    \/ segments[g].parent = 0 /\ segments[g].checkpoint = 0
    \/ /\ segments[g].parent \in DOMAIN segments
       /\ segments[segments[g].parent].task = segments[g].task
       /\ segments[g].parent < g
       /\ segments[segments[g].parent].endTime # 0
       /\ segments[g].checkpoint \in DOMAIN checkpoints
       /\ checkpoints[segments[g].checkpoint].task = segments[g].task

LineageRows == \A g \in DOMAIN segments : LineageOf(g)

LEMMA LineageRowsSuffice == TypeOK /\ LineageRows => Lineage
  BY SegmentCountIsNat
     DEF LineageRows, LineageOf, Lineage, SegmentsOfTask, CheckpointsOf, IsOpen

\* A row that has its lineage keeps it as long as its columns stay, its parent is
\* not reopened and its checkpoint stays.
LEMMA KeptLineage ==
  ASSUME LineageRows, CheckpointsKept, DOMAIN segments \subseteq DOMAIN segments',
         \A h \in DOMAIN segments :
            /\ segments'[h].task = segments[h].task
            /\ segments'[h].parent = segments[h].parent
            /\ segments'[h].checkpoint = segments[h].checkpoint
            /\ segments[h].endTime # 0 => segments'[h].endTime # 0,
         NEW g \in DOMAIN segments
  PROVE  LineageOf(g)'
<1>1. LineageOf(g)
  BY DEF LineageRows
<1>2. CASE segments[g].parent = 0 /\ segments[g].checkpoint = 0
  BY <1>2 DEF LineageOf
<1>3. CASE ~(segments[g].parent = 0 /\ segments[g].checkpoint = 0)
  <2> DEFINE p == segments[g].parent
             c == segments[g].checkpoint
  <2>1. /\ p \in DOMAIN segments /\ segments[p].task = segments[g].task
        /\ p < g /\ segments[p].endTime # 0
        /\ c \in DOMAIN checkpoints /\ checkpoints[c].task = segments[g].task
    BY <1>1, <1>3 DEF LineageOf
  <2>2. segments'[g].parent = p /\ segments'[g].checkpoint = c
    OBVIOUS
  <2>3. c \in DOMAIN checkpoints' /\ checkpoints'[c].task = segments[g].task
    BY <2>1 DEF CheckpointsKept
  <2> HIDE DEF p, c
  <2> QED BY <2>1, <2>2, <2>3 DEF LineageOf
<1> QED BY <1>2, <1>3

\* The new segment of a step starts anew, or continues a segment of its task.
LEMMA OpenedContinues ==
  ASSUME TypeOK, TypeOK', Ownership, CheckpointsKept, LineageRows,
         NEW s \in SessionId, NEW t \in TaskId, NEW now \in Nat, NEW parent, NEW c,
         Opens(s, t, parent, c, now),
         \/ parent = 0 /\ c = 0
         \/ /\ c \in CheckpointsOf(t)
            /\ parent \in SegmentsOfTask(t)
            /\ parent = sessions[s].segment \/ ~IsOpen(parent)
  PROVE  LineageRows'
<1> DEFINE n == Len(segments)
<1>1. /\ n \in Nat /\ DOMAIN segments = 1..n /\ DOMAIN segments' = 1..(n + 1)
      /\ \A h \in 1..n :
            /\ segments'[h].task = segments[h].task
            /\ segments'[h].parent = segments[h].parent
            /\ segments'[h].checkpoint = segments[h].checkpoint
            /\ segments'[h].endTime = IF h = sessions[s].segment THEN now ELSE segments[h].endTime
      /\ segments'[n + 1].task = t
      /\ segments'[n + 1].parent = parent
      /\ segments'[n + 1].checkpoint = c
  BY OpenedRows
<1>2. now # 0
  BY DEF Opens
<1>3. \A g \in 1..n : LineageOf(g)'
  BY <1>1, <1>2, KeptLineage
<1>4. ASSUME NEW g \in {n + 1}
      PROVE  LineageOf(g)'
  <2>1. CASE parent = 0 /\ c = 0
    BY <1>1, <2>1 DEF LineageOf
  <2>2. CASE /\ c \in CheckpointsOf(t)
             /\ parent \in SegmentsOfTask(t)
             /\ parent = sessions[s].segment \/ ~IsOpen(parent)
    <3>1. parent \in 1..n /\ segments[parent].task = t
      BY <1>1, <2>2 DEF SegmentsOfTask
    <3>2. segments'[parent].endTime # 0 /\ segments'[parent].task = t
      BY <1>1, <1>2, <2>2, <3>1 DEF IsOpen
    <3>3. c \in DOMAIN checkpoints' /\ checkpoints'[c].task = t
      BY <2>2 DEF CheckpointsOf, CheckpointsKept
    <3> QED BY <1>1, <3>1, <3>2, <3>3 DEF LineageOf
  <2> QED BY <2>1, <2>2
<1> QED BY <1>1, <1>3, <1>4 DEF LineageRows

LEMMA LineageStep ==
  ASSUME TypeOK, TypeOK', Ownership, History, LineageRows, [Next]_vars
  PROVE  LineageRows'
<1>1. CheckpointsKept
  BY CheckpointsKeptStep
<1>2. ASSUME NEW s \in SessionId, NEW t \in TaskId, NEW now \in CallTimes,
             Opens(s, t, 0, 0, now)
      PROVE  LineageRows'
  BY <1>1, <1>2, CallTimesAreNat, OpenedContinues
<1>3. ASSUME NEW s \in SessionId, NEW t \in TaskId, NEW now \in CallTimes,
             tasks[t].status \in Resumable, \A o \in SessionId : sessions[o].task # t,
             NEW parent \in 0..Len(segments), NEW c \in CheckpointsOf(t),
             IsLatestSegment(parent, t), Opens(s, t, parent, c, now)
      PROVE  LineageRows'
  <2>1. SegmentsOfTask(t) # {}
    BY <1>3 DEF History, HasSegments, SegmentsOfTask, Resumable
  <2>2. parent \in SegmentsOfTask(t)
    BY <1>3, <2>1 DEF IsLatestSegment, IsLatestIn
  <2>3. ~IsOpen(parent)
    BY <1>3, <2>2, UnheldIsClosed DEF SegmentsOfTask
  <2> QED BY <1>1, <1>3, <2>2, <2>3, CallTimesAreNat, OpenedContinues
<1>4. ASSUME NEW s \in SessionId, NEW t \in TaskId, NEW now \in CallTimes,
             sessions[s].task = t, NEW c \in CheckpointsOf(t),
             Opens(s, t, sessions[s].segment, c, now)
      PROVE  LineageRows'
  <2>1. sessions[s].segment \in SegmentsOfTask(t)
    BY <1>4, NoneAssumption DEF Ownership, PointerWellFormed, Attached, SegmentsOfTask
  <2> QED BY <1>1, <1>4, <2>1, CallTimesAreNat, OpenedContinues
<1>5. ASSUME NEW s \in SessionId, NEW t \in TaskId, NEW now \in CallTimes,
             NEW status \in Resumable \cup Finished, Releases(s, t, status, now)
      PROVE  LineageRows'
  <2> DEFINE n == Len(segments)
  <2>1. /\ n \in Nat /\ DOMAIN segments = 1..n /\ DOMAIN segments' = 1..n
        /\ \A h \in 1..n :
              /\ segments'[h].task = segments[h].task
              /\ segments'[h].parent = segments[h].parent
              /\ segments'[h].checkpoint = segments[h].checkpoint
              /\ segments[h].endTime # 0 => segments'[h].endTime # 0
    BY <1>5, CallTimesAreNat, ReleasedRows
  <2>2. DOMAIN segments' = DOMAIN segments
    BY <2>1
  <2>3. \A g \in DOMAIN segments : LineageOf(g)'
    BY <1>1, <2>1, <2>2, KeptLineage
  <2> QED BY <2>2, <2>3 DEF LineageRows
<1>6. ASSUME QuietStep
      PROVE  LineageRows'
  <2>1. UNCHANGED segments
    BY <1>6, QuietStepRows
  <2>2. DOMAIN segments' = DOMAIN segments
    BY <2>1
  <2>3. \A g \in DOMAIN segments : LineageOf(g)'
    BY <1>1, <2>1, <2>2, KeptLineage
  <2> QED BY <2>2, <2>3 DEF LineageRows
<1> QED BY <1>2, <1>3, <1>4, <1>5, <1>6, StepShapes

\* A segment continues a closed, earlier segment of its own task from a
\* checkpoint of that task, or starts anew: no Bootstrap mixes two tasks,
\* whatever clock readings the calls carry.
THEOREM LineageHolds == Spec => []Lineage
<1>1. Init => LineageRows
  BY DEF Init, LineageRows
<1>2. TypeOK /\ TypeOK' /\ Ownership /\ History /\ LineageRows /\ [Next]_vars => LineageRows'
  BY LineageStep
<1> QED BY <1>1, <1>2, LineageRowsSuffice, TypeCorrect, OwnershipHolds, HistoryHolds, PTL DEF Spec

-----------------------------------------------------------------------------
(* Status *)

\* The reason of the row that a step opens is the one of an active task.
LEMMA NewSegmentReason ==
  ASSUME NEW s, NEW t, NEW now, NEW parent, NEW c
  PROVE  NewSegment(t, s, now, parent, c).reason = StatusOfReason["active"]
  BY Zenon DEF NewSegment, StatusOfReason

\* g is the last segment of task t.
LastOf(g, t) ==
    /\ g \in DOMAIN segments
    /\ segments[g].task = t
    /\ \A h \in DOMAIN segments : segments[h].task = t => h <= g

Explained ==
    \A t \in TaskId : \A g \in DOMAIN segments :
        LastOf(g, t) => segments[g].reason = StatusOfReason[tasks[t].status]

LEMMA ExplainedSuffices == TypeOK /\ Explained => StatusExplained
<1> SUFFICES ASSUME TypeOK, Explained, NEW g \in DOMAIN segments,
                    \A h \in SegmentsOfTask(segments[g].task) : h <= g
             PROVE  segments[g].reason = StatusOfReason[tasks[segments[g].task].status]
  BY DEF StatusExplained
<1>1. segments[g].task \in TaskId
  BY SegmentRow, SegmentCountIsNat DEF ContextSegment
<1>2. LastOf(g, segments[g].task)
  BY DEF LastOf, SegmentsOfTask
<1> QED BY <1>1, <1>2 DEF Explained

\* The segment of an attached session is the last one of its task.
LEMMA CurrentIsLast ==
  ASSUME TypeOK, Ownership, History, NEW s \in SessionId, Attached(s),
         NEW g, LastOf(g, sessions[s].task)
  PROVE  g = sessions[s].segment
<1>1. /\ sessions[s].segment \in DOMAIN segments
      /\ segments[sessions[s].segment].task = sessions[s].task
  BY DEF Ownership, PointerWellFormed
<1>2. g <= sessions[s].segment /\ sessions[s].segment <= g
  BY <1>1 DEF LastOf, History, CurrentIsNewest
<1> QED BY <1>1, <1>2, SegmentCountIsNat DEF LastOf

LEMMA OpeningExplains ==
  ASSUME TypeOK, TypeOK', Ownership, History, Explained,
         NEW s \in SessionId, NEW t \in TaskId, NEW now \in Nat, NEW parent, NEW c,
         Opens(s, t, parent, c, now)
  PROVE  Explained'
<1> DEFINE n == Len(segments)
<1>1. /\ n \in Nat /\ DOMAIN segments = 1..n /\ DOMAIN segments' = 1..(n + 1)
      /\ \A h \in 1..n : segments'[h].task = segments[h].task
      /\ segments'[n + 1].task = t
  BY OpenedRows
<1>2. /\ tasks'[t].status = "active"
      /\ \A u \in TaskId \ {t} :
            tasks'[u].status = IF u = sessions[s].task THEN "paused" ELSE tasks[u].status
      /\ segments'[n + 1] = NewSegment(t, s, now, parent, c)
  BY DEF Opens
<1>3. \A h \in 1..n : segments'[h].reason =
        IF h = sessions[s].segment
          THEN IF sessions[s].task = t THEN "handoff" ELSE "task_paused"
          ELSE segments[h].reason
  BY DEF Opens, ClosesCurrent
<1> SUFFICES ASSUME NEW u \in TaskId, NEW g \in 1..(n + 1), LastOf(g, u)'
             PROVE  segments'[g].reason = StatusOfReason[tasks'[u].status]
  BY <1>1 DEF Explained
<1>4. CASE u = t
  <2>1. g = n + 1
    BY <1>1, <1>4 DEF LastOf
  <2> QED BY <1>2, <1>4, <2>1, NewSegmentReason
<1>5. CASE u # t
  <2>1. g \in 1..n /\ LastOf(g, u)
    BY <1>1, <1>5 DEF LastOf
  <2>2. CASE u = sessions[s].task
    <3>1. Attached(s)
      BY <2>2, NoneAssumption DEF Attached
    <3>2. g = sessions[s].segment
      BY <2>1, <2>2, <3>1, CurrentIsLast
    <3>3. tasks'[u].status = "paused" /\ segments'[g].reason = "task_paused"
      BY <1>2, <1>3, <1>5, <2>1, <2>2, <3>2
    <3> QED BY <3>3 DEF StatusOfReason
  <2>3. CASE u # sessions[s].task
    <3>1. g # sessions[s].segment
      BY <1>1, <2>1, <2>3 DEF Ownership, PointerWellFormed, LastOf
    <3>2. tasks'[u].status = tasks[u].status /\ segments'[g].reason = segments[g].reason
      BY <1>2, <1>3, <1>5, <2>1, <2>3, <3>1
    <3> QED BY <1>1, <2>1, <3>2 DEF Explained
  <2> QED BY <2>2, <2>3
<1> QED BY <1>4, <1>5

LEMMA ReleasingExplains ==
  ASSUME TypeOK, TypeOK', Ownership, History, Explained,
         NEW s \in SessionId, NEW t \in TaskId, NEW now \in Nat, NEW status,
         Releases(s, t, status, now)
  PROVE  Explained'
<1> DEFINE n == Len(segments)
<1>1. /\ n \in Nat /\ DOMAIN segments = 1..n /\ DOMAIN segments' = 1..n
      /\ \A h \in 1..n : segments'[h].task = segments[h].task
      /\ sessions[s].task = t
  BY ReleasedRows
<1>2. /\ tasks'[t].status = status
      /\ \A u \in TaskId \ {t} : tasks'[u].status = tasks[u].status
      /\ \A h \in 1..n : segments'[h].reason =
            IF h = sessions[s].segment THEN StatusOfReason[status] ELSE segments[h].reason
  BY DEF Releases, ClosesCurrent
<1>3. Attached(s)
  BY <1>1, NoneAssumption DEF Attached
<1> SUFFICES ASSUME NEW u \in TaskId, NEW g \in 1..n, LastOf(g, u)'
             PROVE  segments'[g].reason = StatusOfReason[tasks'[u].status]
  BY <1>1 DEF Explained
<1>4. LastOf(g, u)
  BY <1>1 DEF LastOf
<1>5. CASE u = t
  <2>1. g = sessions[s].segment
    BY <1>1, <1>3, <1>4, <1>5, CurrentIsLast
  <2> QED BY <1>2, <1>5, <2>1
<1>6. CASE u # t
  <2>1. g # sessions[s].segment
    BY <1>1, <1>3, <1>4, <1>6 DEF Ownership, PointerWellFormed, LastOf
  <2> QED BY <1>1, <1>2, <1>4, <1>6, <2>1 DEF Explained
<1> QED BY <1>5, <1>6

\* How the last segment of a task ended is how the task stands, through any
\* mixture of switches, handoffs and transitions.
THEOREM StatusExplainedHolds == Spec => []StatusExplained
<1>1. Init => Explained
  BY DEF Init, Explained
<1>2. ASSUME TypeOK, TypeOK', Ownership, History, Explained, [Next]_vars
      PROVE  Explained'
  <2>1. ASSUME QuietStep
        PROVE  Explained'
    <3>1. /\ UNCHANGED segments
          /\ \A u \in TaskId : tasks'[u].status = tasks[u].status
      BY <2>1, <1>2, QuietStepRows
    <3> QED BY <1>2, <3>1 DEF Explained, LastOf
  <2> QED BY <1>2, <2>1, CallTimesAreNat, StepShapes, OpeningExplains, ReleasingExplains
<1> QED BY <1>1, <1>2, ExplainedSuffices, TypeCorrect, OwnershipHolds, HistoryHolds, PTL
        DEF Spec

-----------------------------------------------------------------------------
(* Time. When no call commits with an old reading of the clock, the order of *)
(* the readings is the order of the rows.                                    *)

TimeInOrder ==
    \A g \in DOMAIN segments :
        /\ segments[g].startTime <= clock
        /\ segments[g].endTime <= clock
        /\ \A h \in DOMAIN segments : g <= h => segments[g].startTime <= segments[h].startTime

LEMMA TimesAreNat ==
  ASSUME TypeOK, NEW g \in DOMAIN segments
  PROVE  segments[g].startTime \in Nat /\ segments[g].endTime \in Nat
  BY SegmentRow, SegmentCountIsNat DEF ContextSegment

LEMMA ClockIsMonotone ==
  ASSUME TypeOK, [Next]_vars
  PROVE  clock' >= clock
<1>1. ASSUME NEW s \in SessionId, NEW t \in TaskId, NEW now \in CallTimes,
             TaskOperation(s, t, tasks[t].version, now)
      PROVE  UNCHANGED clock
  <2>1. ASSUME NEW parent, CreateTask(s, t, parent, now)
        PROVE  UNCHANGED clock
    BY <2>1 DEF CreateTask
  <2>2. ASSUME NEW changed, UpdateTask(s, t, tasks[t].version, changed)
        PROVE  UNCHANGED clock
    BY <2>2 DEF UpdateTask
  <2>3. ASSUME PauseTask(s, t, tasks[t].version, now)
        PROVE  UNCHANGED clock
    BY <2>3 DEF PauseTask
  <2>4. ASSUME ResumeTask(s, t, tasks[t].version, now)
        PROVE  UNCHANGED clock
    BY <2>4 DEF ResumeTask
  <2>5. ASSUME NEW status, TransitionTask(s, t, tasks[t].version, status, now)
        PROVE  UNCHANGED clock
    BY <2>5 DEF TransitionTask
  <2>6. ASSUME NEW type, AppendEvent(s, t, type)
        PROVE  UNCHANGED clock
    BY <2>6 DEF AppendEvent
  <2> QED BY <1>1, <2>1, <2>2, <2>3, <2>4, <2>5, <2>6 DEF TaskOperation
<1>2. ASSUME NEW s, NEW t, NEW now, NEW c, NEW g, Rotate(s, t, c, g, now)
      PROVE  UNCHANGED clock
  BY <1>2 DEF Rotate
<1>3. ASSUME NEW s, NEW t, NEW now, CreateCheckpoint(s, t, now)
      PROVE  UNCHANGED clock
  BY <1>3 DEF CreateCheckpoint
<1>4. ASSUME NEW c, CorruptCheckpoint(c)
      PROVE  UNCHANGED clock
  BY <1>4 DEF CorruptCheckpoint
<1>5. Tick => clock' = clock + 1
  BY DEF Tick
<1>6. UNCHANGED vars => UNCHANGED clock
  BY DEF vars
<1>7. clock \in Nat
  BY BoundAssumption DEF TypeOK
<1> QED BY <1>1, <1>2, <1>3, <1>4, <1>5, <1>6, <1>7 DEF Next

LEMMA TimeInOrderStep ==
  ASSUME TypeOK, TypeOK', Ownership, TimeInOrder, StaleStamps = FALSE, [Next]_vars
  PROVE  TimeInOrder'
<1>1. clock \in Nat /\ clock' \in Nat /\ clock <= clock'
  BY ClockIsMonotone, BoundAssumption DEF TypeOK
<1>2. ASSUME NEW s \in SessionId, NEW t \in TaskId, NEW now \in CallTimes, NEW parent, NEW c,
             Opens(s, t, parent, c, now)
      PROVE  TimeInOrder'
  <2> DEFINE n == Len(segments)
  <2>1. now = clock /\ now \in Nat
    BY CallTimesAreNat DEF CallTimes
  <2>2. /\ n \in Nat /\ DOMAIN segments = 1..n /\ DOMAIN segments' = 1..(n + 1)
        /\ \A h \in 1..n :
              /\ segments'[h].startTime = segments[h].startTime
              /\ segments'[h].endTime = IF h = sessions[s].segment THEN now ELSE segments[h].endTime
        /\ segments'[n + 1].startTime = now
        /\ segments'[n + 1].endTime = 0
    BY <1>2, <2>1, OpenedRows
  <2>3. \A h \in 1..n : segments[h].startTime \in Nat /\ segments[h].endTime \in Nat
    BY <2>2, TimesAreNat
  <2> QED BY <1>1, <2>1, <2>2, <2>3, SMTT(30) DEF TimeInOrder
<1>3. ASSUME NEW s \in SessionId, NEW t \in TaskId, NEW now \in CallTimes, NEW status,
             Releases(s, t, status, now)
      PROVE  TimeInOrder'
  <2> DEFINE n == Len(segments)
  <2>1. now = clock /\ now \in Nat
    BY CallTimesAreNat DEF CallTimes
  <2>2. /\ n \in Nat /\ DOMAIN segments = 1..n /\ DOMAIN segments' = 1..n
        /\ \A h \in 1..n :
              /\ segments'[h].startTime = segments[h].startTime
              /\ segments'[h].endTime = IF h = sessions[s].segment THEN now ELSE segments[h].endTime
    BY <1>3, <2>1, ReleasedRows
  <2>3. \A h \in 1..n : segments[h].startTime \in Nat /\ segments[h].endTime \in Nat
    BY <2>2, TimesAreNat
  <2> QED BY <1>1, <2>1, <2>2, <2>3 DEF TimeInOrder
<1>4. ASSUME QuietStep
      PROVE  TimeInOrder'
  <2>1. UNCHANGED segments
    BY <1>4, QuietStepRows
  <2>2. \A g \in DOMAIN segments : segments[g].startTime \in Nat /\ segments[g].endTime \in Nat
    BY TimesAreNat
  <2> QED BY <1>1, <2>1, <2>2 DEF TimeInOrder
<1> QED BY <1>2, <1>3, <1>4, StepShapes

LEMMA TimeInOrderHolds ==
  ASSUME StaleStamps = FALSE
  PROVE  Spec => []TimeInOrder
<1>1. Init => TimeInOrder
  BY DEF Init, TimeInOrder
<1>2. TypeOK /\ TypeOK' /\ Ownership /\ TimeInOrder /\ [Next]_vars
        => TimeInOrder'
  BY TimeInOrderStep
<1> QED BY <1>1, <1>2, TypeCorrect, OwnershipHolds, PTL DEF Spec

\* Then ORDER BY start_time DESC, rowid DESC returns the last row.
LEMMA LatestIsLast ==
  ASSUME TypeOK, TimeInOrder, NEW rows \in SUBSET DOMAIN segments, NEW g,
         IsLatestIn(g, rows)
  PROVE  \A h \in rows : h <= g
<1> SUFFICES ASSUME NEW h \in rows, ~(h <= g)
             PROVE  FALSE
  OBVIOUS
<1>1. g \in rows /\ g \in DOMAIN segments /\ h \in DOMAIN segments
  BY DEF IsLatestIn
<1>2. g \in Nat /\ h \in Nat /\ g < h
  BY <1>1, SegmentCountIsNat
<1>3. /\ segments[g].startTime \in Nat /\ segments[h].startTime \in Nat
      /\ segments[g].startTime <= segments[h].startTime
  BY <1>1, <1>2, TimesAreNat DEF TimeInOrder
<1> QED BY <1>1, <1>2, <1>3 DEF IsLatestIn

\* The segment a session recovers from is the last one it opened, as long as
\* clock readings and commits are in the same order.
THEOREM NewestIsRecoveredHolds ==
  ASSUME StaleStamps = FALSE
  PROVE  Spec => []NewestIsRecovered
<1>1. TypeOK /\ TimeInOrder => NewestIsRecovered
  BY LatestIsLast DEF NewestIsRecovered, SegmentsOfSession
<1> QED BY <1>1, TypeCorrect, TimeInOrderHolds, PTL

-----------------------------------------------------------------------------
(* The logs *)

\* What a switch appends to the log of the task that is left.
LEMMA SwitchLog ==
  ASSUME TypeOK, NEW s \in SessionId, NEW u \in TaskId, NEW c \in Nat
  PROVE  \/ EventsAfterSwitch(s, c)[u] = events[u]
         \/ EventsAfterSwitch(s, c)[u] = Append(events[u], Event("TASK_PAUSED", s, c))
  BY DEF EventsAfterSwitch, TypeOK

\* The log of u after a step that logs, for u, one event of the given types at most.
LogsOnly(u, types) ==
    \/ events'[u] = events[u]
    \/ \E e \in TaskEvent : events'[u] = Append(events[u], e) /\ e.type \in types

LEMMA LoggedEvent ==
  ASSUME NEW s \in SessionId, NEW type \in EventType, NEW ref \in Nat
  PROVE  /\ Event(type, s, ref) \in TaskEvent
         /\ Event(type, s, ref).type = type
         /\ Event(type, s, ref).ref = ref
         /\ Event(type, s, ref).byService
  BY DEF Event, TaskEvent

LEMMA SwitchLogsOnly ==
  ASSUME TypeOK, NEW s \in SessionId, NEW u \in TaskId, NEW c \in Nat,
         events'[u] = EventsAfterSwitch(s, c)[u]
  PROVE  LogsOnly(u, {"TASK_PAUSED"})
<1>1. "TASK_PAUSED" \in EventType
  BY DEF EventType, TaskEvents
<1> QED BY <1>1, SwitchLog, LoggedEvent DEF LogsOnly

\* What each operation logs.
LEMMA CreateTaskLogs ==
  ASSUME TypeOK, NEW s \in SessionId, NEW t \in TaskId, NEW parent, NEW now,
         CreateTask(s, t, parent, now)
  PROVE  /\ \A u \in TaskId \ {t} : LogsOnly(u, {"TASK_PAUSED"})
         /\ \A i \in DOMAIN events'[t] : events'[t][i].type \in {"TASK_CREATED", "NEW_TASK_STARTED"}
<1>1. PICK c \in 0..Len(checkpoints) :
        events' = [EventsAfterSwitch(s, c) EXCEPT ![t] =
                     <<Event("TASK_CREATED", s, 0)>> \o
                     IF Attached(s) THEN <<Event("NEW_TASK_STARTED", s, 0)>> ELSE <<>>]
  BY DEF CreateTask
<1>2. c \in Nat /\ EventsAfterSwitch(s, c) \in [TaskId -> Seq(TaskEvent)]
  <2>1. c \in Nat
    BY SegmentCountIsNat
  <2>2. 0 \in Nat
    OBVIOUS
  <2> QED BY <2>1, <2>2, SwitchTypes
<1>3. \A u \in TaskId \ {t} : events'[u] = EventsAfterSwitch(s, c)[u]
  BY <1>1, <1>2
<1>4. events'[t] = <<Event("TASK_CREATED", s, 0)>> \o
                     IF Attached(s) THEN <<Event("NEW_TASK_STARTED", s, 0)>> ELSE <<>>
  BY <1>1, <1>2
<1>5. /\ Event("TASK_CREATED", s, 0).type = "TASK_CREATED"
      /\ Event("NEW_TASK_STARTED", s, 0).type = "NEW_TASK_STARTED"
  BY DEF Event
<1> DEFINE a == Event("TASK_CREATED", s, 0)
           b == Event("NEW_TASK_STARTED", s, 0)
<1>6. \A i \in DOMAIN events'[t] : events'[t][i].type \in {"TASK_CREATED", "NEW_TASK_STARTED"}
  <2> HIDE DEF a, b
  <2>1. CASE Attached(s)
    <3>1. events'[t] = <<a>> \o <<b>>
      BY <1>4, <2>1 DEF a, b
    <3>2. <<a>> \in Seq({a, b}) /\ <<b>> \in Seq({a, b})
      OBVIOUS
    <3>3. events'[t] \in Seq({a, b})
      BY <3>1, <3>2, ConcatProperties
    <3>4. \A i \in DOMAIN events'[t] : events'[t][i] \in {a, b}
      BY <3>3, ElementOfSeq, LenProperties
    <3> QED BY <1>5, <3>4 DEF a, b
  <2>2. CASE ~Attached(s)
    <3>1. events'[t] = <<a>> \o <<>>
      BY <1>4, <2>2 DEF a, b
    <3>2. <<a>> \o <<>> = <<a>>
      OBVIOUS
    <3> QED BY <1>5, <3>1, <3>2 DEF a, b
  <2> QED BY <2>1, <2>2
<1> QED BY <1>2, <1>3, <1>6, SwitchLogsOnly

LEMMA PauseTaskLogs ==
  ASSUME TypeOK, NEW s \in SessionId, NEW t \in TaskId, NEW v, NEW now,
         PauseTask(s, t, v, now), NEW u \in TaskId
  PROVE  LogsOnly(u, {"TASK_PAUSED"})
<1>1. PICK c \in DOMAIN checkpoints : events' = EventsAfterSwitch(s, c)
  BY DEF PauseTask
<1>2. c \in Nat
  BY SegmentCountIsNat
<1> QED BY <1>1, <1>2, SwitchLogsOnly

LEMMA ResumeTaskLogs ==
  ASSUME TypeOK, NEW s \in SessionId, NEW t \in TaskId, NEW v, NEW now,
         ResumeTask(s, t, v, now)
  PROVE  /\ \A u \in TaskId \ {t} : LogsOnly(u, {"TASK_PAUSED"})
         /\ events'[t] = Append(events[t], Event("TASK_RESUMED", s, Len(segments) + 1))
<1>1. PICK c \in 0..Len(checkpoints) :
        events' = [EventsAfterSwitch(s, c) EXCEPT ![t] =
                     Append(@, Event("TASK_RESUMED", s, Len(segments) + 1))]
  BY DEF ResumeTask
<1>2. c \in Nat /\ EventsAfterSwitch(s, c) \in [TaskId -> Seq(TaskEvent)]
  <2>1. c \in Nat
    BY SegmentCountIsNat
  <2>2. 0 \in Nat
    OBVIOUS
  <2> QED BY <2>1, <2>2, SwitchTypes
<1>3. \A u \in TaskId \ {t} : events'[u] = EventsAfterSwitch(s, c)[u]
  BY <1>1, <1>2
<1>4. EventsAfterSwitch(s, c)[t] = events[t]
  BY DEF ResumeTask, EventsAfterSwitch, TypeOK
<1>5. events'[t] = Append(events[t], Event("TASK_RESUMED", s, Len(segments) + 1))
  BY <1>1, <1>2, <1>4
<1> QED BY <1>2, <1>3, <1>5, SwitchLogsOnly

LEMMA RotateLogs ==
  ASSUME TypeOK, NEW s \in SessionId, NEW t \in TaskId, NEW c, NEW g, NEW now,
         Rotate(s, t, c, g, now)
  PROVE  /\ \A u \in TaskId \ {t} : events'[u] = events[u]
         /\ events'[t] = Append(events[t], Event("HANDOFF_COMPLETED", s, Len(segments) + 1))
  BY DEF Rotate, TypeOK

LEMMA TransitionTaskLogs ==
  ASSUME TypeOK, NEW s \in SessionId, NEW t \in TaskId, NEW v, NEW now,
         NEW status \in Finished \cup {"blocked"},
         TransitionTask(s, t, v, status, now), NEW u \in TaskId
  PROVE  LogsOnly(u, {"TASK_BLOCKED", "TASK_COMPLETED", "TASK_CANCELLED"})
<1>1. TransitionEvent[status] \in {"TASK_BLOCKED", "TASK_COMPLETED", "TASK_CANCELLED"}
  <2>1. CASE status = "blocked"
    BY <2>1 DEF TransitionEvent
  <2>2. CASE status = "completed"
    BY <2>2 DEF TransitionEvent
  <2>3. CASE status = "cancelled"
    BY <2>3 DEF TransitionEvent
  <2> QED BY <2>1, <2>2, <2>3 DEF Finished
<1>2. TransitionEvent[status] \in EventType /\ 0 \in Nat
  BY <1>1 DEF EventType, TaskEvents
<1>3. events'[u] = events[u] \/ events'[u] = Append(events[u], Event(TransitionEvent[status], s, 0))
  BY DEF TransitionTask, TypeOK
<1> QED BY <1>1, <1>2, <1>3, LoggedEvent DEF LogsOnly

LEMMA UpdateTaskLogs ==
  ASSUME TypeOK, NEW s \in SessionId, NEW t \in TaskId, NEW v, NEW changed,
         UpdateTask(s, t, v, changed), NEW u \in TaskId
  PROVE  LogsOnly(u, {"GOAL_CHANGED"})
<1>1. "GOAL_CHANGED" \in EventType /\ 0 \in Nat
  BY DEF EventType, TaskEvents
<1>2. events'[u] = events[u] \/ events'[u] = Append(events[u], Event("GOAL_CHANGED", s, 0))
  BY DEF UpdateTask, TypeOK
<1> QED BY <1>1, <1>2, LoggedEvent DEF LogsOnly

LEMMA CreateCheckpointLogs ==
  ASSUME TypeOK, NEW s \in SessionId, NEW t \in TaskId, NEW now,
         CreateCheckpoint(s, t, now), NEW u \in TaskId
  PROVE  LogsOnly(u, {"CHECKPOINT_CREATED"})
<1>1. "CHECKPOINT_CREATED" \in EventType /\ Len(checkpoints) + 1 \in Nat
  BY SegmentCountIsNat DEF EventType
<1>2. \/ events'[u] = events[u]
      \/ events'[u] = Append(events[u], Event("CHECKPOINT_CREATED", s, Len(checkpoints) + 1))
  BY DEF CreateCheckpoint, TypeOK
<1> QED BY <1>1, <1>2, LoggedEvent DEF LogsOnly

\* What an Agent appends itself, whatever its type, is not by a service.
LEMMA AppendEventLogs ==
  ASSUME TypeOK, NEW s \in SessionId, NEW t \in TaskId, NEW type \in Notes,
         AppendEvent(s, t, type), NEW u \in TaskId
  PROVE  \/ events'[u] = events[u]
         \/ \E e \in TaskEvent :
               events'[u] = Append(events[u], e) /\ ~e.byService /\ e.type = type
<1> DEFINE e == [Event(type, s, 0) EXCEPT !.byService = FALSE]
<1>1. e \in TaskEvent /\ ~e.byService /\ e.type = type
  <2>1. Event(type, s, 0) \in TaskEvent /\ Event(type, s, 0).type = type
    BY LoggedEvent DEF EventType
  <2> QED BY <2>1 DEF TaskEvent
<1>2. events'[u] = events[u] \/ events'[u] = Append(events[u], e)
  BY DEF AppendEvent, TypeOK
<1> HIDE DEF e
<1> QED BY <1>1, <1>2

-----------------------------------------------------------------------------
(* Traceability *)

\* The segments of u that continue another one, and u's part of Traceable.
Continued(u) == {g \in SegmentsOfTask(u) : segments[g].parent # 0}

TraceOf(u) ==
    /\ {events[u][i].ref : i \in ContinuationEvents(u)} = Continued(u)
    /\ \A i, j \in ContinuationEvents(u) : i < j => events[u][i].ref < events[u][j].ref

LEMMA TraceByTask == Traceable <=> \A u \in TaskId : TraceOf(u)
  BY DEF Traceable, TraceOf, Continued

\* A log that grows by one event.
LEMMA AppendedLog ==
  ASSUME TypeOK, TypeOK', NEW u \in TaskId, NEW e \in TaskEvent,
         events'[u] = Append(events[u], e)
  PROVE  /\ Len(events[u]) \in Nat
         /\ DOMAIN events[u] = 1..Len(events[u])
         /\ DOMAIN events'[u] = 1..(Len(events[u]) + 1)
         /\ \A i \in 1..Len(events[u]) : events'[u][i] = events[u][i]
         /\ events'[u][Len(events[u]) + 1] = e
<1>1. events[u] \in Seq(TaskEvent) /\ events'[u] \in Seq(TaskEvent)
  BY DEF TypeOK
<1>2. /\ Len(events'[u]) = Len(events[u]) + 1
      /\ \A i \in 1..Len(events[u]) : events'[u][i] = events[u][i]
      /\ events'[u][Len(events[u]) + 1] = e
  BY <1>1, AppendProperties
<1> QED BY <1>1, <1>2, LenProperties

\* An event that continues no segment leaves the trace as it is.
LEMMA QuietTrace ==
  ASSUME TypeOK, TypeOK', NEW u \in TaskId, TraceOf(u), Continued(u)' = Continued(u),
         \/ events'[u] = events[u]
         \/ \E e \in TaskEvent :
               /\ events'[u] = Append(events[u], e)
               /\ ~(e.byService /\ e.type \in {"TASK_RESUMED", "HANDOFF_COMPLETED"})
  PROVE  TraceOf(u)'
<1>1. CASE events'[u] = events[u]
  BY <1>1 DEF TraceOf, ContinuationEvents
<1>2. CASE \E e \in TaskEvent :
               /\ events'[u] = Append(events[u], e)
               /\ ~(e.byService /\ e.type \in {"TASK_RESUMED", "HANDOFF_COMPLETED"})
  <2>1. PICK e \in TaskEvent :
               /\ events'[u] = Append(events[u], e)
               /\ ~(e.byService /\ e.type \in {"TASK_RESUMED", "HANDOFF_COMPLETED"})
    BY <1>2
  <2>2. /\ Len(events[u]) \in Nat
        /\ DOMAIN events[u] = 1..Len(events[u])
        /\ DOMAIN events'[u] = 1..(Len(events[u]) + 1)
        /\ \A i \in 1..Len(events[u]) : events'[u][i] = events[u][i]
        /\ events'[u][Len(events[u]) + 1] = e
    BY <2>1, AppendedLog
  <2>3. /\ ContinuationEvents(u)' = ContinuationEvents(u)
        /\ \A i \in ContinuationEvents(u) : events'[u][i] = events[u][i]
    BY <2>1, <2>2 DEF ContinuationEvents
  <2> QED BY <2>3 DEF TraceOf
<1> QED BY <1>1, <1>2

LEMMA SilentTrace ==
  ASSUME TypeOK, TypeOK', NEW u \in TaskId, TraceOf(u), Continued(u)' = Continued(u),
         NEW types, LogsOnly(u, types),
         types \cap {"TASK_RESUMED", "HANDOFF_COMPLETED"} = {}
  PROVE  TraceOf(u)'
<1>1. ASSUME NEW e \in TaskEvent, e.type \in types
      PROVE  ~(e.byService /\ e.type \in {"TASK_RESUMED", "HANDOFF_COMPLETED"})
  BY <1>1
<1> QED BY <1>1, QuietTrace DEF LogsOnly

\* The event that a continuation logs names the segment it opens, the newest.
LEMMA ContinuedTrace ==
  ASSUME TypeOK, TypeOK', NEW u \in TaskId, TraceOf(u), NEW e \in TaskEvent,
         events'[u] = Append(events[u], e),
         e.byService, e.type \in {"TASK_RESUMED", "HANDOFF_COMPLETED"},
         e.ref = Len(segments) + 1,
         Continued(u)' = Continued(u) \cup {Len(segments) + 1}
  PROVE  TraceOf(u)'
<1> DEFINE n == Len(events[u])
<1>1. /\ n \in Nat
      /\ DOMAIN events[u] = 1..n
      /\ DOMAIN events'[u] = 1..(n + 1)
      /\ \A i \in 1..n : events'[u][i] = events[u][i]
      /\ events'[u][n + 1] = e
  BY AppendedLog
<1>2. ContinuationEvents(u)' = ContinuationEvents(u) \cup {n + 1}
  BY <1>1 DEF ContinuationEvents
<1>3. ContinuationEvents(u) \subseteq 1..n
  BY <1>1 DEF ContinuationEvents
<1>4. \A i \in ContinuationEvents(u) : events'[u][i].ref \in Continued(u)
  BY <1>1, <1>3 DEF TraceOf
<1>5. Continued(u) \subseteq 1..Len(segments) /\ Len(segments) \in Nat
  BY SegmentCountIsNat DEF Continued, SegmentsOfTask
<1>6. {events'[u][i].ref : i \in ContinuationEvents(u)'} = Continued(u)'
  <2>1. {events'[u][i].ref : i \in ContinuationEvents(u)} = Continued(u)
    BY <1>1, <1>3 DEF TraceOf
  <2>2. events'[u][n + 1].ref = Len(segments) + 1
    BY <1>1
  <2> HIDE DEF n
  <2> QED BY <1>2, <2>1, <2>2
<1>7. ASSUME NEW i \in ContinuationEvents(u)', NEW j \in ContinuationEvents(u)', i < j
      PROVE  events'[u][i].ref < events'[u][j].ref
  <2>1. i \in ContinuationEvents(u)
    BY <1>1, <1>2, <1>3, <1>7
  <2>2. CASE j = n + 1
    <3>1. events'[u][i].ref \in 1..Len(segments)
      BY <1>4, <1>5, <2>1
    <3>2. events'[u][j].ref = Len(segments) + 1
      BY <1>1, <2>2
    <3>3. \A a, b, k : k \in Nat /\ a \in 1..k /\ b = k + 1 => a < b
      OBVIOUS
    <3> QED BY <1>5, <3>1, <3>2, <3>3, Zenon
  <2>3. CASE j \in ContinuationEvents(u)
    <3>1. events[u][i].ref < events[u][j].ref
      BY <1>7, <2>1, <2>3 DEF TraceOf
    <3> QED BY <1>1, <1>3, <2>1, <2>3, <3>1
  <2> QED BY <1>2, <2>2, <2>3
<1> QED BY <1>6, <1>7 DEF TraceOf

\* What the steps do to the segments that continue another one.
LEMMA OpenedContinued ==
  ASSUME TypeOK, TypeOK', NEW s \in SessionId, NEW t \in TaskId, NEW now \in Nat,
         NEW parent, NEW c, Opens(s, t, parent, c, now), NEW u \in TaskId
  PROVE  Continued(u)' = Continued(u) \cup IF u = t /\ parent # 0 THEN {Len(segments) + 1} ELSE {}
<1> DEFINE n == Len(segments)
<1>1. /\ n \in Nat /\ DOMAIN segments = 1..n /\ DOMAIN segments' = 1..(n + 1)
      /\ \A h \in 1..n : /\ segments'[h].task = segments[h].task
                         /\ segments'[h].parent = segments[h].parent
      /\ segments'[n + 1].task = t /\ segments'[n + 1].parent = parent
  BY OpenedRows
<1>2. Continued(u) = {h \in 1..n : segments[h].task = u /\ segments[h].parent # 0}
  BY <1>1 DEF Continued, SegmentsOfTask
<1>3. Continued(u)' = {h \in 1..(n + 1) : segments'[h].task = u /\ segments'[h].parent # 0}
  BY <1>1 DEF Continued, SegmentsOfTask
<1>4. \A h : h \in 1..(n + 1) <=> h \in 1..n \/ h = n + 1
  BY <1>1
<1> HIDE DEF n
<1>5. \A h : h \in Continued(u)' <=>
                h \in Continued(u) \/ (h = n + 1 /\ u = t /\ parent # 0)
  BY <1>1, <1>2, <1>3, <1>4
<1> QED BY <1>5 DEF n

LEMMA ReleasedContinued ==
  ASSUME TypeOK, TypeOK', NEW s \in SessionId, NEW t \in TaskId, NEW now \in Nat,
         NEW status, Releases(s, t, status, now), NEW u \in TaskId
  PROVE  Continued(u)' = Continued(u)
<1>1. /\ DOMAIN segments = 1..Len(segments) /\ DOMAIN segments' = 1..Len(segments)
      /\ \A h \in 1..Len(segments) : /\ segments'[h].task = segments[h].task
                                     /\ segments'[h].parent = segments[h].parent
  BY ReleasedRows
<1> QED BY <1>1 DEF Continued, SegmentsOfTask

\* A task without a row has no segment, and is given a log that names none.
LEMMA CreatedTrace ==
  ASSUME TypeOK, TypeOK', History, NEW u \in TaskId, tasks[u].status = "absent",
         Continued(u)' = Continued(u),
         \A i \in DOMAIN events'[u] : events'[u][i].type \in {"TASK_CREATED", "NEW_TASK_STARTED"}
  PROVE  TraceOf(u)'
<1>1. Continued(u) = {}
  BY DEF History, HasSegments, Continued, SegmentsOfTask
<1>2. ContinuationEvents(u)' = {}
  BY DEF ContinuationEvents
<1> QED BY <1>1, <1>2 DEF TraceOf

LEMMA TraceStep ==
  ASSUME TypeOK, TypeOK', Ownership, History, Traceable, [Next]_vars
  PROVE  Traceable'
<1>1. SUFFICES ASSUME NEW u \in TaskId PROVE TraceOf(u)'
  BY TraceByTask DEF Traceable, TraceOf, Continued
<1>2. TraceOf(u)
  BY TraceByTask
<1>3. ASSUME NEW s \in SessionId, NEW t \in TaskId, NEW now \in CallTimes,
             NEW parent \in TaskId \cup {None}, CreateTask(s, t, parent, now)
      PROVE  TraceOf(u)'
  <2>1. Continued(u)' = Continued(u)
    <3>1. Opens(s, t, 0, 0, now)
      BY <1>3, CallTimesAreNat, CreateTaskOpens
    <3>2. now \in Nat
      BY CallTimesAreNat
    <3>3. Continued(u)' =
             Continued(u) \cup IF u = t /\ 0 # 0 THEN {Len(segments) + 1} ELSE {}
      BY <3>1, <3>2, OpenedContinued
    <3> QED BY <3>3
  <2>2. CASE u = t
    BY <1>3, <2>1, <2>2, CreateTaskLogs, CreatedTrace DEF CreateTask
  <2>3. CASE u # t
    <3>1. LogsOnly(u, {"TASK_PAUSED"})
      BY <1>3, <2>3, CreateTaskLogs
    <3> QED BY <1>2, <2>1, <3>1, SilentTrace
  <2> QED BY <2>2, <2>3
<1>4. ASSUME NEW s \in SessionId, NEW t \in TaskId, NEW now \in CallTimes,
             ResumeTask(s, t, tasks[t].version, now)
      PROVE  TraceOf(u)'
  <2>1. PICK parent \in 0..Len(segments), c \in CheckpointsOf(t) :
          Opens(s, t, parent, c, now) /\ IsLatestSegment(parent, t)
    BY <1>4, CallTimesAreNat, ResumeTaskOpens
  <2>2. parent # 0
    <3>1. SegmentsOfTask(t) # {}
      BY <1>4 DEF ResumeTask, History, HasSegments, SegmentsOfTask, Resumable
    <3>2. parent \in SegmentsOfTask(t)
      BY <2>1, <3>1 DEF IsLatestSegment, IsLatestIn
    <3> QED BY <3>2, SegmentCountIsNat DEF SegmentsOfTask
  <2>3. Continued(u)' = Continued(u) \cup IF u = t THEN {Len(segments) + 1} ELSE {}
    BY <2>1, <2>2, CallTimesAreNat, OpenedContinued
  <2>4. CASE u = t
    <3>1. "TASK_RESUMED" \in EventType /\ Len(segments) + 1 \in Nat
      BY SegmentCountIsNat DEF EventType, TaskEvents
    <3> QED BY <1>2, <1>4, <2>3, <2>4, <3>1, ResumeTaskLogs, LoggedEvent, ContinuedTrace
  <2>5. CASE u # t
    <3>1. LogsOnly(u, {"TASK_PAUSED"}) /\ Continued(u)' = Continued(u)
      BY <1>4, <2>3, <2>5, ResumeTaskLogs
    <3> QED BY <1>2, <3>1, SilentTrace
  <2> QED BY <2>4, <2>5
<1>5. ASSUME NEW s \in SessionId, NEW t \in TaskId, NEW now \in CallTimes,
             NEW c \in DOMAIN checkpoints, NEW g \in DOMAIN segments,
             Rotate(s, t, c, g, now)
      PROVE  TraceOf(u)'
  <2>1. Opens(s, t, g, c, now) /\ g # 0
    BY <1>5, CallTimesAreNat, RotateOpens, SegmentCountIsNat
  <2>2. Continued(u)' = Continued(u) \cup IF u = t THEN {Len(segments) + 1} ELSE {}
    BY <2>1, CallTimesAreNat, OpenedContinued
  <2>3. CASE u = t
    <3>1. "HANDOFF_COMPLETED" \in EventType /\ Len(segments) + 1 \in Nat
      BY SegmentCountIsNat DEF EventType, Notes
    <3> QED BY <1>2, <1>5, <2>2, <2>3, <3>1, RotateLogs, LoggedEvent, ContinuedTrace
  <2>4. CASE u # t
    BY <1>2, <1>5, <2>2, <2>4, RotateLogs, QuietTrace
  <2> QED BY <2>3, <2>4
<1>6. ASSUME NEW s \in SessionId, NEW t \in TaskId, NEW now \in CallTimes,
             PauseTask(s, t, tasks[t].version, now)
      PROVE  TraceOf(u)'
  <2>1. Releases(s, t, "paused", now)
    BY <1>6, CallTimesAreNat, PauseTaskReleases
  <2>2. Continued(u)' = Continued(u) /\ LogsOnly(u, {"TASK_PAUSED"})
    BY <1>6, <2>1, CallTimesAreNat, ReleasedContinued, PauseTaskLogs
  <2> QED BY <1>2, <2>2, SilentTrace
<1>7. ASSUME NEW s \in SessionId, NEW t \in TaskId, NEW now \in CallTimes,
             NEW status \in Finished \cup {"blocked"},
             TransitionTask(s, t, tasks[t].version, status, now)
      PROVE  TraceOf(u)'
  <2>1. Releases(s, t, status, now)
    BY <1>7, CallTimesAreNat, TransitionTaskReleases
  <2>2. /\ Continued(u)' = Continued(u)
        /\ LogsOnly(u, {"TASK_BLOCKED", "TASK_COMPLETED", "TASK_CANCELLED"})
    BY <1>7, <2>1, CallTimesAreNat, ReleasedContinued, TransitionTaskLogs
  <2> QED BY <1>2, <2>2, SilentTrace
<1>8. ASSUME QuietStep
      PROVE  TraceOf(u)'
  <2>1. Continued(u)' = Continued(u)
    BY <1>8, QuietStepRows DEF Continued, SegmentsOfTask
  <2>2. ASSUME NEW s \in SessionId, NEW t \in TaskId, NEW changed \in BOOLEAN,
               UpdateTask(s, t, tasks[t].version, changed)
        PROVE  TraceOf(u)'
    BY <1>2, <2>1, <2>2, UpdateTaskLogs, SilentTrace
  <2>3. ASSUME NEW s \in SessionId, NEW t \in TaskId, NEW type \in Notes, AppendEvent(s, t, type)
        PROVE  TraceOf(u)'
    <3>1. \/ events'[u] = events[u]
          \/ \E e \in TaskEvent :
                events'[u] = Append(events[u], e) /\ ~e.byService /\ e.type = type
      BY <2>3, AppendEventLogs
    <3> QED BY <1>2, <2>1, <3>1, QuietTrace
  <2>4. ASSUME NEW s \in SessionId, NEW t \in TaskId, NEW now \in CallTimes,
               CreateCheckpoint(s, t, now)
        PROVE  TraceOf(u)'
    BY <1>2, <2>1, <2>4, CreateCheckpointLogs, SilentTrace
  <2>5. CASE Tick \/ (\E c \in DOMAIN checkpoints : CorruptCheckpoint(c)) \/ UNCHANGED vars
    <3>1. events'[u] = events[u]
      BY <2>5 DEF Tick, CorruptCheckpoint, vars
    <3> QED BY <1>2, <2>1, <3>1, QuietTrace
  <2> QED BY <1>8, <2>2, <2>3, <2>4, <2>5 DEF QuietStep
<1> QED BY <1>3, <1>4, <1>5, <1>6, <1>7, <1>8 DEF Next, TaskOperation, QuietStep

\* What the services logged of a task names every segment that continued it, each
\* once and in the order they were opened, whatever an Agent appends to the log
\* itself (task_service.py resume, handoff_service.py rotate).
THEOREM TraceableHolds == Spec => []Traceable
<1>1. Init => Traceable
  BY DEF Init, Traceable, ContinuationEvents, SegmentsOfTask
<1>2. TypeOK /\ TypeOK' /\ Ownership /\ History /\ Traceable /\ [Next]_vars => Traceable'
  BY TraceStep
<1> QED BY <1>1, <1>2, TypeCorrect, OwnershipHolds, HistoryHolds, PTL DEF Spec

-----------------------------------------------------------------------------
(* Where a resumed task continues *)

\* A pause of u that no resume has followed yet.
Unresumed(u, i) ==
    /\ LogsPause(u, i)
    /\ \A k \in DOMAIN events[u] : i < k => ~LogsResume(u, k)

\* A resume in the log of u that follows the pause at i.
FollowsPause(u, i, j) ==
    /\ i < j
    /\ LogsPause(u, i)
    /\ LogsResume(u, j)
    /\ \A k \in (i + 1)..(j - 1) : ~LogsResume(u, k)

\* While a pause is not resumed, the task stays paused and the checkpoint that
\* the pause names stays its latest; the resumes start where they should.
PausesOf(u) ==
    /\ \A i \in DOMAIN events[u] : Unresumed(u, i) =>
          /\ tasks[u].status = "paused"
          /\ IsLatestCheckpoint(events[u][i].ref, u)
    /\ \A i, j \in DOMAIN events[u] : FollowsPause(u, i, j) =>
          /\ events[u][j].ref \in DOMAIN segments
          /\ segments[events[u][j].ref].checkpoint = events[u][i].ref

Pauses == \A u \in TaskId : PausesOf(u)

\* The rows that logs refer to keep the checkpoint they started from.
StartsKept ==
    \A h \in DOMAIN segments :
        h \in DOMAIN segments' /\ segments'[h].checkpoint = segments[h].checkpoint

\* A task has one latest checkpoint.
LEMMA LatestCheckpointIsOne ==
  ASSUME TypeOK, NEW u \in TaskId, NEW c, NEW d,
         IsLatestCheckpoint(c, u), IsLatestCheckpoint(d, u)
  PROVE  c = d
<1>1. c \in DOMAIN checkpoints /\ d \in DOMAIN checkpoints
  BY DEF IsLatestCheckpoint, CheckpointsOf
<1>2. checkpoints[c] \in Checkpoint /\ checkpoints[d] \in Checkpoint /\ c \in Nat /\ d \in Nat
  BY <1>1, SegmentCountIsNat, ElementOfSeq DEF TypeOK
<1>3. checkpoints[c].createdAt \in Nat /\ checkpoints[d].createdAt \in Nat
  BY <1>2 DEF Checkpoint
<1> QED BY <1>2, <1>3 DEF IsLatestCheckpoint

\* The latest checkpoint of a task that is not active stays its latest.
LEMMA LatestStays ==
  ASSUME TypeOK, Ownership, [Next]_vars, NEW u \in TaskId, tasks[u].status # "active",
         NEW c, IsLatestCheckpoint(c, u)
  PROVE  IsLatestCheckpoint(c, u)'
<1>1. ASSUME NEW s \in SessionId, NEW t \in TaskId, NEW now \in CallTimes,
             CreateCheckpoint(s, t, now)
      PROVE  IsLatestCheckpoint(c, u)'
  <2>1. t # u
    BY <1>1, NoneAssumption
       DEF CreateCheckpoint, ActiveSession, Ownership, PointerWellFormed, Attached
  <2> DEFINE row == [task |-> t, createdAt |-> now, valid |-> TRUE]
  <2>2. /\ checkpoints' = Append(checkpoints, row) /\ row \in Checkpoint
        /\ checkpoints \in Seq(Checkpoint)
    BY <1>1, CallTimesAreNat DEF CreateCheckpoint, Checkpoint, TypeOK
  <2>3. row.task = t
    OBVIOUS
  <2> HIDE DEF row
  <2>4. /\ checkpoints' \in Seq(Checkpoint)
        /\ Len(checkpoints') = Len(checkpoints) + 1
        /\ \A d \in 1..Len(checkpoints) : checkpoints'[d] = checkpoints[d]
        /\ checkpoints'[Len(checkpoints) + 1] = row
    BY <2>2, AppendProperties
  <2>5. /\ DOMAIN checkpoints' = 1..(Len(checkpoints) + 1)
        /\ DOMAIN checkpoints = 1..Len(checkpoints) /\ Len(checkpoints) \in Nat
    BY <2>2, <2>4, LenProperties
  <2>6. CheckpointsOf(u)' = CheckpointsOf(u)
    BY <2>1, <2>3, <2>4, <2>5 DEF CheckpointsOf
  <2>7. \A d \in CheckpointsOf(u) : checkpoints'[d] = checkpoints[d]
    BY <2>4, <2>5 DEF CheckpointsOf
  <2> QED BY <2>6, <2>7 DEF IsLatestCheckpoint
<1>2. ASSUME NEW b \in DOMAIN checkpoints, CorruptCheckpoint(b)
      PROVE  IsLatestCheckpoint(c, u)'
  <2>1. \A d \in DOMAIN checkpoints : checkpoints[d] \in Checkpoint
    BY SegmentCountIsNat, ElementOfSeq DEF TypeOK
  <2>2. /\ DOMAIN checkpoints' = DOMAIN checkpoints
        /\ \A d \in DOMAIN checkpoints :
              /\ checkpoints'[d].task = checkpoints[d].task
              /\ checkpoints'[d].createdAt = checkpoints[d].createdAt
    BY <1>2, <2>1 DEF CorruptCheckpoint, Checkpoint
  <2> QED BY <2>2 DEF IsLatestCheckpoint, CheckpointsOf
<1>3. UNCHANGED checkpoints => IsLatestCheckpoint(c, u)'
  BY DEF IsLatestCheckpoint, CheckpointsOf
<1> QED BY <1>1, <1>2, <1>3, CheckpointSteps

\* A log that stays as it is.
LEMMA KeptPauses ==
  ASSUME TypeOK, Ownership, [Next]_vars, NEW u \in TaskId, PausesOf(u), StartsKept,
         events'[u] = events[u], tasks'[u].status = tasks[u].status \/ tasks[u].status # "paused"
  PROVE  PausesOf(u)'
<1>1. ASSUME NEW i \in DOMAIN events[u], Unresumed(u, i)'
      PROVE  tasks'[u].status = "paused" /\ IsLatestCheckpoint(events[u][i].ref, u)'
  <2>1. Unresumed(u, i)
    BY <1>1 DEF Unresumed, LogsPause, LogsResume
  <2>2. tasks[u].status = "paused" /\ IsLatestCheckpoint(events[u][i].ref, u)
    BY <2>1 DEF PausesOf
  <2> QED BY <2>2, LatestStays
<1>2. ASSUME NEW i \in DOMAIN events[u], NEW j \in DOMAIN events[u], FollowsPause(u, i, j)'
      PROVE  /\ events[u][j].ref \in DOMAIN segments'
             /\ segments'[events[u][j].ref].checkpoint = events[u][i].ref
  <2>1. FollowsPause(u, i, j)
    BY <1>2 DEF FollowsPause, LogsPause, LogsResume
  <2> QED BY <2>1 DEF PausesOf, StartsKept
<1> QED BY <1>1, <1>2 DEF PausesOf

\* A log that grows by e: nothing but a resume follows a pause.
LEMMA GrownPauses ==
  ASSUME TypeOK, TypeOK', NEW u \in TaskId, PausesOf(u), StartsKept, NEW e \in TaskEvent,
         events'[u] = Append(events[u], e),
         \/ /\ e.byService /\ e.type = "TASK_RESUMED"
            /\ e.ref \in DOMAIN segments'
            /\ \A i \in DOMAIN events[u] :
                  Unresumed(u, i) => segments'[e.ref].checkpoint = events[u][i].ref
         \/ /\ ~(e.byService /\ e.type = "TASK_RESUMED")
            /\ \A i \in DOMAIN events[u] : ~Unresumed(u, i)
            /\ e.byService /\ e.type = "TASK_PAUSED" =>
                  tasks'[u].status = "paused" /\ IsLatestCheckpoint(e.ref, u)'
  PROVE  PausesOf(u)'
<1> PICK n : n = Len(events[u])
  OBVIOUS
<1>1. /\ n \in Nat
      /\ DOMAIN events[u] = 1..n
      /\ DOMAIN events'[u] = 1..(n + 1)
      /\ \A i \in 1..n : events'[u][i] = events[u][i]
      /\ events'[u][n + 1] = e
  BY AppendedLog
<1>2. /\ \A i \in 1..n : /\ LogsPause(u, i)' <=> LogsPause(u, i)
                         /\ LogsResume(u, i)' <=> LogsResume(u, i)
      /\ LogsPause(u, n + 1)' <=> e.byService /\ e.type = "TASK_PAUSED"
      /\ LogsResume(u, n + 1)' <=> e.byService /\ e.type = "TASK_RESUMED"
  BY <1>1 DEF LogsPause, LogsResume
<1>3. ASSUME NEW i \in 1..(n + 1), Unresumed(u, i)'
      PROVE  tasks'[u].status = "paused" /\ IsLatestCheckpoint(e.ref, u)' /\ i = n + 1
  <2>1. CASE i \in 1..n
    <3>1. Unresumed(u, i) /\ ~LogsResume(u, n + 1)'
      BY <1>1, <1>2, <1>3, <2>1 DEF Unresumed
    <3> QED BY <1>1, <1>2, <2>1, <3>1
  <2>2. CASE i = n + 1
    BY <1>2, <1>3, <2>2 DEF Unresumed
  <2> QED BY <1>1, <2>1, <2>2
<1>4. ASSUME NEW i \in 1..(n + 1), NEW j \in 1..(n + 1), FollowsPause(u, i, j)'
      PROVE  /\ events'[u][j].ref \in DOMAIN segments'
             /\ segments'[events'[u][j].ref].checkpoint = events'[u][i].ref
  <2>0. i \in 1..n /\ i < j /\ (i + 1)..(j - 1) \subseteq 1..n
    BY <1>1, <1>4 DEF FollowsPause
  <2>1. CASE j \in 1..n
    <3>1. FollowsPause(u, i, j)
      BY <1>2, <1>4, <2>0, <2>1 DEF FollowsPause
    <3> QED BY <1>1, <2>0, <2>1, <3>1 DEF PausesOf, StartsKept
  <2>2. CASE j = n + 1
    <3>1. LogsResume(u, n + 1)' /\ LogsPause(u, i)
      BY <1>2, <1>4, <2>0, <2>2 DEF FollowsPause
    <3>2. \A k \in 1..n : i < k => ~LogsResume(u, k)
      BY <1>1, <1>2, <1>4, <2>0, <2>2 DEF FollowsPause
    <3>3. Unresumed(u, i)
      BY <1>1, <3>1, <3>2 DEF Unresumed
    <3> QED BY <1>1, <1>2, <2>0, <2>2, <3>1, <3>3
  <2> QED BY <1>1, <2>1, <2>2
<1>5. ASSUME NEW i \in 1..(n + 1), Unresumed(u, i)'
      PROVE  IsLatestCheckpoint(events[u][i].ref, u)'   \* the prime covers events too
  <2>1. i = n + 1 /\ IsLatestCheckpoint(e.ref, u)'
    BY <1>3, <1>5
  <2> QED BY <1>1, <2>1 DEF IsLatestCheckpoint
<1> QED BY <1>1, <1>3, <1>4, <1>5 DEF PausesOf

\* An event that is no pause and no resume, logged while the task is not paused.
LEMMA OtherPauses ==
  ASSUME TypeOK, TypeOK', Ownership, [Next]_vars, NEW u \in TaskId, PausesOf(u), StartsKept,
         tasks[u].status # "paused",
         \/ events'[u] = events[u]
         \/ \E e \in TaskEvent :
               /\ events'[u] = Append(events[u], e)
               /\ ~(e.byService /\ e.type \in {"TASK_RESUMED", "TASK_PAUSED"})
  PROVE  PausesOf(u)'
<1>1. \A i \in DOMAIN events[u] : ~Unresumed(u, i)
  BY DEF PausesOf
<1> QED BY <1>1, KeptPauses, GrownPauses

\* The task that a switch leaves is paused on its latest checkpoint.
LEMMA SwitchPauses ==
  ASSUME TypeOK, TypeOK', Ownership, [Next]_vars, NEW u \in TaskId, PausesOf(u), StartsKept,
         NEW s \in SessionId, NEW c \in Nat, SwitchAllowed(s, c),
         events'[u] = EventsAfterSwitch(s, c)[u], UNCHANGED checkpoints,
         tasks'[u].status = IF u = sessions[s].task THEN "paused" ELSE tasks[u].status
  PROVE  PausesOf(u)'
<1>1. CASE u = sessions[s].task
  <2>1. Attached(s) /\ tasks[u].status = "active" /\ PauseAllowed(s, c)
    BY <1>1, NoneAssumption DEF Attached, SwitchAllowed, Ownership, PointerWellFormed
  <2>2. events'[u] = Append(events[u], Event("TASK_PAUSED", s, c))
    BY <1>1, <2>1 DEF EventsAfterSwitch, TypeOK
  <2>3. /\ Event("TASK_PAUSED", s, c) \in TaskEvent
        /\ Event("TASK_PAUSED", s, c).type = "TASK_PAUSED"
        /\ Event("TASK_PAUSED", s, c).ref = c
    BY LoggedEvent DEF EventType, TaskEvents
  <2>4. IsLatestCheckpoint(c, u)'
    BY <1>1, <2>1 DEF PauseAllowed, IsLatestCheckpoint, CheckpointsOf
  <2>5. \A i \in DOMAIN events[u] : ~Unresumed(u, i)
    BY <2>1 DEF PausesOf
  <2>6. IsLatestCheckpoint(Event("TASK_PAUSED", s, c).ref, u)'
    BY <2>3, <2>4 DEF IsLatestCheckpoint
  <2> QED BY <1>1, <2>2, <2>3, <2>5, <2>6, GrownPauses
<1>2. CASE u # sessions[s].task
  <2>1. events'[u] = events[u]
    BY <1>2 DEF EventsAfterSwitch, TypeOK
  <2> QED BY <1>2, <2>1, KeptPauses
<1> QED BY <1>1, <1>2

\* A resume starts from the latest checkpoint, the one the pause names.
LEMMA ResumedPauses ==
  ASSUME TypeOK, TypeOK', NEW u \in TaskId, PausesOf(u), StartsKept,
         NEW s \in SessionId, NEW c, IsLatestCheckpoint(c, u),
         events'[u] = Append(events[u], Event("TASK_RESUMED", s, Len(segments) + 1)),
         Len(segments) + 1 \in DOMAIN segments',
         segments'[Len(segments) + 1].checkpoint = c
  PROVE  PausesOf(u)'
<1> DEFINE e == Event("TASK_RESUMED", s, Len(segments) + 1)
<1>1. /\ e \in TaskEvent /\ e.byService
      /\ e.type = "TASK_RESUMED" /\ e.ref = Len(segments) + 1
  BY LoggedEvent, SegmentCountIsNat DEF EventType, TaskEvents
<1> HIDE DEF e
<1>2. events'[u] = Append(events[u], e)
  BY DEF e
<1>3. ASSUME NEW i \in DOMAIN events[u], Unresumed(u, i)
      PROVE  segments'[e.ref].checkpoint = events[u][i].ref
  <2>1. IsLatestCheckpoint(events[u][i].ref, u)
    BY <1>3 DEF PausesOf
  <2>2. events[u][i].ref = c
    BY <2>1, LatestCheckpointIsOne
  <2> QED BY <1>1, <2>2
<1> QED BY <1>1, <1>2, <1>3, GrownPauses

LEMMA PausesStep ==
  ASSUME TypeOK, TypeOK', Ownership, Pauses, [Next]_vars
  PROVE  Pauses'
<1>1. SUFFICES ASSUME NEW u \in TaskId PROVE PausesOf(u)'
  BY DEF Pauses
<1>2. PausesOf(u)
  BY DEF Pauses
<1>3. ASSUME NEW s \in SessionId, NEW t \in TaskId, NEW now \in Nat, NEW parent, NEW c,
             Opens(s, t, parent, c, now)
      PROVE  /\ StartsKept
             /\ Len(segments) + 1 \in DOMAIN segments'
             /\ segments'[Len(segments) + 1].checkpoint = c
             /\ u # t => tasks'[u].status =
                           IF u = sessions[s].task THEN "paused" ELSE tasks[u].status
  <2>1. /\ Len(segments) \in Nat
        /\ DOMAIN segments = 1..Len(segments)
        /\ DOMAIN segments' = 1..(Len(segments) + 1)
        /\ \A h \in 1..Len(segments) : segments'[h].checkpoint = segments[h].checkpoint
        /\ segments'[Len(segments) + 1].checkpoint = c
    BY ONLY TypeOK, TypeOK', <1>3, OpenedRows, ZenonT(40)
  <2> QED BY <1>3, <2>1 DEF StartsKept, Opens
<1>4. ASSUME NEW s \in SessionId, NEW t \in TaskId, NEW now \in Nat, NEW status,
             Releases(s, t, status, now)
      PROVE  StartsKept
  BY <1>4, ReleasedRows DEF StartsKept
<1>5. ASSUME NEW s \in SessionId, NEW t \in TaskId, NEW now \in CallTimes,
             NEW parent \in TaskId \cup {None}, CreateTask(s, t, parent, now)
      PROVE  PausesOf(u)'
  <2>1. Opens(s, t, 0, 0, now) /\ now \in Nat
    BY <1>5, CallTimesAreNat, CreateTaskOpens
  <2>2. CASE u = t
    <3>1. \A i \in DOMAIN events'[u] :
            events'[u][i].type \in {"TASK_CREATED", "NEW_TASK_STARTED"}
      BY <1>5, <2>2, CreateTaskLogs
    <3>2. \A i \in DOMAIN events'[u] : ~LogsPause(u, i)'
      BY <3>1 DEF LogsPause
    <3> QED BY <3>2 DEF PausesOf, Unresumed, FollowsPause
  <2>3. CASE u # t
    <3>1. PICK c \in 0..Len(checkpoints) :
            /\ SwitchAllowed(s, c)
            /\ events' = [EventsAfterSwitch(s, c) EXCEPT ![t] =
                            <<Event("TASK_CREATED", s, 0)>> \o
                            IF Attached(s) THEN <<Event("NEW_TASK_STARTED", s, 0)>> ELSE <<>>]
      BY <1>5 DEF CreateTask
    <3>2. c \in Nat /\ UNCHANGED checkpoints
      BY <1>5, SegmentCountIsNat DEF CreateTask
    <3>3. EventsAfterSwitch(s, c) \in [TaskId -> Seq(TaskEvent)]
      BY <3>2, SwitchTypes
    <3>4. events'[u] = EventsAfterSwitch(s, c)[u]
      BY <2>3, <3>1, <3>3
    <3> QED BY <1>2, <1>3, <2>1, <2>3, <3>1, <3>2, <3>4, SwitchPauses
  <2> QED BY <2>2, <2>3
<1>6. ASSUME NEW s \in SessionId, NEW t \in TaskId, NEW now \in CallTimes,
             ResumeTask(s, t, tasks[t].version, now)
      PROVE  PausesOf(u)'
  <2>1. PICK parent \in 0..Len(segments), d \in CheckpointsOf(t) :
          Opens(s, t, parent, d, now) /\ IsLatestCheckpoint(d, t)
    BY <1>6, CallTimesAreNat, ResumeTaskOpens
  <2>2. now \in Nat
    BY CallTimesAreNat
  <2>3. CASE u = t
    BY <1>2, <1>3, <1>6, <2>1, <2>2, <2>3, ResumeTaskLogs, ResumedPauses
  <2>4. CASE u # t
    <3>1. PICK c \in 0..Len(checkpoints) :
            /\ SwitchAllowed(s, c)
            /\ events' = [EventsAfterSwitch(s, c) EXCEPT ![t] =
                            Append(@, Event("TASK_RESUMED", s, Len(segments) + 1))]
      BY <1>6 DEF ResumeTask
    <3>2. c \in Nat /\ UNCHANGED checkpoints
      BY <1>6, SegmentCountIsNat DEF ResumeTask
    <3>3. EventsAfterSwitch(s, c) \in [TaskId -> Seq(TaskEvent)]
      BY <3>2, SwitchTypes
    <3>4. events'[u] = EventsAfterSwitch(s, c)[u]
      BY <2>4, <3>1, <3>3
    <3> QED BY <1>2, <1>3, <2>1, <2>2, <2>4, <3>1, <3>2, <3>4, SwitchPauses
  <2> QED BY <2>3, <2>4
<1>7. ASSUME NEW s \in SessionId, NEW t \in TaskId, NEW now \in CallTimes,
             NEW c \in DOMAIN checkpoints, NEW g \in DOMAIN segments,
             Rotate(s, t, c, g, now)
      PROVE  PausesOf(u)'
  <2>1. Opens(s, t, g, c, now) /\ now \in Nat
    BY <1>7, CallTimesAreNat, RotateOpens
  <2>2. CASE u = t
    <3>1. tasks[u].status = "active"
      BY <1>7, <2>2 DEF Rotate
    <3>2. "HANDOFF_COMPLETED" \in EventType /\ Len(segments) + 1 \in Nat
      BY SegmentCountIsNat DEF EventType, Notes
    <3>3. \E e \in TaskEvent : /\ events'[u] = Append(events[u], e)
                               /\ e.type = "HANDOFF_COMPLETED"
      BY <1>7, <2>2, <3>2, RotateLogs, LoggedEvent
    <3> QED BY <1>2, <1>3, <2>1, <3>1, <3>3, OtherPauses
  <2>3. CASE u # t
    <3>1. events'[u] = events[u] /\ tasks'[u].status = tasks[u].status
      BY <1>7, <2>3, RotateLogs DEF Rotate
    <3> QED BY <1>2, <1>3, <2>1, <3>1, KeptPauses
  <2> QED BY <2>2, <2>3
<1>8. ASSUME NEW s \in SessionId, NEW t \in TaskId, NEW now \in CallTimes,
             PauseTask(s, t, tasks[t].version, now)
      PROVE  PausesOf(u)'
  <2>1. Releases(s, t, "paused", now) /\ now \in Nat
    BY <1>8, CallTimesAreNat, PauseTaskReleases
  <2>2. sessions[s].task = t /\ Attached(s)
    BY <1>8, NoneAssumption DEF PauseTask, Attached
  <2>3. PICK c \in DOMAIN checkpoints : PauseAllowed(s, c) /\ events' = EventsAfterSwitch(s, c)
    BY <1>8 DEF PauseTask
  <2>4. SwitchAllowed(s, c) /\ c \in Nat /\ UNCHANGED checkpoints
    BY <1>8, <2>2, <2>3, SegmentCountIsNat DEF SwitchAllowed, PauseTask
  <2>5. tasks'[u].status = IF u = sessions[s].task THEN "paused" ELSE tasks[u].status
    BY <2>1, <2>2 DEF Releases
  <2> QED BY <1>2, <1>4, <2>1, <2>3, <2>4, <2>5, SwitchPauses
<1>9. ASSUME NEW s \in SessionId, NEW t \in TaskId, NEW now \in CallTimes,
             NEW status \in Finished \cup {"blocked"},
             TransitionTask(s, t, tasks[t].version, status, now)
      PROVE  PausesOf(u)'
  <2>1. Releases(s, t, status, now) /\ now \in Nat
    BY <1>9, CallTimesAreNat, TransitionTaskReleases
  <2>2. tasks[t].status = "active"
    BY <2>1, NoneAssumption DEF Releases, Ownership, PointerWellFormed, Attached
  <2>3. CASE u = t
    <3>1. LogsOnly(u, {"TASK_BLOCKED", "TASK_COMPLETED", "TASK_CANCELLED"})
      BY <1>9, TransitionTaskLogs
    <3> QED BY <1>2, <1>4, <2>1, <2>2, <2>3, <3>1, OtherPauses DEF LogsOnly
  <2>4. CASE u # t
    <3>1. events'[u] = events[u] /\ tasks'[u].status = tasks[u].status
      BY <1>9, <2>1, <2>4 DEF TransitionTask, TypeOK, Releases
    <3> QED BY <1>2, <1>4, <2>1, <3>1, KeptPauses
  <2> QED BY <2>3, <2>4
<1>10. ASSUME QuietStep
       PROVE  PausesOf(u)'
  <2>1. StartsKept /\ tasks'[u].status = tasks[u].status
    BY <1>10, QuietStepRows DEF StartsKept
  <2>2. ASSUME NEW s \in SessionId, NEW t \in TaskId, ActiveSession(t, s),
               events'[u] = events[u] \/ u = t,
               \/ events'[u] = events[u]
               \/ \E e \in TaskEvent :
                     /\ events'[u] = Append(events[u], e)
                     /\ ~(e.byService /\ e.type \in {"TASK_RESUMED", "TASK_PAUSED"})
        PROVE  PausesOf(u)'
    <3>1. tasks[t].status = "active"
      BY <2>2, NoneAssumption DEF ActiveSession, Ownership, PointerWellFormed, Attached
    <3>2. CASE events'[u] = events[u]
      BY <1>2, <2>1, <3>2, KeptPauses
    <3>3. CASE u = t
      <4>1. tasks[u].status # "paused"
        BY <3>1, <3>3
      <4> QED BY <1>2, <2>1, <2>2, <4>1, OtherPauses
    <3> QED BY <2>2, <3>2, <3>3
  <2>3. ASSUME NEW s \in SessionId, NEW t \in TaskId, NEW changed \in BOOLEAN,
               UpdateTask(s, t, tasks[t].version, changed)
        PROVE  PausesOf(u)'
    <3>1. ActiveSession(t, s) /\ (events'[u] = events[u] \/ u = t)
      BY <2>3 DEF UpdateTask, TypeOK
    <3>2. LogsOnly(u, {"GOAL_CHANGED"})
      BY <2>3, UpdateTaskLogs
    <3> QED BY <2>2, <3>1, <3>2 DEF LogsOnly
  <2>4. ASSUME NEW s \in SessionId, NEW t \in TaskId, NEW type \in Notes, AppendEvent(s, t, type)
        PROVE  PausesOf(u)'
    <3>1. ActiveSession(t, s) /\ (events'[u] = events[u] \/ u = t)
      BY <2>4 DEF AppendEvent, TypeOK
    <3>2. \/ events'[u] = events[u]
          \/ \E e \in TaskEvent :
                events'[u] = Append(events[u], e) /\ ~e.byService /\ e.type = type
      BY <2>4, AppendEventLogs
    <3> QED BY <2>2, <3>1, <3>2
  <2>5. ASSUME NEW s \in SessionId, NEW t \in TaskId, NEW now \in CallTimes,
               CreateCheckpoint(s, t, now)
        PROVE  PausesOf(u)'
    <3>1. ActiveSession(t, s) /\ (events'[u] = events[u] \/ u = t)
      BY <2>5 DEF CreateCheckpoint, TypeOK
    <3>2. LogsOnly(u, {"CHECKPOINT_CREATED"})
      BY <2>5, CreateCheckpointLogs
    <3> QED BY <2>2, <3>1, <3>2 DEF LogsOnly
  <2>6. CASE Tick \/ (\E c \in DOMAIN checkpoints : CorruptCheckpoint(c)) \/ UNCHANGED vars
    <3>1. events'[u] = events[u]
      BY <2>6 DEF Tick, CorruptCheckpoint, vars
    <3> QED BY <1>2, <2>1, <3>1, KeptPauses
  <2> QED BY <1>10, <2>3, <2>4, <2>5, <2>6 DEF QuietStep
<1> QED BY <1>5, <1>6, <1>7, <1>8, <1>9, <1>10 DEF Next, TaskOperation, QuietStep

\* A resumed task continues from the checkpoint that its pause was allowed with,
\* whatever ran in between and whatever the clock readings were (task_service.py
\* pause_task, _pause_for_switch and resume_task, checkpoint_service.py).
THEOREM ResumesWherePausedHolds == Spec => []ResumesWherePaused
<1>1. Init => Pauses
  BY DEF Init, Pauses, PausesOf
<1>2. TypeOK /\ TypeOK' /\ Ownership /\ Pauses /\ [Next]_vars => Pauses'
  BY PausesStep
<1>3. Pauses => ResumesWherePaused
  BY DEF Pauses, PausesOf, ResumesWherePaused, FollowsPause
<1> QED BY <1>1, <1>2, <1>3, TypeCorrect, OwnershipHolds, PTL DEF Spec

=============================================================================
