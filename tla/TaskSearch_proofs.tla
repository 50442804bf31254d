-------------------------- MODULE TaskSearch_proofs --------------------------
(* What others see of the tables of TaskLifecycle, for any tasks and         *)
(* sessions: the leases, for the three shapes of step of                     *)
(* TaskLifecycle_proofs are an Acquire, a Release or a Finish of TaskLease,  *)
(* or leave the leases alone; and the search index, whose document of a task *)
(* is the one a rebuild would give after every step.                         *)
EXTENDS TaskSearch, TaskHistory_proofs

-----------------------------------------------------------------------------
(* The leases *)

Leases == [t \in TaskId |-> LeaseOf(t)]

\* A task is leased to exactly the session that points at it; without such a
\* session its status says what its lease is.
LeaseAgrees ==
    \A t \in TaskId :
        /\ \A s \in SessionId : sessions[s].task = t <=> LeaseOf(t) = s
        /\ tasks[t].status \in Resumable => LeaseOf(t) = "free"
        /\ tasks[t].status \in Finished => LeaseOf(t) = "finished"
        /\ tasks[t].status = "absent" => LeaseOf(t) = "absent"
        /\ tasks[t].status = "active" => \E s \in SessionId : LeaseOf(t) = s

LEMMA LeaseAgreesInv == TypeOK /\ Ownership => LeaseAgrees
<1> SUFFICES ASSUME TypeOK, Ownership, NEW t \in TaskId
             PROVE  /\ \A s \in SessionId : sessions[s].task = t <=> LeaseOf(t) = s
                    /\ tasks[t].status \in Resumable => LeaseOf(t) = "free"
                    /\ tasks[t].status \in Finished => LeaseOf(t) = "finished"
                    /\ tasks[t].status = "absent" => LeaseOf(t) = "absent"
                    /\ tasks[t].status = "active" => \E s \in SessionId : LeaseOf(t) = s
  BY DEF LeaseAgrees
<1>1. CASE tasks[t].status = "active"
  <2>1. PICK s \in SessionId : sessions[s].task = t
    BY <1>1 DEF Ownership, ActiveIsOwned
  <2>2. \A o \in SessionId : sessions[o].task = t => o = s
    BY <2>1, NoneAssumption DEF Ownership, SingleOwner, Attached
  <2>3. (CHOOSE o \in SessionId : sessions[o].task = t) = s
    BY <2>1, <2>2
  <2>4. LeaseOf(t) = s
    BY <1>1, <2>3 DEF LeaseOf, Resumable, Finished
  <2> QED BY <1>1, <2>1, <2>2, <2>4 DEF Resumable, Finished
<1>2. CASE tasks[t].status # "active"
  <2>1. \A s \in SessionId : sessions[s].task # t
    BY <1>2, InactiveIsFree
  <2>2. tasks[t].status \in Resumable \cup Finished \cup {"absent"}
    BY <1>2 DEF TypeOK, TaskRecord, TaskStatus
  <2>3. /\ tasks[t].status \in Resumable => LeaseOf(t) = "free"
        /\ tasks[t].status \in Finished => LeaseOf(t) = "finished"
        /\ tasks[t].status = "absent" => LeaseOf(t) = "absent"
    BY DEF LeaseOf, Resumable, Finished
  <2>4. \A s \in SessionId : LeaseOf(t) # s
    BY <2>2, <2>3, HolderAssumption
  <2> QED BY <1>2, <2>1, <2>3, <2>4
<1> QED BY <1>1, <1>2

\* A session that opens a segment of a task nobody has acquires it, and gives
\* back whatever it held.
LEMMA OpeningAcquires ==
  ASSUME TypeOK, LeaseAgrees, LeaseAgrees', TypeOK',
         NEW s \in SessionId, NEW t \in TaskId, NEW now \in Nat, NEW parent, NEW c,
         tasks[t].status \in Resumable \cup {"absent"}, Opens(s, t, parent, c, now)
  PROVE  Lease!Acquire(s, t)
<1>1. /\ sessions'[s].task = t
      /\ \A o \in SessionId \ {s} : sessions'[o] = sessions[o]
      /\ \A u \in TaskId \ {t} :
            tasks'[u].status = IF u = sessions[s].task THEN "paused" ELSE tasks[u].status
  BY DEF Opens, TypeOK, PointedSession
<1>2. LeaseOf(t) \in {"absent", "free"}
  BY DEF LeaseAgrees
<1>3. LeaseOf(t)' = s
  BY <1>1 DEF LeaseAgrees
<1>4. ASSUME NEW u \in TaskId \ {t}
      PROVE  LeaseOf(u)' = IF LeaseOf(u) = s THEN "free" ELSE LeaseOf(u)
  <2>1. CASE LeaseOf(u) = s
    <3>1. tasks'[u].status \in Resumable
      BY <1>1, <2>1 DEF LeaseAgrees, Resumable
    <3> QED BY <2>1, <3>1 DEF LeaseAgrees
  <2>2. CASE LeaseOf(u) # s
    <3>1. tasks'[u].status = tasks[u].status
      BY <1>1, <2>2 DEF LeaseAgrees
    <3>2. CASE tasks[u].status = "active"
      <4>1. PICK o \in SessionId : LeaseOf(u) = o /\ sessions[o].task = u
        BY <3>2 DEF LeaseAgrees
      <4>2. sessions'[o].task = u
        BY <1>1, <2>2, <4>1
      <4> QED BY <2>2, <4>1, <4>2 DEF LeaseAgrees
    <3>3. CASE tasks[u].status # "active"
      <4>1. tasks[u].status \in Resumable \cup Finished \cup {"absent"}
        BY <3>3 DEF TypeOK, TaskRecord, TaskStatus
      <4> QED BY <2>2, <3>1, <4>1 DEF LeaseAgrees
    <3> QED BY <3>2, <3>3
  <2> QED BY <2>1, <2>2
<1> QED BY <1>2, <1>3, <1>4 DEF Lease!Acquire, Lease!Holds

\* A session that continues the task it holds changes no lease.
LEMMA ContinuingKeepsLeases ==
  ASSUME TypeOK, LeaseAgrees, LeaseAgrees', TypeOK',
         NEW s \in SessionId, NEW t \in TaskId, NEW now \in Nat, NEW parent, NEW c,
         sessions[s].task = t, Opens(s, t, parent, c, now), NEW u \in TaskId
  PROVE  LeaseOf(u)' = LeaseOf(u)
<1>1. \A o \in SessionId : sessions'[o].task = sessions[o].task
  BY DEF Opens, TypeOK, PointedSession
<1>2. u # t => tasks'[u].status = tasks[u].status
  BY DEF Opens
<1>3. CASE tasks[u].status = "active"
  <2>1. PICK o \in SessionId : LeaseOf(u) = o /\ sessions[o].task = u
    BY <1>3 DEF LeaseAgrees
  <2> QED BY <1>1, <2>1 DEF LeaseAgrees
<1>4. CASE tasks[u].status # "active"
  <2>1. u # t \/ (LeaseOf(u) = s /\ LeaseOf(u)' = s)
    BY <1>1 DEF LeaseAgrees
  <2>2. tasks[u].status \in Resumable \cup Finished \cup {"absent"}
    BY <1>4 DEF TypeOK, TaskRecord, TaskStatus
  <2> QED BY <1>2, <2>1, <2>2 DEF LeaseAgrees
<1> QED BY <1>3, <1>4

\* A session that lets its task go releases or finishes it.
LEMMA ReleasingEndsLease ==
  ASSUME TypeOK, LeaseAgrees, LeaseAgrees', TypeOK',
         NEW s \in SessionId, NEW t \in TaskId, NEW now \in Nat,
         NEW status \in Resumable \cup Finished, Releases(s, t, status, now)
  PROVE  Lease!Release(s, t) \/ Lease!Finish(s, t)
<1>1. /\ \A o \in SessionId \ {s} : sessions'[o] = sessions[o]
      /\ sessions[s].task = t
      /\ tasks'[t].status = status
      /\ \A u \in TaskId \ {t} : tasks'[u].status = tasks[u].status
  BY DEF Releases, TypeOK
<1>2. LeaseOf(t) = s
  BY <1>1 DEF LeaseAgrees
<1>3. LeaseOf(t)' = IF status \in Resumable THEN "free" ELSE "finished"
  BY <1>1 DEF LeaseAgrees
<1>4. ASSUME NEW u \in TaskId \ {t}
      PROVE  LeaseOf(u)' = LeaseOf(u)
  <2>1. CASE tasks[u].status = "active"
    <3>1. PICK o \in SessionId : LeaseOf(u) = o /\ sessions[o].task = u
      BY <2>1 DEF LeaseAgrees
    <3>2. sessions'[o].task = u
      BY <1>1, <3>1
    <3> QED BY <3>1, <3>2 DEF LeaseAgrees
  <2>2. CASE tasks[u].status # "active"
    <3>1. tasks[u].status \in Resumable \cup Finished \cup {"absent"}
      BY <2>2 DEF TypeOK, TaskRecord, TaskStatus
    <3> QED BY <1>1, <3>1 DEF LeaseAgrees
  <2> QED BY <2>1, <2>2
<1>5. CASE status \in Resumable
  BY <1>2, <1>3, <1>4, <1>5 DEF Lease!Release, Lease!Holds
<1>6. CASE status \notin Resumable
  BY <1>2, <1>3, <1>4, <1>6 DEF Lease!Finish, Lease!Holds
<1> QED BY <1>5, <1>6

\* A step that changes no pointer and no status changes no lease.
LEMMA QuietKeepsLeases ==
  ASSUME TypeOK, LeaseAgrees, LeaseAgrees', QuietStep, NEW u \in TaskId
  PROVE  LeaseOf(u)' = LeaseOf(u)
<1>1. UNCHANGED sessions /\ tasks'[u].status = tasks[u].status
  BY QuietStepRows
<1>2. tasks[u].status \in {"active"} \cup Resumable \cup Finished \cup {"absent"}
  BY DEF TypeOK, TaskRecord, TaskStatus
<1> QED BY <1>1, <1>2 DEF LeaseAgrees

LEMMA LeaseStep ==
  ASSUME TypeOK, TypeOK', Ownership, LeaseAgrees, LeaseAgrees', [Next]_vars
  PROVE  [Lease!Next]_([t \in TaskId |-> LeaseOf(t)])
<1>1. ASSUME NEW s \in SessionId, NEW t \in TaskId, NEW now \in Nat, NEW parent, NEW c,
             tasks[t].status \in Resumable \cup {"absent"}, Opens(s, t, parent, c, now)
      PROVE  Lease!Next
  BY <1>1, OpeningAcquires DEF Lease!Next
<1>2. ASSUME NEW s \in SessionId, NEW t \in TaskId, NEW now \in Nat, NEW parent, NEW c,
             sessions[s].task = t, Opens(s, t, parent, c, now)
      PROVE  Leases' = Leases
  BY <1>2, ContinuingKeepsLeases DEF Leases
<1>3. ASSUME NEW s \in SessionId, NEW t \in TaskId, NEW now \in Nat,
             NEW status \in Resumable \cup Finished, Releases(s, t, status, now)
      PROVE  Lease!Next
  BY <1>3, ReleasingEndsLease DEF Lease!Next
<1>4. QuietStep => Leases' = Leases
  BY QuietKeepsLeases DEF Leases
<1>5. Lease!Next \/ Leases' = Leases
  BY <1>1, <1>2, <1>3, <1>4, CallTimesAreNat, StepShapes
<1> QED BY <1>5 DEF Leases

\* The services keep the lease protocol: no task is ever held twice, taken from
\* its holder by another session, or held again after it was finished.
THEOREM LeaseProtocolHolds == Spec => LeaseProtocol
<1>1. Init => Lease!Init
  BY DEF Init, Lease!Init, LeaseOf, NoTask, Resumable, Finished
<1>2. TypeOK /\ Ownership => LeaseAgrees
  BY LeaseAgreesInv
<1>3. TypeOK /\ TypeOK' /\ Ownership /\ LeaseAgrees /\ LeaseAgrees' /\ [Next]_vars
        => [Lease!Next]_([t \in TaskId |-> LeaseOf(t)])
  BY LeaseStep
<1> QED BY <1>1, <1>2, <1>3, TypeCorrect, OwnershipHolds, PTL
        DEF Spec, LeaseProtocol, Lease!Spec

-----------------------------------------------------------------------------
(* What a step does to the rows of a task *)

\* Only a step that makes a task active gives it its row.
LEMMA CreatedRow ==
  ASSUME TypeOK, Ownership, [Next]_vars, NEW u \in TaskId
  PROVE  /\ tasks'[u].status = "absent" => tasks[u].status = "absent"
         /\ tasks[u].status = "absent" /\ tasks'[u].status # "absent" => tasks'[u].status = "active"
<1>1. ASSUME NEW s \in SessionId, NEW t \in TaskId, NEW now, NEW parent, NEW c,
             Opens(s, t, parent, c, now)
      PROVE  /\ tasks'[u].status = "absent" => tasks[u].status = "absent"
             /\ tasks[u].status = "absent" /\ tasks'[u].status # "absent" => tasks'[u].status = "active"
  <2>1. u = sessions[s].task => tasks[u].status # "absent"
    BY InactiveIsFree
  <2> QED BY <1>1, <2>1 DEF Opens
<1>2. ASSUME NEW s \in SessionId, NEW t \in TaskId, NEW now,
             NEW status \in Resumable \cup Finished, Releases(s, t, status, now)
      PROVE  /\ tasks'[u].status = "absent" => tasks[u].status = "absent"
             /\ tasks[u].status = "absent" => tasks'[u].status = "absent"
  <2>1. u = t => tasks[u].status # "absent"
    BY <1>2, InactiveIsFree DEF Releases
  <2> QED BY <1>2, <2>1 DEF Releases, Resumable, Finished
<1>3. QuietStep => tasks'[u].status = tasks[u].status
  BY QuietStepRows
<1> QED BY <1>1, <1>2, <1>3, StepShapes

\* The log of a task that has a row grows by one event at most; the log it is
\* created with holds nothing that is searched.
LEMMA LogStep ==
  ASSUME TypeOK, Ownership, [Next]_vars, NEW u \in TaskId
  PROVE  \/ LogsOnly(u, EventType)
         \/ /\ tasks[u].status = "absent"
            /\ \A i \in DOMAIN events'[u] :
                  events'[u][i].type \in {"TASK_CREATED", "NEW_TASK_STARTED"}
<1> DEFINE Claim == \/ LogsOnly(u, EventType)
                    \/ /\ tasks[u].status = "absent"
                       /\ \A i \in DOMAIN events'[u] :
                             events'[u][i].type \in {"TASK_CREATED", "NEW_TASK_STARTED"}
<1>1. ASSUME NEW types, LogsOnly(u, types)
      PROVE  LogsOnly(u, EventType)
  <2>1. \A e \in TaskEvent : e.type \in EventType
    BY DEF TaskEvent
  <2> QED BY <1>1, <2>1 DEF LogsOnly
<1>2. ASSUME NEW e \in TaskEvent, events'[u] = Append(events[u], e)
      PROVE  LogsOnly(u, EventType)
  <2>1. e.type \in EventType
    BY DEF TaskEvent
  <2> QED BY <1>2, <2>1 DEF LogsOnly
<1>3. ASSUME NEW s \in SessionId, NEW t \in TaskId, NEW now,
             NEW parent, CreateTask(s, t, parent, now)
      PROVE  Claim
  <2>1. CASE u = t
    BY <1>3, <2>1, CreateTaskLogs DEF CreateTask
  <2>2. CASE u # t
    BY <1>1, <1>3, <2>2, CreateTaskLogs
  <2> QED BY <2>1, <2>2
<1>4. ASSUME NEW s \in SessionId, NEW t \in TaskId, NEW now, ResumeTask(s, t, tasks[t].version, now)
      PROVE  Claim
  <2>1. CASE u = t
    <3>1. "TASK_RESUMED" \in EventType /\ Len(segments) + 1 \in Nat
      BY SegmentCountIsNat DEF EventType, TaskEvents
    <3> QED BY <1>2, <1>4, <2>1, <3>1, ResumeTaskLogs, LoggedEvent
  <2>2. CASE u # t
    BY <1>1, <1>4, <2>2, ResumeTaskLogs
  <2> QED BY <2>1, <2>2
<1>5. ASSUME NEW s \in SessionId, NEW t \in TaskId, NEW now, NEW c, NEW g, Rotate(s, t, c, g, now)
      PROVE  Claim
  <2>1. CASE u = t
    <3>1. "HANDOFF_COMPLETED" \in EventType /\ Len(segments) + 1 \in Nat
      BY SegmentCountIsNat DEF EventType, Notes
    <3> QED BY <1>2, <1>5, <2>1, <3>1, RotateLogs, LoggedEvent
  <2>2. CASE u # t
    BY <1>5, <2>2, RotateLogs DEF LogsOnly
  <2> QED BY <2>1, <2>2
<1>6. ASSUME NEW s \in SessionId, NEW t \in TaskId, NEW now, PauseTask(s, t, tasks[t].version, now)
      PROVE  Claim
  BY <1>1, <1>6, PauseTaskLogs
<1>7. ASSUME NEW s \in SessionId, NEW t \in TaskId, NEW now,
             NEW status \in Finished \cup {"blocked"},
             TransitionTask(s, t, tasks[t].version, status, now)
      PROVE  Claim
  BY <1>1, <1>7, TransitionTaskLogs
<1>8. ASSUME NEW s \in SessionId, NEW t \in TaskId, NEW changed \in BOOLEAN,
             UpdateTask(s, t, tasks[t].version, changed)
      PROVE  Claim
  BY <1>1, <1>8, UpdateTaskLogs
<1>9. ASSUME NEW s \in SessionId, NEW t \in TaskId, NEW type \in Notes, AppendEvent(s, t, type)
      PROVE  Claim
  BY <1>2, <1>9, AppendEventLogs DEF LogsOnly
<1>10. ASSUME NEW s \in SessionId, NEW t \in TaskId, NEW now, CreateCheckpoint(s, t, now)
       PROVE  Claim
  BY <1>1, <1>10, CreateCheckpointLogs
<1>11. ASSUME Tick \/ (\E c \in DOMAIN checkpoints : CorruptCheckpoint(c)) \/ UNCHANGED vars
       PROVE  Claim
  BY <1>11 DEF Tick, CorruptCheckpoint, vars, LogsOnly
<1> HIDE DEF Claim
<1>12. Claim
  BY <1>3, <1>4, <1>5, <1>6, <1>7, <1>8, <1>9, <1>10, <1>11 DEF Next, TaskOperation
<1> QED BY <1>12 DEF Claim

-----------------------------------------------------------------------------
(* The search index *)

\* What a step that neither touches the row nor adds a checkpoint leaves.
LEMMA RowKept ==
  ASSUME TypeOK, [Next]_vars, NEW u \in TaskId, ~RowRefreshes(u)
  PROVE  SearchedRow(u)' = SearchedRow(u)
<1>1. tasks'[u] = tasks[u] /\ CheckpointsOf(u)' = CheckpointsOf(u)
  BY DEF RowRefreshes
<1>2. \A c \in CheckpointsOf(u) : checkpoints'[c].createdAt = checkpoints[c].createdAt
  BY CheckpointsKeptStep DEF CheckpointsKept, CheckpointsOf
<1>3. \A c \in CheckpointsOf(u) : IsLatestCheckpoint(c, u)' <=> IsLatestCheckpoint(c, u)
  BY <1>1, <1>2 DEF IsLatestCheckpoint
<1>4. {c \in CheckpointsOf(u) : IsLatestCheckpoint(c, u)}'
        = {c \in CheckpointsOf(u) : IsLatestCheckpoint(c, u)}
  BY <1>1, <1>3
<1> QED BY <1>1, <1>4 DEF SearchedRow

\* What is searched of a log changes only with an event that refreshes.
LEMMA LogKept ==
  ASSUME TypeOK, TypeOK', NEW u \in TaskId, LogsOnly(u, EventType), ~EventRefreshes(u)
  PROVE  SearchedLog(events'[u]) = SearchedLog(events[u])
<1>1. CASE events'[u] = events[u]
  BY <1>1
<1>2. CASE \E e \in TaskEvent : events'[u] = Append(events[u], e)
  <2> DEFINE n == Len(events[u])
             Places(log) == {i \in DOMAIN log : log[i].type \in SearchedEvents}
  <2>1. PICK e \in TaskEvent : events'[u] = Append(events[u], e)
    BY <1>2
  <2>2. /\ n \in Nat /\ DOMAIN events[u] = 1..n /\ DOMAIN events'[u] = 1..(n + 1)
        /\ \A i \in 1..n : events'[u][i] = events[u][i]
        /\ events'[u][n + 1] = e /\ Len(events'[u]) = n + 1
    BY <2>1, AppendedLog, LenProperties DEF TypeOK
  <2>3. e.type \notin SearchedEvents
    BY <2>2 DEF EventRefreshes, RefreshingEvents, SearchedEvents
  <2>4. Places(events'[u]) = Places(events[u])
    BY <2>2, <2>3
  <2>5. \A i \in Places(events[u]) : events'[u][i] = events[u][i]
    BY <2>2
  <2> QED BY <2>4, <2>5 DEF SearchedLog
<1> QED BY <1>1, <1>2 DEF LogsOnly

\* The inductive invariant: a document is what a rebuild would give, and what has
\* no row has no log, so that the log a task is created with is all its own.
SearchInv ==
    /\ IndexFresh
    /\ \A t \in TaskId : tasks[t].status = "absent" => events[t] = <<>>

LEMMA SearchInvStep ==
  ASSUME TypeOK, TypeOK', Ownership, SearchInv, SearchNext
  PROVE  SearchInv'
<1>1. [Next]_vars /\ \A t \in TaskId : index'[t] = Refreshed(t)
  BY DEF SearchNext
<1>2. ASSUME NEW u \in TaskId, tasks'[u].status = "absent"
      PROVE  Refreshed(u) = SearchText(u)' /\ events'[u] = <<>>
  <2>1. tasks[u].status = "absent"
    BY <1>1, <1>2, CreatedRow
  <2>2. tasks'[u] = tasks[u] /\ events'[u] = events[u] /\ CheckpointsOf(u)' = CheckpointsOf(u)
    BY <1>1, <1>2, <2>1, RecordsKeptStep DEF RecordsKept
  <2>3. index[u] = NoDocument /\ events[u] = <<>>
    BY <2>1 DEF SearchInv, IndexFresh, SearchText
  <2>4. ~EventRefreshes(u)
    BY <2>2, <2>3 DEF EventRefreshes
  <2>5. Refreshed(u) = index[u]
    BY <2>2, <2>4 DEF Refreshed, RowRefreshes
  <2> QED BY <1>2, <2>2, <2>3, <2>5 DEF SearchText
<1>3. ASSUME NEW u \in TaskId, tasks'[u].status # "absent"
      PROVE  Refreshed(u) = SearchText(u)'
  <2>1. SearchText(u)' = [row |-> SearchedRow(u)', log |-> SearchedLog(events'[u])]
    BY <1>3 DEF SearchText
  <2>2. CASE EventRefreshes(u)
    BY <2>1, <2>2 DEF Refreshed
  <2>3. CASE ~EventRefreshes(u) /\ tasks[u].status = "absent"
    <3>1. tasks'[u] # tasks[u]
      BY <1>3, <2>3
    <3>2. Refreshed(u) = [row |-> SearchedRow(u)', log |-> SearchedLog(events[u])]
      BY <2>3, <3>1 DEF Refreshed, RowRefreshes
    <3>3. events[u] = <<>>
      BY <2>3 DEF SearchInv
    <3>4. SearchedLog(events'[u]) = SearchedLog(events[u])
      <4>1. CASE LogsOnly(u, EventType)
        BY <2>3, <4>1, LogKept
      <4>2. CASE \A i \in DOMAIN events'[u] :
                    events'[u][i].type \in {"TASK_CREATED", "NEW_TASK_STARTED"}
        <5>1. {i \in DOMAIN events'[u] : events'[u][i].type \in SearchedEvents} = {}
          BY <4>2 DEF SearchedEvents
        <5>2. {i \in DOMAIN events[u] : events[u][i].type \in SearchedEvents} = {}
          BY <3>3
        <5> QED BY <5>1, <5>2 DEF SearchedLog
      <4> QED BY <1>1, <4>1, <4>2, LogStep
    <3> QED BY <2>1, <3>2, <3>4
  <2>4. CASE ~EventRefreshes(u) /\ tasks[u].status # "absent"
    <3>1. SearchedLog(events'[u]) = SearchedLog(events[u])
      BY <1>1, <2>4, LogStep, LogKept
    <3>2. index[u] = [row |-> SearchedRow(u), log |-> SearchedLog(events[u])]
      BY <2>4 DEF SearchInv, IndexFresh, SearchText
    <3>3. CASE RowRefreshes(u)
      BY <2>1, <2>4, <3>1, <3>3 DEF Refreshed
    <3>4. CASE ~RowRefreshes(u)
      <4>1. SearchedRow(u)' = SearchedRow(u)
        BY <1>1, <3>4, RowKept
      <4>2. Refreshed(u) = index[u]
        BY <2>4, <3>4 DEF Refreshed
      <4> QED BY <2>1, <3>1, <3>2, <4>1, <4>2
    <3> QED BY <3>3, <3>4
  <2> QED BY <2>2, <2>3, <2>4
<1> QED BY <1>1, <1>2, <1>3 DEF SearchInv, IndexFresh

\* After every operation, whichever of the calls that write rows and events it
\* makes, the document of a task is the one a rebuild from the tables would give
\* (store.py create_task, update_task, create_checkpoint, append_event and
\* _task_search_text).
THEOREM IndexFreshHolds == SearchSpec => []IndexFresh
<1>1. SearchSpec => Spec
  <2>1. SearchInit => Init
    BY DEF SearchInit
  <2>2. [SearchNext]_searchVars => [Next]_vars
    BY DEF SearchNext, searchVars
  <2> QED BY <2>1, <2>2, PTL DEF SearchSpec, Spec
<1>2. SearchInit => SearchInv
  BY DEF SearchInit, Init, NoTask, SearchInv, IndexFresh, SearchText
<1>3. TypeOK /\ TypeOK' /\ Ownership /\ SearchInv /\ [SearchNext]_searchVars => SearchInv'
  <2>1. TypeOK /\ TypeOK' /\ Ownership /\ SearchInv /\ SearchNext => SearchInv'
    BY SearchInvStep
  <2>2. SearchInv /\ UNCHANGED searchVars => SearchInv'
    <3> SUFFICES ASSUME SearchInv, UNCHANGED searchVars PROVE SearchInv'
      OBVIOUS
    <3>1. UNCHANGED <<tasks, sessions, segments, checkpoints, events, clock, index>>
      BY DEF searchVars, vars
    <3> QED BY <3>1 DEF SearchInv, IndexFresh, SearchText, SearchedRow, SearchedLog,
               IsLatestCheckpoint, CheckpointsOf
  <2> QED BY <2>1, <2>2
<1>4. SearchInv => IndexFresh
  BY DEF SearchInv
<1> QED BY <1>1, <1>2, <1>3, <1>4, TypeCorrect, OwnershipHolds, PTL DEF SearchSpec

=============================================================================
