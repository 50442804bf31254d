-------------------------- MODULE TaskCalls_proofs --------------------------
(* Calls that overlap, for any number of calls, tasks, sessions and goals:  *)
(* what they do is what calls made one after the other could do, and the    *)
(* version and the segment a call names are tokens that no stale call holds.*)
EXTENDS TaskCalls, TaskHistory_proofs

-----------------------------------------------------------------------------
(* What a call under way carries *)

Operation == {"create", "update", "pause", "resume", "transition", "checkpoint", "rotate"}

\* The status of a call that sets none.
NoStatus == ""

CallRecord == [op: Operation, session: SessionId, task: TaskId, now: Nat, version: Nat,
               segment: Nat, checkpoint: Nat, status: Transitions \cup {NoStatus},
               goal: Goal \cup {None}, stored: Goal \cup {None}]

\* A call carries an earlier clock reading, and what it names exists.
WellFormedCall(call) ==
    /\ call \in CallRecord
    /\ call.op # "update" => call.now \in 1..clock
    /\ call.op = "transition" => call.status \in Transitions
    /\ call.op = "rotate" => call.checkpoint \in DOMAIN checkpoints
    /\ call.op \in {"create", "update"} <=> call.goal # None
    /\ call.op \notin {"create", "update"} => call.stored = None

CallsTyped ==
    /\ calls \in [Slot -> CallRecord \cup {NoCall}]
    /\ \A k \in Slot : calls[k] # NoCall => WellFormedCall(calls[k])

GoalsTyped == goals \in [TaskId -> Goal \cup {None}]

LEMMA CallFields ==
  ASSUME NEW op, NEW s, NEW t
  PROVE  Call(op, s, t) =
            [op |-> op, session |-> s, task |-> t, now |-> clock, version |-> 0, segment |-> 0,
             checkpoint |-> 0, status |-> NoStatus, goal |-> None, stored |-> None]
  BY DEF Call, NoStatus

LEMMA CallIsNoNoCall ==
  ASSUME NEW call \in CallRecord
  PROVE  call # NoCall
  BY DEF CallRecord, NoCall, Operation

LEMMA FirstGoalIsGoal == FirstGoal \in Goal
  BY GoalAssumption DEF FirstGoal

\* A call that begins is well formed.
LEMMA CallsAreWellFormed ==
  ASSUME TypeOK, Ownership, NEW s \in SessionId, NEW t \in TaskId, NEW call \in Calls(s, t),
         Sensible(call)
  PROVE  /\ WellFormedCall(call)
         /\ call.session = s
         /\ call.task = t
         /\ call.stored = None
         /\ call.op # "update" => call.now = clock
         /\ call.op \in {"update", "resume", "transition"} => call.version = tasks[t].version
         /\ call.op = "rotate" => call.segment = sessions[s].segment
<1>1. /\ clock \in Nat /\ clock \in 1..clock
      /\ tasks[t].version \in Nat
      /\ sessions[s].segment \in Nat
  BY BoundAssumption DEF TypeOK, TaskRecord, SessionContextState
<1> DEFINE Good(c) == /\ WellFormedCall(c)
                      /\ c.session = s
                      /\ c.task = t
                      /\ c.stored = None
                      /\ c.op # "update" => c.now = clock
                      /\ c.op \in {"update", "resume", "transition"} => c.version = tasks[t].version
                      /\ c.op = "rotate" => c.segment = sessions[s].segment
<1>2. ASSUME NEW op \in {"pause", "resume"}, call = Versioned(Call(op, s, t))
      PROVE  Good(call)
  BY <1>1, <1>2, CallFields DEF Versioned, WellFormedCall, CallRecord, Operation
<1>3. ASSUME NEW status \in Transitions,
             call = Versioned([Call("transition", s, t) EXCEPT !.status = status])
      PROVE  Good(call)
  BY <1>1, <1>3, CallFields DEF Versioned, WellFormedCall, CallRecord, Operation
<1>4. ASSUME NEW goal \in Goal,
             call = [Versioned(Call("update", s, t)) EXCEPT !.goal = goal, !.now = 0]
      PROVE  Good(call)
  BY <1>1, <1>4, CallFields, GoalAssumption DEF Versioned, WellFormedCall, CallRecord, Operation
<1>5. ASSUME call = [Call("create", s, t) EXCEPT !.goal = FirstGoal]
      PROVE  Good(call)
  BY <1>1, <1>5, CallFields, GoalAssumption, FirstGoalIsGoal
     DEF WellFormedCall, CallRecord, Operation
<1>6. ASSUME call = Call("checkpoint", s, t)
      PROVE  Good(call)
  BY <1>1, <1>6, CallFields DEF WellFormedCall, CallRecord, Operation
<1>7. ASSUME NEW c \in CheckpointsOf(t),
             call = [Call("rotate", s, t) EXCEPT !.checkpoint = c, !.segment = sessions[s].segment]
      PROVE  Good(call)
  <2>1. c \in DOMAIN checkpoints /\ c \in Nat
    BY SegmentCountIsNat DEF CheckpointsOf
  <2> QED BY <1>1, <1>7, <2>1, CallFields DEF WellFormedCall, CallRecord, Operation
<1> HIDE DEF Good
<1>8. Good(call)
  BY <1>2, <1>3, <1>4, <1>5, <1>6, <1>7 DEF Calls
<1> QED BY <1>8 DEF Good

-----------------------------------------------------------------------------
(* Overlapping calls are serial *)

\* A call that commits does what the operation does at that moment.
LEMMA CommitIsOperation ==
  ASSUME TypeOK, Ownership, StaleStamps = TRUE, NEW call, WellFormedCall(call), Perform(call)
  PROVE  Next
<1> DEFINE s == call.session
           t == call.task
<1>1. /\ s \in SessionId /\ t \in TaskId
      /\ call.op \in Operation
      /\ call.op # "update" => call.now \in CallTimes
  BY DEF WellFormedCall, CallRecord, CallTimes
<1>2. 1 \in CallTimes
  BY DEF TypeOK, CallTimes
<1> HIDE DEF s, t
<1>3. ASSUME call.op = "create"
      PROVE  CreateTask(s, t, None, call.now)
  BY <1>3 DEF Perform, s, t
<1>4. ASSUME call.op = "update"
      PROVE  UpdateTask(s, t, call.version, ChangesGoal(call)) /\ call.version = tasks[t].version
  BY <1>4 DEF Perform, UpdateTask, s, t
<1>5. ASSUME call.op = "pause"
      PROVE  PauseTask(s, t, call.version, call.now) /\ call.version = tasks[t].version
  BY <1>5 DEF Perform, PauseTask, s, t
<1>6. ASSUME call.op = "resume"
      PROVE  ResumeTask(s, t, call.version, call.now) /\ call.version = tasks[t].version
  BY <1>6 DEF Perform, ResumeTask, s, t
<1>7. ASSUME call.op = "transition"
      PROVE  /\ TransitionTask(s, t, call.version, call.status, call.now)
             /\ call.version = tasks[t].version
             /\ call.status \in Finished \cup {"blocked"}
  BY <1>7, TransitionsAssumption DEF Perform, TransitionTask, WellFormedCall, s, t
<1>8. ASSUME call.op = "checkpoint"
      PROVE  CreateCheckpoint(s, t, call.now)
  BY <1>8 DEF Perform, s, t
<1>9. ASSUME call.op = "rotate"
      PROVE  /\ Rotate(s, t, call.checkpoint, call.segment, call.now)
             /\ call.checkpoint \in DOMAIN checkpoints
             /\ call.segment \in DOMAIN segments
  <2>1. Rotate(s, t, call.checkpoint, call.segment, call.now)
    BY <1>9 DEF Perform, s, t
  <2>2. sessions[s].task = t /\ sessions[s].segment = call.segment
    BY <2>1 DEF Rotate
  <2>3. call.segment \in DOMAIN segments
    BY <1>1, <2>2, NoneAssumption DEF Ownership, PointerWellFormed, Attached
  <2> QED BY <1>9, <2>1, <2>3 DEF WellFormedCall
<1>10. ChangesGoal(call) \in BOOLEAN
  BY DEF ChangesGoal
<1>11. ASSUME NEW now \in CallTimes, TaskOperation(s, t, tasks[t].version, now)
       PROVE  Next
  BY <1>1, <1>11 DEF Next
<1>12. CASE call.op \in {"create", "update", "pause", "resume", "transition"}
  BY <1>1, <1>2, <1>3, <1>4, <1>5, <1>6, <1>7, <1>10, <1>11, <1>12 DEF TaskOperation
<1>13. CASE call.op \in {"checkpoint", "rotate"}
  BY <1>1, <1>8, <1>9, <1>13 DEF Next
<1> QED BY <1>1, <1>12, <1>13 DEF Operation

\* A step of the calls is a step of the lifecycle, or leaves the tables alone.
LEMMA CallStepIsSerial ==
  ASSUME TypeOK, Ownership, CallsTyped, StaleStamps = TRUE, [CallNext]_callVars
  PROVE  [Next]_vars
<1>1. ASSUME NEW k \in Slot, Commit(k)
      PROVE  Next
  BY <1>1, CommitIsOperation DEF Commit, CallsTyped
<1>2. ASSUME NEW k \in Slot, Begin(k) \/ ReadGoal(k) \/ Fail(k)
      PROVE  UNCHANGED vars
  BY <1>2 DEF Begin, ReadGoal, Fail
<1>3. ASSUME Tick
      PROVE  Next
  BY <1>3 DEF Next
<1> QED BY <1>1, <1>2, <1>3 DEF CallNext, callVars

\* What a call names still exists, and its reading is still an earlier one,
\* after any step.
LEMMA WellFormedStays ==
  ASSUME TypeOK, TypeOK', [Next]_vars, NEW call, WellFormedCall(call)
  PROVE  WellFormedCall(call)'
<1>1. CheckpointsKept
  BY CheckpointsKeptStep
<1>2. clock \in Nat /\ clock' \in Nat /\ clock <= clock'
  BY ClockIsMonotone, BoundAssumption DEF TypeOK
<1>3. 1..clock \subseteq 1..clock'
  BY <1>2
<1> QED BY <1>1, <1>3 DEF WellFormedCall, CheckpointsKept

\* What a step may do to the call in one slot.
LEMMA SlotStep ==
  ASSUME CallsTyped, [CallNext]_callVars, NEW k \in Slot
  PROVE  \/ calls'[k] = calls[k]
         \/ calls'[k] = NoCall
         \/ /\ UNCHANGED <<vars, goals, goalChanges>>
            /\ \E s \in SessionId, t \in TaskId : \E call \in Calls(s, t) :
                  Sensible(call) /\ calls'[k] = call
         \/ /\ UNCHANGED <<vars, goals, goalChanges>>
            /\ calls[k] # NoCall
            /\ calls[k].op = "update"
            /\ goals[calls[k].task] # None
            /\ calls'[k] = [calls[k] EXCEPT !.stored = goals[calls[k].task]]
<1>1. /\ calls \in [Slot -> CallRecord \cup {NoCall}]
      /\ NoCall.op # "update"
  BY DEF CallsTyped, NoCall
<1>2. ASSUME NEW j \in Slot, Begin(j)
      PROVE  /\ UNCHANGED <<vars, goals, goalChanges>>
             /\ \/ calls'[k] = calls[k]
                \/ \E s \in SessionId, t \in TaskId : \E call \in Calls(s, t) :
                     Sensible(call) /\ calls'[k] = call
  BY <1>1, <1>2 DEF Begin
<1>3. ASSUME NEW j \in Slot, ReadGoal(j)
      PROVE  /\ UNCHANGED <<vars, goals, goalChanges>>
             /\ \/ calls'[k] = calls[k]
                \/ /\ calls[k] # NoCall
                   /\ calls[k].op = "update"
                   /\ goals[calls[k].task] # None
                   /\ calls'[k] = [calls[k] EXCEPT !.stored = goals[calls[k].task]]
  <2> DEFINE read == [calls[j] EXCEPT !.stored = goals[calls[j].task]]
  <2>1. /\ UNCHANGED <<vars, goals, goalChanges>>
        /\ calls[j].op = "update" /\ goals[calls[j].task] # None
        /\ calls' = [calls EXCEPT ![j] = read]
    BY <1>3 DEF ReadGoal
  <2> HIDE DEF read
  <2>2. calls'[k] = IF k = j THEN read ELSE calls[k]
    BY <1>1, <2>1
  <2> QED BY <1>1, <2>1, <2>2 DEF read
<1>4. ASSUME NEW j \in Slot, Commit(j) \/ Fail(j)
      PROVE  calls'[k] = calls[k] \/ calls'[k] = NoCall
  BY <1>1, <1>4 DEF Commit, Fail
<1> QED BY <1>2, <1>3, <1>4 DEF CallNext, callVars

\* update_task's read of the stored goal leaves the rest of the call alone.
LEMMA ReadCallFields ==
  ASSUME NEW call \in CallRecord, NEW goal \in Goal \cup {None}
  PROVE  LET read == [call EXCEPT !.stored = goal]
         IN  /\ read \in CallRecord
             /\ read.stored = goal
             /\ read.op = call.op
             /\ read.session = call.session
             /\ read.task = call.task
             /\ read.now = call.now
             /\ read.version = call.version
             /\ read.segment = call.segment
             /\ read.checkpoint = call.checkpoint
             /\ read.status = call.status
             /\ read.goal = call.goal
  BY DEF CallRecord

LEMMA CallsTypedStep ==
  ASSUME TypeOK, TypeOK', Ownership, CallsTyped, GoalsTyped, StaleStamps = TRUE,
         [CallNext]_callVars
  PROVE  CallsTyped'
<1>1. ASSUME NEW k \in Slot, NEW call, call = calls'[k], call # NoCall
      PROVE  WellFormedCall(call)'
  <2>1. [Next]_vars
    BY CallStepIsSerial
  <2>2. ASSUME call = calls[k]
        PROVE  WellFormedCall(call)'
    BY <1>1, <2>1, <2>2, WellFormedStays DEF CallsTyped
  <2>3. ASSUME UNCHANGED <<vars, goals, goalChanges>>, WellFormedCall(call)
        PROVE  WellFormedCall(call)'
    BY <2>3 DEF WellFormedCall, vars
  <2>4. ASSUME NEW s \in SessionId, NEW t \in TaskId, call \in Calls(s, t), Sensible(call)
        PROVE  WellFormedCall(call)
    BY <2>4, CallsAreWellFormed
  <2>5. ASSUME calls[k] # NoCall, calls[k].op = "update",
               call = [calls[k] EXCEPT !.stored = goals[calls[k].task]]
        PROVE  WellFormedCall(call)
    <3>1. calls[k] \in CallRecord /\ WellFormedCall(calls[k])
      BY <2>5 DEF CallsTyped, WellFormedCall
    <3>2. goals[calls[k].task] \in Goal \cup {None}
      BY <3>1 DEF GoalsTyped, CallRecord
    <3> QED BY <2>5, <3>1, <3>2, ReadCallFields DEF WellFormedCall
  <2> QED BY <1>1, <2>2, <2>3, <2>4, <2>5, SlotStep
<1>2. \A k \in Slot : calls'[k] \in CallRecord \cup {NoCall}
  BY <1>1 DEF WellFormedCall
<1>3. calls' = [k \in Slot |-> calls'[k]]
  <2>1. calls \in [Slot -> CallRecord \cup {NoCall}]
    BY DEF CallsTyped
  <2> QED BY <2>1 DEF CallNext, callVars, Begin, ReadGoal, Commit, Fail
<1>4. calls' \in [Slot -> CallRecord \cup {NoCall}]
  BY <1>2, <1>3
<1>5. \A k \in Slot : calls'[k] # NoCall => WellFormedCall(calls[k])'
  BY <1>1 DEF WellFormedCall
<1> QED BY <1>4, <1>5 DEF CallsTyped, NoCall

LEMMA GoalsTypedStep ==
  ASSUME CallsTyped, GoalsTyped, [CallNext]_callVars
  PROVE  GoalsTyped'
<1>1. ASSUME NEW k \in Slot, Commit(k)
      PROVE  GoalsTyped'
  <2> DEFINE call == calls[k]
  <2>1. call.task \in TaskId /\ call.goal \in Goal \cup {None}
    BY <1>1 DEF Commit, CallsTyped, WellFormedCall, CallRecord
  <2>2. goals' = IF call.goal = None THEN goals ELSE [goals EXCEPT ![call.task] = call.goal]
    BY <1>1 DEF Commit
  <2> HIDE DEF call
  <2> QED BY <2>1, <2>2 DEF GoalsTyped
<1>2. ASSUME UNCHANGED goals
      PROVE  GoalsTyped'
  BY <1>2 DEF GoalsTyped
<1> QED BY <1>1, <1>2 DEF CallNext, callVars, Begin, ReadGoal, Fail

LEMMA CallInvHolds ==
  ASSUME StaleStamps = TRUE
  PROVE  CallSpec => [](TypeOK /\ Ownership /\ CallsTyped /\ GoalsTyped)
<1>1. CallInit => TypeOK /\ Ownership /\ CallsTyped /\ GoalsTyped
  <2>1. CallInit => CallsTyped /\ GoalsTyped
    BY DEF CallInit, CallsTyped, GoalsTyped
  <2>2. Init => Ownership
    BY NoneAssumption DEF Init, NoTask, NoSession, Ownership, PointerWellFormed, SingleOwner,
                          ActiveIsOwned, OpenIsCurrent, Attached, IsOpen
  <2> QED BY <2>1, TypeInit, <2>2 DEF CallInit
<1>2. ASSUME TypeOK, Ownership, CallsTyped, GoalsTyped, [CallNext]_callVars
      PROVE  TypeOK' /\ Ownership' /\ CallsTyped' /\ GoalsTyped'
  <2>1. [Next]_vars
    BY <1>2, CallStepIsSerial
  <2>2. TypeOK'
    BY <1>2, <2>1, TypeStep
  <2>3. Ownership'
    BY <1>2, <2>1, <2>2, OwnershipStep
  <2> QED BY <1>2, <2>2, <2>3, CallsTypedStep, GoalsTypedStep
<1> QED BY <1>1, <1>2, PTL DEF CallSpec

\* However calls overlap, what they do to the tables is what calls made one
\* after the other, with old clock readings, could do.
THEOREM SerialLifecycleHolds ==
  ASSUME StaleStamps = TRUE
  PROVE  CallSpec => SerialLifecycle
<1>1. CallInit => Init
  BY DEF CallInit
<1>2. TypeOK /\ Ownership /\ CallsTyped /\ [CallNext]_callVars => [Next]_vars
  BY CallStepIsSerial
<1> QED BY <1>1, <1>2, CallInvHolds, PTL DEF CallSpec, SerialLifecycle

-----------------------------------------------------------------------------
(* Versions are tokens: the row of a task changes only with its version.    *)

\* The row of task t: as it was, newly created, or one version on.
RowAsBefore(t) == tasks'[t] = tasks[t]
RowCreated(t) == tasks[t].status = "absent" /\ tasks'[t].status = "active"
RowUpdated(t) ==
    /\ tasks[t].status # "absent" /\ tasks'[t].status # "absent"
    /\ tasks'[t].version = tasks[t].version + 1

LEMMA UpdatedRow ==
  ASSUME TypeOK, NEW t \in TaskId, NEW s \in SessionId, NEW status
  PROVE  /\ UpdatedTask(t, s, status).status = status
         /\ UpdatedTask(t, s, status).version = tasks[t].version + 1
         /\ [UpdatedTask(t, s, status) EXCEPT !.resumeCount = @ + 1].status = status
         /\ [UpdatedTask(t, s, status) EXCEPT !.resumeCount = @ + 1].version
               = tasks[t].version + 1
<1>1. tasks[t] \in TaskRecord
  BY DEF TypeOK
<1> QED BY <1>1 DEF UpdatedTask, TaskRecord

\* A switch keeps or updates a row.
LEMMA SwitchRow ==
  ASSUME TypeOK, Ownership, NEW s \in SessionId, NEW u \in TaskId
  PROVE  \/ TasksAfterSwitch(s)[u] = tasks[u]
         \/ /\ tasks[u].status = "active" /\ TasksAfterSwitch(s)[u].status = "paused"
            /\ TasksAfterSwitch(s)[u].version = tasks[u].version + 1
<1>1. CASE Attached(s) /\ u = sessions[s].task
  <2>1. TasksAfterSwitch(s)[u] = UpdatedTask(u, s, "paused")
    BY <1>1 DEF TasksAfterSwitch, TypeOK
  <2>2. tasks[u].status = "active"
    BY <1>1 DEF Ownership, PointerWellFormed
  <2> QED BY <2>1, <2>2, UpdatedRow
<1>2. CASE ~(Attached(s) /\ u = sessions[s].task)
  BY <1>2 DEF TasksAfterSwitch, TypeOK
<1> QED BY <1>1, <1>2

LEMMA PerformRows ==
  ASSUME TypeOK, Ownership, NEW call, WellFormedCall(call), Perform(call), NEW u \in TaskId
  PROVE  /\ RowAsBefore(u) \/ RowCreated(u) \/ RowUpdated(u)
         /\ RowCreated(u) <=> call.op = "create" /\ u = call.task
         /\ call.op = "update" /\ u = call.task => RowUpdated(u)
<1> DEFINE s == call.session
           t == call.task
<1>1. s \in SessionId /\ t \in TaskId /\ call.op \in Operation
  BY DEF WellFormedCall, CallRecord
<1> HIDE DEF s, t
<1>2. tasks \in [TaskId -> TaskRecord]
  BY DEF TypeOK
<1>3. \A o \in SessionId, v \in TaskId : sessions[o].task = v => tasks[v].status = "active"
  BY NoneAssumption DEF Ownership, PointerWellFormed, Attached
<1>4. CASE call.op = "create"
  <2>1. CreateTask(s, t, None, call.now)
    BY <1>4 DEF Perform, s, t
  <2>2. tasks[t].status = "absent" /\ TasksAfterSwitch(s) \in [TaskId -> TaskRecord]
    BY <1>1, <2>1, SwitchTypes DEF CreateTask
  <2>3. /\ tasks'[t].status = "active"
        /\ u # t => tasks'[u] = TasksAfterSwitch(s)[u]
    BY <1>1, <2>1, <2>2 DEF CreateTask
  <2> QED BY <1>1, <1>4, <2>2, <2>3, SwitchRow DEF RowAsBefore, RowCreated, RowUpdated, t
<1>5. CASE call.op = "resume"
  <2>1. ResumeTask(s, t, call.version, call.now)
    BY <1>5 DEF Perform, s, t
  <2>2. tasks[t].status \in Resumable /\ TasksAfterSwitch(s) \in [TaskId -> TaskRecord]
    BY <1>1, <2>1, SwitchTypes DEF ResumeTask
  <2>3. /\ tasks'[t] = [UpdatedTask(t, s, "active") EXCEPT !.resumeCount = @ + 1]
        /\ u # t => tasks'[u] = TasksAfterSwitch(s)[u]
    BY <1>1, <2>1, <2>2 DEF ResumeTask
  <2>4. tasks'[t].status = "active" /\ tasks'[t].version = tasks[t].version + 1
    BY <1>1, <2>3, UpdatedRow
  <2>5. RowUpdated(t) /\ ~RowCreated(t)
    BY <2>2, <2>4 DEF RowCreated, RowUpdated, Resumable
  <2>6. u # t => RowAsBefore(u) \/ RowUpdated(u)
    BY <1>1, <2>3, SwitchRow DEF RowAsBefore, RowUpdated
  <2>7. u # t => ~RowCreated(u)
    BY <1>1, <2>3, SwitchRow DEF RowCreated
  <2> QED BY <1>5, <2>5, <2>6, <2>7
<1>6. CASE call.op = "pause"
  <2>1. tasks' = TasksAfterSwitch(s)
    BY <1>6 DEF Perform, PauseTask, s, t
  <2> QED BY <1>1, <1>6, <2>1, SwitchRow DEF RowAsBefore, RowCreated, RowUpdated
<1>7. CASE call.op = "update"
  <2>1. UpdateTask(s, t, call.version, ChangesGoal(call))
    BY <1>7 DEF Perform, s, t
  <2>2. tasks[t].status = "active" /\ tasks' = [tasks EXCEPT ![t] = UpdatedTask(t, s, @.status)]
    BY <1>1, <1>3, <2>1 DEF UpdateTask, ActiveSession
  <2>3. tasks'[u] = IF u = t THEN UpdatedTask(t, s, tasks[t].status) ELSE tasks[u]
    BY <1>1, <1>2, <2>2
  <2> QED BY <1>1, <1>7, <2>2, <2>3, UpdatedRow DEF RowAsBefore, RowCreated, RowUpdated, t
<1>8. CASE call.op = "transition"
  <2>1. TransitionTask(s, t, call.version, call.status, call.now)
    BY <1>8 DEF Perform, s, t
  <2>2. /\ tasks[t].status = "active" /\ tasks' = [tasks EXCEPT ![t] = UpdatedTask(t, s, call.status)]
        /\ call.status # "absent"
    BY <1>1, <1>3, <1>8, <2>1, TransitionsAssumption
       DEF TransitionTask, ActiveSession, WellFormedCall, Finished
  <2>3. tasks'[u] = IF u = t THEN UpdatedTask(t, s, call.status) ELSE tasks[u]
    BY <1>1, <1>2, <2>2
  <2> QED BY <1>1, <1>8, <2>2, <2>3, UpdatedRow DEF RowAsBefore, RowCreated, RowUpdated
<1>9. CASE call.op \in {"checkpoint", "rotate"}
  <2>1. tasks' = tasks
    BY <1>9 DEF Perform, CreateCheckpoint, Rotate
  <2> QED BY <1>9, <2>1 DEF RowAsBefore, RowCreated
<1> QED BY <1>1, <1>4, <1>5, <1>6, <1>7, <1>8, <1>9 DEF Operation

-----------------------------------------------------------------------------
(* The log of a task's goal                                                 *)

\* A task has a goal exactly when it has a row, and a log only then.
GoalRows ==
    \A t \in TaskId :
        /\ goals[t] = None <=> tasks[t].status = "absent"
        /\ goals[t] = None => goalChanges[t] = <<>>

LogsTyped == goalChanges \in [TaskId -> Seq([old: Goal, new: Goal])]

\* An update that still names the version of its task has read the goal of now.
UpdateToken(call) ==
    call.op = "update" =>
        /\ goals[call.task] # None
        /\ call.version <= tasks[call.task].version
        /\ call.version = tasks[call.task].version /\ call.stored # None
             => call.stored = goals[call.task]

UpdateTokens == \A k \in Slot : calls[k] # NoCall => UpdateToken(calls[k])

GoalInv == GoalRows /\ LogsTyped /\ UpdateTokens /\ GoalHistory

GoalKept(t) == goals'[t] = goals[t] /\ goalChanges'[t] = goalChanges[t]

GoalSet(t) == RowCreated(t) /\ goals'[t] # None /\ goalChanges'[t] = goalChanges[t]

GoalChanged(t) ==
    /\ RowUpdated(t)
    /\ goals[t] \in Goal /\ goals'[t] \in Goal /\ goals'[t] # goals[t]
    /\ goalChanges'[t] = Append(goalChanges[t], [old |-> goals[t], new |-> goals'[t]])

\* A goal is kept, set with the row, or changed with the version.
LEMMA CommitGoal ==
  ASSUME TypeOK, Ownership, CallsTyped, GoalsTyped, GoalInv,
         NEW k \in Slot, Commit(k), NEW t \in TaskId
  PROVE  \/ GoalKept(t) /\ (RowAsBefore(t) \/ RowUpdated(t))
         \/ GoalSet(t)
         \/ GoalChanged(t)
<1> PICK call : call = calls[k]
  OBVIOUS
<1>1. /\ call # NoCall /\ Perform(call) /\ WellFormedCall(call) /\ UpdateToken(call)
      /\ goals' = IF call.goal = None THEN goals ELSE [goals EXCEPT ![call.task] = call.goal]
      /\ goalChanges' = IF call.op = "update" /\ ChangesGoal(call)
                          THEN [goalChanges EXCEPT ![call.task] =
                                  Append(@, [old |-> call.stored, new |-> call.goal])]
                          ELSE goalChanges
  BY DEF Commit, CallsTyped, GoalInv, UpdateTokens
<1>2. /\ call.task \in TaskId
      /\ call.goal \in Goal \cup {None} /\ call.stored \in Goal \cup {None}
      /\ call.op \in {"create", "update"} <=> call.goal # None
  BY <1>1 DEF WellFormedCall, CallRecord
<1>3. /\ goals \in [TaskId -> Goal \cup {None}]
      /\ goalChanges \in [TaskId -> Seq([old: Goal, new: Goal])]
  BY DEF GoalsTyped, GoalInv, LogsTyped
<1>4. /\ RowAsBefore(t) \/ RowCreated(t) \/ RowUpdated(t)
      /\ RowCreated(t) <=> call.op = "create" /\ t = call.task
      /\ call.op = "update" /\ t = call.task => RowUpdated(t)
  BY <1>1, PerformRows
<1>5. CASE t # call.task \/ call.op \notin {"create", "update"}
  <2>1. GoalKept(t)
    BY <1>1, <1>2, <1>3, <1>5 DEF GoalKept
  <2> QED BY <1>4, <1>5, <2>1
<1>6. CASE t = call.task /\ call.op = "create"
  BY <1>1, <1>2, <1>3, <1>4, <1>6 DEF GoalSet
<1>7. CASE t = call.task /\ call.op = "update"
  <2>1. /\ call.stored # None
        /\ call.version = tasks[t].version
    BY <1>1, <1>7 DEF Perform, UpdateTask
  <2>2. call.stored = goals[t] /\ goals[t] \in Goal /\ call.goal \in Goal
    BY <1>1, <1>2, <1>7, <2>1 DEF UpdateToken
  <2>3. goals'[t] = call.goal
    BY <1>1, <1>2, <1>3, <1>7
  <2>4. CASE ChangesGoal(call)
    <3>1. goalChanges'[t] = Append(goalChanges[t], [old |-> goals[t], new |-> goals'[t]])
      BY <1>1, <1>3, <1>7, <2>2, <2>3, <2>4
    <3>2. call.goal # goals[t]
      BY <2>2, <2>4 DEF ChangesGoal
    <3> QED BY <1>4, <1>7, <2>2, <2>3, <3>1, <3>2 DEF GoalChanged
  <2>5. CASE ~ChangesGoal(call)
    <3>1. call.goal = goals[t]
      BY <2>2, <2>5, GoalAssumption DEF ChangesGoal
    <3>2. goalChanges'[t] = goalChanges[t]
      BY <1>1, <2>5
    <3> QED BY <1>4, <1>7, <2>3, <3>1, <3>2 DEF GoalKept
  <2> QED BY <2>4, <2>5
<1> QED BY <1>2, <1>5, <1>6, <1>7

\* One more change keeps the log of a task in step with its goal.
LEMMA LoggedChange ==
  ASSUME NEW log \in Seq([old: Goal, new: Goal]), NEW old \in Goal, NEW new \in Goal,
         old # new, log # <<>> => log[Len(log)].new = old,
         \A i \in 1..(Len(log) - 1) : log[i + 1].old = log[i].new,
         \A i \in DOMAIN log : log[i].old # log[i].new,
         NEW next, next = Append(log, [old |-> old, new |-> new])
  PROVE  /\ \A i \in 1..(Len(next) - 1) : next[i + 1].old = next[i].new
         /\ next[Len(next)].new = new
         /\ \A i \in DOMAIN next : next[i].old # next[i].new
<1> DEFINE n == Len(log)
           entry == [old |-> old, new |-> new]
<1>1. n \in Nat /\ DOMAIN log = 1..n
  BY LenProperties
<1>2. entry \in [old: Goal, new: Goal] /\ entry.old = old /\ entry.new = new
  OBVIOUS
<1> HIDE DEF entry
<1>3. /\ Len(next) = n + 1
      /\ \A i \in 1..n : next[i] = log[i]
      /\ next[n + 1] = entry
      /\ DOMAIN next = 1..(n + 1)
  BY <1>2, AppendProperties, LenProperties DEF entry
<1>4. n # 0 => log[n].new = old
  BY <1>1, EmptySeq
<1> HIDE DEF n
<1>5. ASSUME NEW i \in 1..(Len(next) - 1)
      PROVE  next[i + 1].old = next[i].new
  <2>1. CASE i = n
    BY <1>1, <1>2, <1>3, <1>4, <2>1
  <2>2. CASE i # n
    <3>1. i \in 1..(n - 1) /\ i \in 1..n /\ i + 1 \in 1..n
      BY <1>1, <1>3, <2>2
    <3> QED BY <1>3, <3>1 DEF n
  <2> QED BY <2>1, <2>2
<1>6. ASSUME NEW i \in DOMAIN next
      PROVE  next[i].old # next[i].new
  BY <1>1, <1>2, <1>3
<1>7. next[Len(next)].new = new
  BY <1>1, <1>2, <1>3
<1> QED BY <1>5, <1>6, <1>7

\* Only a commit changes a task, a segment, a goal or its log.
LEMMA OnlyCommitsChange ==
  ASSUME [CallNext]_callVars
  PROVE  \/ \E k \in Slot : Commit(k)
         \/ UNCHANGED <<tasks, segments, goals, goalChanges>>
BY DEF CallNext, callVars, vars, Begin, ReadGoal, Fail, Tick

LEMMA GoalTablesStep ==
  ASSUME TypeOK, TypeOK', Ownership, CallsTyped, GoalsTyped, GoalInv, [CallNext]_callVars
  PROVE  GoalRows' /\ LogsTyped' /\ GoalHistory'
<1>1. CASE UNCHANGED <<tasks, goals, goalChanges>>
  BY <1>1 DEF GoalInv, GoalRows, LogsTyped, GoalHistory
<1>2. ASSUME NEW k \in Slot, Commit(k)
      PROVE  GoalRows' /\ LogsTyped' /\ GoalHistory'
  <2>1. \A t \in TaskId :
          \/ GoalKept(t) /\ (RowAsBefore(t) \/ RowUpdated(t))
          \/ GoalSet(t)
          \/ GoalChanged(t)
    BY <1>2, CommitGoal
  <2>2. GoalRows'
    BY <2>1, GoalAssumption DEF GoalInv, GoalRows, GoalKept, GoalSet, GoalChanged, RowAsBefore,
                RowCreated, RowUpdated
  <2>3. LogsTyped'
    <3>1. goalChanges' = [t \in TaskId |-> goalChanges'[t]]
      BY <1>2 DEF Commit, GoalInv, LogsTyped
    <3>2. ASSUME NEW t \in TaskId
          PROVE  goalChanges'[t] \in Seq([old: Goal, new: Goal])
      <4>1. goalChanges[t] \in Seq([old: Goal, new: Goal])
        BY DEF GoalInv, LogsTyped
      <4>2. CASE GoalChanged(t)
        <5>1. [old |-> goals[t], new |-> goals'[t]] \in [old: Goal, new: Goal]
          BY <4>2 DEF GoalChanged
        <5> QED BY <4>1, <4>2, <5>1, AppendProperties DEF GoalChanged
      <4> QED BY <2>1, <4>1, <4>2 DEF GoalKept, GoalSet
    <3> QED BY <3>1, <3>2 DEF LogsTyped
  <2>4. ASSUME NEW t \in TaskId, NEW log, log = goalChanges'[t], log # <<>>
        PROVE  /\ \A i \in 1..(Len(log) - 1) : log[i + 1].old = log[i].new
               /\ log[Len(log)].new = goals'[t]
               /\ \A i \in DOMAIN log : log[i].old # log[i].new
    <3>1. /\ goalChanges[t] \in Seq([old: Goal, new: Goal])
          /\ goalChanges[t] # <<>> =>
               /\ \A i \in 1..(Len(goalChanges[t]) - 1) :
                     goalChanges[t][i + 1].old = goalChanges[t][i].new
               /\ goalChanges[t][Len(goalChanges[t])].new = goals[t]
               /\ \A i \in DOMAIN goalChanges[t] : goalChanges[t][i].old # goalChanges[t][i].new
          /\ goals[t] = None => goalChanges[t] = <<>>
          /\ tasks[t].status = "absent" => goals[t] = None
      BY DEF GoalInv, GoalHistory, LogsTyped, GoalRows
    <3>2. CASE GoalKept(t)
      BY <2>4, <3>1, <3>2 DEF GoalKept
    <3>3. CASE GoalSet(t)
      BY <2>4, <3>1, <3>3 DEF GoalSet, RowCreated
    <3>4. CASE GoalChanged(t)
      <4> PICK old, new, before : old = goals[t] /\ new = goals'[t] /\ before = goalChanges[t]
        OBVIOUS
      <4>1. /\ before \in Seq([old: Goal, new: Goal])
            /\ old \in Goal /\ new \in Goal /\ old # new
            /\ log = Append(before, [old |-> old, new |-> new])
        BY <2>4, <3>1, <3>4 DEF GoalChanged
      <4>2. /\ before # <<>> => before[Len(before)].new = old
            /\ \A i \in 1..(Len(before) - 1) : before[i + 1].old = before[i].new
            /\ \A i \in DOMAIN before : before[i].old # before[i].new
        BY <3>1, EmptySeq
      <4> QED BY <4>1, <4>2, LoggedChange
    <3> QED BY <2>1, <3>2, <3>3, <3>4
  <2>5. GoalHistory'
    BY <2>4 DEF GoalHistory
  <2> QED BY <2>2, <2>3, <2>5
<1> QED BY <1>1, <1>2, OnlyCommitsChange

LEMMA UpdateTokensStep ==
  ASSUME TypeOK, TypeOK', Ownership, CallsTyped, GoalsTyped, GoalInv, [CallNext]_callVars
  PROVE  UpdateTokens'
<1>1. \A t \in TaskId : tasks[t].version \in Nat /\ tasks'[t].version \in Nat
  BY DEF TypeOK, TaskRecord
<1>2. ASSUME NEW call, WellFormedCall(call), UpdateToken(call), call.op = "update"
      PROVE  UpdateToken(call)'
  <2>1. call.task \in TaskId /\ call.version \in Nat
    BY <1>2 DEF WellFormedCall, CallRecord
  <2>2. CASE UNCHANGED <<tasks, goals, goalChanges>>
    BY <1>2, <2>2 DEF UpdateToken
  <2>3. ASSUME NEW k \in Slot, Commit(k)
        PROVE  UpdateToken(call)'
    <3> PICK t \in TaskId : t = call.task
      BY <2>1
    <3>1. \/ GoalKept(t) /\ (RowAsBefore(t) \/ RowUpdated(t))
          \/ GoalSet(t)
          \/ GoalChanged(t)
      BY <2>3, CommitGoal
    <3>2. goals[t] # None /\ call.version <= tasks[t].version
      BY <1>2 DEF UpdateToken
    <3>3. ~GoalSet(t)
      BY <3>2 DEF GoalSet, RowCreated, GoalInv, GoalRows
    <3>4. CASE GoalKept(t) /\ RowAsBefore(t)
      BY <1>2, <3>4 DEF GoalKept, RowAsBefore, UpdateToken
    <3>5. CASE RowUpdated(t)
      <4>1. call.version < tasks'[t].version
        BY <1>1, <2>1, <3>2, <3>5 DEF RowUpdated
      <4>2. goals'[t] # None
        BY <3>1, <3>2, <3>3, GoalAssumption DEF GoalKept, GoalChanged
      <4> QED BY <1>1, <2>1, <4>1, <4>2 DEF UpdateToken
    <3> QED BY <3>1, <3>3, <3>4, <3>5 DEF GoalChanged
  <2> QED BY <2>2, <2>3, OnlyCommitsChange
<1>3. ASSUME NEW s \in SessionId, NEW t \in TaskId, NEW call \in Calls(s, t), Sensible(call),
             UNCHANGED <<vars, goals, goalChanges>>
      PROVE  UpdateToken(call)'
  <2>1. /\ call.session = s /\ call.task = t /\ call.stored = None
        /\ call.op = "update" => call.version = tasks[t].version
    BY <1>3, CallsAreWellFormed
  <2>2. call.op = "update" => sessions[s].task = t
    BY <1>3, <2>1 DEF Sensible
  <2>3. call.op = "update" => tasks[t].status = "active"
    BY <2>2, NoneAssumption DEF Ownership, PointerWellFormed, Attached
  <2>4. call.op = "update" => goals[t] # None
    BY <2>3 DEF GoalInv, GoalRows
  <2> QED BY <1>1, <1>3, <2>1, <2>4 DEF UpdateToken, vars
<1>4. ASSUME NEW k \in Slot, UNCHANGED <<vars, goals, goalChanges>>,
             calls[k] # NoCall, calls[k].op = "update", goals[calls[k].task] # None,
             NEW call, call = [calls[k] EXCEPT !.stored = goals[calls[k].task]]
      PROVE  UpdateToken(call)'
  <2>1. calls[k] \in CallRecord /\ UpdateToken(calls[k])
    BY <1>4 DEF CallsTyped, WellFormedCall, GoalInv, UpdateTokens
  <2>2. goals[calls[k].task] \in Goal \cup {None}
    BY <2>1 DEF GoalsTyped, CallRecord
  <2>3. /\ call.task = calls[k].task /\ call.version = calls[k].version
        /\ call.stored = goals[calls[k].task]
    BY <1>4, <2>1, <2>2, ReadCallFields
  <2> QED BY <1>4, <2>1, <2>3 DEF UpdateToken, vars
<1>5. ASSUME NEW k \in Slot, NEW call, call = calls'[k], call # NoCall
      PROVE  UpdateToken(call)'
  <2>1. ASSUME call = calls[k]
        PROVE  UpdateToken(call)'
    <3>1. WellFormedCall(call) /\ UpdateToken(call)
      BY <1>5, <2>1 DEF CallsTyped, GoalInv, UpdateTokens
    <3>2. CASE call.op = "update"
      BY <1>2, <3>1, <3>2
    <3> QED BY <3>2 DEF UpdateToken
  <2> QED BY <1>3, <1>4, <1>5, <2>1, SlotStep
<1> QED BY <1>5 DEF UpdateTokens, UpdateToken, NoCall

\* The log of a task's goal is what happened to it, although update_task reads
\* the old goal before its transaction: the version its caller names is a token
\* for the goal too.
THEOREM GoalHistoryHolds ==
  ASSUME StaleStamps = TRUE
  PROVE  CallSpec => []GoalHistory
<1>1. CallInit => GoalInv
  <2>1. CallInit => GoalRows /\ LogsTyped /\ GoalHistory
    BY DEF CallInit, Init, NoTask, GoalRows, LogsTyped, GoalHistory
  <2>2. CallInit => UpdateTokens
    BY DEF CallInit, UpdateTokens
  <2> QED BY <2>1, <2>2 DEF GoalInv
<1>2. ASSUME TypeOK, TypeOK', Ownership, CallsTyped, GoalsTyped, GoalInv, [CallNext]_callVars
      PROVE  GoalInv'
  BY <1>2, GoalTablesStep, UpdateTokensStep DEF GoalInv
<1>3. GoalInv => GoalHistory
  BY DEF GoalInv
<1> QED BY <1>1, <1>2, <1>3, CallInvHolds, PTL DEF CallSpec

-----------------------------------------------------------------------------
(* The segments of a task form one chain in commit order and in time        *)

TimesBefore(t, now) ==
    \A g \in DOMAIN segments : segments[g].task = t =>
        segments[g].startTime <= now /\ segments[g].endTime <= now

\* A later row of a task starts no earlier than the one before it started or
\* ended, and nothing starts or ends in the future.
TaskOrder ==
    \A g \in DOMAIN segments :
        /\ segments[g].startTime <= clock
        /\ segments[g].endTime <= clock
        /\ \A h \in DOMAIN segments :
              segments[g].task = segments[h].task =>
                  /\ g <= h => segments[g].startTime <= segments[h].startTime
                  /\ g < h => segments[g].endTime <= segments[h].startTime

\* A rotation opened g.
HandoffOpened(g) ==
    segments[g].parent # 0 /\ segments[segments[g].parent].reason = "handoff"

\* Which segments may have ended before they started.
StaleEnds ==
    \A g \in DOMAIN segments :
        ~IsOpen(g) /\ segments[g].endTime < segments[g].startTime =>
            segments[g].reason = "task_paused" \/ HandoffOpened(g)

\* A transition that still names the version of its task is no older than the
\* task's open segment, unless a rotation opened that.
TransitionToken(call) ==
    call.op = "transition" =>
        /\ tasks[call.task].status # "absent"
        /\ call.version <= tasks[call.task].version
        /\ call.version = tasks[call.task].version =>
              \A g \in DOMAIN segments : segments[g].task = call.task /\ IsOpen(g) =>
                  segments[g].startTime <= call.now \/ HandoffOpened(g)

\* A resume that still names the version of its task, or a rotation whose
\* segment is still open, has a clock reading no older than the task's segments.
ResumeToken(call) ==
    call.op = "resume" =>
        /\ tasks[call.task].status # "absent"
        /\ call.version <= tasks[call.task].version
        /\ call.version = tasks[call.task].version =>
              /\ tasks[call.task].status \in Resumable
              /\ TimesBefore(call.task, call.now)

RotateToken(call) ==
    call.op = "rotate" =>
        /\ call.segment \in DOMAIN segments
        /\ segments[call.segment].task = call.task
        /\ IsOpen(call.segment) => TimesBefore(call.task, call.now)

SegmentTokens ==
    \A k \in Slot : calls[k] # NoCall =>
        ResumeToken(calls[k]) /\ RotateToken(calls[k]) /\ TransitionToken(calls[k])

LinearInv == TaskOrder /\ StaleEnds /\ SegmentTokens /\ LinearHistory

\* The segment that a new one of task t must continue, 0 for the first one.
Continues(parent, t) ==
    \/ SegmentsOfTask(t) = {} /\ parent = 0
    \/ /\ parent \in SegmentsOfTask(t)
       /\ \A h \in SegmentsOfTask(t) : h <= parent

\* The latest segment of a task by start time is its last row.
LEMMA LatestIsLastOfTask ==
  ASSUME TypeOK, TaskOrder, NEW t \in TaskId, NEW g, IsLatestIn(g, SegmentsOfTask(t))
  PROVE  g \in SegmentsOfTask(t) /\ \A h \in SegmentsOfTask(t) : h <= g
<1>1. g \in DOMAIN segments /\ segments[g].task = t /\ g \in SegmentsOfTask(t)
  BY DEF IsLatestIn, SegmentsOfTask
<1>2. ASSUME NEW h \in SegmentsOfTask(t), ~(h <= g)
      PROVE  FALSE
  <2>1. h \in DOMAIN segments /\ segments[h].task = t
    BY DEF SegmentsOfTask
  <2>2. g \in Nat /\ h \in Nat /\ g < h
    BY <1>1, <1>2, <2>1, SegmentCountIsNat
  <2>3. /\ segments[g].startTime \in Nat /\ segments[h].startTime \in Nat
        /\ segments[g].startTime <= segments[h].startTime
    BY <1>1, <2>1, <2>2, TimesAreNat DEF TaskOrder
  <2> QED BY <1>2, <2>2, <2>3 DEF IsLatestIn
<1> QED BY <1>1, <1>2

\* A segment that continues the one session s points at, or of a task that
\* nobody holds.
Takes(s, t, parent) ==
    \/ tasks[t].status # "active"
    \/ sessions[s].task = t /\ parent = sessions[s].segment

\* A call that opens a segment continues the last one, and does not start it
\* before the task's other segments. One that releases a task knows when its
\* segment started, or pauses it.
LEMMA PerformSegments ==
  ASSUME TypeOK, Ownership, History, TaskOrder, NEW call, WellFormedCall(call), Perform(call),
         ResumeToken(call), RotateToken(call), TransitionToken(call)
  PROVE  \/ /\ call.now \in 1..clock
            /\ TimesBefore(call.task, call.now)
            /\ \E parent, c : /\ Opens(call.session, call.task, parent, c, call.now)
                              /\ Continues(parent, call.task)
                              /\ Takes(call.session, call.task, parent)
         \/ /\ call.now \in 1..clock
            /\ \E status :
                  /\ Releases(call.session, call.task, status, call.now)
                  /\ \/ status = "paused"
                     \/ segments[sessions[call.session].segment].startTime <= call.now
                     \/ HandoffOpened(sessions[call.session].segment)
         \/ UNCHANGED segments
<1> DEFINE s == call.session
           t == call.task
           now == call.now
<1>1. /\ s \in SessionId /\ t \in TaskId
      /\ call.op \in Operation
      /\ call.op # "update" => now \in 1..clock /\ now \in Nat /\ now # 0
  BY DEF WellFormedCall, CallRecord, TypeOK
<1> HIDE DEF s, t, now
<1>2. CASE call.op = "create"
  <2>1. CreateTask(s, t, None, now)
    BY <1>2 DEF Perform, s, t, now
  <2>2. Opens(s, t, 0, 0, now)
    BY <1>1, <1>2, <2>1, CreateTaskOpens
  <2>3. SegmentsOfTask(t) = {}
    BY <1>1, <2>1 DEF CreateTask, History, HasSegments, SegmentsOfTask
  <2>4. TimesBefore(t, now)
    BY <2>3 DEF TimesBefore, SegmentsOfTask
  <2>5. tasks[t].status # "active"
    BY <2>1 DEF CreateTask
  <2> QED BY <1>1, <1>2, <2>2, <2>3, <2>4, <2>5 DEF Continues, Takes, s, t, now
<1>3. CASE call.op = "resume"
  <2>1. ResumeTask(s, t, call.version, now)
    BY <1>3 DEF Perform, s, t, now
  <2>2. call.version = tasks[t].version /\ tasks[t].status \in Resumable
    BY <2>1 DEF ResumeTask
  <2>3. TimesBefore(t, now) /\ tasks[t].status # "active"
    BY <1>3, <2>2 DEF ResumeToken, Resumable, t, now
  <2>4. PICK parent \in 0..Len(segments), c \in CheckpointsOf(t) :
            Opens(s, t, parent, c, now) /\ IsLatestSegment(parent, t)
    BY <1>1, <1>3, <2>1, <2>2, ResumeTaskOpens
  <2>5. Continues(parent, t)
    BY <1>1, <2>4, LatestIsLastOfTask DEF IsLatestSegment, Continues
  <2> QED BY <1>1, <1>3, <2>3, <2>4, <2>5 DEF Takes, s, t, now
<1>4. CASE call.op = "rotate"
  <2>1. Rotate(s, t, call.checkpoint, call.segment, now)
    BY <1>4 DEF Perform, s, t, now
  <2>2. /\ sessions[s].task = t /\ sessions[s].segment = call.segment
        /\ IsOpen(call.segment) /\ Attached(s)
    BY <1>1, <2>1, NoneAssumption DEF Rotate, Attached
  <2>3. call.segment \in DOMAIN segments /\ call.checkpoint \in DOMAIN checkpoints
    BY <1>4 DEF RotateToken, WellFormedCall
  <2>4. Opens(s, t, call.segment, call.checkpoint, now)
    BY <1>1, <1>4, <2>1, <2>3, RotateOpens
  <2>5. TimesBefore(t, now)
    BY <1>4, <2>2 DEF RotateToken, t, now
  <2>6. /\ call.segment \in SegmentsOfTask(t)
        /\ \A h \in SegmentsOfTask(t) : h <= call.segment
    BY <1>1, <2>2, <2>3 DEF SegmentsOfTask, Ownership, PointerWellFormed, History, CurrentIsNewest
  <2> QED BY <1>1, <1>4, <2>2, <2>4, <2>5, <2>6 DEF Continues, Takes, s, t, now
<1>5. CASE call.op = "pause"
  <2>1. PauseTask(s, t, call.version, now) /\ call.version = tasks[t].version
    BY <1>5 DEF Perform, PauseTask, s, t, now
  <2> QED BY <1>1, <1>5, <2>1, PauseTaskReleases DEF s, t, now
<1>6. CASE call.op = "transition"
  <2>1. /\ TransitionTask(s, t, call.version, call.status, now)
        /\ call.version = tasks[t].version
        /\ call.status \in Finished \cup {"blocked"}
    BY <1>6, TransitionsAssumption DEF Perform, TransitionTask, WellFormedCall, s, t, now
  <2>2. Releases(s, t, call.status, now)
    BY <1>1, <1>6, <2>1, TransitionTaskReleases
  <2>3. /\ sessions[s].segment \in DOMAIN segments
        /\ segments[sessions[s].segment].task = t
        /\ IsOpen(sessions[s].segment)
    BY <1>1, <2>2, NoneAssumption DEF Releases, Ownership, PointerWellFormed, Attached
  <2>4. \/ segments[sessions[s].segment].startTime <= now
        \/ HandoffOpened(sessions[s].segment)
    BY <1>6, <2>1, <2>3 DEF TransitionToken, t, now
  <2> QED BY <1>1, <1>6, <2>2, <2>4 DEF s, t, now
<1>7. CASE call.op \in {"update", "checkpoint"}
  BY <1>7 DEF Perform, UpdateTask, CreateCheckpoint
<1> QED BY <1>1, <1>2, <1>3, <1>4, <1>5, <1>6, <1>7 DEF Operation

\* h, the last segment of its task, is closed now; before it started only as
\* StaleEnds allows.
ClosedNow(h) ==
    /\ segments[h].endTime = 0
    /\ segments'[h].endTime \in 1..clock
    /\ \A k \in DOMAIN segments : segments[k].task = segments[h].task => k <= h
    /\ \/ segments'[h].reason = "task_paused"
       \/ segments[h].startTime <= segments'[h].endTime
       \/ HandoffOpened(h)

\* The segments of a step, as far as tasks and times go: nothing but a new row,
\* and rows that are closed.
RowsKept ==
    \A h \in DOMAIN segments :
        /\ h \in DOMAIN segments'
        /\ segments'[h].task = segments[h].task
        /\ segments'[h].parent = segments[h].parent
        /\ segments'[h].startTime = segments[h].startTime
        /\ \/ /\ segments'[h].endTime = segments[h].endTime
              /\ segments'[h].reason = segments[h].reason
           \/ ClosedNow(h)

NoNewRow == RowsKept /\ DOMAIN segments' = DOMAIN segments

NewRow(t, parent, now) ==
    /\ RowsKept
    /\ DOMAIN segments' = 1..(Len(segments) + 1)
    /\ DOMAIN segments = 1..Len(segments) /\ Len(segments) \in Nat
    /\ segments'[Len(segments) + 1].task = t
    /\ segments'[Len(segments) + 1].parent = parent
    /\ segments'[Len(segments) + 1].startTime = now
    /\ segments'[Len(segments) + 1].endTime = 0
    /\ \A h \in DOMAIN segments : segments'[h].endTime \in {segments[h].endTime, now}
    /\ \/ tasks[t].status # "active"
       \/ parent \in DOMAIN segments /\ parent # 0 /\ segments'[parent].reason = "handoff"

\* Closing the current segment of s, in order or by a pause.
LEMMA ClosedRows ==
  ASSUME TypeOK, Ownership, History, NEW s \in SessionId, NEW now, NEW reason,
         now \in 1..clock, ClosesCurrent(s, now, reason),
         \A h \in DOMAIN segments : h \in DOMAIN segments',
         \/ reason = "task_paused"
         \/ segments[sessions[s].segment].startTime <= now
         \/ HandoffOpened(sessions[s].segment)
  PROVE  /\ RowsKept
         /\ \A h \in DOMAIN segments : segments'[h].endTime \in {segments[h].endTime, now}
<1>1. DOMAIN segments = 1..Len(segments)
  BY SegmentCountIsNat
<1>2. ASSUME NEW h \in DOMAIN segments, h = sessions[s].segment
      PROVE  ClosedNow(h)
  <2>1. h # 0
    BY SegmentCountIsNat
  <2>2. Attached(s)
    BY <1>2, <2>1 DEF Ownership, PointerWellFormed
  <2>3. /\ segments[h].endTime = 0 /\ segments[h].task = sessions[s].task
        /\ \A k \in DOMAIN segments : segments[k].task = segments[h].task => k <= h
    BY <1>2, <2>2 DEF Ownership, PointerWellFormed, IsOpen, History, CurrentIsNewest
  <2>4. /\ segments'[h].endTime = now /\ segments'[h].reason = reason
        /\ segments'[h].startTime = segments[h].startTime
    BY <1>1, <1>2 DEF ClosesCurrent
  <2> QED BY <1>2, <2>3, <2>4 DEF ClosedNow
<1> QED BY <1>1, <1>2 DEF RowsKept, ClosesCurrent

\* What a commit does to the segments table.
LEMMA CommitRows ==
  ASSUME TypeOK, TypeOK', Ownership, Ownership', History, TaskOrder,
         NEW call, WellFormedCall(call), Perform(call), ResumeToken(call), RotateToken(call), TransitionToken(call)
  PROVE  \/ /\ call.now \in 1..clock
            /\ TimesBefore(call.task, call.now)
            /\ tasks'[call.task].status = "active"
            /\ \E parent : NewRow(call.task, parent, call.now) /\ Continues(parent, call.task)
            /\ \A h \in DOMAIN segments :
                  segments[h].task = call.task => segments'[h].endTime # 0
         \/ NoNewRow
<1> DEFINE s == call.session
           t == call.task
           now == call.now
<1>1. s \in SessionId /\ t \in TaskId
  BY DEF WellFormedCall, CallRecord
<1> HIDE DEF s, t, now
<1>2. ASSUME now \in 1..clock, TimesBefore(t, now),
             NEW parent, NEW c, Opens(s, t, parent, c, now), Takes(s, t, parent)
      PROVE  /\ NewRow(t, parent, now)
             /\ tasks'[t].status = "active"
             /\ \A h \in DOMAIN segments : segments[h].task = t => segments'[h].endTime # 0
  <2>1. now \in Nat /\ now # 0
    BY <1>2 DEF TypeOK
  <2>2. /\ Len(segments) \in Nat /\ DOMAIN segments = 1..Len(segments)
        /\ DOMAIN segments' = 1..(Len(segments) + 1)
        /\ \A h \in 1..Len(segments) :
              /\ segments'[h].task = segments[h].task
              /\ segments'[h].parent = segments[h].parent
              /\ segments'[h].startTime = segments[h].startTime
              /\ segments'[h].endTime = IF h = sessions[s].segment THEN now ELSE segments[h].endTime
        /\ segments'[Len(segments) + 1].task = t
        /\ segments'[Len(segments) + 1].parent = parent
        /\ segments'[Len(segments) + 1].startTime = now
        /\ segments'[Len(segments) + 1].endTime = 0
        /\ sessions'[s].task = t /\ sessions'[s].segment = Len(segments) + 1
    BY <1>1, <1>2, <2>1, OpenedRows
  <2> DEFINE reason == IF sessions[s].task = t THEN "handoff" ELSE "task_paused"
  <2>5. ClosesCurrent(s, now, reason)
    BY <1>2 DEF Opens
  <2>6. sessions[s].task = t => /\ sessions[s].segment \in DOMAIN segments
                                /\ sessions[s].segment # 0
                                /\ segments[sessions[s].segment].task = t
                                /\ segments[sessions[s].segment].startTime <= now
    <3>1. sessions[s].task = t => /\ sessions[s].segment \in DOMAIN segments
                                  /\ segments[sessions[s].segment].task = t
      BY <1>1, NoneAssumption DEF Ownership, PointerWellFormed, Attached
    <3> QED BY <1>2, <2>2, <3>1 DEF TimesBefore
  <2>7. \/ reason = "task_paused"
        \/ segments[sessions[s].segment].startTime <= now
    BY <2>6
  <2>8. \A h \in DOMAIN segments : h \in DOMAIN segments'
    BY <2>2
  <2>9. /\ RowsKept
        /\ \A h \in DOMAIN segments : segments'[h].endTime \in {segments[h].endTime, now}
    <3> HIDE DEF reason
    <3> QED BY <1>1, <1>2, <2>5, <2>7, <2>8, ClosedRows
  <2>10. \/ tasks[t].status # "active"
         \/ parent \in DOMAIN segments /\ parent # 0 /\ segments'[parent].reason = "handoff"
    BY <1>2, <2>2, <2>5, <2>6 DEF Takes, ClosesCurrent
  <2>3. NewRow(t, parent, now)
    BY <2>2, <2>9, <2>10 DEF NewRow
  <2>4. ASSUME NEW h \in DOMAIN segments, segments[h].task = t, segments'[h].endTime = 0
        PROVE  FALSE
    <3>1. h \in DOMAIN segments' /\ segments'[h].task = t /\ h # Len(segments) + 1
      BY <2>2, <2>4
    <3>2. \A g \in DOMAIN segments' :
              segments'[g].task = t /\ segments'[g].endTime = 0 => g = sessions'[s].segment
      <4>1. \A g \in DOMAIN segments' : segments'[g].session \in SessionId /\ g # 0
        <5>1. /\ segments' \in Seq(ContextSegment)
              /\ DOMAIN segments' = 1..Len(segments')
              /\ Len(segments') \in Nat
          BY LenProperties DEF TypeOK
        <5>2. \A g \in DOMAIN segments' : segments'[g] \in ContextSegment
          BY <5>1, ElementOfSeq
        <5> QED BY <5>1, <5>2 DEF ContextSegment
      <4> QED BY <1>1, <2>2, <4>1, NoneAssumption
              DEF Ownership, OpenIsCurrent, PointerWellFormed, SingleOwner, Attached, IsOpen
    <3> QED BY <2>2, <2>4, <3>1, <3>2
  <2> QED BY <1>2, <2>3, <2>4 DEF Opens
<1>3. ASSUME now \in 1..clock, NEW status, Releases(s, t, status, now),
             \/ status = "paused"
             \/ segments[sessions[s].segment].startTime <= now
             \/ HandoffOpened(sessions[s].segment)
      PROVE  NoNewRow
  <2>1. now \in Nat /\ now # 0
    BY <1>3 DEF TypeOK
  <2>2. /\ DOMAIN segments = 1..Len(segments) /\ DOMAIN segments' = 1..Len(segments)
        /\ \A h \in 1..Len(segments) :
              /\ segments'[h].task = segments[h].task
              /\ segments'[h].parent = segments[h].parent
              /\ segments'[h].startTime = segments[h].startTime
              /\ segments'[h].endTime = IF h = sessions[s].segment THEN now ELSE segments[h].endTime
    BY <1>1, <1>3, <2>1, ReleasedRows
  <2>3. ClosesCurrent(s, now, StatusOfReason[status])
    BY <1>3 DEF Releases
  <2>4. status = "paused" => StatusOfReason[status] = "task_paused"
    BY DEF StatusOfReason
  <2>5. RowsKept
    BY <1>1, <1>3, <2>2, <2>3, <2>4, ClosedRows
  <2> QED BY <2>2, <2>5 DEF NoNewRow
<1>4. UNCHANGED segments => NoNewRow
  BY DEF NoNewRow, RowsKept
<1> QED BY <1>2, <1>3, <1>4, PerformSegments DEF s, t, now

\* A new row of task t that continues its last one keeps the chain.
LEMMA ChainStep ==
  ASSUME TypeOK, LinearHistory, NEW t, NEW parent, NEW now,
         (NewRow(t, parent, now) /\ Continues(parent, t)) \/ NoNewRow
  PROVE  LinearHistory'
<1>1. DOMAIN segments = 1..Len(segments) /\ Len(segments) \in Nat
  BY SegmentCountIsNat
<1>2. ASSUME NEW g \in DOMAIN segments, RowsKept,
             \A h \in DOMAIN segments' : h \in DOMAIN segments \/ h = Len(segments) + 1
      PROVE  LET earlier == {h \in DOMAIN segments' : segments'[h].task = segments'[g].task /\ h < g}
             IN  IF earlier = {} THEN segments'[g].parent = 0
                 ELSE /\ segments'[g].parent \in earlier
                      /\ \A h \in earlier : h <= segments'[g].parent
  <2>1. {h \in DOMAIN segments' : segments'[h].task = segments'[g].task /\ h < g}
          = {h \in SegmentsOfTask(segments[g].task) : h < g}
    BY <1>1, <1>2 DEF RowsKept, SegmentsOfTask
  <2>2. segments'[g].parent = segments[g].parent
    BY <1>2 DEF RowsKept
  <2> QED BY <2>1, <2>2 DEF LinearHistory
<1>3. CASE NoNewRow
  <2>1. ASSUME NEW g \in DOMAIN segments'
        PROVE  LET earlier == {h \in DOMAIN segments' : segments'[h].task = segments'[g].task /\ h < g}
               IN  IF earlier = {} THEN segments'[g].parent = 0
                   ELSE /\ segments'[g].parent \in earlier
                        /\ \A h \in earlier : h <= segments'[g].parent
    BY <1>2, <1>3 DEF NoNewRow
  <2>2. \A g : {h \in DOMAIN segments' : segments'[h].task = segments'[g].task /\ h < g}
                 = {h \in {i \in DOMAIN segments' : segments'[i].task = segments'[g].task} : h < g}
    OBVIOUS
  <2> QED BY <2>1, <2>2 DEF LinearHistory, SegmentsOfTask
<1>4. CASE NewRow(t, parent, now) /\ Continues(parent, t)
  <2> DEFINE n == Len(segments)
  <2>1. /\ DOMAIN segments' = 1..(n + 1) /\ RowsKept
        /\ segments'[n + 1].task = t /\ segments'[n + 1].parent = parent
    BY <1>4 DEF NewRow
  <2>2. {h \in DOMAIN segments' : segments'[h].task = segments'[n + 1].task /\ h < n + 1}
          = SegmentsOfTask(t)
    BY <1>1, <2>1 DEF RowsKept, SegmentsOfTask
  <2>3. ASSUME NEW g \in DOMAIN segments'
        PROVE  LET earlier == {h \in DOMAIN segments' : segments'[h].task = segments'[g].task /\ h < g}
               IN  IF earlier = {} THEN segments'[g].parent = 0
                   ELSE /\ segments'[g].parent \in earlier
                        /\ \A h \in earlier : h <= segments'[g].parent
    <3>1. CASE g \in DOMAIN segments
      BY <1>1, <1>2, <2>1, <3>1
    <3>2. CASE g = n + 1
      BY <1>4, <2>1, <2>2, <3>2 DEF Continues
    <3> QED BY <1>1, <2>1, <3>1, <3>2
  <2>4. \A g : {h \in DOMAIN segments' : segments'[h].task = segments'[g].task /\ h < g}
                 = {h \in {i \in DOMAIN segments' : segments'[i].task = segments'[g].task} : h < g}
    OBVIOUS
  <2> HIDE DEF n
  <2> QED BY <2>3, <2>4 DEF LinearHistory, SegmentsOfTask
<1> QED BY <1>3, <1>4

LEMMA TaskOrderStep ==
  ASSUME TypeOK, TypeOK', TaskOrder, clock <= clock', NEW t, NEW parent, NEW now,
         \/ NewRow(t, parent, now) /\ now \in 1..clock /\ TimesBefore(t, now)
         \/ NoNewRow
  PROVE  TaskOrder'
<1>1. /\ clock \in Nat /\ clock' \in Nat
      /\ \A g \in DOMAIN segments :
            g \in Nat /\ segments[g].startTime \in Nat /\ segments[g].endTime \in Nat
  BY TimesAreNat, SegmentCountIsNat, BoundAssumption DEF TypeOK
<1>4. ASSUME RowsKept, NEW g \in DOMAIN segments
      PROVE  /\ segments'[g].startTime <= clock'
             /\ segments'[g].endTime <= clock'
  BY <1>1, <1>4 DEF RowsKept, ClosedNow, TaskOrder
<1>5. ASSUME RowsKept, NEW g \in DOMAIN segments, NEW h \in DOMAIN segments,
             segments'[g].task = segments'[h].task
      PROVE  /\ g <= h => segments'[g].startTime <= segments'[h].startTime
             /\ g < h => segments'[g].endTime <= segments'[h].startTime
  <2>1. /\ segments[g].task = segments[h].task
        /\ segments'[g].startTime = segments[g].startTime
        /\ segments'[h].startTime = segments[h].startTime
    BY <1>5 DEF RowsKept
  <2>2. g < h => segments'[g].endTime = segments[g].endTime
    BY <1>1, <1>5, <2>1 DEF RowsKept, ClosedNow
  <2> QED BY <2>1, <2>2 DEF TaskOrder
<1>2. CASE NoNewRow
  BY <1>2, <1>4, <1>5 DEF NoNewRow, TaskOrder
<1>3. CASE NewRow(t, parent, now) /\ now \in 1..clock /\ TimesBefore(t, now)
  <2> DEFINE n == Len(segments)
  <2>1. /\ n \in Nat /\ DOMAIN segments = 1..n /\ DOMAIN segments' = 1..(n + 1)
        /\ RowsKept
        /\ \A h \in 1..n : segments'[h].endTime \in {segments[h].endTime, now}
        /\ segments'[n + 1].task = t /\ segments'[n + 1].startTime = now
        /\ segments'[n + 1].endTime = 0
    BY <1>3 DEF NewRow
  <2> HIDE DEF n
  <2>2. ASSUME NEW g \in 1..n, segments'[g].task = t
        PROVE  segments'[g].startTime <= now /\ segments'[g].endTime <= now
    <3>1. /\ segments[g].task = t /\ segments'[g].startTime = segments[g].startTime
          /\ segments[g].startTime <= now /\ segments[g].endTime <= now
      BY <1>3, <2>1, <2>2 DEF TimesBefore, RowsKept
    <3>2. now \in Nat
      BY <1>1, <1>3
    <3> QED BY <2>1, <3>1, <3>2
  <2>4. ASSUME NEW g \in 1..(n + 1)
        PROVE  segments'[g].startTime <= clock' /\ segments'[g].endTime <= clock'
    <3>1. CASE g \in 1..n
      BY <1>4, <2>1, <3>1
    <3>2. CASE g = n + 1
      BY <1>1, <1>3, <2>1, <3>2
    <3> QED BY <2>1, <3>1, <3>2
  <2>5. ASSUME NEW g \in 1..(n + 1), NEW h \in 1..(n + 1),
               segments'[g].task = segments'[h].task
        PROVE  /\ g <= h => segments'[g].startTime <= segments'[h].startTime
               /\ g < h => segments'[g].endTime <= segments'[h].startTime
    <3>1. CASE g \in 1..n /\ h \in 1..n
      BY <1>5, <2>1, <2>5, <3>1
    <3>2. CASE g \in 1..n /\ h = n + 1
      BY <2>1, <2>2, <2>5, <3>2
    <3>3. CASE g = n + 1
      <4>1. ~(g < h) /\ (g <= h => h = g)
        BY <2>1, <3>3
      <4>2. segments'[g].startTime <= segments'[g].startTime
        BY <1>1, <1>3, <2>1, <3>3
      <4> QED BY <4>1, <4>2
    <3> QED BY <2>1, <3>1, <3>2, <3>3
  <2> QED BY <2>1, <2>4, <2>5 DEF TaskOrder
<1> QED BY <1>2, <1>3

\* The predecessor of a segment that a rotation opened keeps its reason.
LEMMA HandoffStays ==
  ASSUME TypeOK, LinearHistory, RowsKept, NEW g \in DOMAIN segments, HandoffOpened(g)
  PROVE  HandoffOpened(g)'
<1> PICK p : p = segments[g].parent
  OBVIOUS
<1>1. p # 0 /\ segments[p].reason = "handoff"
  BY DEF HandoffOpened
<1>2. p \in {h \in SegmentsOfTask(segments[g].task) : h < g}
  BY <1>1 DEF LinearHistory
<1>3. p \in DOMAIN segments /\ segments[p].task = segments[g].task /\ p < g
  BY <1>2 DEF SegmentsOfTask
<1>4. ~(g <= p)
  BY <1>3, SegmentCountIsNat
<1>5. segments'[p].reason = segments[p].reason
  BY <1>3, <1>4 DEF RowsKept, ClosedNow
<1>6. segments'[g].parent = p
  BY DEF RowsKept
<1> QED BY <1>1, <1>5, <1>6 DEF HandoffOpened

\* What may end before it started, after a step.
LEMMA StaleEndsStep ==
  ASSUME TypeOK, TypeOK', LinearHistory, StaleEnds, NEW t, NEW parent, NEW now,
         NewRow(t, parent, now) \/ NoNewRow
  PROVE  StaleEnds'
<1>1. RowsKept /\ \A g \in DOMAIN segments' : g \in DOMAIN segments \/ segments'[g].endTime = 0
  BY DEF NewRow, NoNewRow
<1>2. ASSUME NEW g \in DOMAIN segments', segments'[g].endTime # 0,
             segments'[g].endTime < segments'[g].startTime
      PROVE  segments'[g].reason = "task_paused" \/ HandoffOpened(g)'
  <2>1. g \in DOMAIN segments
    BY <1>1, <1>2
  <2>2. segments'[g].startTime = segments[g].startTime
    BY <1>1, <2>1 DEF RowsKept
  <2>3. CASE segments'[g].endTime = segments[g].endTime /\ segments'[g].reason = segments[g].reason
    <3>1. segments[g].reason = "task_paused" \/ HandoffOpened(g)
      BY <1>2, <2>1, <2>2, <2>3 DEF StaleEnds, IsOpen
    <3> QED BY <1>1, <2>1, <2>3, <3>1, HandoffStays
  <2>4. CASE ClosedNow(g)
    <3>1. segments[g].startTime \in Nat /\ segments'[g].endTime \in Nat
      BY <1>2, <2>1, TimesAreNat, BoundAssumption, <2>4 DEF ClosedNow, TypeOK
    <3>2. segments'[g].reason = "task_paused" \/ HandoffOpened(g)
      BY <1>2, <2>2, <2>4, <3>1 DEF ClosedNow
    <3> QED BY <1>1, <2>1, <3>2, HandoffStays
  <2> QED BY <1>1, <2>1, <2>3, <2>4 DEF RowsKept
<1> QED BY <1>2 DEF StaleEnds, IsOpen

\* A task has one open segment at most.
LEMMA OpenIsOne ==
  ASSUME TypeOK, Ownership, NEW g \in DOMAIN segments, NEW h \in DOMAIN segments,
         IsOpen(g), IsOpen(h), segments[g].task = segments[h].task
  PROVE  g = h
<1>1. /\ g # 0 /\ h # 0
      /\ segments[g].session \in SessionId /\ segments[h].session \in SessionId
  BY SegmentRow, SegmentCountIsNat DEF ContextSegment
<1>2. /\ sessions[segments[g].session].segment = g
      /\ sessions[segments[h].session].segment = h
  BY DEF Ownership, OpenIsCurrent
<1>3. /\ Attached(segments[g].session) /\ sessions[segments[g].session].task = segments[g].task
      /\ Attached(segments[h].session) /\ sessions[segments[h].session].task = segments[h].task
  BY <1>1, <1>2 DEF Ownership, PointerWellFormed
<1> QED BY <1>1, <1>2, <1>3 DEF Ownership, SingleOwner

\* The token of a call that is still under way stays one.
LEMMA TokensStay ==
  ASSUME TypeOK, TypeOK', Ownership, LinearHistory, NEW call, WellFormedCall(call),
         ResumeToken(call), RotateToken(call), TransitionToken(call),
         NEW t, NEW parent, NEW now,
         \A u \in TaskId : RowAsBefore(u) \/ RowCreated(u) \/ RowUpdated(u),
         \/ /\ NewRow(t, parent, now)
            /\ tasks'[t].status = "active"
            /\ \A h \in DOMAIN segments : segments[h].task = t => segments'[h].endTime # 0
         \/ NoNewRow
  PROVE  ResumeToken(call)' /\ RotateToken(call)' /\ TransitionToken(call)'
<1>1. /\ call.task \in TaskId /\ call.version \in Nat /\ call.now \in Nat
      /\ tasks[call.task].version \in Nat
  BY DEF WellFormedCall, CallRecord, TypeOK, TaskRecord
<1>2. RowsKept
  BY DEF NewRow, NoNewRow
<1>3. ASSUME TimesBefore(call.task, call.now), call.task # t \/ NoNewRow,
             \A h \in DOMAIN segments : segments[h].task = call.task => ~ClosedNow(h)
      PROVE  TimesBefore(call.task, call.now)'
  BY <1>2, <1>3 DEF NewRow, NoNewRow, RowsKept, TimesBefore
<1>4. ResumeToken(call)'
  <2> SUFFICES ASSUME call.op = "resume"
               PROVE  ResumeToken(call)'
    BY DEF ResumeToken
  <2>1. /\ tasks[call.task].status # "absent"
        /\ call.version <= tasks[call.task].version
        /\ call.version = tasks[call.task].version =>
              tasks[call.task].status \in Resumable /\ TimesBefore(call.task, call.now)
    BY DEF ResumeToken
  <2>2. CASE RowUpdated(call.task)
    <3>1. call.version < tasks'[call.task].version /\ tasks'[call.task].version \in Nat
      BY <1>1, <2>1, <2>2 DEF RowUpdated
    <3> QED BY <1>1, <2>2, <3>1 DEF ResumeToken, RowUpdated
  <2>3. CASE RowAsBefore(call.task)
    <3>1. ASSUME call.version = tasks[call.task].version
          PROVE  TimesBefore(call.task, call.now)'
      <4>1. call.task # t \/ NoNewRow
        BY <2>1, <2>3, <3>1 DEF RowAsBefore, Resumable
      <4>2. \A o \in SessionId : sessions[o].task # call.task
        BY <1>1, <2>1, <3>1, NoneAssumption DEF Resumable, Ownership, PointerWellFormed, Attached
      <4>3. \A h \in DOMAIN segments : segments[h].task = call.task => ~ClosedNow(h)
        BY <1>1, <4>2, UnheldIsClosed DEF ClosedNow, IsOpen
      <4> QED BY <1>3, <2>1, <3>1, <4>1, <4>3
    <3> QED BY <2>1, <2>3, <3>1 DEF ResumeToken, RowAsBefore
  <2> QED BY <1>1, <2>1, <2>2, <2>3 DEF RowCreated
<1>5. RotateToken(call)'
  <2> SUFFICES ASSUME call.op = "rotate"
               PROVE  RotateToken(call)'
    BY DEF RotateToken
  <2>1. /\ call.segment \in DOMAIN segments
        /\ segments[call.segment].task = call.task
        /\ IsOpen(call.segment) => TimesBefore(call.task, call.now)
    BY DEF RotateToken
  <2>2. /\ call.segment \in DOMAIN segments'
        /\ segments'[call.segment].task = call.task
    BY <1>2, <2>1 DEF RowsKept
  <2>3. ASSUME segments'[call.segment].endTime = 0
        PROVE  TimesBefore(call.task, call.now)'
    <3>1. segments[call.segment].endTime = 0
      BY <1>2, <2>1, <2>3 DEF RowsKept, ClosedNow
    <3>2. call.task # t \/ NoNewRow
      BY <2>1, <2>3
    <3>3. ASSUME NEW h \in DOMAIN segments, segments[h].task = call.task, ClosedNow(h)
          PROVE  FALSE
      <4>1. h = call.segment
        BY <2>1, <3>1, <3>3, OpenIsOne DEF ClosedNow, IsOpen
      <4>2. segments'[h].endTime # 0
        BY <3>3, BoundAssumption DEF ClosedNow, TypeOK
      <4> QED BY <2>3, <4>1, <4>2
    <3> QED BY <1>3, <2>1, <3>1, <3>2, <3>3 DEF IsOpen
  <2> QED BY <2>2, <2>3 DEF RotateToken, IsOpen
<1>6. TransitionToken(call)'
  <2> SUFFICES ASSUME call.op = "transition"
               PROVE  TransitionToken(call)'
    BY DEF TransitionToken
  <2>1. /\ tasks[call.task].status # "absent"
        /\ call.version <= tasks[call.task].version
        /\ call.version = tasks[call.task].version =>
              \A g \in DOMAIN segments : segments[g].task = call.task /\ IsOpen(g) =>
                  segments[g].startTime <= call.now \/ HandoffOpened(g)
    BY DEF TransitionToken
  <2>2. CASE RowUpdated(call.task)
    <3>1. call.version < tasks'[call.task].version /\ tasks'[call.task].version \in Nat
      BY <1>1, <2>1, <2>2 DEF RowUpdated
    <3> QED BY <1>1, <2>2, <3>1 DEF TransitionToken, RowUpdated
  <2>3. CASE RowAsBefore(call.task)
    <3>1. ASSUME call.version = tasks[call.task].version,
                 NEW g \in DOMAIN segments', segments'[g].task = call.task,
                 segments'[g].endTime = 0
          PROVE  segments'[g].startTime <= call.now \/ HandoffOpened(g)'
      <4>1. CASE g \in DOMAIN segments
        <5>1. /\ segments[g].task = call.task /\ segments'[g].startTime = segments[g].startTime
              /\ segments[g].endTime = 0
          BY <1>2, <3>1, <4>1 DEF RowsKept, ClosedNow
        <5>2. segments[g].startTime <= call.now \/ HandoffOpened(g)
          BY <2>1, <3>1, <4>1, <5>1 DEF IsOpen
        <5> QED BY <1>2, <4>1, <5>1, <5>2, HandoffStays
      <4>2. CASE g \notin DOMAIN segments
        <5>1. /\ g = Len(segments) + 1 /\ NewRow(t, parent, now)
              /\ tasks'[t].status = "active"
          BY <3>1, <4>2 DEF NewRow, NoNewRow
        <5>2. segments'[g].task = t /\ segments'[g].parent = parent
          BY <5>1 DEF NewRow
        <5>3. parent # 0 /\ segments'[parent].reason = "handoff"
          BY <2>3, <3>1, <5>1, <5>2 DEF NewRow, RowAsBefore
        <5> QED BY <5>2, <5>3 DEF HandoffOpened
      <4> QED BY <4>1, <4>2
    <3> QED BY <2>1, <2>3, <3>1 DEF TransitionToken, RowAsBefore, IsOpen
  <2> QED BY <1>1, <2>1, <2>2, <2>3 DEF RowCreated
<1> QED BY <1>4, <1>5, <1>6

\* What any step of the calls does to the tasks and segments tables.
LEMMA TablesStep ==
  ASSUME TypeOK, TypeOK', Ownership, Ownership', History, CallsTyped, LinearInv,
         [CallNext]_callVars
  PROVE  /\ \A v \in TaskId : RowAsBefore(v) \/ RowCreated(v) \/ RowUpdated(v)
         /\ \E t, parent, now :
              \/ /\ NewRow(t, parent, now) /\ Continues(parent, t)
                 /\ now \in 1..clock /\ TimesBefore(t, now)
                 /\ tasks'[t].status = "active"
                 /\ \A h \in DOMAIN segments : segments[h].task = t => segments'[h].endTime # 0
              \/ NoNewRow
<1>1. CASE UNCHANGED <<tasks, segments, goals, goalChanges>>
  BY <1>1 DEF RowAsBefore, NoNewRow, RowsKept
<1>2. ASSUME NEW k \in Slot, Commit(k)
      PROVE  /\ \A v \in TaskId : RowAsBefore(v) \/ RowCreated(v) \/ RowUpdated(v)
             /\ \E t, parent, now :
                  \/ /\ NewRow(t, parent, now) /\ Continues(parent, t)
                     /\ now \in 1..clock /\ TimesBefore(t, now)
                     /\ tasks'[t].status = "active"
                     /\ \A h \in DOMAIN segments :
                           segments[h].task = t => segments'[h].endTime # 0
                  \/ NoNewRow
  <2> PICK call : call = calls[k]
    OBVIOUS
  <2>1. /\ WellFormedCall(call) /\ Perform(call)
        /\ ResumeToken(call) /\ RotateToken(call) /\ TransitionToken(call)
    BY <1>2 DEF Commit, CallsTyped, LinearInv, SegmentTokens
  <2>2. call.task \in TaskId
    BY <2>1 DEF WellFormedCall, CallRecord
  <2>3. TaskOrder
    BY DEF LinearInv
  <2> QED BY <2>1, <2>2, <2>3, PerformRows, CommitRows
<1> QED BY <1>1, <1>2, OnlyCommitsChange

LEMMA LinearStep ==
  ASSUME TypeOK, TypeOK', Ownership, Ownership', History, CallsTyped, LinearInv,
         StaleStamps = TRUE, [CallNext]_callVars
  PROVE  LinearInv'
<1>1. \A v \in TaskId : RowAsBefore(v) \/ RowCreated(v) \/ RowUpdated(v)
  BY TablesStep
<1>2. PICK t, parent, now :
        \/ /\ NewRow(t, parent, now) /\ Continues(parent, t)
           /\ now \in 1..clock /\ TimesBefore(t, now)
           /\ tasks'[t].status = "active"
           /\ \A h \in DOMAIN segments : segments[h].task = t => segments'[h].endTime # 0
        \/ NoNewRow
  BY TablesStep
<1>3. clock <= clock' /\ clock \in Nat /\ clock' \in Nat
  BY CallStepIsSerial, ClockIsMonotone, BoundAssumption DEF TypeOK
<1>4. TaskOrder'
  BY <1>2, <1>3, TaskOrderStep DEF LinearInv
<1>5. LinearHistory'
  BY <1>2, ChainStep DEF LinearInv
<1>8. StaleEnds'
  BY <1>2, StaleEndsStep DEF LinearInv
<1>6. ASSUME NEW k \in Slot, NEW call, call = calls'[k], call # NoCall
      PROVE  ResumeToken(call)' /\ RotateToken(call)' /\ TransitionToken(call)'
  <2>1. ASSUME call = calls[k]
        PROVE  ResumeToken(call)' /\ RotateToken(call)' /\ TransitionToken(call)'
    <3>1. /\ WellFormedCall(call)
          /\ ResumeToken(call) /\ RotateToken(call) /\ TransitionToken(call)
      BY <1>6, <2>1 DEF CallsTyped, LinearInv, SegmentTokens
    <3> QED BY <1>1, <1>2, <3>1, TokensStay DEF LinearInv
  <2>2. ASSUME NEW s \in SessionId, NEW v \in TaskId, call \in Calls(s, v), Sensible(call),
               UNCHANGED <<vars, goals, goalChanges>>
        PROVE  ResumeToken(call)' /\ RotateToken(call)' /\ TransitionToken(call)'
    <3>1. /\ call.session = s /\ call.task = v
          /\ call.op # "update" => call.now = clock
          /\ call.op \in {"resume", "transition"} => call.version = tasks[v].version
          /\ call.op = "rotate" => call.segment = sessions[s].segment
      BY <2>2, CallsAreWellFormed
    <3>2. TimesBefore(v, clock) /\ tasks[v].version \in Nat
      BY DEF LinearInv, TaskOrder, TimesBefore, TypeOK, TaskRecord
    <3>3. ResumeToken(call)
      BY <2>2, <3>1, <3>2 DEF ResumeToken, Sensible, Resumable
    <3>4. call.op = "rotate" => sessions[s].task = v
      BY <2>2, <3>1 DEF Sensible
    <3>5. RotateToken(call)
      BY <3>1, <3>2, <3>4, NoneAssumption DEF RotateToken, Ownership, PointerWellFormed, Attached
    <3>6. TransitionToken(call)
      <4>1. call.op = "transition" => sessions[s].task = v
        BY <2>2, <3>1 DEF Sensible
      <4>2. call.op = "transition" => tasks[v].status # "absent"
        BY <4>1, NoneAssumption DEF Ownership, PointerWellFormed, Attached
      <4> QED BY <3>1, <3>2, <4>2 DEF TransitionToken, TimesBefore
    <3> QED BY <2>2, <3>3, <3>5, <3>6
            DEF vars, ResumeToken, RotateToken, TransitionToken, HandoffOpened, TimesBefore, IsOpen
  <2>3. ASSUME calls[k] # NoCall, calls[k].op = "update",
               call = [calls[k] EXCEPT !.stored = goals[calls[k].task]]
        PROVE  ResumeToken(call)' /\ RotateToken(call)' /\ TransitionToken(call)'
    <3>1. call.op = "update"
      BY <2>3, ReadCallFields DEF CallsTyped, WellFormedCall, CallRecord
    <3> QED BY <3>1 DEF ResumeToken, RotateToken, TransitionToken
  <2> QED BY <1>6, <2>1, <2>2, <2>3, SlotStep
<1>7. SegmentTokens'
  BY <1>6 DEF SegmentTokens, ResumeToken, RotateToken, TransitionToken, NoCall, TimesBefore,
              HandoffOpened, IsOpen
<1> QED BY <1>4, <1>5, <1>7, <1>8 DEF LinearInv

LEMMA LinearInvHolds ==
  ASSUME StaleStamps = TRUE
  PROVE  CallSpec => []LinearInv
<1>1. CallInit => LinearInv
  BY DEF CallInit, Init, LinearInv, TaskOrder, StaleEnds, SegmentTokens, LinearHistory
<1>2. ASSUME TypeOK, TypeOK', Ownership, Ownership', History, CallsTyped, LinearInv,
             [CallNext]_callVars
      PROVE  LinearInv'
  BY <1>2, LinearStep
<1>3. CallSpec => []History
  BY SerialLifecycleHolds, HistoryHolds, PTL DEF SerialLifecycle, Spec
<1> QED BY <1>1, <1>2, <1>3, CallInvHolds, PTL DEF CallSpec

\* Resumes and rotations that overlap, with clock readings in any order, still
\* leave the segments of a task as one chain in commit order: a stale call finds
\* its version or its segment gone.
THEOREM LinearHistoryHolds ==
  ASSUME StaleStamps = TRUE
  PROVE  CallSpec => []LinearHistory
<1>1. LinearInv => LinearHistory
  BY DEF LinearInv
<1> QED BY <1>1, LinearInvHolds, PTL

\* With clock readings in any order the life of a task is still a sequence of
\* intervals, of which one may end before it started only as stated: resumes and
\* transitions name a version, rotations a segment, that no older call can know.
THEOREM TaskTimelineHolds ==
  ASSUME StaleStamps = TRUE
  PROVE  CallSpec => []TaskTimeline
<1>1. TypeOK /\ LinearInv => TaskTimeline
  <2> SUFFICES ASSUME TypeOK, LinearInv
               PROVE  TaskTimeline
    OBVIOUS
  <2>1. ASSUME NEW g \in DOMAIN segments, NEW h \in SegmentsOfTask(segments[g].task), h < g
        PROVE  segments[h].endTime <= segments[g].startTime
    BY <2>1 DEF LinearInv, TaskOrder, SegmentsOfTask
  <2> QED BY <2>1 DEF LinearInv, StaleEnds, HandoffOpened, TaskTimeline
<1> QED BY <1>1, LinearInvHolds, CallInvHolds, PTL

=============================================================================
