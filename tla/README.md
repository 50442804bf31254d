# A TLA+ verification project for chris-hermes-agent

chris-hermes-agent is a context-engine plugin for the Hermes agent. An Agent works on
durable *tasks*; each stretch of work on a task in a Hermes session is a *context
segment*; a *checkpoint* holds what is needed to go on; a *handoff* ends a segment and
starts the next one, so that the next provider request begins with a short bootstrap
instead of the old trace. When a request grows over an explicit limit anyway, *emergency
compression* replaces it by an archived and verified summary. Everything durable is in
one SQLite database and a directory of archive files.

The models are read off `src/chris_hermes_agent/`. `PROJECT.json` maps every definition
that models code to its lines. A path without a directory below is in that package.

## 1. Inventory

| Part | State it keeps | Operations | Depends on |
|---|---|---|---|
| Task service (`task_service.py`) | none of its own | create, update, pause, resume, block, complete, cancel, append_event, get, list, search | repository |
| Checkpoint service (`checkpoint_service.py`) | none | create_checkpoint | repository |
| Handoff service (`handoff_service.py`) | none | rotate | repository |
| Repository (`store.py`) | one connection, one RLock; tables tasks, task_events, checkpoints, context_segments, session_context_state | transaction, reads and writes of rows | SQLite |
| Search index (`store.py`) | one document per task, in a fallback table and, where SQLite can, in a trigram table | refreshed by some writes of the repository; queried | repository |
| Emergency service (`emergency.py`) | archive files | compress, restore, load_archive | repository, the host's ContextCompressor |
| Context engine (`context_engine.py`) | session id, last selection, emergency status and summary, usage counters, policy in force | select_context, should_compress, compress, handle_tool_call, session start and reset, update_model, update_from_response | all of the above, policy |
| Context builder (`context_builder.py`) | none | bootstrap, tail of the segment, runtime status with an estimate of the request | |
| Policy (`policy.py`, `models.py`) | none | resolve thresholds for a model and a context limit | configuration |
| Token usage (`token_usage.py`) | none | normalise provider counters | |
| Tool handlers (`task_tools.py`) | a repository opened lazily | JSON in, JSON out | services |
| Migrations (`migrations.py`) | schema version, search backend, journal mode | initialize_database | SQLite |
| Rollout script (`scripts/`) | a backup directory | backup, rollback | sqlite3, systemctl |

How they interact. A tool call reaches a service, which runs one `BEGIN IMMEDIATE`
transaction on its repository; the tool handlers and each context engine may have their
own repository on the same file, in the same process or in others, and are serialised by
SQLite's write lock (and, on one connection, by the RLock). The first call on a
connection opens the file and brings its schema up to date. For every provider request
Hermes calls `select_context`, which reads the session's pointer, segment, task and
checkpoint by separate queries, finds where the segment begins in the conversation that
Hermes keeps, appends a Runtime Status, and remembers the request. `compress` works on
that remembered request.

What is hard: calls of several sessions, threads and processes on the same tasks; clock
readings, and goals to compare with, that are taken before a transaction is waited for; a
commit that fails; processes that create or migrate one file at once and die half-way; a
process that dies between an archive file and the event that tells of it; a selection
whose queries see different transactions; a conversation that is rewound under durable
cursors that point into it; a summary that takes long while the services close the
segment it is made for; a model or a limit that changes under settings, thresholds and
usage.

What makes each part correct:

- services: a task belongs to at most one session, pointers, active tasks and open
  segments agree, no tool call changes a finished task or a closed segment, every segment
  continues the right one from a checkpoint of its own task, after a pause from the one
  it was paused with, the log tells of it and of every change of the goal;
- recency: "the newest segment" is the one opened last, and the times of a task's segments
  are in the order of the segments;
- search index: a task is found by what it is, not by what it was;
- repository: a call is all or nothing, and an error is nothing;
- start-up: a repository that is handed out is complete and agrees with the others;
- emergency: one attempt per segment, a log that follows the files and of a finished task
  only takes the outcome of an attempt that was under way, a summary served only for the
  conversation it was made of, and found again after a restart;
- selection: a request keeps what belongs to its segment and no other task's turns, and
  separate reads build no request for a segment nobody was in;
- policy and status: one entry decides, its thresholds fit the limit, a status shows its
  own estimate and a usage only if it is the last request's.

## 2. Modules

| Module | What it models | Extends |
|---|---|---|
| `TaskLifecycle` | the tables and every operation of the three services, one action each | |
| `TaskLease`, `TaskLeaseRefinement` | what the services promise about tasks with the tables taken away, and the refinement mapping | `TaskLifecycle` |
| `TaskSearch` | the search document of every task, refreshed by the writes that refresh it | `TaskLeaseRefinement` |
| `TaskCalls` | calls that overlap: observe, read the clock and the goal, wait, run | `TaskLifecycle` |
| `StoreTransaction` | `transaction()`: RLock, BEGIN, body, rollback, commit, and what escapes it | |
| `DatabaseStartup` | `initialize_database`, statement by statement, in several processes, before and among the calls | `StoreTransaction` |
| `EmergencyCompression` | engines, archives, attempts, faults, over the services | `TaskLifecycle` |
| `SelectionReads` | `select_context` split at its queries, over engines, archives and services | `EmergencyCompression` |
| `ContextSelection` | conversations, cursors and the boundary of a segment | `TaskLifecycle` |
| `PolicyResolution` | the parser's checks in their order, the choice of an entry, thresholds in tokens; pure operators | |
| `RuntimeStatus` | model switches, requests, answers, the status and its estimate | `PolicyResolution` |
| `TaskLifecycle_proofs`, `TaskHistory_proofs`, `TaskSearch_proofs`, `TaskCalls_proofs`, `DatabaseStartup_proofs`, `SelectionReads_proofs`, `ContextSelection_proofs`, `RuntimeStatus_proofs` | theorems (section 5) | the module they are about, and the proofs they build on |
| `MC*` | instances for TLC: symmetry, views, constants that are functions or sets of settings | |

**TaskLifecycle.** `tasks`, `sessions`, `segments`, `checkpoints` and `events` are the
tables; `segments` and `checkpoints` are sequences in rowid order and an id is a position.
A row carries what guards and properties read. Since an operation is one transaction that
starts with `BEGIN IMMEDIATE`, it is one action, with the pause of the session's current
task inside it; a check that fails raises and rolls back, so it is a disabled action. An
expected version or segment is a parameter of the action: alone, the specification passes
the version just read, and in `TaskCalls` the one observed earlier. `CorruptCheckpoint`
is the environment. `StaleStamps` says whether a commit may carry an old clock reading.
An Agent may append events of any type, those the services log too; the field `byService`
keeps the two apart for the properties, the database does not.

**TaskLease.** A task is absent, free, finished or leased. `LeaseProtocol` says that
`TaskLifecycle` implements it: the lease of an active task is the session that points at
it, and create and resume, which pause one task and take another in one transaction, are
one `Acquire`.

**TaskSearch.** A document is abstracted to the rows it is built from: the version of the
task, its latest checkpoint and the events whose text is searched. Some repository calls
rebuild it (a row written, a checkpoint, some types of event), others do not; the
condition under which a step rebuilds it is taken from them, and `IndexFresh` says that
the ones that do not have nothing to rebuild.

**TaskCalls.** `Begin` records what a call observed and its clock reading, `ReadGoal` is
`update_task`'s read of the stored goal before its transaction, `Commit` runs the same
action of `TaskLifecycle` later with these arguments, `Fail` is a call whose checks
failed. Any number of other calls may commit in between.

**StoreTransaction, DatabaseStartup.** A call is a program counter through
`store.py:92-106`; the body is two writes, enough to tell half a body from a whole one. A
connection starts closed; the first call on it goes through the statements of
`initialize_database`, on a file that is absent, of the older schema, or newer than the
code. Two tables stand for all those that are created alike: `plugin_metadata`, which the
others do not need, and `context_segments`, whose added column is a statement of its own.
A call ends as `"ok"` or `"error"`, its reply, or as `"raised"`: an exception that is no
`Exception` escapes the handlers' `except` (`task_tools.py:282`) and reaches the host
without a reply.
SQLite is external: one write lock, and a commit that waits for readers, which is what the
rollback journal does that `migrations.py` selects for the affected versions.

**EmergencyCompression.** `compress` is six steps, each durable by itself: the archive
file, the transaction that binds it, the summary and the replaced file, the transaction
that logs the outcome, the engine's memory. A fault may come between any two. A checksum
of a conversation is modelled as the conversation. `Select` is the part of `select_context`
that synchronises the engine with the archive, as one step; whether a request exceeds the
threshold is left open, so every eligible request may be compressed. The log of attempts,
`attempts`, is the part of `task_events` that the emergency service writes; `events` of
`TaskLifecycle` is the part that services and Agents write.

**SelectionReads.** The same selection as five queries and an answer; tools of the same or
another process commit between them. `overlap` records, for the properties only, which
cuts a selection made in one moment would have chosen while this one read, and whether the
session's pointer moved.

**ContextSelection.** A conversation is a sequence of user messages, work and tool calls.
A message carries the segment it was written in and the segment it opened, for the
properties; the operators that model the code (`Boundary`, `ActivationTurnStart`, ...)
look at neither, but for the anchor of a handoff, whose checksum covers them. `Kept` is
the tail a request keeps.

**PolicyResolution, RuntimeStatus.** Settings are records of what the parser tells apart;
`SweetZoneChecks`, `EmergencyChecks` and `OrderCheck` are its checks in order, of which
the first that fails is reported. `RuntimeStatus` has the engine's halves that keep the
policy, the usage and the session, and the search for an estimate that fits the status
that states it. A text is its length. A request is built on any of `Histories`, which may
hold statuses anywhere: only the one at the tail is replaced.

## 3. Runs

Bounds are constants named `Max...`; they only switch actions off.

| Run | Bounds | What it shows |
|---|---|---|
| `ownership` | 2 tasks, 2 sessions, 3 segments, 2 checkpoints, 1 update, 2 notes (2.4 million states) | types; `Ownership`; `Lineage`; `StatusExplained`; `Traceable`; `ResumesWherePaused`; `IndexFresh`; `ToolsLeaveFinished`; `ClosedIsFinal`; `LeaseProtocol` |
| `serial` | 2 overlapping calls, 2 tasks, 2 sessions, 3 segments, 2 goals, 2 readings (0.7 million) | `SerialLifecycle`: overlapping calls are equivalent to calls in some order, with old clock readings; `LinearHistory`, `TaskTimeline` and `GoalHistory` even so |
| `recovery` | 2 overlapping calls, 1 session | **violated**: `RecoverySkipsNothing` |
| `transaction_faults` | 3 calls, 2 connections, faults on one, 2 deaths during a start | `StartedIsUsable`; `WholeCallsDurable`, `HealthyIsAtomic`, `ErrorIsNotDurable`; `EveryCallEnds` and `WriteLockReleased` |
| `transaction_rollback` | the same, no deaths, a COMMIT that raises as the only fault | **violated**: `FailedLeavesNothing` |
| `emergency_engines` | 2 engines, one with faults, 1 segment, 2 archives | `OneAttemptPerSegment`, `LogFollowsArchives`, `NeverResummarised`, `ArchiveIsImmutable`, `FinishedOnlySettles`, `AttemptsSettle` |
| `selection_reads` | 1 engine with restarts, 1 task, 3 segments, 2 messages, 1 archive, no commit with an old reading (3.2 million) | `RequestIsOneCut`, `NoFalseAlarm`; `ServedIsVerified` and `CompletedIsRestored`, though the archive is read after the segment may have been closed |
| `selection_rewound` | 2 tasks, 3 segments, 5 messages, refused calls and rewinds (1.7 million) | `IsolatedWhileInPlace`, `HandoffCutsHistory` |
| `selection_history` | 6 messages, rewinds | **violated**: `NoForeignTurns` |
| `selection_activation` | 5 messages, refused calls | **violated**: `OwnTurnsKept` |
| `selection_switch` | 4 messages | **violated**: `PriorHistoryOmitted` |
| `runtime_status` | some hundred settings, 5 reports of model, provider and limit, 4 requests with one of the settings (0.4 million) | `ThresholdsInOrder`, `MostSpecificPolicy`, `EstimateIsOwn`, `UsageIsOfLastRequest` |

Why the bounds are enough for what they are for. Two tasks and two sessions give every
competition the guards speak of: a task taken from under a call, a session that switches,
a task with and without an owner. Three segments allow open, rotate and resume of one
task around another.
Ordering by time needs two readings. Two goals and two updates that overlap are what
`GoalHistory` is about. In `transaction_faults` two calls share a connection
(one may join what the other left open) and the third competes for the write lock and for
the start; two deaths are one in each of two attempts. Two
archives are two attempts for one segment. In `selection_reads` three segments are two
cuts while one selection reads. Five messages hold a turn that creates each of
two tasks and a message after them; `selection_history` needs a sixth for the turn that
is taken back. The settings of `runtime_status` are of three kinds: one policy in every
combination of its fields (absent, malformed, each kind of threshold, ratios that round
to 0 and to the same number of tokens for a limit of 2), every set of keys that may match
(exact, two patterns of equal length, a shorter one, provider, default), a malformed entry
with a well-formed less specific one, and refused ones.
What Hermes assembles puts the first estimate just below 10 and just below 100, where the
status grows by a digit when it states it, and ends in an older status, with another one
before it or not. `selection_switch` needs no more than a turn with work on one task and
the call that creates the next.

The newest segment by time is the last one opened only when clock readings and commits
are in the same order, which the code does not ensure: `recovery` is the counterexample,
and the theorem `NewestIsRecoveredHolds` the case that is left. `LinearHistory` does not
depend on it, since a resume or rotation of one task has to name a version or segment that
a competing call would have replaced.
`TaskTimeline` says what becomes of the recorded times: a segment may end before it
started, when a switch that read the clock earlier closes it (a switch names no version of
the task it leaves), or when a rotation had opened it (a rotation leaves the version as it
was, so an older transition still fits); in no other case, and never is there an overlap
with an earlier segment of the task.

Nothing freezes the log of a finished task as a whole. `ToolsLeaveFinished` is about tools;
emergency compression does not look at the task when it logs an outcome, and
`FinishedOnlySettles`, of the run that has both, bounds what it can add.

Symmetry is used where no liveness property is checked. A VIEW leaves out the event
logs and counters where no guard and no property of the run reads them, and the last
answer in `selection_reads`, which only the properties of steps read; in the runs of
`ContextSelection` it takes a create and a resume call of a task for the same message,
since the code that looks for either does. `CHECK_DEADLOCK
FALSE` because the bounds end every behaviour, and an Agent that makes no more calls is
no error.

Each property has a mutant in `PROJECT.json`: a change of one definition, named "Plausible
bug" in the module, with which the run fails.

**Fairness.** `DatabaseSpec` (and `StoreTransaction`): strong fairness of the steps of a
call, its start included, since the RLock goes to a waiting thread and SQLite's busy
handler retries while other connections come and go; a query ends (weak fairness). Neither
forces a faulty connection to do anything, and a call that cannot begin is answered by the
busy timeout. `EmergencyCompression`: weak fairness of a `compress` that has bound its
archive: the external summariser returns or raises and the code after it is straight.
Nothing makes an engine begin, and no fairness is put on users, Agents, services, deaths
or faults. The other modules state safety only.

**Assumptions about what is outside.** Hermes makes one request at a time for an engine
and changes the session between requests; it may change the model while a request is
under way, and an answer may be lost. The host's base class clears its own counters on a
reset. The rough estimator counts characters divided by a constant, taken as 2. A ratio is
an exact fraction, a double in the code. All processes have the same SQLite build
(`HasTrigram`), and the rollback journal is in use, the harder of the two. An Agent names
a version it has observed; one that predicts the version its own parallel update will
produce could still make `update_task` log a goal that was never replaced. Stored
content that stops matching its checksum is not re-indexed, and the search document's limit of 50
events is not reached.

## 4. Where the code and its documents differ

1. `recovery` - `store.py:384`. Recovery takes the newest segment by `start_time`, read
   before the transaction is waited for. A call that reads the clock first and commits
   last is taken for the older one, and a checkpoint-backed segment of another task hides
   it. `README.md:57` promises that no newer uncheckpointed task is skipped.
2. `transaction_rollback` - `store.py:104`. A COMMIT that raises is in the `else` clause,
   out of reach of the `except` that rolls back. It is the only fault of the run, and the
   trace ends with it (`CommitRaises`: a reader of another connection outlasts the busy
   timeout). The connection stays in the transaction:
   the failed writes are visible to its later calls, which join the transaction and answer
   ok, until the connection is closed. `ErrorIsNotDurable` and `HealthyIsAtomic`
   bound the damage: none of it is ever committed, and other connections keep their word.
   `skills/context-handoff/references/task-state-rules.md:98` relies on the rollback.
3. `selection_history` - `context_engine.py:845`. The boundary of a resumed segment is
   searched in the conversation. When the turn of the resume was taken back, the older
   create call of the same task is found, and the turns of the task in between are kept.
   `context_engine.py:239` promises never to fail open to old history.
4. `selection_activation` - `context_engine.py:881`. The search looks at arguments and not
   at results: a refused create or resume that names the active task is taken for the call
   that opened its segment, and the segment's earlier turns are dropped.
   `context_engine.py:844` speaks of the turn that owns the segment.
5. `selection_switch` - `context_engine.py:862`. The boundary of a created task is the user
   message before the call that created it. What the Agent did for another task earlier in
   that turn stays in the request, behind the text of `context_builder.py:180`: "prior
   Task history was omitted". `IsolatedWhileInPlace` is what does hold: it is that one
   turn.

## 5. Proofs

All hold for any sets of tasks, sessions, calls, connections, engines, messages, goals and
settings, and for any bounds.

| Theorem | Module | Says |
|---|---|---|
| `TypeCorrect` | `TaskLifecycle_proofs` | `Spec => []TypeOK` |
| `OwnershipHolds` | | `Spec => []Ownership` |
| `ClosedIsFinalHolds` | | `Spec => ClosedIsFinal` |
| `ToolsLeaveFinishedHolds` | | `Spec => ToolsLeaveFinished` |
| `LineageHolds` | `TaskHistory_proofs` | `Spec => []Lineage` |
| `StatusExplainedHolds` | | `Spec => []StatusExplained` |
| `TraceableHolds` | | `Spec => []Traceable` |
| `ResumesWherePausedHolds` | | `Spec => []ResumesWherePaused` |
| `NewestIsRecoveredHolds` | | `Spec => []NewestIsRecovered`, if `StaleStamps = FALSE` |
| `LeaseProtocolHolds` | `TaskSearch_proofs` | `Spec => LeaseProtocol`, the refinement |
| `IndexFreshHolds` | | `SearchSpec => []IndexFresh` |
| `SerialLifecycleHolds` | `TaskCalls_proofs` | `CallSpec => SerialLifecycle`, if `StaleStamps = TRUE` |
| `GoalHistoryHolds` | | `CallSpec => []GoalHistory`, if `StaleStamps = TRUE` |
| `LinearHistoryHolds` | | `CallSpec => []LinearHistory`, if `StaleStamps = TRUE` |
| `TaskTimelineHolds` | | `CallSpec => []TaskTimeline`, if `StaleStamps = TRUE` |
| `DatabaseTypeCorrect` | `DatabaseStartup_proofs` | `DatabaseSpec => []DatabaseTypeOK` |
| `WholeCallsDurableHolds`, `ErrorIsNotDurableHolds`, `HealthyIsAtomicHolds` | | `DatabaseSpec => []WholeCallsDurable`, `[]ErrorIsNotDurable`, `[]HealthyIsAtomic` |
| `StartedIsUsableHolds` | | `DatabaseSpec => []StartedIsUsable` |
| `EmergencyTypeCorrect` | `SelectionReads_proofs` | `[]EmergencyTypeOK`, of `EmergencySpec` and of `ReadsSpec` |
| `OneAttemptPerSegmentHolds`, `LogFollowsArchivesHolds`, `NeverResummarisedHolds`, `ServedIsVerifiedHolds` | | the invariant in the name, of both |
| `ArchiveIsImmutableHolds` | | `ArchiveIsImmutable`, of both |
| `FinishedOnlySettlesHolds` | | `FinishedOnlySettles` and `ToolsLeaveFinished`, of both |
| `CompletedIsRestoredHolds` | | `CompletedIsRestored`, of both, if `"storage" \notin Faults` |
| `NoFalseAlarmHolds` | | `ReadsSpec => NoFalseAlarm` |
| `RequestIsOneCutHolds` | | `ReadsSpec => RequestIsOneCut`, if `StaleStamps = FALSE` |
| `SelectionTypeCorrect` | `ContextSelection_proofs` | `SelectionSpec => []SelectionTypeOK` |
| `IsolatedWhileInPlaceHolds`, `HandoffCutsHistoryHolds` | | `SelectionSpec => []IsolatedWhileInPlace`, `[]HandoffCutsHistory` |
| `NoForeignTurnsHold` | | `SelectionSpec => []NoForeignTurns`, if `Rewinds = FALSE` |
| `RuntimeTypeCorrect` | `RuntimeStatus_proofs` | `StatusSpec => []RuntimeTypeOK` |
| `ThresholdsInOrderHolds`, `MostSpecificPolicyHolds`, `EstimateIsOwnHolds` | | the invariant in the name, of `StatusSpec` |
| `UsageIsOfLastRequestHolds` | | `StatusSpec => UsageIsOfLastRequest` |

Assumptions, all named in the modules that declare the constants: `NoneAssumption` (NULL
is no id), `BoundAssumption` (the bounds are numbers, there is at least one clock reading),
`StampAssumption`, `HolderAssumption` (a session is not one of the words for a lease),
`GoalAssumption` (there is a goal, and NULL is none), `TransitionsAssumption`,
`HomeAssumption`, `CallAssumption` and `FaultAssumption` (who calls on which connection),
`StartAssumption`, `BackendAssumption` (NULL is no backend), `FaultsAssumption`,
`KeyAssumption` and `RuntimeAssumption` (settings, reports and usage mappings are of the
kinds the code receives; a settings record has finitely many model entries; what Hermes
assembles is any sequence of messages, statuses among them).

Three hypotheses are real restrictions. `StaleStamps = FALSE` is one: the run `recovery`
shows what happens otherwise. `CompletedIsRestored` needs storage that does not fail while
an archive is read, since an attempt that cannot be read counts as failed; and the run
`selection_history` is `NoForeignTurns` without `Rewinds = FALSE`. The theorems with
`StaleStamps = TRUE` are the ones about any clock readings.

One restriction is in a specification and not in a hypothesis: in `ContextSelection` the
clock never ticks, so the order of time stamps is there the order of commits, and its
theorems say nothing of a selection after two calls of the session crossed each other
(that case is `recovery`). `EstimateIsOwnHolds` does not claim that a status is the only
one of its request, see section 6.

*Ownership.* It is inductive together with `TypeOK`, but none of its four parts is by
itself. That a switch leaves no open segment behind (`OpenIsCurrent`) needs that the
segment it closes is the one the session points at (`PointerWellFormed`); that the task it
takes is nobody's needs that only active tasks are pointed at; that the task it leaves is
not left active needs `ActiveIsOwned`, and `SingleOwner` that no other pointer goes stale.
All operations are of three shapes (`StepShapes`): a session opens a segment (`Opens`:
create, resume, rotate), gives its task back (`Releases`: pause, transition), or no row
that matters changes (`QuietStep`). The later proofs use the shapes and not the
operations. `ClosedIsFinal` follows since an operation only closes the segment its session
points at, which is open; `ToolsLeaveFinished` since every operation that writes to a task
needs a pointer to it, or a resumable or absent status.

*The lease refinement.* `LeaseAgrees` follows from `Ownership`: a task's lease is the one
session that points at it. An `Opens` of a task nobody holds is then an `Acquire`, of the
held one a stutter, and a `Releases` is a `Release` or a `Finish`.

*History.* Three properties need to know which row is the last: `History` says that a task
has a segment exactly when it has a row, and that the segment a session points at is the
last one of its task and of the session. With it, `Lineage` is inductive (a parent is a
closed row of the same task because resume takes an unheld task and rotate closes the row
it continues), and so is `Explained`, of which `StatusExplained` is the visible part.

*Pauses.* `ResumesWherePaused` compares two events of a log with a row, and needs what the
tables say between the two: `Pauses` adds that, as long as a pause is the last of a task's
continuations in its log, the task is nobody's and the checkpoint that the event names is its latest.
That stays so because a checkpoint is only made for a task that is pointed at
(`Ownership`), and the resume that finds it writes it into the row its event names.

*The logs.* Which types of event a step can add to which log is a lemma per operation
(`LogsOnly`). `Traceable` compares, for each task, the places of the log that name a
segment with the rows that continue one; a step either changes neither (`QuietTrace`,
`SilentTrace`) or adds the last element of both (`ContinuedTrace`), and that the new one is
the last is again `History`. `IndexFresh` is inductive with one more fact: a task without
a row has no log. Every step rebuilds the document from the row it leaves, or leaves
the row alone; a step that adds a searched event rebuilds it from the log it leaves.

*Time.* Without old readings `TimeInOrder` is inductive: rows start in rowid order and not
in the future, so ORDER BY start_time DESC, rowid DESC returns the last row
(`LatestIsLast`).

*Overlapping calls.* `WellFormedCall` says what a waiting call may rely on: an earlier
clock reading and a checkpoint that still exists. With it a `Commit` is a step of
`TaskLifecycle` (`CommitIsOperation`), and all theorems about `Spec` carry over to
`CallSpec`. `GoalHistory` and `LinearHistory` are about tokens. A row of `tasks` changes
only with its version (`PerformRows`), so an update whose version still fits has read the
goal of now (`UpdateToken`), and a resume whose version still fits has a reading no older
than any segment of its task (`ResumeToken`); a rotation has one as long as the segment it
names is open (`RotateToken`), because whatever else opens a segment of that task closes
it first (`CommitRows`). So rows of one task stay in the order of their start times
whatever the clock does, and the parent a resume finds by time is the last one. For
`TaskTimeline` a transition has such a token too (`TransitionToken`), which a rotation does
not renew; `StaleEnds` is the exception that is left.

*Transactions and starts.* `TransactionInv` has nine parts: who holds a connection's lock
and SQLite's (`LockHeld`, `OneWriter`), that an open transaction holds only writes of
calls on its connection which did not end well (`PendingIsOwn`), that a call in the body
finds its own writes there (`BodyIsPending`), that a call which owns the transaction is
alone in it (`OwnerIsAlone`), that a start has its connection to itself (`StartIsAlone`)
and that a connection without faults has nothing left open (`HealthyIsClosed`). The three
properties are parts of it or follow. All steps of a call have one form (`Becomes`: one
new stage, one lock, one pending set), and what such a step must respect (`Sound...`) is
proved once. `StartedIsUsable` needs how much of the schema is there at each stage of a
start (`Reached`): other connections only add to it, and the one that records the backend
holds the write lock.

*Emergency compression.* One invariant, `EmergencyInv`, for both specifications, whose
steps on the archives and on an engine's memory are the same (`MemoryStep`). It says which
archives can be bound and logged (`ArchivesInv`, `LogInv`), that no two engines work on one
archive (`OwnArchives`), what each of the six stages of `compress` has left behind
(`WorkingOf`), and of what a summary in memory was made (`MemoryOf`). It is not inductive
without `WorkingOf`: that an outcome is written to the file before it is logged is known
only of the engine between the two steps. `FinishedOnlySettles` is a consequence: an
archive can be bound only while a session points at its segment, so its task is active,
and an outcome follows the event that says it was bound.

*Selections that read.* `ReadingInv` says what a selection knows after each query.
`UnmovedInv`: as long as the session's pointer has not moved, what was read of it is what
it is, so a contradiction seen then would be one of the tables, and `Ownership` says there
is none. `CutsInv`: the segment read is one of those a selection in one moment would have
chosen meanwhile; the latest segment is the last row by `TimeInOrder`.

*The boundary of a segment.* In `SelectionInv`, next to the services' invariants:
`MessagesTraced` (a message names segments of its session, and the call that opened one is
an activation of its task or set its cursor), `OpeningsFirst` (what is written after the
call that opened a segment was written in that segment or a later one),
`CursorsAnchored`, and `SameTime`, since the clock stands still in this module. The
selected segment is then the last of its session (`SelectedIsLast`), and whatever follows
its opening call was written in it (`AfterOpening`). Both theorems are the four cases of
`Boundary`: an anchor is the opening call; between the turn an activation search ends
at and the last activation no user speaks (`ActivationTurnPlace`), so a later user message
follows the opening call as well; and after the latest user turn there is no user message
at all. Without rewinds the opening call stays (`OpeningsKept`).

*Policy.* `PolicyInv`: what is in force is what `Resolve` returns for the model and limit
in force. The rest is about `Resolve`: an error is empty exactly when no check of any group
fails, a ratio or count that is accepted is the number of tokens in force, and of the entries that
apply the most specific tier is not empty, its longest patterns exist since there are
finitely many, and a single one is what `_select_candidate` takes.

*The estimate.* The loop of `append_runtime_status` is a recursive function on the rounds,
and induction over the rounds is done in set form: a set of rounds that holds 0 and with
each round the next one has no least round missing (well-foundedness of `<` on the
naturals). After round n the estimate is its own, or its status had at least n characters:
each round that changes the estimate raises it and so makes the status longer by one
character or more. A status has at most 30, and there are 32 rounds. `Digits` is exact
up to the 10 digits of 2^31 - 1 and stays at 10 beyond; no context limit is near it.

*The usage.* `UsageInv`: a usage that is not awaited was reported by the model in force,
in this session, for the last request with a status or a later one; every operation that
changes one of the three clears it or awaits a new one.

Only model-checked: `AttemptsSettle`, `EveryCallEnds` and `WriteLockReleased`, liveness
under fairness, which is out of the prover's reach. That is all of the properties that the
passing runs check. The five findings are counterexamples and stay with TLC. Induction
over data is out of reach too: nothing is proved of what a conversion computes beyond
`ToTokens` and the estimate.

## 6. Not modelled

- Text: titles, bootstrap and status wording, JSON and its validation, except where it
  decides a state change or a length.
- The search queries: matching and ranking of texts. What is modelled of the index is what
  it is built from and when.
- Diagnostics of rows that no operation writes (a pointer to a missing segment, a segment
  of another task): `Ownership` says there are none.
- Handoff rows without a stored checksum, which a migrated database of the older schema may
  hold: for them the anchor is any handoff call at the cursor (`context_engine.py:836`).
- That a blocked task can be resumed: blocking accepts a damaged checkpoint
  (`task_service.py:425`). The model does too; no text promises otherwise, so no property
  is about it. The same holds of a threshold that rounds to 0 and switches emergency
  compression off (`context_engine.py:546`).
- That a request has at most one status (`README.md:66`). `append_runtime_status` replaces
  one at the tail only (`context_builder.py:86`); the snapshot that is summarised ends with
  one (`context_engine.py:509`), and later requests are the summary and the conversation
  since (457-460). With a compressor that keeps the last messages it is given, the old
  status stays in the middle. What it keeps is up to the host, so the models allow such
  requests and claim nothing of the kind.
- The choice of the journal mode by the SQLite version, and the permissions of files.
- Plugin registration, which is done once and keeps no state; the rollout script, which an
  operator runs while the plugin is stopped; the skill and prompt texts.
- Hermes, the Agent and SQLite are external: a conversation grows and is rewound, an
  Agent makes any call in any order, SQLite has one writer.

## 7. Plan

Done: the modules and theorems above; every safety property of a passing run is a theorem.
Next, in this order:

1. Counterparts of the other findings, as `NoForeignTurnsHold` is one: what restores
   `OwnTurnsKept` (no refused calls), `RecoverySkipsNothing` (clock readings in commit
   order) and `FailedLeavesNothing` (commits that do not raise).
2. The lifecycle theorems for the specifications that run the services next to something
   else (`SearchSpec`, `ReadsSpec`, `SelectionSpec`), stated and not only used.
3. Type correctness of `CallSpec`'s own variables as a listed theorem.
