------------------------ MODULE EmergencyCompression ------------------------
(***************************************************************************)
(* Emergency compression (emergency.py and its half of context_engine.py)  *)
(* over the durable task state. One attempt is a chain of separate durable *)
(* steps: an archive file, a transaction that binds it to the segment and  *)
(* logs TRIGGERED, the external summary, the file replaced, a transaction  *)
(* that logs the outcome, and only then the engine's own memory. Between   *)
(* any two of them the process may die, storage may fail, another engine   *)
(* may try the same segment and the services may close it.                 *)
(*                                                                         *)
(* A stored checksum is modelled as the thing it is computed from: equal   *)
(* checksums mean equal conversations.                                     *)
(***************************************************************************)
EXTENDS TaskLifecycle, SequencesExt

CONSTANTS
    Engine,       \* ContextHandoffEngine objects, in one or several processes
    Message,      \* messages told apart
    Faults,       \* what may go wrong, see FaultsAssumption
    Faulty,       \* the engines it goes wrong for
    MaxMessages,  \* bound: length of a conversation
    MaxArchives   \* bound: archive files

ASSUME FaultsAssumption ==
    Faults \subseteq {"storage", "corruption", "interrupt", "crash"} /\ Faulty \subseteq Engine

VARIABLES
    conversation,  \* canonical messages of each session (kept by Hermes)
    archives,      \* archive files, in the order they were created
    archiveOf,     \* archived_context_reference of each segment, 0 for NULL
    attempts,      \* the EMERGENCY_COMPRESSION_* events, in order
    engine         \* memory of each engine

emergencyVars == <<archives, archiveOf, attempts, engine>>
allVars == <<vars, conversation, emergencyVars>>

EmergencyState == {"not_triggered", "triggered", "completed", "failed"}

\* readable: the file still has its own checksum.
Archive == [segment: Nat, conversation: Seq(Message),
            state: EmergencyState \ {"not_triggered"}, readable: BOOLEAN]

Attempt == [type: EmergencyState \ {"not_triggered"}, archive: Nat]

\* _SelectionSnapshot: the last request of an eligible selection. base is the
\* archive whose summary the request begins with, 0 when it is built from the
\* conversation; segment 0 is no snapshot.
Snapshot == [segment: Nat, conversation: Seq(Message), base: Nat]
NoSnapshot == [segment |-> 0, conversation |-> <<>>, base |-> 0]

\* Where compress() of an engine is; attempt is the archive it works on.
Stage == {"idle", "archived", "bound", "settled"}

\* context is the archive whose summary is held in memory, 0 for none.
EngineMemory == [session: SessionId \cup {None}, segment: Nat, status: EmergencyState,
                 context: Nat, snapshot: Snapshot, stage: Stage, attempt: Nat]

NoMemory == [session |-> None, segment |-> 0, status |-> "not_triggered", context |-> 0,
             snapshot |-> NoSnapshot, stage |-> "idle", attempt |-> 0]

EmergencyInit ==
    /\ Init
    /\ conversation = [s \in SessionId |-> <<>>]
    /\ archives = <<>>
    /\ archiveOf = [g \in 1..MaxSegments |-> 0]
    /\ attempts = <<>>
    /\ engine = [e \in Engine |-> NoMemory]

-----------------------------------------------------------------------------
(* EmergencyCompressionService.restore *)

\* The conversation still begins with what was archived.
AnchorHolds(a, messages) == IsPrefix(archives[a].conversation, messages)

\* Plausible bug: the state is restored, the summary is not.
RestoredStatusOnly(g, messages) ==
    [status |-> IF archiveOf[g] = 0 THEN "not_triggered" ELSE archives[archiveOf[g]].state,
     context |-> 0]

\* The status and the summary (0: none) restored for segment g.
Restored(g, messages) ==
    LET a == archiveOf[g]
        failed == [status |-> "failed", context |-> 0]
    IN  IF a = 0 THEN [status |-> "not_triggered", context |-> 0]
        ELSE IF ~archives[a].readable \/ archives[a].segment # g THEN failed
        ELSE IF archives[a].state # "completed"
            THEN [status |-> archives[a].state, context |-> 0]
        ELSE IF ~AnchorHolds(a, messages) THEN failed
        ELSE [status |-> "completed", context |-> a]

-----------------------------------------------------------------------------
(* ContextHandoffEngine between compressions *)

Idle(e) == engine[e].stage = "idle"

Hits(fault, e) == fault \in Faults /\ e \in Faulty

\* _reset_emergency_state
Forgotten(memory) ==
    [memory EXCEPT !.status = "not_triggered", !.context = 0, !.segment = 0,
                   !.snapshot = NoSnapshot]

\* Plausible bug: memory is trusted without a look at the conversation.
MemoryTrusted(e, g, messages) == engine[e].segment = g

\* The part of _sync_emergency_state that trusts memory.
MemoryHolds(e, g, messages) ==
    /\ engine[e].segment = g
    /\ engine[e].context # 0 => AnchorHolds(engine[e].context, messages)

\* _sync_emergency_state: what the engine believes about segment g afterwards.
Synced(e, g, messages) ==
    IF MemoryHolds(e, g, messages)
      THEN {[status |-> engine[e].status, context |-> engine[e].context]}
      ELSE {Restored(g, messages)} \cup
           IF Hits("storage", e) THEN {[status |-> "failed", context |-> 0]} ELSE {}

\* A request for segment g of the engine's session. It begins with the held
\* summary, if there is one.
SelectedFor(e, g) ==
    LET messages == conversation[engine[e].session]
    IN  \E belief \in Synced(e, g, messages) :
            engine' = [engine EXCEPT ![e].segment = g,
                                     ![e].status = belief.status,
                                     ![e].context = belief.context,
                                     ![e].snapshot = [segment |-> g,
                                                      conversation |-> messages,
                                                      base |-> belief.context]]

CursorUsable(c) == c # 0 => checkpoints[c].valid

\* A request for a session with a valid active pointer and no diagnostic.
Select(e) ==
    LET s == engine[e].session
    IN  /\ Idle(e) /\ s # None
        /\ Attached(s)
        /\ CursorUsable(segments[sessions[s].segment].checkpoint)
        /\ SelectedFor(e, sessions[s].segment)
        /\ UNCHANGED <<vars, conversation, archives, archiveOf, attempts>>

\* A request without a usable pointer or cursor, or one whose reads raised.
SelectIneligible(e) ==
    /\ Idle(e)
    /\ engine' = [engine EXCEPT ![e] = Forgotten(@)]
    /\ UNCHANGED <<vars, conversation, archives, archiveOf, attempts>>

\* on_session_start of another session.
StartSession(e, s) ==
    /\ Idle(e) /\ engine[e].session # s
    /\ engine' = [engine EXCEPT ![e] = [Forgotten(@) EXCEPT !.session = s]]
    /\ UNCHANGED <<vars, conversation, archives, archiveOf, attempts>>

\* on_session_reset
ResetSession(e) ==
    /\ Idle(e)
    /\ engine' = [engine EXCEPT ![e] = [Forgotten(@) EXCEPT !.session = None]]
    /\ UNCHANGED <<vars, conversation, archives, archiveOf, attempts>>

-----------------------------------------------------------------------------
(* ContextHandoffEngine.compress and EmergencyCompressionService.compress *)

\* Plausible bug: a segment that grew over the threshold again is compressed again.
ShouldCompressAgain(e) ==
    /\ engine[e].status \in {"not_triggered", "completed"}
    /\ engine[e].session # None
    /\ engine[e].snapshot # NoSnapshot

\* should_compress_info, the token threshold aside.
ShouldCompress(e) ==
    /\ engine[e].status = "not_triggered"
    /\ engine[e].session # None
    /\ engine[e].snapshot # NoSnapshot

\* Plausible bug: a state of its own that no caller knows.
UnavailableState(e) ==
    engine' = [engine EXCEPT ![e].status = "unavailable", ![e].stage = "idle",
                             ![e].attempt = 0]

\* except Exception in compress(): the attempt ends in memory only.
Unavailable(e) ==
    engine' = [engine EXCEPT ![e].status = "failed", ![e].stage = "idle", ![e].attempt = 0]

\* _write_new_archive; the whole request is archived as triggered.
WriteArchive(e) ==
    /\ Idle(e) /\ ShouldCompress(e)
    /\ Len(archives) < MaxArchives
    /\ archives' = Append(archives,
                          [segment |-> engine[e].snapshot.segment,
                           conversation |-> engine[e].snapshot.conversation,
                           state |-> "triggered", readable |-> TRUE])
    /\ engine' = [engine EXCEPT ![e].stage = "archived", ![e].attempt = Len(archives) + 1]
    /\ UNCHANGED <<vars, conversation, archiveOf, attempts>>

\* The archive cannot be written.
WriteArchiveFails(e) ==
    /\ Hits("storage", e)
    /\ Idle(e) /\ ShouldCompress(e)
    /\ Unavailable(e)
    /\ UNCHANGED <<vars, conversation, archives, archiveOf, attempts>>

\* Plausible bugs: the WHERE clause without the one condition, or the other.
CanRebind(g) == IsOpen(g)
CanBindClosed(g) == archiveOf[g] = 0

\* update_segment_archive_reference finds a row to update.
CanBind(g) == IsOpen(g) /\ archiveOf[g] = 0

\* Plausible bug: the attempt is bound but not logged.
BindArchiveUnlogged(e) ==
    /\ engine[e].stage = "archived"
    /\ CanBind(engine[e].snapshot.segment)
    /\ archiveOf' = [archiveOf EXCEPT ![engine[e].snapshot.segment] = engine[e].attempt]
    /\ engine' = [engine EXCEPT ![e].stage = "bound"]
    /\ UNCHANGED <<vars, conversation, archives, attempts>>

\* The transaction that binds the archive and logs the attempt.
BindArchive(e) ==
    LET a == engine[e].attempt
        g == engine[e].snapshot.segment
    IN  /\ engine[e].stage = "archived"
        /\ CanBind(g)
        /\ archiveOf' = [archiveOf EXCEPT ![g] = a]
        /\ attempts' = Append(attempts, [type |-> "triggered", archive |-> a])
        /\ engine' = [engine EXCEPT ![e].stage = "bound"]
        /\ UNCHANGED <<vars, conversation, archives>>

\* It finds none, or the database fails: the file stays, bound to nothing.
BindArchiveFails(e) ==
    /\ engine[e].stage = "archived"
    /\ Hits("storage", e) \/ ~CanBind(engine[e].snapshot.segment)
    /\ Unavailable(e)
    /\ UNCHANGED <<vars, conversation, archives, archiveOf, attempts>>

ArchivesAfter(a, outcome) == [archives EXCEPT ![a].state = outcome]

\* Plausible bug: the outcome is stored only while the segment is open.
SettleIfOpen(e, outcome) ==
    /\ engine[e].stage = "bound"
    /\ IsOpen(engine[e].snapshot.segment)
    /\ archives' = ArchivesAfter(engine[e].attempt, outcome)
    /\ engine' = [engine EXCEPT ![e].stage = "settled"]
    /\ UNCHANGED <<vars, conversation, archiveOf, attempts>>

\* The summary is accepted, or refused for one of five reasons (_fail), and
\* _replace_archive makes that durable.
Settle(e, outcome) ==
    /\ engine[e].stage = "bound"
    /\ archives' = ArchivesAfter(engine[e].attempt, outcome)
    /\ engine' = [engine EXCEPT ![e].stage = "settled"]
    /\ UNCHANGED <<vars, conversation, archiveOf, attempts>>

\* _replace_archive raises before, or (fsync of the directory) after os.replace.
SettleFails(e, outcome) ==
    /\ Hits("storage", e)
    /\ engine[e].stage = "bound"
    /\ archives' \in {archives, ArchivesAfter(engine[e].attempt, outcome)}
    /\ Unavailable(e)
    /\ UNCHANGED <<vars, conversation, archiveOf, attempts>>

\* The transaction that logs the outcome, and the engine's own record of it.
\* The outcome is a local of the call; nothing else writes this archive, so it
\* is the archive's state.
RecordOutcome(e) ==
    LET a == engine[e].attempt
        outcome == archives[a].state
    IN  /\ engine[e].stage = "settled"
        /\ attempts' = Append(attempts, [type |-> outcome, archive |-> a])
        /\ engine' = [engine EXCEPT ![e].status = outcome,
                                    ![e].segment = engine[e].snapshot.segment,
                                    ![e].context = IF outcome = "completed" THEN a ELSE @,
                                    ![e].stage = "idle",
                                    ![e].attempt = 0]
        /\ UNCHANGED <<vars, conversation, archives, archiveOf>>

RecordOutcomeFails(e) ==
    /\ Hits("storage", e)
    /\ engine[e].stage = "settled"
    /\ Unavailable(e)
    /\ UNCHANGED <<vars, conversation, archives, archiveOf, attempts>>

\* A BaseException leaves compress() while the summary is made: no except
\* clause sees it and the engine's status is still the one it had before.
Interrupt(e) ==
    /\ Hits("interrupt", e)
    /\ engine[e].stage = "bound"
    /\ engine' = [engine EXCEPT ![e].stage = "idle", ![e].attempt = 0]
    /\ UNCHANGED <<vars, conversation, archives, archiveOf, attempts>>

\* The process of the engine dies, wherever it is, and a new one starts.
Crash(e) ==
    /\ Hits("crash", e)
    /\ engine' = [engine EXCEPT ![e] = NoMemory]
    /\ UNCHANGED <<vars, conversation, archives, archiveOf, attempts>>

-----------------------------------------------------------------------------
(* The host and the services *)

AppendMessage(s, m) ==
    /\ Len(conversation[s]) < MaxMessages
    /\ conversation' = [conversation EXCEPT ![s] = Append(@, m)]
    /\ UNCHANGED <<vars, emergencyVars>>

\* Hermes rewinds a conversation (undo, retry, a branch).
Rewind(s) ==
    /\ conversation[s] # <<>>
    /\ conversation' = [conversation EXCEPT ![s] = Front(@)]
    /\ UNCHANGED <<vars, emergencyVars>>

CorruptArchive(a) ==
    /\ "corruption" \in Faults
    /\ archives[a].readable
    /\ archives' = [archives EXCEPT ![a].readable = FALSE]
    /\ UNCHANGED <<vars, conversation, archiveOf, attempts, engine>>

\* Any operation of the services (TaskLifecycle), of this session or another.
ServiceStep == Next /\ UNCHANGED <<conversation, emergencyVars>>

-----------------------------------------------------------------------------

CompressStep(e) ==
    \/ BindArchive(e) \/ BindArchiveFails(e)
    \/ \E outcome \in {"completed", "failed"} : Settle(e, outcome) \/ SettleFails(e, outcome)
    \/ RecordOutcome(e) \/ RecordOutcomeFails(e)

\* Everything but a selection.
HostStep(e) ==
    \/ ResetSession(e)
    \/ \E s \in SessionId : StartSession(e, s)
    \/ WriteArchive(e) \/ WriteArchiveFails(e)
    \/ CompressStep(e)
    \/ Interrupt(e) \/ Crash(e)

EngineStep(e) == Select(e) \/ SelectIneligible(e) \/ HostStep(e)

EmergencyNext ==
    \/ \E e \in Engine : EngineStep(e)
    \/ \E s \in SessionId : Rewind(s) \/ \E m \in Message : AppendMessage(s, m)
    \/ \E a \in DOMAIN archives : CorruptArchive(a)
    \/ ServiceStep

\* A compress() that runs goes on; nothing makes an engine begin one.
EmergencySpec ==
    /\ EmergencyInit /\ [][EmergencyNext]_allVars
    /\ \A e \in Engine : WF_allVars(CompressStep(e))

-----------------------------------------------------------------------------
(* Type invariant *)

EmergencyTypeOK ==
    /\ conversation \in [SessionId -> Seq(Message)]
    /\ archives \in Seq(Archive)
    /\ archiveOf \in [1..MaxSegments -> 0..Len(archives)]
    /\ attempts \in Seq(Attempt)
    /\ engine \in [Engine -> EngineMemory]

-----------------------------------------------------------------------------
(* Safety *)

\* However many engines, restarts and forgotten failures, the host's model is
\* asked for one summary per segment at most: one attempt is logged, and no
\* archive that is not the segment's own ever gets an outcome.
OneAttemptPerSegment ==
    /\ \A i, j \in DOMAIN attempts :
          /\ attempts[i].type = "triggered" /\ attempts[j].type = "triggered"
          /\ archives[attempts[i].archive].segment = archives[attempts[j].archive].segment
          => i = j
    /\ \A a \in DOMAIN archives :
          archives[a].state # "triggered" => archiveOf[archives[a].segment] = a

\* The log never claims more than the files hold, whatever died in between: an
\* outcome is logged once, after its TRIGGERED event, and the archive has it.
LogFollowsArchives ==
    \A i \in DOMAIN attempts : attempts[i].type # "triggered" =>
        /\ archives[attempts[i].archive].state = attempts[i].type
        /\ \E j \in 1..(i - 1) : attempts[j] = [attempts[i] EXCEPT !.type = "triggered"]
        /\ \A j \in DOMAIN attempts \ {i} :
              attempts[j].archive = attempts[i].archive => attempts[j].type = "triggered"

\* A request that begins with a summary: the summary is a completed one, made
\* for the request's own segment, of a prefix of the request's own
\* conversation, so no message is dropped and none of a rewound branch is told.
ServedIsVerified ==
    \A e \in Engine :
        LET request == engine[e].snapshot
        IN  request.base # 0 =>
              /\ archives[request.base].state = "completed"
              /\ archives[request.base].segment = request.segment
              /\ archiveOf[request.segment] = request.base
              /\ AnchorHolds(request.base, request.conversation)

\* What is archived and summarised is a whole request built from the
\* conversation, never one that already begins with a summary.
NeverResummarised ==
    \A e \in Engine : ~Idle(e) => engine[e].snapshot.base = 0 /\ engine[e].context = 0

-----------------------------------------------------------------------------
(* What a step may never do *)

\* update_segment_archive_reference: "one immutable Emergency archive to an
\* open Context Segment". A reference, once there, stays; a closed segment
\* never gets one, although the attempt may have begun before it was closed.
ArchiveIsImmutable ==
    [][\A g \in 1..MaxSegments : archiveOf'[g] # archiveOf[g] =>
          archiveOf[g] = 0 /\ sessions[segments[g].session].segment = g]_allVars

\* What the log of a completed or cancelled task may still gain: the outcome of an
\* attempt that it already has. emergency.py:234 and 385 append it without a look at
\* the task; an attempt that was archived, but not bound, before the task was
\* finished never gets into its log.
FinishedOnlySettles ==
    [][\A i \in DOMAIN attempts' \ DOMAIN attempts :
          LET a == attempts'[i].archive
          IN  tasks[segments[archives[a].segment].task].status \in Finished =>
                /\ attempts'[i].type # "triggered"
                /\ \E j \in DOMAIN attempts :
                      attempts[j] = [type |-> "triggered", archive |-> a]]_allVars

\* README.md:115: "Completed state is restored from the archive after a process
\* restart." Whatever the engine forgot, its next eligible request for a segment
\* it does not know begins with the summary of the completed attempt, as long
\* as the file is intact and the conversation was only added to.
CompletedIsRestored ==
    [][\A e \in Engine :
          LET request == engine'[e].snapshot
              a == archiveOf[request.segment]
          IN  (/\ request # engine[e].snapshot
               /\ request # NoSnapshot
               /\ engine[e].segment # request.segment
               /\ a # 0
               /\ archives[a].state = "completed"
               /\ archives[a].readable
               /\ AnchorHolds(a, request.conversation))
              => request.base = a]_allVars

-----------------------------------------------------------------------------
(* Liveness *)

\* An attempt that is logged by an engine that meets no fault gets its outcome
\* logged, even when the segment is closed or the task finished while the summary
\* is made, and whatever another engine does.
AttemptsSettle ==
    \A e \in Engine \ Faulty, a \in 1..MaxArchives :
        engine[e].stage = "bound" /\ engine[e].attempt = a
          ~> \E i \in DOMAIN attempts :
                attempts[i].archive = a /\ attempts[i].type # "triggered"

=============================================================================
