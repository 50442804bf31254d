--------------------------- MODULE SelectionReads ---------------------------
(***************************************************************************)
(* select_context as it runs: it reads the session's pointer, the segment,  *)
(* the task and the rest in separate queries, with no transaction around    *)
(* them (context_engine.py:285-470), while tools of the same or of another   *)
(* process commit in between. EmergencyCompression has the same selection   *)
(* as one step. Hermes waits for it, so the conversation stands still.      *)
(***************************************************************************)
EXTENDS EmergencyCompression

VARIABLES
    reading,   \* per engine: what the selection under way has read
    answer,    \* per engine: what the last selection was
    overlap    \* per engine: what happened while it read, for the properties

readVars == <<reading, answer, overlap>>
readsVars == <<allVars, readVars>>

\* at: the next query. attached and missing: the pointer row named a task; there
\* was no row. closed and checkpoint: of the segment; inactive: the task's status.
NotReading == [at |-> "none", attached |-> FALSE, missing |-> FALSE, task |-> None,
               segment |-> 0, checkpoint |-> 0, closed |-> FALSE, inactive |-> FALSE]

\* kind: "request" built from the segment, "plain" without one, "isolated" for a
\* diagnostic that is fatal, "raised" for a query that failed.
NoAnswer == [kind |-> "none", segment |-> 0]
NoOverlap == [cuts |-> {}, moved |-> FALSE]

Resting(e) == reading[e].at = "none"

ReadsInit ==
    /\ EmergencyInit
    /\ reading = [e \in Engine |-> NotReading]
    /\ answer = [e \in Engine |-> NoAnswer]
    /\ overlap = [e \in Engine |-> NoOverlap]

\* The segment that a selection made in one moment would pick: the active one,
\* or else the last one the session opened.
CutOf(s) ==
    {g \in SegmentsOfSession(s) :
        IF Attached(s) THEN g = sessions[s].segment
        ELSE \A h \in SegmentsOfSession(s) : h <= g}

-----------------------------------------------------------------------------
(* The queries *)

Reads(e, new) ==
    /\ reading' = [reading EXCEPT ![e] = new]
    /\ UNCHANGED <<allVars, answer, overlap>>

\* get_session_state
ReadState(e) ==
    LET s == engine[e].session
        row == sessions[s]
        next == IF row.task = None THEN "latest" ELSE "segment"
    IN  /\ Idle(e) /\ Resting(e) /\ s # None
        /\ reading' = [reading EXCEPT ![e] =
                         [NotReading EXCEPT !.at = next, !.attached = row.task # None,
                                            !.missing = ~row.exists, !.task = row.task,
                                            !.segment = row.segment]]
        /\ overlap' = [overlap EXCEPT ![e].cuts = CutOf(s)]
        /\ UNCHANGED <<allVars, answer>>

\* get_latest_segment_for_session, the session has no active task.
ReadLatest(e) ==
    /\ reading[e].at = "latest"
    /\ \E g \in DOMAIN segments :
          /\ IsLatestIn(g, SegmentsOfSession(engine[e].session))
          /\ Reads(e, [reading[e] EXCEPT !.at = "segment", !.segment = g,
                                         !.task = segments[g].task])

\* get_segment
ReadSegment(e) ==
    LET g == reading[e].segment
    IN  /\ reading[e].at = "segment"
        /\ Reads(e, [reading[e] EXCEPT !.at = "task", !.closed = ~IsOpen(g),
                                       !.checkpoint = segments[g].checkpoint])

\* get_task
ReadTask(e) ==
    /\ reading[e].at = "task"
    /\ Reads(e, [reading[e] EXCEPT !.at = "build",
                                   !.inactive = tasks[reading[e].task].status # "active"])

-----------------------------------------------------------------------------
(* The ends of a selection *)

Answers(e, kind, g) ==
    /\ answer' = [answer EXCEPT ![e] = [kind |-> kind, segment |-> g]]
    /\ reading' = [reading EXCEPT ![e] = NotReading]
    /\ overlap' = [overlap EXCEPT ![e] = NoOverlap]
    /\ UNCHANGED <<vars, conversation, archives, archiveOf, attempts>>

Forgets(e) == engine' = [engine EXCEPT ![e] = Forgotten(@)]

\* The session has never had a segment.
AnswerPlain(e) ==
    /\ reading[e].at = "latest"
    /\ SegmentsOfSession(engine[e].session) = {}
    /\ Forgets(e)
    /\ Answers(e, "plain", 0)

\* Plausible bug: the checks of an active segment are made for a recovered one.
AlarmsAlways(read) == read.missing \/ read.closed \/ read.inactive

\* The fatal diagnostics that states of the database can lead to:
\* session_pointer_missing, active_segment_closed, active_task_status_mismatch.
Alarms(read) == read.missing \/ (read.attached /\ (read.closed \/ read.inactive))

\* _bounded_diagnostic_context
AnswerIsolated(e) ==
    /\ reading[e].at = "build"
    /\ Alarms(reading[e])
    /\ Forgets(e)
    /\ Answers(e, "isolated", reading[e].segment)

\* build_handoff_context for a session that may be compressed: the checkpoint
\* and the archive are read now.
AnswerEligible(e) ==
    /\ reading[e].at = "build"
    /\ ~Alarms(reading[e])
    /\ reading[e].attached
    /\ CursorUsable(reading[e].checkpoint)
    /\ SelectedFor(e, reading[e].segment)
    /\ Answers(e, "request", reading[e].segment)

\* The same for a session without an active task, or with a diagnostic that
\* only concerns the cursor or the checkpoint (ContextSelection).
AnswerIneligible(e) ==
    /\ reading[e].at = "build"
    /\ ~Alarms(reading[e])
    /\ Forgets(e)
    /\ Answers(e, "request", reading[e].segment)

\* A query raises: context_selection_failed.
AnswerRaised(e) ==
    /\ ~Resting(e)
    /\ Forgets(e)
    /\ Answers(e, "raised", 0)

SelectionStep(e) ==
    \/ ReadState(e) \/ ReadLatest(e) \/ ReadSegment(e) \/ ReadTask(e)
    \/ AnswerPlain(e) \/ AnswerIsolated(e) \/ AnswerEligible(e) \/ AnswerIneligible(e)
    \/ AnswerRaised(e)

-----------------------------------------------------------------------------
(* What goes on meanwhile *)

HostStepResting(e) ==
    /\ Resting(e)
    /\ HostStep(e)
    /\ UNCHANGED readVars

CrashReading(e) ==
    /\ ~Resting(e)
    /\ Crash(e)
    /\ reading' = [reading EXCEPT ![e] = NotReading]
    /\ overlap' = [overlap EXCEPT ![e] = NoOverlap]
    /\ answer' = [answer EXCEPT ![e] = NoAnswer]

\* The conversation of a session changes between its requests.
ConversationStep(s) ==
    /\ \A e \in Engine : engine[e].session = s => Resting(e)
    /\ Rewind(s) \/ \E m \in Message : AppendMessage(s, m)
    /\ UNCHANGED readVars

\* A transaction commits; a selection that is under way may see it or not.
ServiceStepSeen ==
    /\ ServiceStep
    /\ overlap' = [e \in Engine |->
          IF Resting(e) THEN NoOverlap
          ELSE [cuts |-> overlap[e].cuts \cup CutOf(engine[e].session)',
                moved |-> overlap[e].moved
                          \/ sessions'[engine[e].session] # sessions[engine[e].session]]]
    /\ UNCHANGED <<reading, answer>>

ReadsNext ==
    \/ \E e \in Engine : SelectionStep(e) \/ HostStepResting(e) \/ CrashReading(e)
    \/ \E s \in SessionId : ConversationStep(s)
    \/ \E a \in DOMAIN archives : CorruptArchive(a) /\ UNCHANGED readVars
    \/ ServiceStepSeen

ReadsSpec == ReadsInit /\ [][ReadsNext]_readsVars

-----------------------------------------------------------------------------
(* What a selection may never do. ServedIsVerified and CompletedIsRestored (EmergencyCompression)   *)
(* are checked here too: they hold although the archive is looked up after   *)
(* the segment may have been closed, or its task passed on.                  *)

\* "Inspect durable Task state before any mutation" is what a request is told
\* that is cut down for a broken pointer. No interleaving of transactions
\* leaves a pointer that looks broken: an alarm needs the session's own pointer
\* to have moved while the selection was reading.
NoFalseAlarm ==
    [][\A e \in Engine : ~Resting(e) /\ Resting(e)' /\ answer'[e].kind = "isolated" =>
          overlap[e].moved]_readsVars

\* Torn reads do not invent a cut: a request is built for a segment that a
\* selection made in one moment would have picked, at some moment while this one
\* was reading (never a third segment, between an old pointer and a new one).
RequestIsOneCut ==
    [][\A e \in Engine : ~Resting(e) /\ Resting(e)' /\ answer'[e].kind = "request" =>
          answer'[e].segment \in overlap[e].cuts]_readsVars

=============================================================================
