-------------------------- MODULE ContextSelection --------------------------
(***************************************************************************)
(* Which part of a session's conversation the next provider request keeps  *)
(* (context_engine.py, _select_context). The durable pointer and cursor    *)
(* come from the services; the boundary of a segment that was not opened   *)
(* by a handoff is looked for in the conversation itself. The conversation *)
(* belongs to Hermes: it grows by user messages, work and tool calls, and  *)
(* may be rewound under the durable state.                                 *)
(*                                                                         *)
(* A tool call and its result are one message. A message also carries the  *)
(* segment its session was in when it was written, and the segment a call  *)
(* opened: what the properties compare with. The code cannot see the two;  *)
(* in a handoff call they stand for its arguments and id, which the anchor *)
(* checksum covers.                                                        *)
(***************************************************************************)
EXTENDS TaskLifecycle, SequencesExt

CONSTANTS
    MaxMessages,   \* bound: length of a conversation
    Refusals,      \* may an Agent call create or resume in vain?
    Rewinds        \* may Hermes rewind a conversation?

ASSUME HostAssumption == Refusals \in BOOLEAN /\ Rewinds \in BOOLEAN

VARIABLES
    conversation,  \* canonical messages of each session
    cursors        \* start_message_index and _checksum of each segment

selectionVars == <<vars, conversation, cursors>>

CallKind == {"create", "resume", "handoff"}
MessageType == [kind: {"user", "work"} \cup CallKind, task: TaskId \cup {None},
                segment: Nat, opens: Nat]

Written(s, kind, t) ==
    [kind |-> kind, task |-> t, segment |-> sessions[s].segment, opens |-> 0]

\* A call that opens the next segment.
Opening(s, kind, t) == [Written(s, kind, t) EXCEPT !.opens = Len(segments) + 1]

\* Plausible bug: -1 as the default cursor.
CursorMinusOne ==
    [index |-> -1, anchor |-> [kind |-> "user", task |-> None, segment |-> 0, opens |-> 0]]

\* index 0: no handoff opened the segment (start_message_checksum IS NULL).
NoCursor == [index |-> 0, anchor |-> [kind |-> "user", task |-> None, segment |-> 0, opens |-> 0]]

SelectionInit ==
    /\ Init
    /\ conversation = [s \in SessionId |-> <<>>]
    /\ cursors = [g \in 1..MaxSegments |-> NoCursor]

-----------------------------------------------------------------------------
(* The boundary *)

\* _latest_user_turn_start: past the end when there is no user message.
LatestUserTurn(messages) ==
    IF \E i \in DOMAIN messages : messages[i].kind = "user"
      THEN Max({i \in DOMAIN messages : messages[i].kind = "user"})
      ELSE Len(messages) + 1

\* _is_matching_activation_call: any create or resume that names the task.
ActivationCalls(messages, t) ==
    {i \in DOMAIN messages : messages[i].kind \in {"create", "resume"} /\ messages[i].task = t}

\* Plausible bug: the search runs forwards.
FirstActivationTurn(messages, t) ==
    LET call == Min(ActivationCalls(messages, t))
        users == {i \in 1..(call - 1) : messages[i].kind = "user"}
    IN  IF users = {} THEN call ELSE Max(users)

\* _find_task_activation_turn_start: the user message before the last such
\* call, or the call itself.
ActivationTurnStart(messages, t) ==
    LET call == Max(ActivationCalls(messages, t))
        users == {i \in 1..(call - 1) : messages[i].kind = "user"}
    IN  IF users = {} THEN call ELSE Max(users)

\* _handoff_anchor_is_valid. Every handoff stores a checksum; the rows without one
\* of databases older than that column are not modelled.
Anchored(g, messages) ==
    cursors[g].index \in DOMAIN messages /\ messages[cursors[g].index] = cursors[g].anchor

\* Plausible bug: a cursor that is not found keeps the whole conversation.
BoundaryFailsOpen(g, messages) == IF Anchored(g, messages) THEN cursors[g].index ELSE 1

\* Where the tail of segment g begins. OTHER: segment_anchor_mismatch,
\* segment_anchor_missing or activation_boundary_missing.
Boundary(g, messages) ==
    LET index == cursors[g].index
        t == segments[g].task
    IN  CASE index > Len(messages) + 1 -> Len(messages) + 1    \* segment_cursor_invalid
          [] Anchored(g, messages) -> index
          [] index = 0 /\ ActivationCalls(messages, t) # {} -> ActivationTurnStart(messages, t)
          [] OTHER -> LatestUserTurn(messages)

\* The segment a request is built for: the active one, or the newest of the
\* session (get_latest_segment_for_session). 0: no task yet, nothing is cut.
SelectedSegment(s) ==
    IF Attached(s) THEN sessions[s].segment
    ELSE IF SegmentsOfSession(s) = {} THEN 0
    ELSE CHOOSE g \in SegmentsOfSession(s) : IsLatestIn(g, SegmentsOfSession(s))

\* build_handoff_context: the positions of the conversation a request keeps.
Kept(s) ==
    LET g == SelectedSegment(s)
        messages == conversation[s]
    IN  IF g = 0 THEN DOMAIN messages ELSE Boundary(g, messages)..Len(messages)

-----------------------------------------------------------------------------
(* The host and the Agent *)

Says(s, message) == conversation' = [conversation EXCEPT ![s] = Append(@, message)]

\* Tool calls and work happen within a turn.
InTurn(s) == conversation[s] # <<>> /\ Len(conversation[s]) < MaxMessages

UserMessage(s) ==
    /\ Len(conversation[s]) < MaxMessages
    /\ Says(s, Written(s, "user", None))
    /\ UNCHANGED <<vars, cursors>>

Work(s) ==
    /\ InTurn(s)
    /\ Says(s, Written(s, "work", None))
    /\ UNCHANGED <<vars, cursors>>

CreateCall(s, t) ==
    /\ InTurn(s)
    /\ CreateTask(s, t, None, clock)
    /\ Says(s, Opening(s, "create", t))
    /\ UNCHANGED cursors

ResumeCall(s, t) ==
    /\ InTurn(s)
    /\ ResumeTask(s, t, tasks[t].version, clock)
    /\ Says(s, Opening(s, "resume", t))
    /\ UNCHANGED cursors

\* handle_tool_call: the tail of the conversation is the call itself.
HandoffCall(s, t, c) ==
    LET message == Opening(s, "handoff", t)
    IN  /\ InTurn(s)
        /\ Rotate(s, t, c, sessions[s].segment, clock)
        /\ Says(s, message)
        /\ cursors' = [cursors EXCEPT ![Len(segments) + 1] =
                          [index |-> Len(conversation[s]) + 1, anchor |-> message]]

\* The service refuses a create or a resume, whatever for (a task that exists or
\* cannot be resumed, a version conflict, a missing argument); the call stays in
\* the conversation.
RefusedCall(s, t, kind) ==
    /\ Refusals
    /\ InTurn(s)
    /\ Says(s, Written(s, kind, t))
    /\ UNCHANGED <<vars, cursors>>

\* The calls that move no boundary; what they add to the conversation is Work.
OtherCall(s, t) ==
    /\ InTurn(s)
    /\ \/ PauseTask(s, t, tasks[t].version, clock)
       \/ \E status \in Finished \cup {"blocked"} :
             TransitionTask(s, t, tasks[t].version, status, clock)
       \/ CreateCheckpoint(s, t, clock)
    /\ UNCHANGED <<conversation, cursors>>

\* Hermes takes the latest turn back (undo, retry, a branch).
Rewind(s) ==
    /\ Rewinds
    /\ conversation[s] # <<>>
    /\ conversation' = [conversation EXCEPT ![s] = SubSeq(@, 1, LatestUserTurn(@) - 1)]
    /\ UNCHANGED <<vars, cursors>>

SelectionNext ==
    \E s \in SessionId :
        \/ UserMessage(s) \/ Work(s) \/ Rewind(s)
        \/ \E t \in TaskId :
              \/ CreateCall(s, t) \/ ResumeCall(s, t) \/ OtherCall(s, t)
              \/ \E c \in DOMAIN checkpoints : Attached(s) /\ HandoffCall(s, t, c)
              \/ \E kind \in {"create", "resume"} : RefusedCall(s, t, kind)

SelectionSpec == SelectionInit /\ [][SelectionNext]_selectionVars

-----------------------------------------------------------------------------
(* Type invariant *)

SelectionTypeOK ==
    /\ conversation \in [SessionId -> Seq(MessageType)]
    /\ cursors \in [1..MaxSegments -> [index: Nat, anchor: MessageType]]

-----------------------------------------------------------------------------
(* What a request keeps *)

\* A message written while the session was on another task.
Foreign(s, i) ==
    LET g == conversation[s][i].segment
    IN  g # 0 /\ segments[g].task # segments[SelectedSegment(s)].task

KeepsNoForeignTurn(s) ==
    \A i, j, k \in Kept(s) :
        i < j /\ j <= k /\ conversation[s][j].kind = "user" => ~Foreign(s, k)

\* The call that opened the selected segment is still in the conversation.
OpeningInPlace(s) ==
    \E i \in DOMAIN conversation[s] : conversation[s][i].opens = SelectedSegment(s)

\* context_engine.py:239: select_context selects "without ever failing open to
\* old history". Of the turns a request keeps, only the first, in which the
\* switch was made, holds messages of another task.
NoForeignTurns ==
    \A s \in SessionId : SelectedSegment(s) # 0 => KeepsNoForeignTurn(s)

\* As long as Hermes has not taken back the turn that opened the segment, that
\* holds: neither refused calls nor other switches move the boundary back.
IsolatedWhileInPlace ==
    \A s \in SessionId :
        SelectedSegment(s) # 0 /\ OpeningInPlace(s) => KeepsNoForeignTurn(s)

\* A segment that a handoff opened: whatever Hermes took back since, the
\* request keeps nothing that was written in an earlier segment, but for the
\* handoff call and, when that is gone, the latest turn.
HandoffCutsHistory ==
    \A s \in SessionId :
        LET g == SelectedSegment(s)
            messages == conversation[s]
        IN  g # 0 /\ cursors[g].index # 0 =>
              \A i \in Kept(s) :
                 \/ messages[i].segment \in {0, g}
                 \/ messages[i].opens = g
                 \/ \A j \in (i + 1)..Len(messages) : messages[j].kind # "user"

\* context_builder.py:180, what the request for a task without a checkpoint says
\* of itself: "A new Task is active and prior Task history was omitted." Then no
\* work on another task is in it.
PriorHistoryOmitted ==
    \A s \in SessionId :
        LET g == SelectedSegment(s)
        IN  g # 0 /\ segments[g].checkpoint = 0 =>
              \A i \in Kept(s) : conversation[s][i].kind = "work" => ~Foreign(s, i)

\* context_engine.py:844: "Locate the create/resume turn that owns a
\* zero-cursor Segment." While that turn is in the conversation, the request
\* keeps everything that was written in the segment it is built for.
OwnTurnsKept ==
    \A s \in SessionId :
        LET g == SelectedSegment(s)
        IN  g # 0 /\ OpeningInPlace(s) =>
              \A i \in DOMAIN conversation[s] :
                 conversation[s][i].segment = g => i \in Kept(s)

=============================================================================
