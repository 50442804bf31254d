----------------------- MODULE ContextSelection_proofs -----------------------
(* What a request keeps of the conversation, for any tasks and sessions and  *)
(* conversations of any length: the request is built for the last segment of *)
(* its session, what is written after the call that opened it was written in *)
(* it, and the boundary is never before that call's turn while it is there.  *)
EXTENDS ContextSelection, TaskHistory_proofs, WellFoundedInduction

-----------------------------------------------------------------------------
(* The last place *)

LEMMA LastPlace ==
  ASSUME NEW n \in Nat, NEW S \in SUBSET (1..n), S # {}
  PROVE  /\ Max(S) \in S
         /\ \A i \in S : i <= Max(S)
<1> DEFINE Ahead == {n - i : i \in S}
<1>1. PICK m \in Ahead : \A k \in Ahead : <<k, m>> \notin OpToRel(<, Nat)
  <2>1. Ahead \subseteq Nat /\ Ahead # {}
    <3>1. \A i \in S : i \in 1..n
      OBVIOUS
    <3>2. \A i \in 1..n : n - i \in Nat
      OBVIOUS
    <3> QED BY <3>1, <3>2
  <2> HIDE DEF Ahead
  <2> QED BY <2>1, NatLessThanWellFounded, WFMin
<1>2. PICK i \in S : m = n - i
  BY <1>1
<1>3. ASSUME NEW j \in S PROVE i >= j
  <2>1. n - j \in Ahead /\ n - j \in Nat /\ n - i \in Nat
    OBVIOUS
  <2>2. ~(n - j < n - i)
    BY <1>1, <1>2, <2>1 DEF OpToRel
  <2> QED BY <2>2
<1>4. Max(S) \in S /\ \A j \in S : Max(S) >= j
  BY <1>3 DEF Max
<1> QED BY <1>4

\* The last user message of a conversation, or past its end.
LEMMA LatestUserTurnPlace ==
  ASSUME NEW messages \in Seq(MessageType)
  PROVE  /\ LatestUserTurn(messages) \in 1..(Len(messages) + 1)
         /\ \A i \in DOMAIN messages :
               messages[i].kind = "user" => i <= LatestUserTurn(messages)
<1> DEFINE users == {i \in DOMAIN messages : messages[i].kind = "user"}
<1>1. DOMAIN messages = 1..Len(messages) /\ Len(messages) \in Nat
  BY LenProperties
<1>2. CASE users = {}
  BY <1>1, <1>2 DEF LatestUserTurn
<1>3. CASE users # {}
  <2>1. Max(users) \in users /\ \A i \in users : i <= Max(users)
    BY <1>1, <1>3, LastPlace
  <2>2. LatestUserTurn(messages) = Max(users)
    BY <1>3 DEF LatestUserTurn
  <2> QED BY <1>1, <2>1, <2>2
<1> QED BY <1>2, <1>3

\* Between the turn an activation starts with and the call itself no user speaks.
LEMMA ActivationTurnPlace ==
  ASSUME NEW messages \in Seq(MessageType), NEW t, ActivationCalls(messages, t) # {}
  PROVE  /\ ActivationTurnStart(messages, t) \in DOMAIN messages
         /\ \A o \in ActivationCalls(messages, t) : \A j \in DOMAIN messages :
               /\ ActivationTurnStart(messages, t) < j
               /\ messages[j].kind = "user"
               => o < j
<1> DEFINE calls == ActivationCalls(messages, t)
           call == Max(calls)
           users == {i \in 1..(call - 1) : messages[i].kind = "user"}
           start == ActivationTurnStart(messages, t)
<1>1. DOMAIN messages = 1..Len(messages) /\ Len(messages) \in Nat
  BY LenProperties
<1>2. /\ calls \subseteq 1..Len(messages)
      /\ \A o \in calls : messages[o].kind # "user"
  BY <1>1 DEF ActivationCalls
<1>3. call \in calls /\ \A o \in calls : o <= call
  <2>1. calls # {}
    OBVIOUS
  <2> HIDE DEF calls
  <2> QED BY <1>1, <1>2, <2>1, LastPlace
<1>4. call \in 1..Len(messages) /\ messages[call].kind # "user"
  BY <1>2, <1>3
<1>5. start = IF users = {} THEN call ELSE Max(users)
  BY DEF ActivationTurnStart
<1> HIDE DEF start, calls, call
<1>6. /\ start \in 1..call
      /\ \A j \in users : j <= start
  <2>1. CASE users = {}
    BY <1>4, <1>5, <2>1
  <2>2. CASE users # {}
    <3>1. users \subseteq 1..(call - 1) /\ call - 1 \in Nat
      BY <1>4
    <3>2. Max(users) \in users /\ \A j \in users : j <= Max(users)
      <4> HIDE DEF users
      <4> QED BY <2>2, <3>1, LastPlace
    <3> QED BY <1>4, <1>5, <2>2, <3>1, <3>2
  <2> QED BY <2>1, <2>2
<1>7. ASSUME NEW o \in calls, NEW j \in 1..Len(messages), start < j, messages[j].kind = "user"
      PROVE  o < j
  <2>1. j \notin users
    BY <1>4, <1>6, <1>7
  <2>2. j # call /\ ~(j < call)
    BY <1>4, <1>7, <2>1
  <2>3. o <= call /\ o \in Nat
    BY <1>2, <1>3
  <2> QED BY <1>4, <2>2, <2>3
<1> QED BY <1>1, <1>4, <1>6, <1>7 DEF start, calls

-----------------------------------------------------------------------------
(* The shapes of a step *)

\* A call by which session s opens a segment of task t.
OpensByCall(s, t, kind, parent, c) ==
    /\ Opens(s, t, parent, c, clock)
    /\ Len(segments) < MaxSegments
    /\ Says(s, Opening(s, kind, t))
    /\ cursors' = IF kind = "handoff"
                    THEN [cursors EXCEPT ![Len(segments) + 1] =
                             [index |-> Len(conversation[s]) + 1, anchor |-> Opening(s, kind, t)]]
                    ELSE cursors

\* A message that changes no table.
Adds(s, kind, t) == UNCHANGED <<vars, cursors>> /\ Says(s, Written(s, kind, t))

\* A call that opens no segment, and adds nothing to the conversation here.
Elsewhere ==
    /\ UNCHANGED <<conversation, cursors>>
    /\ \/ QuietStep
       \/ \E s \in SessionId, t \in TaskId, status \in Resumable \cup Finished :
             Releases(s, t, status, clock)

LEMMA ClockIsReading ==
  ASSUME TypeOK
  PROVE  clock \in CallTimes /\ clock \in Nat /\ clock # 0
  BY StampAssumption, BoundAssumption DEF TypeOK, CallTimes

LEMMA SelectionStep ==
  ASSUME TypeOK, Ownership, [SelectionNext]_selectionVars
  PROVE  /\ [Next]_vars
         /\ clock' = clock
         /\ \/ \E s \in SessionId, t \in TaskId, kind \in CallKind, parent \in Nat, c \in Nat :
                  OpensByCall(s, t, kind, parent, c)
            \/ \E s \in SessionId, t \in TaskId \cup {None}, kind \in {"user", "work"} \cup CallKind :
                  Adds(s, kind, t)
            \/ \E s \in SessionId : Rewind(s)
            \/ Elsewhere
<1> DEFINE Claim == /\ [Next]_vars
                    /\ clock' = clock
                    /\ \/ \E s \in SessionId, t \in TaskId, kind \in CallKind,
                             parent \in Nat, c \in Nat :
                             OpensByCall(s, t, kind, parent, c)
                       \/ \E s \in SessionId, t \in TaskId \cup {None},
                             kind \in {"user", "work"} \cup CallKind : Adds(s, kind, t)
                       \/ \E s \in SessionId : Rewind(s)
                       \/ Elsewhere
<1>0. clock \in CallTimes /\ clock \in Nat /\ clock # 0
  BY ClockIsReading
<1>1. ASSUME NEW s \in SessionId, UserMessage(s) \/ Work(s)
      PROVE  Claim
  <2>1. UNCHANGED vars /\ (Adds(s, "user", None) \/ Adds(s, "work", None))
    BY <1>1 DEF UserMessage, Work, Adds
  <2> QED BY <2>1 DEF vars
<1>2. ASSUME NEW s \in SessionId, Rewind(s)
      PROVE  Claim
  BY <1>2 DEF Rewind, vars
<1>3. ASSUME NEW s \in SessionId, NEW t \in TaskId, CreateCall(s, t)
      PROVE  Claim
  <2>1. /\ CreateTask(s, t, None, clock) /\ Says(s, Opening(s, "create", t))
        /\ cursors' = cursors
    BY <1>3 DEF CreateCall
  <2>2. Opens(s, t, 0, 0, clock)
    BY <1>0, <2>1, CreateTaskOpens
  <2>3. Len(segments) < MaxSegments /\ clock' = clock
    BY <2>1 DEF CreateTask
  <2>4. OpensByCall(s, t, "create", 0, 0)
    BY <2>1, <2>2, <2>3 DEF OpensByCall
  <2>5. TaskOperation(s, t, tasks[t].version, clock)
    BY <2>1 DEF TaskOperation
  <2>6. Next
    BY <1>0, <2>5 DEF Next
  <2> QED BY <2>3, <2>4, <2>6 DEF CallKind
<1>4. ASSUME NEW s \in SessionId, NEW t \in TaskId, ResumeCall(s, t)
      PROVE  Claim
  <2>1. /\ ResumeTask(s, t, tasks[t].version, clock) /\ Says(s, Opening(s, "resume", t))
        /\ cursors' = cursors
    BY <1>4 DEF ResumeCall
  <2>2. PICK parent \in 0..Len(segments), c \in CheckpointsOf(t) : Opens(s, t, parent, c, clock)
    BY <1>0, <2>1, ResumeTaskOpens
  <2>3. parent \in Nat /\ c \in Nat
    BY SegmentCountIsNat DEF CheckpointsOf
  <2>4. Len(segments) < MaxSegments /\ clock' = clock
    BY <2>1 DEF ResumeTask
  <2>5. OpensByCall(s, t, "resume", parent, c)
    BY <2>1, <2>2, <2>4 DEF OpensByCall
  <2>6. TaskOperation(s, t, tasks[t].version, clock)
    BY <2>1 DEF TaskOperation
  <2>7. Next
    BY <1>0, <2>6 DEF Next
  <2> QED BY <2>3, <2>4, <2>5, <2>7 DEF CallKind
<1>5. ASSUME NEW s \in SessionId, NEW t \in TaskId, NEW c \in DOMAIN checkpoints,
             Attached(s), HandoffCall(s, t, c)
      PROVE  Claim
  <2> DEFINE g == sessions[s].segment
  <2>1. /\ Rotate(s, t, c, g, clock) /\ Says(s, Opening(s, "handoff", t))
        /\ cursors' = [cursors EXCEPT ![Len(segments) + 1] =
                [index |-> Len(conversation[s]) + 1, anchor |-> Opening(s, "handoff", t)]]
    BY <1>5 DEF HandoffCall
  <2>2. g \in DOMAIN segments
    BY <1>5 DEF Ownership, PointerWellFormed
  <2>3. g \in Nat /\ c \in Nat
    BY <2>2, SegmentCountIsNat
  <2>4. Opens(s, t, g, c, clock)
    BY <1>0, <2>1, <2>2, RotateOpens
  <2>5. Len(segments) < MaxSegments /\ clock' = clock
    BY <2>1 DEF Rotate
  <2>6. OpensByCall(s, t, "handoff", g, c)
    BY <2>1, <2>4, <2>5 DEF OpensByCall
  <2>7. Next
    BY <1>0, <2>1, <2>2 DEF Next
  <2> QED BY <2>3, <2>5, <2>6, <2>7 DEF CallKind
<1>6. ASSUME NEW s \in SessionId, NEW t \in TaskId, NEW kind \in {"create", "resume"},
             RefusedCall(s, t, kind)
      PROVE  Claim
  <2>1. UNCHANGED vars /\ Adds(s, kind, t)
    BY <1>6 DEF RefusedCall, Adds
  <2> QED BY <2>1 DEF vars, CallKind
<1>7. ASSUME NEW s \in SessionId, NEW t \in TaskId, OtherCall(s, t)
      PROVE  Claim
  <2>1. CASE PauseTask(s, t, tasks[t].version, clock)
    <3>1. Releases(s, t, "paused", clock)
      BY <1>0, <2>1, PauseTaskReleases
    <3>2. Elsewhere
      BY <1>7, <3>1 DEF OtherCall, Elsewhere, Resumable
    <3>3. Next /\ clock' = clock
      BY <1>0, <2>1 DEF Next, TaskOperation, PauseTask
    <3> QED BY <3>2, <3>3
  <2>2. CASE \E status \in Finished \cup {"blocked"} :
                TransitionTask(s, t, tasks[t].version, status, clock)
    <3>1. PICK status \in Finished \cup {"blocked"} :
             TransitionTask(s, t, tasks[t].version, status, clock)
      BY <2>2
    <3>2. Releases(s, t, status, clock)
      BY <1>0, <3>1, TransitionTaskReleases
    <3>3. Elsewhere
      BY <1>7, <3>2 DEF OtherCall, Elsewhere, Resumable
    <3>4. clock' = clock
      BY <3>1 DEF TransitionTask
    <3>5. Next
      BY <1>0, <3>1 DEF Next, TaskOperation
    <3> QED BY <3>3, <3>4, <3>5
  <2>3. CASE CreateCheckpoint(s, t, clock)
    <3>1. Elsewhere
      BY <1>0, <1>7, <2>3 DEF OtherCall, Elsewhere, QuietStep
    <3>2. Next
      BY <1>0, <2>3 DEF Next
    <3>3. clock' = clock
      BY <2>3 DEF CreateCheckpoint
    <3> QED BY <3>1, <3>2, <3>3
  <2> QED BY <1>7, <2>1, <2>2, <2>3 DEF OtherCall
<1>8. ASSUME UNCHANGED selectionVars
      PROVE  Claim
  BY <1>8 DEF selectionVars, vars, Elsewhere, QuietStep
<1> HIDE DEF Claim
<1>9. Claim
  BY <1>1, <1>2, <1>3, <1>4, <1>5, <1>6, <1>7, <1>8 DEF SelectionNext
<1> QED BY <1>9 DEF Claim

-----------------------------------------------------------------------------
(* What a message says *)

LEMMA WrittenFields ==
  ASSUME TypeOK, NEW s \in SessionId, NEW kind \in {"user", "work"} \cup CallKind,
         NEW t \in TaskId \cup {None}
  PROVE  /\ Written(s, kind, t) \in MessageType
         /\ Written(s, kind, t).kind = kind
         /\ Written(s, kind, t).task = t
         /\ Written(s, kind, t).segment = sessions[s].segment
         /\ Written(s, kind, t).opens = 0
<1>1. sessions[s].segment \in Nat
  BY DEF TypeOK, SessionContextState
<1> QED BY <1>1 DEF Written, MessageType

LEMMA OpeningFields ==
  ASSUME TypeOK, NEW s \in SessionId, NEW kind \in {"user", "work"} \cup CallKind,
         NEW t \in TaskId \cup {None}
  PROVE  /\ Opening(s, kind, t) \in MessageType
         /\ Opening(s, kind, t).kind = kind
         /\ Opening(s, kind, t).task = t
         /\ Opening(s, kind, t).segment = sessions[s].segment
         /\ Opening(s, kind, t).opens = Len(segments) + 1
<1>1. sessions[s].segment \in Nat
  BY DEF TypeOK, SessionContextState
<1>2. Len(segments) + 1 \in Nat
  BY SegmentCountIsNat
<1>3. Opening(s, kind, t) = [kind |-> kind, task |-> t, segment |-> sessions[s].segment,
                             opens |-> Len(segments) + 1]
  BY DEF Opening, Written
<1> QED BY <1>1, <1>2, <1>3 DEF MessageType

\* The conversations after session s has added message m to its own.
LEMMA SaysRows ==
  ASSUME SelectionTypeOK, NEW s \in SessionId, NEW m \in MessageType, Says(s, m)
  PROVE  /\ conversation' \in [SessionId -> Seq(MessageType)]
         /\ Len(conversation[s]) \in Nat
         /\ DOMAIN conversation[s] = 1..Len(conversation[s])
         /\ Len(conversation'[s]) = Len(conversation[s]) + 1
         /\ DOMAIN conversation'[s] = 1..(Len(conversation[s]) + 1)
         /\ \A i \in 1..Len(conversation[s]) : conversation'[s][i] = conversation[s][i]
         /\ conversation'[s][Len(conversation[s]) + 1] = m
         /\ \A o \in SessionId \ {s} : conversation'[o] = conversation[o]
<1>1. conversation \in [SessionId -> Seq(MessageType)]
  BY DEF SelectionTypeOK
<1>2. /\ conversation'[s] = Append(conversation[s], m)
      /\ \A o \in SessionId \ {s} : conversation'[o] = conversation[o]
  BY <1>1 DEF Says
<1>3. /\ conversation'[s] \in Seq(MessageType)
      /\ Len(conversation'[s]) = Len(conversation[s]) + 1
      /\ \A i \in 1..Len(conversation[s]) : conversation'[s][i] = conversation[s][i]
      /\ conversation'[s][Len(conversation[s]) + 1] = m
  BY <1>1, <1>2, AppendProperties
<1>4. conversation' \in [SessionId -> Seq(MessageType)]
  BY <1>1, <1>2, <1>3 DEF Says
<1>5. /\ Len(conversation[s]) \in Nat
      /\ DOMAIN conversation[s] = 1..Len(conversation[s])
      /\ DOMAIN conversation'[s] = 1..Len(conversation'[s])
  BY <1>1, <1>3, LenProperties
<1> QED BY <1>2, <1>3, <1>4, <1>5

\* The conversations after Hermes has taken back the latest turn of s.
LEMMA RewindRows ==
  ASSUME SelectionTypeOK, NEW s \in SessionId, Rewind(s)
  PROVE  /\ conversation' \in [SessionId -> Seq(MessageType)]
         /\ DOMAIN conversation'[s] \subseteq DOMAIN conversation[s]
         /\ \A i \in DOMAIN conversation'[s] : conversation'[s][i] = conversation[s][i]
         /\ \A o \in SessionId \ {s} : conversation'[o] = conversation[o]
<1> DEFINE messages == conversation[s]
           last == LatestUserTurn(messages) - 1
<1>1. conversation \in [SessionId -> Seq(MessageType)]
  BY DEF SelectionTypeOK
<1>2. /\ conversation'[s] = SubSeq(messages, 1, last)
      /\ \A o \in SessionId \ {s} : conversation'[o] = conversation[o]
  BY <1>1 DEF Rewind
<1>3. /\ messages \in Seq(MessageType)
      /\ Len(messages) \in Nat
      /\ DOMAIN messages = 1..Len(messages)
      /\ last \in 0..Len(messages)
  <2>1. messages \in Seq(MessageType)
    BY <1>1
  <2>2. Len(messages) \in Nat /\ DOMAIN messages = 1..Len(messages)
    BY <2>1, LenProperties
  <2>3. LatestUserTurn(messages) \in 1..(Len(messages) + 1)
    BY <2>1, LatestUserTurnPlace
  <2> QED BY <2>1, <2>2, <2>3
<1> HIDE DEF messages, last
<1>4. \A i \in 1..last : messages[i] \in MessageType
  BY <1>3, ElementOfSeq
<1>5. /\ conversation'[s] \in Seq(MessageType)
      /\ Len(conversation'[s]) = last
      /\ \A i \in 1..last : conversation'[s][i] = messages[i]
  <2> DEFINE kept == SubSeq(messages, 1, last)
  <2>1. 1 \in Int /\ last \in Int
    BY <1>3
  <2>2. /\ kept \in Seq(MessageType)
        /\ Len(kept) = IF 1 <= last THEN last - 1 + 1 ELSE 0
        /\ \A i \in 1..(last - 1 + 1) : kept[i] = messages[1 + i - 1]
    BY <1>4, <2>1, SubSeqProperties
  <2> HIDE DEF kept
  <2>3. Len(kept) = last /\ \A i \in 1..last : kept[i] = messages[i]
    BY <1>3, <2>2
  <2> QED BY <1>2, <2>2, <2>3 DEF kept
<1>6. DOMAIN conversation'[s] = 1..last
  BY <1>5, LenProperties
<1>7. conversation' \in [SessionId -> Seq(MessageType)]
  BY <1>1, <1>2, <1>5 DEF Rewind
<1> QED BY <1>2, <1>3, <1>5, <1>6, <1>7 DEF messages

-----------------------------------------------------------------------------
(* Type correctness *)

LEMMA SelectionTypeStep ==
  ASSUME TypeOK, Ownership, SelectionTypeOK, [SelectionNext]_selectionVars
  PROVE  SelectionTypeOK'
<1>1. ASSUME NEW s \in SessionId, NEW t \in TaskId, NEW kind \in CallKind,
             NEW parent \in Nat, NEW c \in Nat, OpensByCall(s, t, kind, parent, c)
      PROVE  SelectionTypeOK'
  <2>1. Opening(s, kind, t) \in MessageType
    BY OpeningFields
  <2>2. /\ conversation' \in [SessionId -> Seq(MessageType)]
        /\ Len(conversation[s]) + 1 \in Nat
    BY <1>1, <2>1, SaysRows DEF OpensByCall
  <2>3. cursors' \in [1..MaxSegments -> [index: Nat, anchor: MessageType]]
    <3>1. [index |-> Len(conversation[s]) + 1, anchor |-> Opening(s, kind, t)]
             \in [index: Nat, anchor: MessageType]
      BY <2>1, <2>2
    <3>2. cursors \in [1..MaxSegments -> [index: Nat, anchor: MessageType]]
      BY DEF SelectionTypeOK
    <3> QED BY <1>1, <3>1, <3>2 DEF OpensByCall
  <2> QED BY <2>2, <2>3 DEF SelectionTypeOK
<1>2. ASSUME NEW s \in SessionId, NEW t \in TaskId \cup {None},
             NEW kind \in {"user", "work"} \cup CallKind, Adds(s, kind, t)
      PROVE  SelectionTypeOK'
  <2>1. Written(s, kind, t) \in MessageType
    BY WrittenFields
  <2>2. conversation' \in [SessionId -> Seq(MessageType)]
    BY <1>2, <2>1, SaysRows DEF Adds
  <2> QED BY <1>2, <2>2 DEF Adds, SelectionTypeOK
<1>3. ASSUME NEW s \in SessionId, Rewind(s)
      PROVE  SelectionTypeOK'
  <2>1. conversation' \in [SessionId -> Seq(MessageType)]
    BY <1>3, RewindRows
  <2> QED BY <1>3, <2>1 DEF Rewind, SelectionTypeOK
<1>4. ASSUME Elsewhere
      PROVE  SelectionTypeOK'
  BY <1>4 DEF Elsewhere, SelectionTypeOK
<1> QED BY <1>1, <1>2, <1>3, <1>4, SelectionStep

-----------------------------------------------------------------------------
(* The invariant. All calls of a conversation carry the current reading of a *)
(* clock that stands still here: newest by time and rowid is newest by rowid. *)

SameTime == \A g \in DOMAIN segments : segments[g].startTime = clock

\* Every segment has a cursor.
RowsBounded == Len(segments) <= MaxSegments

\* What a message names are segments of its session, and the call that opened
\* one is an activation of its task or a handoff that set its cursor.
TracedIn(rows, marks, s, m) ==
    /\ m.segment # 0 => m.segment \in DOMAIN rows /\ rows[m.segment].session = s
    /\ m.opens # 0 => /\ m.opens \in DOMAIN rows
                      /\ rows[m.opens].session = s
                      /\ \/ m.kind \in {"create", "resume"} /\ m.task = rows[m.opens].task
                         \/ marks[m.opens].index # 0

MessagesTraced ==
    \A s \in SessionId : \A i \in DOMAIN conversation[s] :
        TracedIn(segments, cursors, s, conversation[s][i])

\* What is written after the call that opened a segment was written in that
\* segment or in a later one.
OpeningsFirst ==
    \A s \in SessionId : \A i, j \in DOMAIN conversation[s] :
        /\ i < j
        /\ conversation[s][i].opens # 0
        /\ conversation[s][j].segment # 0
        => conversation[s][i].opens <= conversation[s][j].segment

\* The anchor of a cursor is the handoff call that opened the segment.
CursorsAnchored ==
    \A g \in 1..MaxSegments : cursors[g].index # 0 => cursors[g].anchor.opens = g

SelectionInv ==
    /\ TypeOK /\ Ownership /\ History
    /\ SelectionTypeOK /\ SameTime /\ RowsBounded /\ MessagesTraced /\ OpeningsFirst /\ CursorsAnchored

\* A step keeps what a message names: rows keep session and task, cursors are
\* written once.
RowsKept ==
    \A g \in DOMAIN segments :
        /\ g \in DOMAIN segments'
        /\ segments'[g].session = segments[g].session
        /\ segments'[g].task = segments[g].task
        /\ cursors'[g] = cursors[g]

LEMMA TracedKept ==
  ASSUME RowsKept, NEW s, NEW m, TracedIn(segments, cursors, s, m)
  PROVE  TracedIn(segments', cursors', s, m)
  BY DEF RowsKept, TracedIn

\* The segments table of an opening call.
LEMMA OpenedSegments ==
  ASSUME TypeOK, TypeOK', SelectionTypeOK, NEW s \in SessionId, NEW t \in TaskId,
         NEW kind \in CallKind, NEW parent \in Nat, NEW c \in Nat,
         OpensByCall(s, t, kind, parent, c)
  PROVE  /\ RowsKept
         /\ Len(segments) \in Nat
         /\ DOMAIN segments = 1..Len(segments)
         /\ DOMAIN segments' = 1..(Len(segments) + 1)
         /\ segments'[Len(segments) + 1].session = s
         /\ segments'[Len(segments) + 1].task = t
         /\ segments'[Len(segments) + 1].startTime = clock
         /\ \A h \in DOMAIN segments : segments'[h].startTime = segments[h].startTime
<1> DEFINE n == Len(segments)
<1>1. clock \in Nat
  BY ClockIsReading
<1>2. Opens(s, t, parent, c, clock)
  BY DEF OpensByCall
<1>3. /\ n \in Nat
      /\ DOMAIN segments = 1..n
      /\ DOMAIN segments' = 1..(n + 1)
      /\ \A h \in 1..n :
            /\ segments'[h].session = segments[h].session
            /\ segments'[h].task = segments[h].task
            /\ segments'[h].startTime = segments[h].startTime
      /\ segments'[n + 1].session = s
      /\ segments'[n + 1].task = t
      /\ segments'[n + 1].startTime = clock
  BY <1>1, <1>2, OpenedRows
<1>4. \A h \in 1..n : cursors'[h] = cursors[h]
  <2>1. DOMAIN cursors = 1..MaxSegments
    BY DEF SelectionTypeOK
  <2>2. n < MaxSegments
    BY DEF OpensByCall
  <2>3. \A h \in 1..n : h \in 1..MaxSegments /\ h # n + 1
    BY <1>3, <2>2, BoundAssumption
  <2> QED BY <2>1, <2>3 DEF OpensByCall
<1> QED BY <1>3, <1>4 DEF RowsKept

\* The tables of a call that opens none.
LEMMA ElsewhereSegments ==
  ASSUME TypeOK, TypeOK', Elsewhere
  PROVE  /\ RowsKept
         /\ DOMAIN segments' = DOMAIN segments
         /\ \A h \in DOMAIN segments : segments'[h].startTime = segments[h].startTime
<1>1. CASE QuietStep
  <2>1. segments' = segments
    BY <1>1, QuietStepRows
  <2> QED BY <2>1 DEF Elsewhere, RowsKept
<1>2. ASSUME NEW s \in SessionId, NEW t \in TaskId, NEW status \in Resumable \cup Finished,
             Releases(s, t, status, clock)
      PROVE  /\ RowsKept
             /\ DOMAIN segments' = DOMAIN segments
             /\ \A h \in DOMAIN segments : segments'[h].startTime = segments[h].startTime
  <2>1. /\ DOMAIN segments = 1..Len(segments)
        /\ DOMAIN segments' = 1..Len(segments)
        /\ \A h \in 1..Len(segments) :
              /\ segments'[h].session = segments[h].session
              /\ segments'[h].task = segments[h].task
              /\ segments'[h].startTime = segments[h].startTime
    BY <1>2, ClockIsReading, ReleasedRows
  <2> QED BY <2>1 DEF Elsewhere, RowsKept
<1> QED BY <1>1, <1>2 DEF Elsewhere

LEMMA SameTimeStep ==
  ASSUME TypeOK, TypeOK', Ownership, SelectionTypeOK, SameTime, [SelectionNext]_selectionVars
  PROVE  SameTime'
<1>1. clock' = clock
  BY SelectionStep
<1>2. ASSUME NEW s \in SessionId, NEW t \in TaskId, NEW kind \in CallKind,
             NEW parent \in Nat, NEW c \in Nat, OpensByCall(s, t, kind, parent, c)
      PROVE  SameTime'
  <2>1. /\ Len(segments) \in Nat
        /\ DOMAIN segments = 1..Len(segments)
        /\ DOMAIN segments' = 1..(Len(segments) + 1)
        /\ segments'[Len(segments) + 1].startTime = clock
        /\ \A h \in DOMAIN segments : segments'[h].startTime = segments[h].startTime
    BY <1>2, OpenedSegments
  <2> QED BY <1>1, <2>1 DEF SameTime
<1>3. ASSUME Elsewhere
      PROVE  SameTime'
  BY <1>1, <1>3, ElsewhereSegments DEF SameTime
<1>4. ASSUME UNCHANGED vars
      PROVE  SameTime'
  BY <1>4 DEF vars, SameTime
<1> QED BY <1>2, <1>3, <1>4, SelectionStep DEF Adds, Rewind

LEMMA RowsBoundedStep ==
  ASSUME TypeOK, TypeOK', Ownership, RowsBounded, [SelectionNext]_selectionVars
  PROVE  RowsBounded'
<1>1. ASSUME NEW s \in SessionId, NEW t \in TaskId, NEW kind \in CallKind,
             NEW parent \in Nat, NEW c \in Nat, OpensByCall(s, t, kind, parent, c)
      PROVE  RowsBounded'
  <2>1. Len(segments') = Len(segments) + 1 /\ Len(segments) < MaxSegments
    BY <1>1 DEF OpensByCall, Opens
  <2> QED BY <2>1, SegmentCountIsNat, BoundAssumption DEF RowsBounded
<1>2. ASSUME Len(segments') = Len(segments)
      PROVE  RowsBounded'
  BY <1>2 DEF RowsBounded
<1>3. QuietStep => Len(segments') = Len(segments)
  BY QuietStepRows
<1>4. Elsewhere => Len(segments') = Len(segments)
  BY <1>3 DEF Elsewhere, Releases
<1> QED BY <1>1, <1>2, <1>4, SelectionStep DEF Adds, Rewind, vars

LEMMA CursorsStep ==
  ASSUME TypeOK, Ownership, SelectionTypeOK, CursorsAnchored, [SelectionNext]_selectionVars
  PROVE  CursorsAnchored'
<1>1. ASSUME NEW s \in SessionId, NEW t \in TaskId, NEW kind \in CallKind,
             NEW parent \in Nat, NEW c \in Nat, OpensByCall(s, t, kind, parent, c)
      PROVE  CursorsAnchored'
  <2>1. Opening(s, kind, t).opens = Len(segments) + 1
    BY OpeningFields
  <2>2. CASE kind = "handoff"
    <3>1. cursors' = [cursors EXCEPT ![Len(segments) + 1] =
                         [index |-> Len(conversation[s]) + 1, anchor |-> Opening(s, kind, t)]]
      BY <1>1, <2>2 DEF OpensByCall
    <3>2. DOMAIN cursors = 1..MaxSegments
      BY DEF SelectionTypeOK
    <3> QED BY <2>1, <3>1, <3>2 DEF CursorsAnchored
  <2>3. CASE kind # "handoff"
    BY <1>1, <2>3 DEF OpensByCall, CursorsAnchored
  <2> QED BY <2>2, <2>3
<1>2. ASSUME cursors' = cursors
      PROVE  CursorsAnchored'
  BY <1>2 DEF CursorsAnchored
<1> QED BY <1>1, <1>2, SelectionStep DEF Adds, Rewind, Elsewhere

\* The segment a message is written in is the last one of its session.
LEMMA CurrentSegment ==
  ASSUME TypeOK, Ownership, History, NEW s \in SessionId, sessions[s].segment # 0
  PROVE  /\ sessions[s].segment \in DOMAIN segments
         /\ segments[sessions[s].segment].session = s
         /\ \A h \in DOMAIN segments : segments[h].session = s => h <= sessions[s].segment
<1>1. Attached(s)
  BY DEF Ownership, PointerWellFormed
<1> QED BY <1>1 DEF Ownership, PointerWellFormed, History, CurrentIsNewest

LEMMA TracedStep ==
  ASSUME TypeOK, TypeOK', Ownership, History, SelectionTypeOK, MessagesTraced,
         [SelectionNext]_selectionVars
  PROVE  MessagesTraced'
<1>1. ASSUME NEW s \in SessionId, NEW t \in TaskId, NEW kind \in CallKind,
             NEW parent \in Nat, NEW c \in Nat, OpensByCall(s, t, kind, parent, c)
      PROVE  MessagesTraced'
  <2> DEFINE m == Opening(s, kind, t)
             n == Len(segments)
             last == Len(conversation[s]) + 1
  <2>1. /\ RowsKept
        /\ n \in Nat
        /\ DOMAIN segments = 1..n
        /\ DOMAIN segments' = 1..(n + 1)
        /\ segments'[n + 1].session = s
        /\ segments'[n + 1].task = t
    BY <1>1, OpenedSegments
  <2>2. /\ m \in MessageType
        /\ m.kind = kind
        /\ m.task = t
        /\ m.segment = sessions[s].segment
        /\ m.opens = n + 1
    <3>1. kind \in {"user", "work"} \cup CallKind /\ t \in TaskId \cup {None}
      OBVIOUS
    <3> QED BY <3>1, OpeningFields, Zenon
  <2>3. /\ Len(conversation[s]) \in Nat
        /\ DOMAIN conversation[s] = 1..Len(conversation[s])
        /\ DOMAIN conversation'[s] = 1..last
        /\ \A i \in 1..Len(conversation[s]) : conversation'[s][i] = conversation[s][i]
        /\ conversation'[s][last] = m
        /\ \A o \in SessionId \ {s} : conversation'[o] = conversation[o]
    BY <1>1, <2>2, SaysRows DEF OpensByCall
  <2>4. ASSUME kind = "handoff" PROVE cursors'[n + 1].index # 0
    <3>1. n + 1 \in 1..MaxSegments
      BY <1>1, <2>1, BoundAssumption DEF OpensByCall
    <3>2. cursors' = [cursors EXCEPT ![n + 1] = [index |-> last, anchor |-> m]]
      BY <1>1, <2>4 DEF OpensByCall
    <3> HIDE DEF m
    <3>3. cursors'[n + 1] = [index |-> last, anchor |-> m]
      BY <3>1, <3>2 DEF SelectionTypeOK
    <3>4. last # 0
      BY <2>3
    <3> QED BY <3>3, <3>4
  <2> HIDE DEF m, last
  <2>5. TracedIn(segments', cursors', s, m)
    <3>1. m.segment # 0 => /\ m.segment \in DOMAIN segments'
                           /\ segments'[m.segment].session = s
      BY <2>1, <2>2, CurrentSegment DEF RowsKept
    <3>2. /\ n + 1 \in DOMAIN segments'
          /\ segments'[n + 1].session = s
          /\ \/ kind \in {"create", "resume"} /\ t = segments'[n + 1].task
             \/ cursors'[n + 1].index # 0
      BY <2>1, <2>4 DEF CallKind
    <3> QED BY <2>2, <3>1, <3>2 DEF TracedIn
  <2>6. ASSUME NEW o \in SessionId, NEW i \in DOMAIN conversation'[o]
        PROVE  TracedIn(segments', cursors', o, conversation'[o][i])
    <3>1. CASE o = s /\ i = last
      BY <2>3, <2>5, <3>1
    <3>2. CASE ~(o = s /\ i = last)
      <4>1. i \in DOMAIN conversation[o] /\ conversation'[o][i] = conversation[o][i]
        BY <2>3, <3>2 DEF last
      <4>2. TracedIn(segments, cursors, o, conversation[o][i])
        BY <4>1 DEF MessagesTraced
      <4> QED BY <2>1, <4>1, <4>2, TracedKept
    <3> QED BY <3>1, <3>2
  <2> QED BY <2>6 DEF MessagesTraced
<1>2. ASSUME NEW s \in SessionId, NEW t \in TaskId \cup {None},
             NEW kind \in {"user", "work"} \cup CallKind, Adds(s, kind, t)
      PROVE  MessagesTraced'
  <2> DEFINE m == Written(s, kind, t)
             last == Len(conversation[s]) + 1
  <2>1. segments' = segments /\ cursors' = cursors
    BY <1>2 DEF Adds, vars
  <2>2. m \in MessageType /\ m.segment = sessions[s].segment /\ m.opens = 0
    BY WrittenFields
  <2>3. /\ Len(conversation[s]) \in Nat
        /\ DOMAIN conversation[s] = 1..Len(conversation[s])
        /\ DOMAIN conversation'[s] = 1..last
        /\ \A i \in 1..Len(conversation[s]) : conversation'[s][i] = conversation[s][i]
        /\ conversation'[s][last] = m
        /\ \A o \in SessionId \ {s} : conversation'[o] = conversation[o]
    BY <1>2, <2>2, SaysRows DEF Adds
  <2> HIDE DEF m, last
  <2>4. TracedIn(segments, cursors, s, m)
    BY <2>2, CurrentSegment DEF TracedIn
  <2>5. ASSUME NEW o \in SessionId, NEW i \in DOMAIN conversation'[o]
        PROVE  TracedIn(segments, cursors, o, conversation'[o][i])
    <3>1. CASE o = s /\ i = last
      BY <2>3, <2>4, <3>1
    <3>2. CASE ~(o = s /\ i = last)
      <4>1. i \in DOMAIN conversation[o] /\ conversation'[o][i] = conversation[o][i]
        BY <2>3, <3>2 DEF last
      <4> QED BY <4>1 DEF MessagesTraced
    <3> QED BY <3>1, <3>2
  <2> QED BY <2>1, <2>5 DEF MessagesTraced
<1>3. ASSUME NEW s \in SessionId, Rewind(s)
      PROVE  MessagesTraced'
  <2>1. /\ DOMAIN conversation'[s] \subseteq DOMAIN conversation[s]
        /\ \A i \in DOMAIN conversation'[s] : conversation'[s][i] = conversation[s][i]
        /\ \A o \in SessionId \ {s} : conversation'[o] = conversation[o]
    BY <1>3, RewindRows
  <2>2. segments' = segments /\ cursors' = cursors
    BY <1>3 DEF Rewind, vars
  <2>3. ASSUME NEW o \in SessionId, NEW i \in DOMAIN conversation'[o]
        PROVE  TracedIn(segments, cursors, o, conversation'[o][i])
    <3>1. i \in DOMAIN conversation[o] /\ conversation'[o][i] = conversation[o][i]
      BY <2>1
    <3> QED BY <3>1 DEF MessagesTraced
  <2> QED BY <2>2, <2>3 DEF MessagesTraced
<1>4. ASSUME Elsewhere
      PROVE  MessagesTraced'
  <2>1. RowsKept /\ conversation' = conversation
    BY <1>4, ElsewhereSegments DEF Elsewhere
  <2> QED BY <2>1, TracedKept DEF MessagesTraced
<1> QED BY <1>1, <1>2, <1>3, <1>4, SelectionStep

\* A message that is added was written in the last segment of its session, to
\* which no message before it can have opened a later one.
LEMMA AddedIsLast ==
  ASSUME TypeOK, Ownership, History, SelectionTypeOK, MessagesTraced, OpeningsFirst,
         NEW s \in SessionId, NEW m \in MessageType, Says(s, m),
         m.segment = sessions[s].segment
  PROVE  OpeningsFirst'
<1> DEFINE last == Len(conversation[s]) + 1
<1>1. /\ Len(conversation[s]) \in Nat
      /\ DOMAIN conversation[s] = 1..Len(conversation[s])
      /\ DOMAIN conversation'[s] = 1..last
      /\ \A i \in 1..Len(conversation[s]) : conversation'[s][i] = conversation[s][i]
      /\ conversation'[s][last] = m
      /\ \A o \in SessionId \ {s} : conversation'[o] = conversation[o]
  BY SaysRows
<1> SUFFICES ASSUME NEW o \in SessionId,
                    NEW i \in DOMAIN conversation'[o], NEW j \in DOMAIN conversation'[o],
                    i < j, conversation'[o][i].opens # 0, conversation'[o][j].segment # 0
             PROVE  conversation'[o][i].opens <= conversation'[o][j].segment
  BY DEF OpeningsFirst
<1>2. CASE o = s /\ j = last
  <2>1. i \in DOMAIN conversation[s] /\ conversation'[s][i] = conversation[s][i]
    BY <1>1, <1>2
  <2>2. TracedIn(segments, cursors, s, conversation[s][i])
    BY <2>1 DEF MessagesTraced
  <2>3. /\ conversation[s][i].opens \in DOMAIN segments
        /\ segments[conversation[s][i].opens].session = s
    BY <1>2, <2>1, <2>2 DEF TracedIn
  <2>4. conversation'[s][j].segment = sessions[s].segment
    BY <1>1, <1>2
  <2> QED BY <1>2, <2>1, <2>3, <2>4, CurrentSegment
<1>3. CASE ~(o = s /\ j = last)
  <2>1. /\ j \in DOMAIN conversation[o] /\ conversation'[o][j] = conversation[o][j]
        /\ i \in DOMAIN conversation[o] /\ conversation'[o][i] = conversation[o][i]
    <3>1. CASE o # s
      <4>1. conversation'[o] = conversation[o]
        BY <1>1, <3>1
      <4> QED BY <4>1
    <3>2. CASE o = s
      <4>1. j \in 1..last /\ i \in 1..last /\ j # last
        BY <1>1, <1>3, <3>2
      <4>2. j \in 1..Len(conversation[s]) /\ i \in 1..Len(conversation[s])
        BY <1>1, <4>1
      <4> QED BY <1>1, <3>2, <4>2
    <3> QED BY <3>1, <3>2
  <2> QED BY <2>1, SMTT(30) DEF OpeningsFirst
<1> QED BY <1>2, <1>3

LEMMA OpeningsStep ==
  ASSUME TypeOK, TypeOK', Ownership, History, SelectionTypeOK, MessagesTraced, OpeningsFirst,
         [SelectionNext]_selectionVars
  PROVE  OpeningsFirst'
<1>1. ASSUME NEW s \in SessionId, NEW t \in TaskId, NEW kind \in CallKind,
             NEW parent \in Nat, NEW c \in Nat, OpensByCall(s, t, kind, parent, c)
      PROVE  OpeningsFirst'
  <2>1. /\ Opening(s, kind, t) \in MessageType
        /\ Opening(s, kind, t).segment = sessions[s].segment
    BY OpeningFields
  <2> QED BY <1>1, <2>1, AddedIsLast DEF OpensByCall
<1>2. ASSUME NEW s \in SessionId, NEW t \in TaskId \cup {None},
             NEW kind \in {"user", "work"} \cup CallKind, Adds(s, kind, t)
      PROVE  OpeningsFirst'
  <2>1. /\ Written(s, kind, t) \in MessageType
        /\ Written(s, kind, t).segment = sessions[s].segment
    BY WrittenFields
  <2> QED BY <1>2, <2>1, AddedIsLast DEF Adds
<1>3. ASSUME NEW s \in SessionId, Rewind(s)
      PROVE  OpeningsFirst'
  <2>1. /\ DOMAIN conversation'[s] \subseteq DOMAIN conversation[s]
        /\ \A i \in DOMAIN conversation'[s] : conversation'[s][i] = conversation[s][i]
        /\ \A o \in SessionId \ {s} : conversation'[o] = conversation[o]
    BY <1>3, RewindRows
  <2> QED BY <2>1 DEF OpeningsFirst
<1>4. ASSUME Elsewhere
      PROVE  OpeningsFirst'
  BY <1>4 DEF Elsewhere, OpeningsFirst
<1> QED BY <1>1, <1>2, <1>3, <1>4, SelectionStep

LEMMA SelectionInvInit == SelectionInit => SelectionInv
<1> SUFFICES ASSUME SelectionInit PROVE SelectionInv
  OBVIOUS
<1>1. Init /\ TypeOK
  BY TypeInit DEF SelectionInit
<1>2. Ownership
  BY <1>1, NoneAssumption
     DEF Init, NoTask, NoSession, Ownership, PointerWellFormed, SingleOwner, ActiveIsOwned,
         OpenIsCurrent, Attached
<1>3. History
  BY <1>1 DEF Init, NoTask, NoSession, History, HasSegments, CurrentIsNewest, Attached
<1>4. SelectionTypeOK
  <2>1. NoCursor \in [index: Nat, anchor: MessageType]
    BY DEF NoCursor, MessageType
  <2>2. <<>> \in Seq(MessageType)
    BY EmptySeq
  <2> QED BY <2>1, <2>2 DEF SelectionInit, SelectionTypeOK
<1>5. SameTime /\ RowsBounded
  BY <1>1, BoundAssumption DEF Init, SameTime, RowsBounded
<1>6. MessagesTraced /\ OpeningsFirst
  BY DEF SelectionInit, MessagesTraced, OpeningsFirst
<1>7. CursorsAnchored
  BY DEF SelectionInit, CursorsAnchored, NoCursor
<1> QED BY <1>1, <1>2, <1>3, <1>4, <1>5, <1>6, <1>7 DEF SelectionInv

LEMMA SelectionInvStep == SelectionInv /\ [SelectionNext]_selectionVars => SelectionInv'
<1> SUFFICES ASSUME SelectionInv, [SelectionNext]_selectionVars PROVE SelectionInv'
  OBVIOUS
<1>1. /\ TypeOK /\ Ownership /\ History /\ SelectionTypeOK /\ SameTime /\ RowsBounded
      /\ MessagesTraced /\ OpeningsFirst /\ CursorsAnchored
  BY DEF SelectionInv
<1>2. [Next]_vars
  BY <1>1, SelectionStep
<1>3. TypeOK'
  BY <1>1, <1>2, TypeStep
<1>4. Ownership' /\ History'
  BY <1>1, <1>2, <1>3, OwnershipStep, HistoryStep
<1>5. SelectionTypeOK' /\ SameTime' /\ RowsBounded' /\ CursorsAnchored'
  BY <1>1, <1>3, SelectionTypeStep, SameTimeStep, RowsBoundedStep, CursorsStep
<1>6. MessagesTraced' /\ OpeningsFirst'
  BY <1>1, <1>3, TracedStep, OpeningsStep
<1> QED BY <1>3, <1>4, <1>5, <1>6 DEF SelectionInv

LEMMA SelectionInvHolds == SelectionSpec => []SelectionInv
  BY SelectionInvInit, SelectionInvStep, PTL DEF SelectionSpec

\* Conversations and cursors keep their types, whatever is said, called and
\* taken back.
THEOREM SelectionTypeCorrect == SelectionSpec => []SelectionTypeOK
<1>1. SelectionInv => SelectionTypeOK
  BY DEF SelectionInv
<1> QED BY <1>1, SelectionInvHolds, PTL

-----------------------------------------------------------------------------
(* The segment a request is built for, and what is written after its opening *)

LEMMA SelectedIsLast ==
  ASSUME SelectionInv, NEW s \in SessionId, SelectedSegment(s) # 0
  PROVE  /\ SelectedSegment(s) \in DOMAIN segments
         /\ segments[SelectedSegment(s)].session = s
         /\ \A h \in DOMAIN segments : segments[h].session = s => h <= SelectedSegment(s)
<1>1. TypeOK /\ Ownership /\ History /\ SameTime
  BY DEF SelectionInv
<1>2. CASE Attached(s)
  BY <1>1, <1>2, CurrentSegment DEF SelectedSegment
<1>3. CASE ~Attached(s)
  <2> DEFINE rows == SegmentsOfSession(s)
  <2>1. rows # {} /\ SelectedSegment(s) = CHOOSE g \in rows : IsLatestIn(g, rows)
    BY <1>3 DEF SelectedSegment
  <2>2. /\ rows \subseteq 1..Len(segments) /\ Len(segments) \in Nat
        /\ DOMAIN segments = 1..Len(segments)
        /\ \A h \in DOMAIN segments : h \in rows <=> segments[h].session = s
    BY <1>1, SegmentCountIsNat DEF SegmentsOfSession
  <2> HIDE DEF rows
  <2>3. clock \in Nat /\ \A g \in rows : segments[g].startTime = clock
    BY <1>1, <2>2, ClockIsReading DEF SameTime
  <2>4. \E g \in rows : IsLatestIn(g, rows)
    <3> DEFINE last == Max(rows)
    <3>1. last \in rows /\ \A i \in rows : i <= last
      BY <2>1, <2>2, LastPlace
    <3> HIDE DEF last
    <3>2. ASSUME NEW h \in rows \ {last}
          PROVE  segments[h].startTime = segments[last].startTime /\ h < last
      BY <2>2, <2>3, <3>1
    <3>3. IsLatestIn(last, rows)
      BY <3>1, <3>2 DEF IsLatestIn
    <3> QED BY <3>1, <3>3
  <2>5. SelectedSegment(s) \in rows /\ IsLatestIn(SelectedSegment(s), rows)
    BY <2>1, <2>4
  <2>6. ASSUME NEW h \in rows \ {SelectedSegment(s)}
        PROVE  h < SelectedSegment(s)
    <3>1. segments[h].startTime = clock /\ segments[SelectedSegment(s)].startTime = clock
      BY <2>3, <2>5
    <3>2. ~(clock < clock)
      BY <2>3
    <3>3. \/ segments[h].startTime < segments[SelectedSegment(s)].startTime
          \/ h < SelectedSegment(s)
      BY <2>5 DEF IsLatestIn
    <3> QED BY <3>1, <3>2, <3>3, Zenon
  <2>7. ASSUME NEW h \in rows
        PROVE  h <= SelectedSegment(s)
    <3>1. h \in Nat /\ SelectedSegment(s) \in Nat
      <4>1. \A i \in rows : i \in Nat
        BY <2>2
      <4>2. SelectedSegment(s) \in rows
        BY <2>5
      <4> QED BY <4>1, <4>2, Zenon
    <3>2. h = SelectedSegment(s) \/ h < SelectedSegment(s)
      BY <2>6
    <3> QED BY <3>1, <3>2
  <2> QED BY <2>2, <2>5, <2>7
<1> QED BY <1>2, <1>3

\* What follows the call that opened the selected segment was written in it.
LEMMA AfterOpening ==
  ASSUME SelectionInv, NEW s \in SessionId, SelectedSegment(s) # 0,
         NEW o \in DOMAIN conversation[s], conversation[s][o].opens = SelectedSegment(s),
         NEW k \in DOMAIN conversation[s], o < k
  PROVE  conversation[s][k].segment \in {0, SelectedSegment(s)}
<1>1. TypeOK /\ MessagesTraced /\ OpeningsFirst
  BY DEF SelectionInv
<1>2. SUFFICES ASSUME conversation[s][k].segment # 0
               PROVE  conversation[s][k].segment = SelectedSegment(s)
  OBVIOUS
<1>3. SelectedSegment(s) <= conversation[s][k].segment
  BY <1>1, <1>2 DEF OpeningsFirst
<1>4. /\ conversation[s][k].segment \in DOMAIN segments
      /\ segments[conversation[s][k].segment].session = s
  <2>1. TracedIn(segments, cursors, s, conversation[s][k])
    BY <1>1 DEF MessagesTraced
  <2> QED BY <1>2, <2>1 DEF TracedIn
<1>5. /\ SelectedSegment(s) \in DOMAIN segments
      /\ conversation[s][k].segment <= SelectedSegment(s)
  BY <1>4, SelectedIsLast
<1>6. DOMAIN segments = 1..Len(segments) /\ Len(segments) \in Nat
  BY <1>1, SegmentCountIsNat
<1> QED BY <1>3, <1>4, <1>5, <1>6

\* The boundary, case by case.
LEMMA BoundaryCases ==
  ASSUME SelectionInv, NEW s \in SessionId, NEW g \in DOMAIN segments
  PROVE  LET messages == conversation[s]
             index == cursors[g].index
             t == segments[g].task
         IN  \/ Boundary(g, messages) = Len(messages) + 1
             \/ /\ index \in DOMAIN messages
                /\ index # 0
                /\ messages[index].opens = g
                /\ Boundary(g, messages) = index
             \/ /\ index = 0
                /\ ActivationCalls(messages, t) # {}
                /\ Boundary(g, messages) = ActivationTurnStart(messages, t)
             \/ /\ index = 0 => ActivationCalls(messages, t) = {}
                /\ Boundary(g, messages) = LatestUserTurn(messages)
<1> DEFINE messages == conversation[s]
           index == cursors[g].index
           t == segments[g].task
<1>1. /\ messages \in Seq(MessageType)
      /\ Len(messages) \in Nat
      /\ DOMAIN messages = 1..Len(messages)
  <2>1. messages \in Seq(MessageType)
    BY DEF SelectionInv, SelectionTypeOK
  <2> QED BY <2>1, LenProperties
<1>2. Anchored(g, messages) => index \in DOMAIN messages /\ messages[index] = cursors[g].anchor
  BY DEF Anchored
<1>3. Anchored(g, messages) => index # 0 /\ messages[index].opens = g
  <2>1. g \in 1..MaxSegments
    BY SegmentCountIsNat, BoundAssumption DEF SelectionInv, RowsBounded
  <2> QED BY <1>1, <1>2, <2>1 DEF SelectionInv, CursorsAnchored
<1>4. Boundary(g, messages) =
        CASE index > Len(messages) + 1 -> Len(messages) + 1
          [] Anchored(g, messages) -> index
          [] index = 0 /\ ActivationCalls(messages, t) # {} -> ActivationTurnStart(messages, t)
          [] OTHER -> LatestUserTurn(messages)
  BY DEF Boundary
<1> HIDE DEF messages, index, t
<1>5. \/ Boundary(g, messages) = Len(messages) + 1
      \/ Anchored(g, messages) /\ Boundary(g, messages) = index
      \/ /\ index = 0 /\ ActivationCalls(messages, t) # {}
         /\ Boundary(g, messages) = ActivationTurnStart(messages, t)
      \/ /\ ~(index = 0 /\ ActivationCalls(messages, t) # {})
         /\ Boundary(g, messages) = LatestUserTurn(messages)
  BY <1>4
<1> QED BY <1>2, <1>3, <1>5 DEF messages, index, t

-----------------------------------------------------------------------------
(* What a request keeps *)

LEMMA KeptPlaces ==
  ASSUME SelectionInv, NEW s \in SessionId, SelectedSegment(s) # 0
  PROVE  /\ conversation[s] \in Seq(MessageType)
         /\ Len(conversation[s]) \in Nat
         /\ DOMAIN conversation[s] = 1..Len(conversation[s])
         /\ Boundary(SelectedSegment(s), conversation[s]) \in 1..(Len(conversation[s]) + 1)
         /\ Kept(s) = Boundary(SelectedSegment(s), conversation[s])..Len(conversation[s])
<1> DEFINE g == SelectedSegment(s)
           messages == conversation[s]
<1>1. messages \in Seq(MessageType)
  BY DEF SelectionInv, SelectionTypeOK
<1>2. Len(messages) \in Nat /\ DOMAIN messages = 1..Len(messages)
  BY <1>1, LenProperties
<1>3. Boundary(g, messages) \in 1..(Len(messages) + 1)
  <2>1. g \in DOMAIN segments
    BY SelectedIsLast
  <2>2. LatestUserTurn(messages) \in 1..(Len(messages) + 1)
    BY <1>1, LatestUserTurnPlace
  <2>3. ActivationCalls(messages, segments[g].task) # {} =>
           ActivationTurnStart(messages, segments[g].task) \in DOMAIN messages
    BY <1>1, ActivationTurnPlace
  <2>4. \/ Boundary(g, messages) = Len(messages) + 1
        \/ Boundary(g, messages) \in DOMAIN messages
        \/ Boundary(g, messages) = LatestUserTurn(messages)
    BY <2>1, <2>3, BoundaryCases
  <2> HIDE DEF messages, g
  <2> QED BY <1>2, <2>2, <2>4
<1>4. Kept(s) = Boundary(g, messages)..Len(messages)
  BY DEF Kept
<1> QED BY <1>1, <1>2, <1>3, <1>4

LEMMA HandoffCuts == SelectionInv => HandoffCutsHistory
<1> SUFFICES ASSUME SelectionInv, NEW s \in SessionId, SelectedSegment(s) # 0,
                    cursors[SelectedSegment(s)].index # 0, NEW i \in Kept(s)
             PROVE  \/ conversation[s][i].segment \in {0, SelectedSegment(s)}
                    \/ conversation[s][i].opens = SelectedSegment(s)
                    \/ \A j \in (i + 1)..Len(conversation[s]) :
                          conversation[s][j].kind # "user"
  BY DEF HandoffCutsHistory
<1> DEFINE g == SelectedSegment(s)
           messages == conversation[s]
           index == cursors[g].index
           b == Boundary(g, messages)
<1>1. g \in DOMAIN segments
  BY SelectedIsLast
<1>2. /\ messages \in Seq(MessageType) /\ Len(messages) \in Nat
      /\ DOMAIN messages = 1..Len(messages)
      /\ b \in 1..(Len(messages) + 1)
      /\ i \in b..Len(messages)
  BY KeptPlaces
<1>3. \/ b = Len(messages) + 1
      \/ index \in DOMAIN messages /\ messages[index].opens = g /\ b = index
      \/ b = LatestUserTurn(messages)
  BY <1>1, BoundaryCases
<1>4. CASE index \in DOMAIN messages /\ messages[index].opens = g /\ b = index
  <2>1. i = index \/ index < i
    BY <1>2, <1>4
  <2>2. index < i => messages[i].segment \in {0, g}
    <3>1. i \in DOMAIN messages
      BY <1>2
    <3> QED BY <1>4, <3>1, AfterOpening
  <2> QED BY <1>4, <2>1, <2>2
<1>5. CASE b = LatestUserTurn(messages)
  <2>1. \A j \in DOMAIN messages : messages[j].kind = "user" => j <= b
    BY <1>2, <1>5, LatestUserTurnPlace
  <2>2. ASSUME NEW j \in (i + 1)..Len(messages)
        PROVE  messages[j].kind # "user"
    <3> HIDE DEF messages, b
    <3>1. j \in DOMAIN messages /\ ~(j <= b)
      BY <1>2
    <3> QED BY <2>1, <3>1
  <2> QED BY <2>2
<1>6. b # Len(messages) + 1
  <2> HIDE DEF messages, b
  <2> QED BY <1>2
<1> QED BY <1>3, <1>4, <1>5, <1>6

\* A request for a segment that a handoff opened keeps nothing written in an
\* earlier segment, but for the handoff call itself or, when that was taken
\* back, the latest turn (context_engine.py, _select_context).
THEOREM HandoffCutsHistoryHolds == SelectionSpec => []HandoffCutsHistory
  BY HandoffCuts, SelectionInvHolds, PTL

\* The opening call comes before every user message that a request keeps after
\* its first message.
LEMMA UserFollowsOpening ==
  ASSUME SelectionInv, NEW s \in SessionId, SelectedSegment(s) # 0,
         NEW o \in DOMAIN conversation[s], conversation[s][o].opens = SelectedSegment(s),
         NEW i \in Kept(s), NEW j \in Kept(s), i < j, conversation[s][j].kind = "user"
  PROVE  \E p \in DOMAIN conversation[s] :
            p < j /\ conversation[s][p].opens = SelectedSegment(s)
<1> DEFINE g == SelectedSegment(s)
           messages == conversation[s]
           index == cursors[g].index
           t == segments[g].task
           b == Boundary(g, messages)
<1>1. g \in DOMAIN segments
  BY SelectedIsLast
<1>2. /\ messages \in Seq(MessageType) /\ Len(messages) \in Nat
      /\ DOMAIN messages = 1..Len(messages)
      /\ b \in 1..(Len(messages) + 1)
      /\ i \in b..Len(messages) /\ j \in b..Len(messages)
  BY KeptPlaces
<1>3. b < j /\ j \in DOMAIN messages /\ b # Len(messages) + 1
  <2> HIDE DEF messages, b
  <2> QED BY <1>2
<1>4. index = 0 => o \in ActivationCalls(messages, t)
  <2>1. TracedIn(segments, cursors, s, messages[o])
    BY DEF SelectionInv, MessagesTraced
  <2>2. messages[o].opens = g /\ g # 0
    OBVIOUS
  <2> HIDE DEF messages, g
  <2>3. index = 0 => messages[o].kind \in {"create", "resume"} /\ messages[o].task = t
    BY <2>1, <2>2 DEF TracedIn
  <2> QED BY <2>3 DEF ActivationCalls, messages
<1>5. \/ index \in DOMAIN messages /\ messages[index].opens = g /\ b = index
      \/ /\ index = 0 /\ ActivationCalls(messages, t) # {}
         /\ b = ActivationTurnStart(messages, t)
      \/ /\ index = 0 => ActivationCalls(messages, t) = {}
         /\ b = LatestUserTurn(messages)
  BY <1>1, <1>3, BoundaryCases
<1>6. CASE index \in DOMAIN messages /\ messages[index].opens = g /\ b = index
  BY <1>3, <1>6
<1>7. CASE /\ index = 0 /\ ActivationCalls(messages, t) # {}
           /\ b = ActivationTurnStart(messages, t)
  <2>1. o < j
    BY <1>2, <1>3, <1>4, <1>7, ActivationTurnPlace
  <2> QED BY <2>1
<1>8. CASE /\ index = 0 => ActivationCalls(messages, t) = {}
           /\ b = LatestUserTurn(messages)
  <2>1. j <= b
    BY <1>2, <1>3, <1>8, LatestUserTurnPlace
  <2>2. ~(j <= b)
    <3> HIDE DEF messages, b
    <3> QED BY <1>2, <1>3
  <2> QED BY <2>1, <2>2
<1> QED BY <1>5, <1>6, <1>7, <1>8

LEMMA OpeningIsolates ==
  ASSUME SelectionInv, NEW s \in SessionId, SelectedSegment(s) # 0, OpeningInPlace(s)
  PROVE  KeepsNoForeignTurn(s)
<1> SUFFICES ASSUME NEW i \in Kept(s), NEW j \in Kept(s), NEW k \in Kept(s),
                    i < j, j <= k, conversation[s][j].kind = "user"
             PROVE  ~Foreign(s, k)
  BY DEF KeepsNoForeignTurn
<1>1. PICK o \in DOMAIN conversation[s] : conversation[s][o].opens = SelectedSegment(s)
  BY DEF OpeningInPlace
<1>2. PICK p \in DOMAIN conversation[s] :
         p < j /\ conversation[s][p].opens = SelectedSegment(s)
  BY <1>1, UserFollowsOpening
<1>3. p < k /\ k \in DOMAIN conversation[s]
  <2>1. /\ Len(conversation[s]) \in Nat
        /\ DOMAIN conversation[s] = 1..Len(conversation[s])
        /\ Boundary(SelectedSegment(s), conversation[s]) \in 1..(Len(conversation[s]) + 1)
        /\ Kept(s) = Boundary(SelectedSegment(s), conversation[s])..Len(conversation[s])
    BY KeptPlaces
  <2> QED BY <1>2, <2>1
<1>4. conversation[s][k].segment \in {0, SelectedSegment(s)}
  BY <1>2, <1>3, AfterOpening
<1> QED BY <1>4 DEF Foreign

\* As long as the call that opened the segment is in the conversation, of the
\* turns a request keeps only the first holds messages of another task, whatever
\* is refused, switched or taken back elsewhere.
THEOREM IsolatedWhileInPlaceHolds == SelectionSpec => []IsolatedWhileInPlace
<1>1. SelectionInv => IsolatedWhileInPlace
  BY OpeningIsolates DEF IsolatedWhileInPlace
<1> QED BY <1>1, SelectionInvHolds, PTL

-----------------------------------------------------------------------------
(* Without rewinds *)

\* The call that opened a segment is in the conversation of its session.
OpeningsKept ==
    \A g \in DOMAIN segments :
        \E i \in DOMAIN conversation[segments[g].session] :
            conversation[segments[g].session][i].opens = g

LEMMA OpeningsKeptStep ==
  ASSUME TypeOK, TypeOK', Ownership, SelectionTypeOK, OpeningsKept, Rewinds = FALSE,
         [SelectionNext]_selectionVars
  PROVE  OpeningsKept'
<1>0. \A g \in DOMAIN segments : segments[g].session \in SessionId
  BY SegmentRow, SegmentCountIsNat DEF ContextSegment
<1>1. ASSUME NEW s \in SessionId, NEW t \in TaskId, NEW kind \in CallKind,
             NEW parent \in Nat, NEW c \in Nat, OpensByCall(s, t, kind, parent, c)
      PROVE  OpeningsKept'
  <2> DEFINE m == Opening(s, kind, t)
             n == Len(segments)
             last == Len(conversation[s]) + 1
  <2>1. /\ RowsKept
        /\ n \in Nat
        /\ DOMAIN segments = 1..n
        /\ DOMAIN segments' = 1..(n + 1)
        /\ segments'[n + 1].session = s
    BY <1>1, OpenedSegments
  <2>2. m \in MessageType /\ m.opens = n + 1
    <3>1. kind \in {"user", "work"} \cup CallKind /\ t \in TaskId \cup {None}
      OBVIOUS
    <3> QED BY <3>1, OpeningFields, Zenon
  <2>3. /\ Len(conversation[s]) \in Nat
        /\ DOMAIN conversation[s] = 1..Len(conversation[s])
        /\ DOMAIN conversation'[s] = 1..last
        /\ \A i \in 1..Len(conversation[s]) : conversation'[s][i] = conversation[s][i]
        /\ conversation'[s][last] = m
        /\ \A o \in SessionId \ {s} : conversation'[o] = conversation[o]
    BY <1>1, <2>2, SaysRows DEF OpensByCall
  <2> HIDE DEF m
  <2>4. ASSUME NEW g \in 1..(n + 1)
        PROVE  \E i \in DOMAIN conversation'[segments'[g].session] :
                  conversation'[segments'[g].session][i].opens = g
    <3>1. CASE g = n + 1
      <4>1. last \in DOMAIN conversation'[s]
        BY <2>3
      <4> QED BY <2>1, <2>2, <2>3, <3>1, <4>1
    <3>2. CASE g # n + 1
      <4> DEFINE o == segments[g].session
      <4>1. g \in DOMAIN segments /\ segments'[g].session = o /\ o \in SessionId
        BY <1>0, <2>1, <3>2 DEF RowsKept
      <4>2. PICK i \in DOMAIN conversation[o] : conversation[o][i].opens = g
        BY <4>1 DEF OpeningsKept
      <4>3. i \in DOMAIN conversation'[o] /\ conversation'[o][i] = conversation[o][i]
        BY <2>3, <4>1, <4>2
      <4> QED BY <4>1, <4>2, <4>3
    <3> QED BY <3>1, <3>2
  <2>5. \A g \in DOMAIN segments' :
           \E i \in DOMAIN conversation'[segments'[g].session] :
              conversation'[segments'[g].session][i].opens = g
    <3>1. DOMAIN segments' = 1..(n + 1)
      BY <2>1
    <3> HIDE DEF n
    <3> QED BY <2>4, <3>1, Zenon
  <2> QED BY <2>5 DEF OpeningsKept
<1>2. ASSUME NEW s \in SessionId, NEW t \in TaskId \cup {None},
             NEW kind \in {"user", "work"} \cup CallKind, Adds(s, kind, t)
      PROVE  OpeningsKept'
  <2>1. segments' = segments
    BY <1>2 DEF Adds, vars
  <2>2. Written(s, kind, t) \in MessageType
    BY WrittenFields
  <2>3. /\ Len(conversation[s]) \in Nat
        /\ DOMAIN conversation[s] = 1..Len(conversation[s])
        /\ DOMAIN conversation'[s] = 1..(Len(conversation[s]) + 1)
        /\ \A i \in 1..Len(conversation[s]) : conversation'[s][i] = conversation[s][i]
        /\ \A o \in SessionId \ {s} : conversation'[o] = conversation[o]
    BY <1>2, <2>2, SaysRows DEF Adds
  <2>4. ASSUME NEW o \in SessionId, NEW i \in DOMAIN conversation[o]
        PROVE  i \in DOMAIN conversation'[o] /\ conversation'[o][i] = conversation[o][i]
    BY <2>3
  <2> QED BY <1>0, <2>1, <2>4 DEF OpeningsKept
<1>3. ASSUME Elsewhere
      PROVE  OpeningsKept'
  <2>1. RowsKept /\ DOMAIN segments' = DOMAIN segments /\ conversation' = conversation
    BY <1>3, ElsewhereSegments DEF Elsewhere
  <2> QED BY <2>1 DEF RowsKept, OpeningsKept
<1> QED BY <1>1, <1>2, <1>3, SelectionStep DEF Rewind

\* What select_context says of itself, "without ever failing open to old history"
\* (context_engine.py:239), is so as long as Hermes takes nothing back: the
\* rewind is all that the run which refutes it needs.
THEOREM NoForeignTurnsHold ==
  ASSUME Rewinds = FALSE
  PROVE  SelectionSpec => []NoForeignTurns
<1>1. SelectionInit => OpeningsKept
  BY DEF SelectionInit, Init, OpeningsKept
<1>2. /\ SelectionInv /\ SelectionInv' /\ OpeningsKept
      /\ [SelectionNext]_selectionVars
      => OpeningsKept'
  BY OpeningsKeptStep DEF SelectionInv
<1>3. SelectionInv /\ OpeningsKept => NoForeignTurns
  <2> SUFFICES ASSUME SelectionInv, OpeningsKept, NEW s \in SessionId, SelectedSegment(s) # 0
               PROVE  KeepsNoForeignTurn(s)
    BY DEF NoForeignTurns
  <2>1. SelectedSegment(s) \in DOMAIN segments /\ segments[SelectedSegment(s)].session = s
    BY SelectedIsLast
  <2>2. OpeningInPlace(s)
    BY <2>1 DEF OpeningsKept, OpeningInPlace
  <2> QED BY <2>2, OpeningIsolates
<1> QED BY <1>1, <1>2, <1>3, SelectionInvHolds, PTL DEF SelectionSpec

=============================================================================
