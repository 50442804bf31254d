----------------------- MODULE SelectionReads_proofs -----------------------
(* Emergency compression and the reads of a selection, for any engines,      *)
(* sessions, messages and faults. Both specifications take the same steps on *)
(* the archives and on an engine's memory: they differ in when a selection   *)
(* picks its segment. The invariant of those steps is proved once, for the   *)
(* union of the two (MemoryStep).                                            *)
EXTENDS SelectionReads, TaskHistory_proofs

-----------------------------------------------------------------------------
(* What holds of the archives, of the log and of the engines together *)

\* The step bound keeps every segment number in the domain of archiveOf.
SegmentsBounded == Len(segments) <= MaxSegments

\* a is the archive that its own segment refers to.
Bound(a, files, refs) == a \in DOMAIN files /\ refs[files[a].segment] = a

\* Every archive belongs to a segment; a reference leads back to its segment;
\* and only an archive that is referred to has an outcome.
ArchivesInv ==
    /\ \A a \in DOMAIN archives : archives[a].segment \in DOMAIN segments
    /\ \A g \in 1..MaxSegments : archiveOf[g] # 0 => archives[archiveOf[g]].segment = g
    /\ \A a \in DOMAIN archives : archives[a].state # "triggered"
             => Bound(a, archives, archiveOf)

\* Only bound archives are logged, each is logged as triggered once, and an
\* outcome after it once, when the file has it.
LogInv ==
    /\ \A i \in DOMAIN attempts : Bound(attempts[i].archive, archives, archiveOf)
    /\ \A i, j \in DOMAIN attempts :
          attempts[i].archive = attempts[j].archive
            /\ (attempts[i].type = "triggered" <=> attempts[j].type = "triggered") => i = j
    /\ \A i \in DOMAIN attempts : attempts[i].type # "triggered" =>
          /\ archives[attempts[i].archive].state = attempts[i].type
          /\ \E j \in DOMAIN attempts :
                j < i /\ attempts[j].type = "triggered"
                      /\ attempts[j].archive = attempts[i].archive

\* a is logged as triggered and has no outcome in the log.
Unsettled(a, log) ==
    /\ \E i \in DOMAIN log : log[i].type = "triggered" /\ log[i].archive = a
    /\ \A i \in DOMAIN log : log[i].archive = a => log[i].type = "triggered"

\* Two engines never work on the same archive.
OwnArchives ==
    \A e, f \in Engine :
        ~Idle(e) /\ ~Idle(f) /\ engine[e].attempt = engine[f].attempt => e = f

\* What a compress() that is under way relies on: the archive it works on is as
\* its stage says.
WorkingOf(e) ==
    /\ ~Idle(e) =>
          /\ engine[e].status = "not_triggered"
          /\ engine[e].attempt \in DOMAIN archives
          /\ archives[engine[e].attempt].segment = engine[e].snapshot.segment
          /\ engine[e].snapshot # NoSnapshot
    /\ engine[e].stage = "archived" =>
          /\ ~Bound(engine[e].attempt, archives, archiveOf)
          /\ archives[engine[e].attempt].state = "triggered"
    /\ engine[e].stage \in {"bound", "settled"} =>
          /\ Bound(engine[e].attempt, archives, archiveOf)
          /\ Unsettled(engine[e].attempt, attempts)
          /\ archives[engine[e].attempt].state = "triggered" <=> engine[e].stage = "bound"

WorkingInv == \A e \in Engine : WorkingOf(e)

\* What an engine remembers. A summary it holds or has served is the one of the
\* segment it is about.
MemoryOf(e) ==
    /\ engine[e].snapshot = NoSnapshot \/ engine[e].snapshot.segment \in DOMAIN segments
    /\ engine[e].context # 0 =>
          /\ engine[e].status = "completed"
          /\ Bound(engine[e].context, archives, archiveOf)
          /\ archives[engine[e].context].state = "completed"
          /\ archives[engine[e].context].segment = engine[e].segment
    /\ engine[e].snapshot.base # 0 =>
          /\ engine[e].snapshot.base = engine[e].context
          /\ engine[e].snapshot.segment = engine[e].segment
          /\ IsPrefix(archives[engine[e].context].conversation, engine[e].snapshot.conversation)

MemoryInv == \A e \in Engine : MemoryOf(e)

EmergencyInv ==
    /\ SegmentsBounded /\ ArchivesInv /\ LogInv /\ OwnArchives /\ WorkingInv /\ MemoryInv

-----------------------------------------------------------------------------
(* What holds of a selection that reads *)

ReadingInv ==
    \A e \in Engine :
        /\ reading[e].at \in {"none", "latest", "segment", "task", "build"}
        /\ Resting(e) => reading[e] = NotReading /\ overlap[e] = NoOverlap
        /\ ~Resting(e) => Idle(e) /\ engine[e].session \in SessionId
        /\ reading[e].at \in {"segment", "task", "build"} =>
              /\ reading[e].segment \in DOMAIN segments
              /\ segments[reading[e].segment].session = engine[e].session

\* What was read (read) of a session's pointer is what it is (row): so it stays
\* until the pointer moves.
Matches(read, row) ==
    /\ read.missing <=> ~row.exists
    /\ read.attached <=> row.task # None
    /\ read.at = "latest" => row.task = None
    /\ read.at # "latest" => row.exists
    /\ row.task # None =>
          /\ read.segment = row.segment
          /\ read.task = row.task
          /\ ~read.closed /\ ~read.inactive

UnmovedInv ==
    \A e \in Engine : ~Resting(e) /\ ~overlap[e].moved =>
        Matches(reading[e], sessions[engine[e].session])

\* The cut of this moment is one of the cuts seen, and so is the segment read.
CutsInv ==
    \A e \in Engine : ~Resting(e) =>
        /\ CutOf(engine[e].session) \subseteq overlap[e].cuts
        /\ reading[e].at # "latest" => reading[e].segment \in overlap[e].cuts

\* A session that has a segment has a row.
SessionsExist ==
    /\ \A g \in DOMAIN segments : sessions[segments[g].session].exists
    /\ \A s \in SessionId : Attached(s) => sessions[s].exists

-----------------------------------------------------------------------------
(* Steps *)

\* What neither specification does to anything but the engine's memory.
OnlyMemory == UNCHANGED <<vars, conversation, archives, archiveOf, attempts>>

\* A selection that is eligible, of a segment the session has or had.
Selects(e) ==
    /\ Idle(e) /\ engine[e].session \in SessionId
    /\ \E g \in DOMAIN segments : SelectedFor(e, g)
    /\ OnlyMemory

\* The steps of EmergencySpec and of ReadsSpec, where they touch emergencyVars.
MemoryStep ==
    \/ \E e \in Engine : Selects(e)
    \/ \E e \in Engine : Idle(e) /\ Forgets(e) /\ OnlyMemory
    \/ \E e \in Engine : HostStep(e)
    \/ \E s \in SessionId : Rewind(s) \/ \E m \in Message : AppendMessage(s, m)
    \/ \E a \in DOMAIN archives : CorruptArchive(a)
    \/ ServiceStep
    \/ UNCHANGED allVars

\* What the memory of engine e is after a step, field by field.
Remembers(e, memory) ==
    /\ engine' \in [Engine -> EngineMemory]
    /\ \A f \in Engine \ {e} : engine'[f] = engine[f]
    /\ engine'[e].session = memory.session
    /\ engine'[e].segment = memory.segment
    /\ engine'[e].status = memory.status
    /\ engine'[e].context = memory.context
    /\ engine'[e].snapshot = memory.snapshot
    /\ engine'[e].stage = memory.stage
    /\ engine'[e].attempt = memory.attempt

LEMMA ArchiveRow ==
  ASSUME EmergencyTypeOK
  PROVE  /\ Len(archives) \in Nat
         /\ DOMAIN archives = 1..Len(archives)
         /\ \A a \in 1..Len(archives) : archives[a] \in Archive
  BY LenProperties, ElementOfSeq DEF EmergencyTypeOK

\* What a segment is believed to be, in memory or from its archive, has its type.
LEMMA SyncedType ==
  ASSUME EmergencyTypeOK, NEW e \in Engine, NEW g \in 1..MaxSegments, NEW messages,
         NEW b \in Synced(e, g, messages)
  PROVE  b.status \in EmergencyState /\ b.context \in Nat
<1>1. CASE MemoryHolds(e, g, messages)
  BY <1>1 DEF Synced, EmergencyTypeOK, EngineMemory
<1>2. CASE b = Restored(g, messages)
  <2>1. archiveOf[g] \in 0..Len(archives) /\ Len(archives) \in Nat
    BY DEF EmergencyTypeOK
  <2>2. archiveOf[g] # 0 => archives[archiveOf[g]].state \in EmergencyState
    BY <2>1, ArchiveRow DEF Archive
  <2>3. \/ b = [status |-> "not_triggered", context |-> 0]
        \/ b = [status |-> "failed", context |-> 0]
        \/ archiveOf[g] # 0 /\ b = [status |-> archives[archiveOf[g]].state, context |-> 0]
        \/ b = [status |-> "completed", context |-> archiveOf[g]]
    BY <1>2 DEF Restored
  <2> QED BY <2>1, <2>2, <2>3 DEF EmergencyState
<1>3. CASE b = [status |-> "failed", context |-> 0]
  BY <1>3 DEF EmergencyState
<1> QED BY <1>1, <1>2, <1>3 DEF Synced

\* A segment number is in the domain of archiveOf.
LEMMA SegmentNumbers ==
  ASSUME TypeOK, SegmentsBounded, NEW g \in DOMAIN segments
  PROVE  g \in 1..MaxSegments /\ g \in Nat
  BY SegmentCountIsNat, BoundAssumption DEF SegmentsBounded

LEMMA SelectedForIs ==
  ASSUME EmergencyTypeOK, NEW e \in Engine, NEW g \in 1..MaxSegments,
         engine[e].session \in SessionId, SelectedFor(e, g)
  PROVE  \E b \in Synced(e, g, conversation[engine[e].session]) :
            Remembers(e, [session |-> engine[e].session, segment |-> g, status |-> b.status,
                          context |-> b.context,
                          snapshot |-> [segment |-> g,
                                        conversation |-> conversation[engine[e].session],
                                        base |-> b.context],
                          stage |-> engine[e].stage, attempt |-> engine[e].attempt])
<1> DEFINE messages == conversation[engine[e].session]
<1>1. PICK b \in Synced(e, g, messages) :
         engine' = [engine EXCEPT ![e].segment = g,
                                  ![e].status = b.status,
                                  ![e].context = b.context,
                                  ![e].snapshot = [segment |-> g, conversation |-> messages,
                                                   base |-> b.context]]
  BY DEF SelectedFor
<1>2. engine \in [Engine -> EngineMemory] /\ messages \in Seq(Message)
  BY DEF EmergencyTypeOK
<1>3. b.status \in EmergencyState /\ b.context \in Nat
  BY SyncedType
<1>4. g \in Nat
  BY BoundAssumption
<1>5. [segment |-> g, conversation |-> messages, base |-> b.context] \in Snapshot
  BY <1>2, <1>3, <1>4 DEF Snapshot
<1>6. engine' \in [Engine -> EngineMemory]
  <2> DEFINE base == [segment |-> g, conversation |-> messages, base |-> b.context]
             m == [engine[e] EXCEPT !.segment = g, !.status = b.status,
                                    !.context = b.context, !.snapshot = base]
  <2> HIDE DEF base
  <2>1. base \in Snapshot
    BY <1>5 DEF base
  <2>2. engine[e] \in EngineMemory
    BY <1>2
  <2>3. m \in EngineMemory
    BY <1>3, <1>4, <2>1, <2>2 DEF EngineMemory
  <2>4. engine' = [engine EXCEPT ![e] = m]
    BY <1>1, <1>2 DEF base, EngineMemory
  <2> HIDE DEF m
  <2> QED BY <1>2, <2>3, <2>4
<1>7. \A f \in Engine \ {e} : engine'[f] = engine[f]
  BY <1>1, <1>2
<1>8. /\ engine'[e].session = engine[e].session
      /\ engine'[e].segment = g
      /\ engine'[e].status = b.status
      /\ engine'[e].context = b.context
      /\ engine'[e].snapshot = [segment |-> g, conversation |-> messages, base |-> b.context]
      /\ engine'[e].stage = engine[e].stage
      /\ engine'[e].attempt = engine[e].attempt
  BY <1>1, <1>2 DEF EngineMemory
<1> QED BY <1>6, <1>7, <1>8 DEF Remembers

LEMMA ForgottenIs ==
  ASSUME EmergencyTypeOK, NEW e \in Engine, NEW s \in SessionId \cup {None},
         \/ Forgets(e) /\ s = engine[e].session
         \/ engine' = [engine EXCEPT ![e] = [Forgotten(@) EXCEPT !.session = s]]
  PROVE  Remembers(e, [NoMemory EXCEPT !.session = s, !.stage = engine[e].stage,
                                       !.attempt = engine[e].attempt])
<1>1. engine \in [Engine -> EngineMemory] /\ engine[e] \in EngineMemory
  BY DEF EmergencyTypeOK
<1>2. NoSnapshot \in Snapshot
  BY DEF NoSnapshot, Snapshot
<1>3. \A f \in Engine \ {e} : engine'[f] = engine[f]
  BY <1>1 DEF Forgets
<1>4. engine' \in [Engine -> EngineMemory]
  <2> DEFINE m == [engine[e] EXCEPT !.status = "not_triggered", !.context = 0, !.segment = 0,
                                   !.snapshot = NoSnapshot, !.session = s]
  <2>1. m \in EngineMemory
    BY <1>1, <1>2 DEF EngineMemory, EmergencyState
  <2>2. Forgotten(engine[e]) = [m EXCEPT !.session = engine[e].session]
    BY <1>1 DEF Forgotten, EngineMemory
  <2>3. [Forgotten(engine[e]) EXCEPT !.session = s] = m
    BY <1>1 DEF Forgotten, EngineMemory
  <2>4. engine'[e] = m
    BY <1>1, <2>2, <2>3 DEF Forgets, EngineMemory
  <2> QED BY <1>1, <1>3, <2>1, <2>4 DEF Forgets
<1>5. /\ engine'[e].session = s
      /\ engine'[e].segment = 0
      /\ engine'[e].status = "not_triggered"
      /\ engine'[e].context = 0
      /\ engine'[e].snapshot = NoSnapshot
      /\ engine'[e].stage = engine[e].stage
      /\ engine'[e].attempt = engine[e].attempt
  BY <1>1, ZenonT(40) DEF Forgets, Forgotten, EngineMemory
<1> QED BY <1>3, <1>4, <1>5 DEF Remembers, NoMemory

LEMMA CrashIs ==
  ASSUME EmergencyTypeOK, NEW e \in Engine, Crash(e)
  PROVE  Remembers(e, NoMemory)
<1>1. engine \in [Engine -> EngineMemory]
  BY DEF EmergencyTypeOK
<1>2. NoMemory \in EngineMemory
  BY DEF NoMemory, EngineMemory, NoSnapshot, Snapshot, EmergencyState, Stage
<1> QED BY <1>1, <1>2 DEF Crash, Remembers

\* The steps of compress() change the status, the stage and the attempt.
LEMMA StageIs ==
  ASSUME EmergencyTypeOK, NEW e \in Engine, NEW status \in EmergencyState,
         NEW stage \in Stage, NEW a \in Nat,
         \/ engine' = [engine EXCEPT ![e].status = status, ![e].stage = stage, ![e].attempt = a]
         \/ /\ engine' = [engine EXCEPT ![e].stage = stage, ![e].attempt = a]
            /\ status = engine[e].status
         \/ /\ engine' = [engine EXCEPT ![e].stage = stage]
            /\ status = engine[e].status /\ a = engine[e].attempt
  PROVE  Remembers(e, [engine[e] EXCEPT !.status = status, !.stage = stage, !.attempt = a])
<1>1. engine \in [Engine -> EngineMemory] /\ engine[e] \in EngineMemory
  BY DEF EmergencyTypeOK
<1>2. engine' \in [Engine -> EngineMemory]
  BY <1>1 DEF EngineMemory
<1>3. \A f \in Engine \ {e} : engine'[f] = engine[f]
  BY <1>1
<1>4. /\ engine'[e].session = engine[e].session
      /\ engine'[e].segment = engine[e].segment
      /\ engine'[e].status = status
      /\ engine'[e].context = engine[e].context
      /\ engine'[e].snapshot = engine[e].snapshot
      /\ engine'[e].stage = stage
      /\ engine'[e].attempt = a
  BY <1>1 DEF EngineMemory
<1> QED BY <1>1, <1>2, <1>3, <1>4 DEF Remembers, EngineMemory

LEMMA RecordOutcomeIs ==
  ASSUME EmergencyTypeOK, NEW e \in Engine, RecordOutcome(e),
         engine[e].attempt \in DOMAIN archives
  PROVE  LET a == engine[e].attempt
             outcome == archives[a].state
         IN  Remembers(e, [session |-> engine[e].session,
                           segment |-> engine[e].snapshot.segment, status |-> outcome,
                           context |-> IF outcome = "completed" THEN a ELSE engine[e].context,
                           snapshot |-> engine[e].snapshot, stage |-> "idle", attempt |-> 0])
<1> DEFINE a == engine[e].attempt
           outcome == archives[a].state
<1>1. engine \in [Engine -> EngineMemory] /\ engine[e] \in EngineMemory
  BY DEF EmergencyTypeOK
<1>2. outcome \in EmergencyState /\ a \in Nat
  BY <1>1, ArchiveRow DEF Archive, EngineMemory
<1>3. engine' = [engine EXCEPT ![e].status = outcome,
                               ![e].segment = engine[e].snapshot.segment,
                               ![e].context = IF outcome = "completed" THEN a ELSE @,
                               ![e].stage = "idle",
                               ![e].attempt = 0]
  BY DEF RecordOutcome
<1>4. engine' \in [Engine -> EngineMemory]
  BY <1>1, <1>2, <1>3 DEF EngineMemory, Snapshot, Stage
<1>5. \A f \in Engine \ {e} : engine'[f] = engine[f]
  BY <1>1, <1>3
<1>6. /\ engine'[e].session = engine[e].session
      /\ engine'[e].segment = engine[e].snapshot.segment
      /\ engine'[e].status = outcome
      /\ engine'[e].context = IF outcome = "completed" THEN a ELSE engine[e].context
      /\ engine'[e].snapshot = engine[e].snapshot
      /\ engine'[e].stage = "idle"
      /\ engine'[e].attempt = 0
  BY <1>1, <1>3 DEF EngineMemory
<1> QED BY <1>4, <1>5, <1>6 DEF Remembers

-----------------------------------------------------------------------------
(* Types *)

\* A file that is replaced changes its state only.
LEMMA ArchivesAfterIs ==
  ASSUME EmergencyTypeOK, NEW a \in DOMAIN archives,
         NEW outcome \in EmergencyState \ {"not_triggered"}
  PROVE  /\ ArchivesAfter(a, outcome) \in Seq(Archive)
         /\ Len(ArchivesAfter(a, outcome)) = Len(archives)
         /\ DOMAIN ArchivesAfter(a, outcome) = DOMAIN archives
         /\ \A b \in DOMAIN archives :
               /\ ArchivesAfter(a, outcome)[b].segment = archives[b].segment
               /\ ArchivesAfter(a, outcome)[b].conversation = archives[b].conversation
               /\ ArchivesAfter(a, outcome)[b].state =
                     IF b = a THEN outcome ELSE archives[b].state
<1>1. archives \in Seq(Archive) /\ a \in 1..Len(archives) /\ archives[a] \in Archive
  BY ArchiveRow DEF EmergencyTypeOK
<1>2. [archives[a] EXCEPT !.state = outcome] \in Archive
  BY <1>1 DEF Archive
<1>3. ArchivesAfter(a, outcome) = [archives EXCEPT ![a] = [archives[a] EXCEPT !.state = outcome]]
  BY <1>1 DEF ArchivesAfter, Archive
<1>4. /\ ArchivesAfter(a, outcome) \in Seq(Archive)
      /\ Len(ArchivesAfter(a, outcome)) = Len(archives)
  BY <1>1, <1>2, <1>3, ExceptSeq
<1>5. \A b \in DOMAIN archives : archives[b] \in Archive
  BY ArchiveRow
<1> QED BY <1>1, <1>3, <1>4, <1>5 DEF Archive

LEMMA CorruptArchiveIs ==
  ASSUME EmergencyTypeOK, NEW a \in DOMAIN archives, CorruptArchive(a)
  PROVE  /\ archives' \in Seq(Archive)
         /\ Len(archives') = Len(archives)
         /\ DOMAIN archives' = DOMAIN archives
         /\ \A b \in DOMAIN archives :
               /\ archives'[b].segment = archives[b].segment
               /\ archives'[b].conversation = archives[b].conversation
               /\ archives'[b].state = archives[b].state
<1>1. archives \in Seq(Archive) /\ a \in 1..Len(archives) /\ archives[a] \in Archive
  BY ArchiveRow DEF EmergencyTypeOK
<1>2. [archives[a] EXCEPT !.readable = FALSE] \in Archive
  BY <1>1 DEF Archive
<1>3. archives' = [archives EXCEPT ![a] = [archives[a] EXCEPT !.readable = FALSE]]
  BY <1>1 DEF CorruptArchive, Archive
<1>4. archives' \in Seq(Archive) /\ Len(archives') = Len(archives)
  BY <1>1, <1>2, <1>3, ExceptSeq
<1>5. \A b \in DOMAIN archives : archives[b] \in Archive
  BY ArchiveRow
<1> QED BY <1>1, <1>3, <1>4, <1>5 DEF Archive

\* A new file is the last one.
LEMMA WriteArchiveIs ==
  ASSUME EmergencyTypeOK, NEW e \in Engine, WriteArchive(e)
  PROVE  /\ archives' \in Seq(Archive)
         /\ Len(archives') = Len(archives) + 1
         /\ DOMAIN archives' = 1..(Len(archives) + 1)
         /\ \A b \in 1..Len(archives) : archives'[b] = archives[b]
         /\ archives'[Len(archives) + 1] =
               [segment |-> engine[e].snapshot.segment,
                conversation |-> engine[e].snapshot.conversation,
                state |-> "triggered", readable |-> TRUE]
<1> DEFINE new == [segment |-> engine[e].snapshot.segment,
                   conversation |-> engine[e].snapshot.conversation,
                   state |-> "triggered", readable |-> TRUE]
<1>1. archives \in Seq(Archive) /\ engine[e].snapshot \in Snapshot
  BY DEF EmergencyTypeOK, EngineMemory
<1>2. new \in Archive
  BY <1>1 DEF Archive, Snapshot, EmergencyState
<1>3. archives' = Append(archives, new)
  BY DEF WriteArchive
<1>4. Len(archives) \in Nat
  BY ArchiveRow
<1> HIDE DEF new
<1>5. /\ Append(archives, new) \in Seq(Archive)
      /\ Len(Append(archives, new)) = Len(archives) + 1
      /\ \A b \in 1..Len(archives) : Append(archives, new)[b] = archives[b]
      /\ Append(archives, new)[Len(archives) + 1] = new
  BY <1>1, <1>2, AppendProperties
<1>6. DOMAIN archives' = 1..Len(archives')
  BY <1>3, <1>5, LenProperties
<1> QED BY <1>3, <1>4, <1>5, <1>6 DEF new

\* A new entry is the last one of the log.
LEMMA LoggedIs ==
  ASSUME EmergencyTypeOK, NEW type \in EmergencyState \ {"not_triggered"}, NEW a \in Nat,
         attempts' = Append(attempts, [type |-> type, archive |-> a])
  PROVE  /\ attempts' \in Seq(Attempt)
         /\ Len(attempts) \in Nat
         /\ DOMAIN attempts = 1..Len(attempts)
         /\ DOMAIN attempts' = 1..(Len(attempts) + 1)
         /\ \A i \in 1..Len(attempts) : attempts'[i] = attempts[i]
         /\ attempts'[Len(attempts) + 1] = [type |-> type, archive |-> a]
<1> DEFINE new == [type |-> type, archive |-> a]
<1>1. attempts \in Seq(Attempt) /\ new \in Attempt
  BY DEF EmergencyTypeOK, Attempt
<1>2. attempts' = Append(attempts, new)
  OBVIOUS
<1>3. Len(attempts) \in Nat /\ DOMAIN attempts = 1..Len(attempts)
  BY <1>1, LenProperties
<1> HIDE DEF new
<1>4. /\ attempts' \in Seq(Attempt)
      /\ Len(attempts') = Len(attempts) + 1
      /\ \A i \in 1..Len(attempts) : attempts'[i] = attempts[i]
      /\ attempts'[Len(attempts) + 1] = new
  BY <1>1, <1>2, AppendProperties
<1>5. DOMAIN attempts' = 1..Len(attempts')
  BY <1>4, LenProperties
<1> QED BY <1>3, <1>4, <1>5 DEF new

LEMMA ConversationType ==
  ASSUME EmergencyTypeOK, NEW s \in SessionId,
         Rewind(s) \/ \E m \in Message : AppendMessage(s, m)
  PROVE  EmergencyTypeOK'
<1>1. conversation \in [SessionId -> Seq(Message)] /\ conversation[s] \in Seq(Message)
  BY DEF EmergencyTypeOK
<1>2. ASSUME NEW m \in Message, AppendMessage(s, m)
      PROVE  conversation' \in [SessionId -> Seq(Message)]
  <2>1. Append(conversation[s], m) \in Seq(Message)
    BY <1>1, AppendProperties
  <2> QED BY <1>1, <1>2, <2>1 DEF AppendMessage
<1>3. ASSUME Rewind(s)
      PROVE  conversation' \in [SessionId -> Seq(Message)]
  <2>1. Front(conversation[s]) \in Seq(Message)
    <3>1. Len(conversation[s]) \in Nat
      BY <1>1, LenProperties
    <3> QED BY <1>1, <3>1 DEF Front
  <2> QED BY <1>1, <1>3, <2>1 DEF Rewind
<1>4. UNCHANGED emergencyVars
  BY DEF Rewind, AppendMessage
<1> QED BY <1>2, <1>3, <1>4 DEF EmergencyTypeOK, emergencyVars

LEMMA EmergencyTypeStep ==
  ASSUME TypeOK, SegmentsBounded, EmergencyTypeOK, WorkingInv, MemoryStep
  PROVE  EmergencyTypeOK'
<1>0. /\ conversation \in [SessionId -> Seq(Message)]
      /\ archives \in Seq(Archive)
      /\ archiveOf \in [1..MaxSegments -> 0..Len(archives)]
      /\ attempts \in Seq(Attempt)
      /\ engine \in [Engine -> EngineMemory]
      /\ Len(archives) \in Nat
      /\ DOMAIN archives = 1..Len(archives)
  BY ArchiveRow DEF EmergencyTypeOK
<1>e. /\ engine' \in [Engine -> EngineMemory]
      /\ UNCHANGED <<conversation, archives, archiveOf, attempts>>
      => EmergencyTypeOK'
  BY <1>0 DEF EmergencyTypeOK
<1>1. ASSUME NEW e \in Engine, Selects(e)
      PROVE  EmergencyTypeOK'
  BY <1>1, <1>e, SegmentNumbers, SelectedForIs DEF Selects, OnlyMemory, Remembers
<1>2. ASSUME NEW e \in Engine, NEW s \in SessionId \cup {None},
             \/ Forgets(e) /\ s = engine[e].session
             \/ engine' = [engine EXCEPT ![e] = [Forgotten(@) EXCEPT !.session = s]],
             OnlyMemory
      PROVE  EmergencyTypeOK'
  BY <1>2, <1>e, ForgottenIs DEF OnlyMemory, Remembers
<1>3. ASSUME NEW e \in Engine, Crash(e)
      PROVE  EmergencyTypeOK'
  BY <1>3, <1>e, CrashIs DEF Crash, Remembers
<1>w. ASSUME NEW e \in Engine
      PROVE  /\ engine[e].status \in EmergencyState /\ engine[e].attempt \in Nat
             /\ ~Idle(e) => engine[e].attempt \in DOMAIN archives
  BY <1>0, <1>w DEF EngineMemory, WorkingInv, WorkingOf
<1>u. ASSUME NEW e \in Engine, Unavailable(e)
      PROVE  engine' \in [Engine -> EngineMemory]
  BY <1>u, StageIs DEF Unavailable, Remembers, EmergencyState, Stage
<1>4. ASSUME NEW e \in Engine, WriteArchive(e)
      PROVE  EmergencyTypeOK'
  <2>1. engine' \in [Engine -> EngineMemory]
    <3> DEFINE status == engine[e].status
    <3>1. engine' = [engine EXCEPT ![e].stage = "archived", ![e].attempt = Len(archives) + 1]
      BY <1>4 DEF WriteArchive
    <3>2. status \in EmergencyState /\ "archived" \in Stage /\ Len(archives) + 1 \in Nat
      BY <1>0, <1>w DEF Stage
    <3> QED BY <3>1, <3>2, StageIs DEF Remembers
  <2>2. archives' \in Seq(Archive) /\ Len(archives') = Len(archives) + 1
    BY <1>4, WriteArchiveIs
  <2> QED BY <1>0, <1>4, <2>1, <2>2 DEF WriteArchive, EmergencyTypeOK
<1>5. ASSUME NEW e \in Engine, BindArchive(e)
      PROVE  EmergencyTypeOK'
  <2>1. engine' \in [Engine -> EngineMemory]
    BY <1>0, <1>5, <1>w, StageIs DEF BindArchive, Remembers, Stage
  <2>2. attempts' \in Seq(Attempt)
    BY <1>0, <1>5, <1>w, LoggedIs DEF BindArchive, EmergencyState
  <2>3. engine[e].attempt \in 0..Len(archives)
    BY <1>0, <1>5, <1>w DEF BindArchive, Idle
  <2> QED BY <1>0, <1>5, <2>1, <2>2, <2>3 DEF BindArchive, EmergencyTypeOK
<1>6. ASSUME NEW e \in Engine, NEW outcome \in {"completed", "failed"}, Settle(e, outcome)
      PROVE  EmergencyTypeOK'
  <2>1. engine' \in [Engine -> EngineMemory]
    BY <1>0, <1>6, <1>w, StageIs DEF Settle, Remembers, Stage
  <2>2. archives' \in Seq(Archive) /\ Len(archives') = Len(archives)
    BY <1>6, <1>w, ArchivesAfterIs DEF Settle, Idle, EmergencyState
  <2> QED BY <1>0, <1>6, <2>1, <2>2 DEF Settle, EmergencyTypeOK
<1>7. ASSUME NEW e \in Engine, NEW outcome \in {"completed", "failed"}, SettleFails(e, outcome)
      PROVE  EmergencyTypeOK'
  <2>1. engine' \in [Engine -> EngineMemory]
    BY <1>7, <1>u DEF SettleFails
  <2>2. archives' \in Seq(Archive) /\ Len(archives') = Len(archives)
    BY <1>0, <1>7, <1>w, ArchivesAfterIs DEF SettleFails, Idle, EmergencyState
  <2> QED BY <1>0, <1>7, <2>1, <2>2 DEF SettleFails, EmergencyTypeOK
<1>8. ASSUME NEW e \in Engine, RecordOutcome(e)
      PROVE  EmergencyTypeOK'
  <2>1. engine[e].attempt \in DOMAIN archives
    BY <1>8, <1>w DEF RecordOutcome, Idle
  <2>2. engine' \in [Engine -> EngineMemory]
    BY <1>8, <2>1, RecordOutcomeIs DEF Remembers
  <2>3. archives[engine[e].attempt].state \in EmergencyState \ {"not_triggered"}
    BY <2>1, ArchiveRow DEF Archive
  <2>4. attempts' \in Seq(Attempt)
    BY <1>8, <1>w, <2>3, LoggedIs DEF RecordOutcome
  <2> QED BY <1>0, <1>8, <2>2, <2>4 DEF RecordOutcome, EmergencyTypeOK
<1>9. ASSUME NEW e \in Engine, Interrupt(e)
      PROVE  EmergencyTypeOK'
  BY <1>9, <1>e, <1>w, StageIs DEF Interrupt, Remembers, Stage
<1>10. ASSUME NEW e \in Engine,
              WriteArchiveFails(e) \/ BindArchiveFails(e) \/ RecordOutcomeFails(e)
       PROVE  EmergencyTypeOK'
  BY <1>10, <1>e, <1>u DEF WriteArchiveFails, BindArchiveFails, RecordOutcomeFails
<1>11. ASSUME NEW e \in Engine, HostStep(e)
       PROVE  EmergencyTypeOK'
  <2>1. CASE ResetSession(e) \/ \E s \in SessionId : StartSession(e, s)
    BY <1>2, <2>1 DEF ResetSession, StartSession, OnlyMemory
  <2> QED
    BY <1>3, <1>4, <1>5, <1>6, <1>7, <1>8, <1>9, <1>10, <1>11, <2>1 DEF HostStep, CompressStep
<1>12. ASSUME NEW a \in DOMAIN archives, CorruptArchive(a)
       PROVE  EmergencyTypeOK'
  <2>1. archives' \in Seq(Archive) /\ Len(archives') = Len(archives)
    BY <1>12, CorruptArchiveIs
  <2> QED BY <1>0, <1>12, <2>1 DEF CorruptArchive, EmergencyTypeOK
<1>13. CASE ServiceStep \/ UNCHANGED allVars
  BY <1>13, <1>e, <1>0 DEF ServiceStep, allVars, emergencyVars
<1>14. ASSUME NEW e \in Engine, Forgets(e), OnlyMemory
       PROVE  EmergencyTypeOK'
  <2>1. engine[e].session \in SessionId \cup {None}
    BY <1>0 DEF EngineMemory
  <2> QED BY <1>2, <1>14, <2>1
<1> QED
  BY <1>1, <1>11, <1>12, <1>13, <1>14, ConversationType DEF MemoryStep

-----------------------------------------------------------------------------
(* The archives and the log *)

\* A step that leaves the log, the references and the states of the files alone.
FilesSame ==
    /\ DOMAIN segments \subseteq DOMAIN segments'
    /\ DOMAIN archives' = DOMAIN archives
    /\ \A a \in DOMAIN archives :
          /\ archives'[a].segment = archives[a].segment
          /\ archives'[a].conversation = archives[a].conversation
          /\ archives'[a].state = archives[a].state
    /\ archiveOf' = archiveOf /\ attempts' = attempts

\* What every step leaves of the files, for whoever relies on them.
FilesKept ==
    /\ DOMAIN segments \subseteq DOMAIN segments'
    /\ \A a \in DOMAIN archives :
          /\ a \in DOMAIN archives'
          /\ archives'[a].segment = archives[a].segment
          /\ archives'[a].conversation = archives[a].conversation
          /\ archives[a].state # "triggered" => archives'[a].state = archives[a].state
          /\ Bound(a, archives, archiveOf) => Bound(a, archives', archiveOf')

\* What a compress() that works on archive a relies on.
FileUntouched(a) ==
    /\ a \in DOMAIN archives'
    /\ archives'[a].segment = archives[a].segment
    /\ archives'[a].state = archives[a].state
    /\ Bound(a, archives', archiveOf') <=> Bound(a, archives, archiveOf)
    /\ Unsettled(a, attempts) => Unsettled(a, attempts')

LEMMA SameFilesKeepInv ==
  ASSUME EmergencyTypeOK, ArchivesInv, LogInv, FilesSame
  PROVE  /\ ArchivesInv' /\ LogInv' /\ FilesKept
         /\ \A a \in DOMAIN archives : FileUntouched(a)
<1>1. \A a : Bound(a, archives', archiveOf') <=> Bound(a, archives, archiveOf)
  BY DEF FilesSame, Bound
<1>2. \A a \in DOMAIN archives : FileUntouched(a)
  BY <1>1 DEF FilesSame, FileUntouched, Unsettled
<1>3. FilesKept
  BY <1>1 DEF FilesSame, FilesKept
<1>4. ArchivesInv'
  <2>1. \A a \in DOMAIN archives' : archives'[a].segment \in DOMAIN segments'
    BY DEF FilesSame, ArchivesInv
  <2>2. \A g \in 1..MaxSegments : archiveOf'[g] # 0 => archives'[archiveOf'[g]].segment = g
    <3>1. \A g \in 1..MaxSegments : archiveOf[g] # 0 => archiveOf[g] \in DOMAIN archives
      BY ArchiveRow DEF EmergencyTypeOK
    <3> QED BY <3>1 DEF FilesSame, ArchivesInv
  <2>3. \A a \in DOMAIN archives' : archives'[a].state # "triggered"
              => Bound(a, archives', archiveOf')
    BY <1>1 DEF FilesSame, ArchivesInv
  <2> QED BY <2>1, <2>2, <2>3 DEF ArchivesInv
<1>5. LogInv'
  <2>1. \A i \in DOMAIN attempts : Bound(attempts[i].archive, archives', archiveOf')
    BY <1>1 DEF LogInv
  <2>2. \A i \in DOMAIN attempts : attempts[i].type # "triggered" =>
           archives'[attempts[i].archive].state = attempts[i].type
    BY DEF LogInv, FilesSame, Bound
  <2> QED BY <2>1, <2>2 DEF LogInv, FilesSame
<1> QED BY <1>2, <1>3, <1>4, <1>5

LEMMA WritingKeepsFiles ==
  ASSUME TypeOK, SegmentsBounded, EmergencyTypeOK, ArchivesInv, LogInv,
         NEW e \in Engine, MemoryOf(e), WriteArchive(e)
  PROVE  /\ ArchivesInv' /\ LogInv' /\ FilesKept
         /\ \A a \in DOMAIN archives : FileUntouched(a)
         /\ ~Bound(Len(archives) + 1, archives', archiveOf')
<1> DEFINE n == Len(archives)
<1>1. /\ n \in Nat /\ DOMAIN archives = 1..n /\ DOMAIN archives' = 1..(n + 1)
      /\ \A b \in 1..n : archives'[b] = archives[b]
      /\ archives'[n + 1].segment = engine[e].snapshot.segment
      /\ archives'[n + 1].state = "triggered"
  <2>1. /\ DOMAIN archives' = 1..(n + 1)
        /\ \A b \in 1..n : archives'[b] = archives[b]
        /\ archives'[n + 1] = [segment |-> engine[e].snapshot.segment,
                               conversation |-> engine[e].snapshot.conversation,
                               state |-> "triggered", readable |-> TRUE]
    BY WriteArchiveIs
  <2> QED BY <2>1, ArchiveRow
<1>2. archiveOf' = archiveOf /\ attempts' = attempts /\ segments' = segments
  BY DEF WriteArchive, vars
<1>3. engine[e].snapshot.segment \in DOMAIN segments
  BY DEF MemoryOf, WriteArchive, ShouldCompress
<1>4. \A g \in 1..MaxSegments : archiveOf[g] \in 0..n
  BY DEF EmergencyTypeOK
<1>5. ~Bound(n + 1, archives', archiveOf')
  BY <1>1, <1>2, <1>3, <1>4, SegmentNumbers DEF Bound
<1>6. \A b \in 1..n : Bound(b, archives', archiveOf') <=> Bound(b, archives, archiveOf)
  BY <1>1, <1>2 DEF Bound
<1>7. \A a \in DOMAIN archives : FileUntouched(a)
  BY <1>1, <1>2, <1>6 DEF FileUntouched, Unsettled
<1>8. FilesKept
  BY <1>1, <1>2, <1>6 DEF FilesKept
<1>9. ArchivesInv'
  <2>1. \A a \in DOMAIN archives' : archives'[a].segment \in DOMAIN segments'
    BY <1>1, <1>2, <1>3 DEF ArchivesInv
  <2>2. \A g \in 1..MaxSegments : archiveOf'[g] # 0 => archives'[archiveOf'[g]].segment = g
    BY <1>1, <1>2, <1>4 DEF ArchivesInv
  <2>3. \A a \in DOMAIN archives' : archives'[a].state # "triggered"
              => Bound(a, archives', archiveOf')
    BY <1>1, <1>6 DEF ArchivesInv
  <2> QED BY <2>1, <2>2, <2>3 DEF ArchivesInv
<1>10. LogInv'
  <2>1. \A i \in DOMAIN attempts : /\ attempts[i].archive \in 1..n
                                   /\ Bound(attempts[i].archive, archives, archiveOf)
    BY <1>1 DEF LogInv, Bound
  <2>2. \A i \in DOMAIN attempts : Bound(attempts[i].archive, archives', archiveOf')
    BY <1>6, <2>1
  <2>3. \A i \in DOMAIN attempts : attempts[i].type # "triggered" =>
           archives'[attempts[i].archive].state = attempts[i].type
    BY <1>1, <2>1 DEF LogInv
  <2> QED BY <1>2, <2>2, <2>3 DEF LogInv
<1> QED BY <1>5, <1>7, <1>8, <1>9, <1>10

LEMMA BindingKeepsFiles ==
  ASSUME TypeOK, SegmentsBounded, EmergencyTypeOK, ArchivesInv, LogInv,
         NEW e \in Engine, WorkingOf(e), BindArchive(e)
  PROVE  /\ ArchivesInv' /\ LogInv' /\ FilesKept
         /\ \A a \in DOMAIN archives \ {engine[e].attempt} : FileUntouched(a)
         /\ Bound(engine[e].attempt, archives', archiveOf')
         /\ Unsettled(engine[e].attempt, attempts')
<1> DEFINE a == engine[e].attempt
           g == engine[e].snapshot.segment
           n == Len(attempts)
<1>1. /\ a \in DOMAIN archives /\ archives[a].segment = g
      /\ ~Bound(a, archives, archiveOf) /\ archiveOf[g] = 0
  BY DEF WorkingOf, BindArchive, Idle, CanBind
<1>2. g \in DOMAIN segments /\ g \in 1..MaxSegments
  BY <1>1, SegmentNumbers DEF ArchivesInv
<1>3. \A b \in DOMAIN archives : b # 0 /\ b \in Nat
  BY ArchiveRow
<1>4. /\ archives' = archives /\ segments' = segments
      /\ \A h \in 1..MaxSegments : archiveOf'[h] = IF h = g THEN a ELSE archiveOf[h]
  BY <1>2 DEF BindArchive, vars, EmergencyTypeOK
<1>5. /\ n \in Nat /\ DOMAIN attempts = 1..n /\ DOMAIN attempts' = 1..(n + 1)
      /\ \A i \in 1..n : attempts'[i] = attempts[i]
      /\ attempts'[n + 1] = [type |-> "triggered", archive |-> a]
  BY <1>1, <1>3, LoggedIs DEF BindArchive, EmergencyState
<1>6. \A b \in DOMAIN archives : archives[b].segment \in 1..MaxSegments
  BY SegmentNumbers DEF ArchivesInv
<1>7. Bound(a, archives', archiveOf')
  BY <1>1, <1>2, <1>4 DEF Bound
<1>8. \A b \in DOMAIN archives \ {a} : Bound(b, archives', archiveOf')
          <=> Bound(b, archives, archiveOf)
  BY <1>1, <1>3, <1>4, <1>6 DEF Bound
<1>9. \A i \in 1..n : /\ Bound(attempts[i].archive, archives, archiveOf)
                      /\ attempts[i].archive # a
                      /\ attempts[i].archive \in DOMAIN archives
  BY <1>1, <1>5 DEF LogInv, Bound
<1>10. Unsettled(a, attempts')
  <2>1. \E i \in DOMAIN attempts' : attempts'[i].type = "triggered" /\ attempts'[i].archive = a
    BY <1>5
  <2>2. \A i \in DOMAIN attempts' : attempts'[i].archive = a => attempts'[i].type = "triggered"
    BY <1>5, <1>9
  <2> QED BY <2>1, <2>2 DEF Unsettled
<1>11. ASSUME NEW b \in DOMAIN archives \ {a}
       PROVE  FileUntouched(b)
  <2>1. Unsettled(b, attempts) => Unsettled(b, attempts')
    <3> SUFFICES ASSUME Unsettled(b, attempts) PROVE Unsettled(b, attempts')
      OBVIOUS
    <3>1. \E i \in DOMAIN attempts' : /\ attempts'[i].type = "triggered"
                                      /\ attempts'[i].archive = b
      BY <1>5 DEF Unsettled
    <3>2. \A i \in DOMAIN attempts' : attempts'[i].archive = b
                                        => attempts'[i].type = "triggered"
      BY <1>5 DEF Unsettled
    <3> QED BY <3>1, <3>2 DEF Unsettled
  <2> QED BY <1>4, <1>8, <2>1 DEF FileUntouched
<1>12. FilesKept
  BY <1>4, <1>7, <1>8 DEF FilesKept
<1>13. ArchivesInv'
  <2>1. \A h \in 1..MaxSegments : archiveOf'[h] # 0 => archives'[archiveOf'[h]].segment = h
    BY <1>1, <1>4 DEF ArchivesInv
  <2>2. \A b \in DOMAIN archives : archives[b].state # "triggered"
              => Bound(b, archives', archiveOf')
    BY <1>7, <1>8 DEF ArchivesInv
  <2> QED BY <1>4, <2>1, <2>2 DEF ArchivesInv
<1>14. LogInv'
  <2>1. \A i \in DOMAIN attempts' : Bound(attempts'[i].archive, archives', archiveOf')
    BY <1>5, <1>7, <1>8, <1>9
  <2>2. \A i, j \in DOMAIN attempts' :
           attempts'[i].archive = attempts'[j].archive
             /\ (attempts'[i].type = "triggered" <=> attempts'[j].type = "triggered") => i = j
    <3>1. \A i, j \in 1..n :
             attempts[i].archive = attempts[j].archive
               /\ (attempts[i].type = "triggered" <=> attempts[j].type = "triggered") => i = j
      BY <1>5 DEF LogInv
    <3> QED BY <1>5, <1>9, <3>1
  <2>3. ASSUME NEW i \in DOMAIN attempts', attempts'[i].type # "triggered"
        PROVE  /\ archives'[attempts'[i].archive].state = attempts'[i].type
               /\ \E j \in DOMAIN attempts' :
                     j < i /\ attempts'[j].type = "triggered"
                           /\ attempts'[j].archive = attempts'[i].archive
    <3>1. i \in 1..n /\ attempts'[i] = attempts[i]
      BY <1>5, <2>3
    <3>2. PICK j \in 1..n : j < i /\ attempts[j].type = "triggered"
                                  /\ attempts[j].archive = attempts[i].archive
      BY <1>5, <2>3, <3>1 DEF LogInv
    <3>3. archives[attempts[i].archive].state = attempts[i].type
      BY <1>5, <2>3, <3>1 DEF LogInv
    <3> QED BY <1>4, <1>5, <3>1, <3>2, <3>3
  <2> QED BY <2>1, <2>2, <2>3 DEF LogInv
<1> QED BY <1>7, <1>10, <1>11, <1>12, <1>13, <1>14

\* The file of an attempt that is logged and has no outcome yet gets one.
LEMMA SettlingKeepsFiles ==
  ASSUME EmergencyTypeOK, ArchivesInv, LogInv,
         NEW e \in Engine, WorkingOf(e), engine[e].stage = "bound",
         NEW outcome \in {"completed", "failed"},
         archives' = ArchivesAfter(engine[e].attempt, outcome),
         UNCHANGED <<segments, archiveOf, attempts>>
  PROVE  /\ ArchivesInv' /\ LogInv' /\ FilesKept
         /\ \A a \in DOMAIN archives \ {engine[e].attempt} : FileUntouched(a)
         /\ engine[e].attempt \in DOMAIN archives'
         /\ archives'[engine[e].attempt].segment = archives[engine[e].attempt].segment
         /\ archives'[engine[e].attempt].state = outcome
         /\ Bound(engine[e].attempt, archives', archiveOf')
<1> DEFINE a == engine[e].attempt
<1>1. /\ a \in DOMAIN archives /\ Bound(a, archives, archiveOf) /\ Unsettled(a, attempts)
      /\ archives[a].state = "triggered"
  BY DEF WorkingOf, Idle
<1>2. /\ DOMAIN archives' = DOMAIN archives
      /\ \A b \in DOMAIN archives :
            /\ archives'[b].segment = archives[b].segment
            /\ archives'[b].conversation = archives[b].conversation
            /\ archives'[b].state = IF b = a THEN outcome ELSE archives[b].state
  BY <1>1, ArchivesAfterIs DEF EmergencyState
<1>3. \A b : Bound(b, archives', archiveOf') <=> Bound(b, archives, archiveOf)
  BY <1>2 DEF Bound
<1>4. \A b \in DOMAIN archives \ {a} : FileUntouched(b)
  BY <1>2, <1>3 DEF FileUntouched
<1>5. FilesKept
  BY <1>1, <1>2, <1>3 DEF FilesKept
<1>6. ArchivesInv'
  <2>1. \A b \in DOMAIN archives' : archives'[b].segment \in DOMAIN segments'
    BY <1>2 DEF ArchivesInv
  <2>2. \A g \in 1..MaxSegments : archiveOf'[g] # 0 => archives'[archiveOf'[g]].segment = g
    <3>1. \A g \in 1..MaxSegments : archiveOf[g] # 0 => archiveOf[g] \in DOMAIN archives
      BY ArchiveRow DEF EmergencyTypeOK
    <3> QED BY <1>2, <3>1 DEF ArchivesInv
  <2>3. \A b \in DOMAIN archives' : archives'[b].state # "triggered" =>
           Bound(b, archives', archiveOf')
    BY <1>1, <1>2, <1>3 DEF ArchivesInv
  <2> QED BY <2>1, <2>2, <2>3 DEF ArchivesInv
<1>7. LogInv'
  <2>1. \A i \in DOMAIN attempts : Bound(attempts[i].archive, archives', archiveOf')
    BY <1>3 DEF LogInv
  <2>2. \A i \in DOMAIN attempts : attempts[i].type # "triggered" =>
           /\ attempts[i].archive # a /\ attempts[i].archive \in DOMAIN archives
           /\ archives'[attempts[i].archive].state = attempts[i].type
    BY <1>1, <1>2 DEF LogInv, Unsettled, Bound
  <2> QED BY <2>1, <2>2 DEF LogInv
<1> QED BY <1>1, <1>2, <1>3, <1>4, <1>5, <1>6, <1>7

\* The outcome of an attempt is logged, once.
LEMMA RecordingKeepsFiles ==
  ASSUME EmergencyTypeOK, ArchivesInv, LogInv,
         NEW e \in Engine, WorkingOf(e), RecordOutcome(e)
  PROVE  /\ ArchivesInv' /\ LogInv' /\ FilesKept
         /\ \A a \in DOMAIN archives \ {engine[e].attempt} : FileUntouched(a)
<1> DEFINE a == engine[e].attempt
           n == Len(attempts)
           outcome == archives[a].state
<1>1. /\ a \in DOMAIN archives /\ Bound(a, archives, archiveOf) /\ Unsettled(a, attempts)
      /\ outcome # "triggered"
  BY DEF WorkingOf, Idle, RecordOutcome
<1>2. a \in Nat /\ outcome \in EmergencyState \ {"not_triggered"}
  BY <1>1, ArchiveRow DEF Archive
<1>3. /\ n \in Nat /\ DOMAIN attempts = 1..n /\ DOMAIN attempts' = 1..(n + 1)
      /\ \A i \in 1..n : attempts'[i] = attempts[i]
      /\ attempts'[n + 1] = [type |-> outcome, archive |-> a]
  BY <1>2, LoggedIs DEF RecordOutcome
<1>4. archives' = archives /\ archiveOf' = archiveOf /\ segments' = segments
  BY DEF RecordOutcome, vars
<1>5. ASSUME NEW b \in DOMAIN archives \ {a}
      PROVE  FileUntouched(b)
  <2>1. Unsettled(b, attempts) => Unsettled(b, attempts')
    <3> SUFFICES ASSUME Unsettled(b, attempts) PROVE Unsettled(b, attempts')
      OBVIOUS
    <3>1. \E i \in DOMAIN attempts' : /\ attempts'[i].type = "triggered"
                                      /\ attempts'[i].archive = b
      BY <1>3 DEF Unsettled
    <3>2. \A i \in DOMAIN attempts' : attempts'[i].archive = b
                                        => attempts'[i].type = "triggered"
      BY <1>3 DEF Unsettled
    <3> QED BY <3>1, <3>2 DEF Unsettled
  <2> QED BY <1>4, <2>1 DEF FileUntouched
<1>6. FilesKept
  BY <1>4 DEF FilesKept
<1>7. ArchivesInv'
  BY <1>4 DEF ArchivesInv
<1>8. LogInv'
  <2>1. \A i \in DOMAIN attempts' : Bound(attempts'[i].archive, archives', archiveOf')
    BY <1>1, <1>3, <1>4 DEF LogInv
  <2>2. \A i, j \in DOMAIN attempts' :
           attempts'[i].archive = attempts'[j].archive
             /\ (attempts'[i].type = "triggered" <=> attempts'[j].type = "triggered") => i = j
    <3>1. \A i, j \in 1..n :
             attempts[i].archive = attempts[j].archive
               /\ (attempts[i].type = "triggered" <=> attempts[j].type = "triggered") => i = j
      BY <1>3 DEF LogInv
    <3>2. \A i \in 1..n : attempts[i].archive = a => attempts[i].type = "triggered"
      BY <1>1, <1>3 DEF Unsettled
    <3> QED BY <1>1, <1>3, <3>1, <3>2
  <2>3. ASSUME NEW i \in DOMAIN attempts', attempts'[i].type # "triggered"
        PROVE  /\ archives'[attempts'[i].archive].state = attempts'[i].type
               /\ \E j \in DOMAIN attempts' :
                     j < i /\ attempts'[j].type = "triggered"
                           /\ attempts'[j].archive = attempts'[i].archive
    <3>1. CASE i \in 1..n
      <4>1. /\ archives[attempts[i].archive].state = attempts[i].type
            /\ \E j \in 1..n : j < i /\ attempts[j].type = "triggered"
                                     /\ attempts[j].archive = attempts[i].archive
        BY <1>3, <2>3, <3>1 DEF LogInv
      <4> QED BY <1>3, <1>4, <3>1, <4>1
    <3>2. CASE i = n + 1
      <4>1. PICK j \in 1..n : attempts[j].type = "triggered" /\ attempts[j].archive = a
        BY <1>1, <1>3 DEF Unsettled
      <4> QED BY <1>3, <1>4, <3>2, <4>1
    <3> QED BY <1>3, <3>1, <3>2
  <2> QED BY <2>1, <2>2, <2>3 DEF LogInv
<1> QED BY <1>5, <1>6, <1>7, <1>8

-----------------------------------------------------------------------------
(* The engines that take no part in a step *)

LEMMA MemoryKept ==
  ASSUME NEW e \in Engine, MemoryOf(e), FilesKept,
         engine'[e].segment = engine[e].segment,
         engine'[e].context = engine[e].context,
         engine'[e].snapshot = engine[e].snapshot,
         engine[e].context # 0 => engine'[e].status = engine[e].status
  PROVE  MemoryOf(e)'
<1>1. engine'[e].snapshot = NoSnapshot \/ engine'[e].snapshot.segment \in DOMAIN segments'
  BY DEF MemoryOf, FilesKept
<1>2. ASSUME engine[e].context # 0
      PROVE  /\ engine[e].context \in DOMAIN archives
             /\ Bound(engine[e].context, archives', archiveOf')
             /\ archives'[engine[e].context].state = "completed"
             /\ archives'[engine[e].context].segment = engine[e].segment
             /\ archives'[engine[e].context].conversation
                   = archives[engine[e].context].conversation
  BY <1>2 DEF MemoryOf, FilesKept, Bound
<1>3. engine[e].snapshot.base # 0 => engine[e].context # 0
  BY DEF MemoryOf
<1> QED BY <1>1, <1>2, <1>3 DEF MemoryOf

LEMMA WorkingKept ==
  ASSUME NEW e \in Engine, WorkingOf(e), engine'[e] = engine[e],
         ~Idle(e) => FileUntouched(engine[e].attempt)
  PROVE  WorkingOf(e)'
<1>1. CASE Idle(e)
  BY <1>1 DEF WorkingOf, Idle
<1>2. CASE ~Idle(e)
  <2> DEFINE a == engine[e].attempt
  <2>1. /\ a \in DOMAIN archives' /\ archives'[a].segment = archives[a].segment
        /\ archives'[a].state = archives[a].state
        /\ Bound(a, archives', archiveOf') <=> Bound(a, archives, archiveOf)
        /\ Unsettled(a, attempts) => Unsettled(a, attempts')
    BY <1>2 DEF FileUntouched
  <2> QED BY <1>2, <2>1 DEF WorkingOf, Idle
<1> QED BY <1>1, <1>2

\* Every step but the start of a compress() leaves the archives of those that run apart.
-----------------------------------------------------------------------------
(* Every step *)

LEMMA EngineStepKeepsInv ==
  ASSUME EmergencyInv, NEW e \in Engine,
         \A f \in Engine \ {e} : engine'[f] = engine[f],
         SegmentsBounded', ArchivesInv', LogInv', FilesKept,
         \A f \in Engine \ {e} : ~Idle(f) => FileUntouched(engine[f].attempt),
         OwnArchives', WorkingOf(e)', MemoryOf(e)'
  PROVE  EmergencyInv'
<1>1. WorkingInv'
  <2>1. ASSUME NEW f \in Engine, f # e
        PROVE  WorkingOf(f)'
    BY <2>1, WorkingKept DEF EmergencyInv, WorkingInv
  <2> QED BY <2>1 DEF WorkingInv
<1>2. MemoryInv'
  <2>1. ASSUME NEW f \in Engine, f # e
        PROVE  MemoryOf(f)'
    BY <2>1, MemoryKept DEF EmergencyInv, MemoryInv
  <2> QED BY <2>1 DEF MemoryInv
<1> QED BY <1>1, <1>2 DEF EmergencyInv

\* What an engine takes over for a segment is the summary of that segment, of a
\* prefix of the conversation.
LEMMA SyncedSound ==
  ASSUME EmergencyTypeOK, ArchivesInv, NEW e \in Engine, MemoryOf(e),
         NEW g \in 1..MaxSegments, NEW messages, NEW b \in Synced(e, g, messages),
         b.context # 0
  PROVE  /\ b.status = "completed"
         /\ Bound(b.context, archives, archiveOf)
         /\ archives[b.context].state = "completed"
         /\ archives[b.context].segment = g
         /\ IsPrefix(archives[b.context].conversation, messages)
<1>1. CASE MemoryHolds(e, g, messages)
  <2>1. b.status = engine[e].status /\ b.context = engine[e].context
    BY <1>1 DEF Synced
  <2> QED BY <1>1, <2>1 DEF MemoryOf, MemoryHolds, AnchorHolds
<1>2. CASE ~MemoryHolds(e, g, messages)
  <2>1. b = Restored(g, messages)
    BY <1>2 DEF Synced
  <2> DEFINE a == archiveOf[g]
  <2>2. /\ a # 0 /\ archives[a].state = "completed" /\ AnchorHolds(a, messages)
        /\ b = [status |-> "completed", context |-> a]
    BY <2>1 DEF Restored
  <2>3. a \in DOMAIN archives /\ archives[a].segment = g
    BY <2>2, ArchiveRow DEF ArchivesInv, EmergencyTypeOK
  <2> QED BY <2>2, <2>3 DEF Bound, AnchorHolds
<1> QED BY <1>1, <1>2

LEMMA SelectingKeepsInv ==
  ASSUME TypeOK, EmergencyTypeOK, EmergencyInv, NEW e \in Engine, Selects(e)
  PROVE  EmergencyInv'
<1> DEFINE messages == conversation[engine[e].session]
<1>1. PICK g \in DOMAIN segments : SelectedFor(e, g)
  BY DEF Selects
<1>2. g \in 1..MaxSegments
  BY <1>1, SegmentNumbers DEF EmergencyInv
<1>3. PICK b \in Synced(e, g, messages) :
         Remembers(e, [session |-> engine[e].session, segment |-> g, status |-> b.status,
                       context |-> b.context,
                       snapshot |-> [segment |-> g, conversation |-> messages,
                                     base |-> b.context],
                       stage |-> engine[e].stage, attempt |-> engine[e].attempt])
  BY <1>1, <1>2, SelectedForIs DEF Selects
<1>4. /\ \A f \in Engine \ {e} : engine'[f] = engine[f]
      /\ engine'[e].segment = g
      /\ engine'[e].status = b.status
      /\ engine'[e].context = b.context
      /\ engine'[e].snapshot = [segment |-> g, conversation |-> messages, base |-> b.context]
      /\ engine'[e].stage = "idle"
  BY <1>3 DEF Remembers, Selects, Idle
<1>5. UNCHANGED <<segments, archives, archiveOf, attempts>>
  BY DEF Selects, OnlyMemory, vars
<1>6. ArchivesInv' /\ LogInv' /\ FilesKept /\ \A a \in DOMAIN archives : FileUntouched(a)
  BY <1>5, SameFilesKeepInv DEF FilesSame, EmergencyInv
<1>7. \A f \in Engine \ {e} : ~Idle(f) => FileUntouched(engine[f].attempt)
  BY <1>6 DEF EmergencyInv, WorkingInv, WorkingOf
<1>8. OwnArchives'
  BY <1>4 DEF EmergencyInv, OwnArchives, Idle
<1>9. WorkingOf(e)'
  BY <1>4 DEF WorkingOf, Idle
<1>10. MemoryOf(e)'
  <2>1. b.context # 0 =>
          /\ b.status = "completed"
          /\ Bound(b.context, archives', archiveOf')
          /\ archives'[b.context].state = "completed"
          /\ archives'[b.context].segment = g
          /\ IsPrefix(archives'[b.context].conversation, messages)
    BY <1>2, <1>5, SyncedSound DEF EmergencyInv, MemoryInv
  <2>2. g \in DOMAIN segments'
    BY <1>5
  <2> QED BY <1>4, <2>1, <2>2 DEF MemoryOf
<1>11. SegmentsBounded'
  BY <1>5 DEF EmergencyInv, SegmentsBounded
<1> QED BY <1>4, <1>6, <1>7, <1>8, <1>9, <1>10, <1>11, EngineStepKeepsInv

\* A step after which engine e is idle and has forgotten its segment, or given up
\* what it was doing, while the files stay as they are.
LEMMA IdlingKeepsInv ==
  ASSUME EmergencyTypeOK, EmergencyInv, NEW e \in Engine, OnlyMemory,
         \A f \in Engine \ {e} : engine'[f] = engine[f],
         engine'[e].stage = "idle",
         \/ engine'[e].snapshot = NoSnapshot /\ engine'[e].context = 0
         \/ /\ engine'[e].segment = engine[e].segment
            /\ engine'[e].context = engine[e].context
            /\ engine'[e].snapshot = engine[e].snapshot
            /\ engine[e].context # 0 => engine'[e].status = engine[e].status
  PROVE  EmergencyInv'
<1>1. UNCHANGED <<segments, archives, archiveOf, attempts>>
  BY DEF OnlyMemory, vars
<1>2. ArchivesInv' /\ LogInv' /\ FilesKept /\ \A a \in DOMAIN archives : FileUntouched(a)
  BY <1>1, SameFilesKeepInv DEF FilesSame, EmergencyInv
<1>3. \A f \in Engine \ {e} : ~Idle(f) => FileUntouched(engine[f].attempt)
  BY <1>2 DEF EmergencyInv, WorkingInv, WorkingOf
<1>4. OwnArchives'
  BY DEF EmergencyInv, OwnArchives, Idle
<1>5. WorkingOf(e)'
  BY DEF WorkingOf, Idle
<1>6. MemoryOf(e)'
  <2>1. CASE engine'[e].snapshot = NoSnapshot /\ engine'[e].context = 0
    BY <2>1 DEF MemoryOf, NoSnapshot
  <2> QED BY <1>2, <2>1, MemoryKept DEF EmergencyInv, MemoryInv
<1>7. SegmentsBounded'
  BY <1>1 DEF EmergencyInv, SegmentsBounded
<1> QED BY <1>2, <1>3, <1>4, <1>5, <1>6, <1>7, EngineStepKeepsInv

\* An engine that can start or is at work believes that nothing was triggered, and
\* so holds no summary and served none.
LEMMA UntriggeredHoldsNothing ==
  ASSUME EmergencyInv, NEW e \in Engine, engine[e].status = "not_triggered" \/ ~Idle(e)
  PROVE  /\ engine[e].context = 0 /\ engine[e].snapshot.base = 0
         /\ engine[e].status = "not_triggered"
<1>1. MemoryOf(e) /\ WorkingOf(e)
  BY DEF EmergencyInv, MemoryInv, WorkingInv
<1> QED BY <1>1 DEF MemoryOf, WorkingOf

LEMMA GivingUpKeepsInv ==
  ASSUME EmergencyTypeOK, EmergencyInv, NEW e \in Engine, OnlyMemory,
         \/ Unavailable(e) /\ (ShouldCompress(e) \/ ~Idle(e))
         \/ Interrupt(e)
  PROVE  EmergencyInv'
<1>1. engine[e].context = 0
  BY UntriggeredHoldsNothing DEF ShouldCompress, Interrupt, Idle
<1>2. engine \in [Engine -> EngineMemory]
  BY DEF EmergencyTypeOK
<1>3. /\ \A f \in Engine \ {e} : engine'[f] = engine[f]
      /\ engine'[e].stage = "idle"
      /\ engine'[e].segment = engine[e].segment
      /\ engine'[e].context = engine[e].context
      /\ engine'[e].snapshot = engine[e].snapshot
  BY <1>2 DEF Unavailable, Interrupt, EngineMemory
<1> QED BY <1>1, <1>3, IdlingKeepsInv

LEMMA WriteArchiveKeepsInv ==
  ASSUME TypeOK, EmergencyTypeOK, EmergencyInv, NEW e \in Engine, WriteArchive(e)
  PROVE  EmergencyInv'
<1> DEFINE n == Len(archives)
<1>0. /\ SegmentsBounded /\ ArchivesInv /\ LogInv /\ OwnArchives
      /\ \A f \in Engine : WorkingOf(f) /\ MemoryOf(f)
  BY DEF EmergencyInv, WorkingInv, MemoryInv
<1>1. engine \in [Engine -> EngineMemory] /\ n \in Nat /\ DOMAIN archives = 1..n
  BY ArchiveRow DEF EmergencyTypeOK
<1>2. /\ \A f \in Engine \ {e} : engine'[f] = engine[f]
      /\ engine'[e].segment = engine[e].segment
      /\ engine'[e].status = engine[e].status
      /\ engine'[e].context = engine[e].context
      /\ engine'[e].snapshot = engine[e].snapshot
      /\ engine'[e].stage = "archived"
      /\ engine'[e].attempt = n + 1
  BY <1>1 DEF WriteArchive, EngineMemory
<1>3. /\ ArchivesInv' /\ LogInv' /\ FilesKept
      /\ \A a \in DOMAIN archives : FileUntouched(a)
      /\ ~Bound(n + 1, archives', archiveOf')
  BY <1>0, WritingKeepsFiles
<1>4. /\ n + 1 \in DOMAIN archives'
      /\ archives'[n + 1].segment = engine[e].snapshot.segment
      /\ archives'[n + 1].state = "triggered"
  <2>1. /\ DOMAIN archives' = 1..(n + 1)
        /\ archives'[n + 1] = [segment |-> engine[e].snapshot.segment,
                               conversation |-> engine[e].snapshot.conversation,
                               state |-> "triggered", readable |-> TRUE]
    BY WriteArchiveIs
  <2> QED BY <1>1, <2>1
<1>5. \A f \in Engine : ~Idle(f) => engine[f].attempt \in DOMAIN archives
  BY <1>0 DEF WorkingOf
<1>6. OwnArchives'
  BY <1>0, <1>1, <1>2, <1>5 DEF OwnArchives, Idle
<1>7. engine[e].status = "not_triggered" /\ engine[e].snapshot # NoSnapshot
  BY DEF WriteArchive, ShouldCompress
<1>8. WorkingOf(e)'
  BY <1>2, <1>3, <1>4, <1>7 DEF WorkingOf, Idle
<1>9. MemoryOf(e)'
  BY <1>0, <1>2, <1>3, MemoryKept
<1>10. SegmentsBounded'
  BY <1>0 DEF WriteArchive, vars, SegmentsBounded
<1> QED BY <1>2, <1>3, <1>5, <1>6, <1>8, <1>9, <1>10, EngineStepKeepsInv

LEMMA BindArchiveKeepsInv ==
  ASSUME TypeOK, EmergencyTypeOK, EmergencyInv, NEW e \in Engine, BindArchive(e)
  PROVE  EmergencyInv'
<1> DEFINE a == engine[e].attempt
<1>0. /\ SegmentsBounded /\ ArchivesInv /\ LogInv /\ OwnArchives
      /\ \A f \in Engine : WorkingOf(f) /\ MemoryOf(f)
  BY DEF EmergencyInv, WorkingInv, MemoryInv
<1>1. engine \in [Engine -> EngineMemory]
  BY DEF EmergencyTypeOK
<1>2. /\ \A f \in Engine \ {e} : engine'[f] = engine[f]
      /\ engine'[e].segment = engine[e].segment
      /\ engine'[e].status = engine[e].status
      /\ engine'[e].context = engine[e].context
      /\ engine'[e].snapshot = engine[e].snapshot
      /\ engine'[e].stage = "bound"
      /\ engine'[e].attempt = a
  BY <1>1 DEF BindArchive, EngineMemory
<1>3. /\ ArchivesInv' /\ LogInv' /\ FilesKept
      /\ \A b \in DOMAIN archives \ {a} : FileUntouched(b)
      /\ Bound(a, archives', archiveOf') /\ Unsettled(a, attempts')
  BY <1>0, BindingKeepsFiles
<1>4. /\ ~Idle(e) /\ engine[e].stage = "archived"
      /\ archives' = archives /\ segments' = segments
  BY DEF BindArchive, Idle, vars
<1>5. \A f \in Engine \ {e} : ~Idle(f) => engine[f].attempt \in DOMAIN archives \ {a}
  BY <1>0, <1>4 DEF WorkingOf, OwnArchives
<1>6. OwnArchives'
  BY <1>0, <1>2, <1>4 DEF OwnArchives, Idle
<1>7. WorkingOf(e)'
  BY <1>0, <1>2, <1>3, <1>4 DEF WorkingOf, Idle
<1>8. MemoryOf(e)'
  BY <1>0, <1>2, <1>3, MemoryKept
<1>9. SegmentsBounded'
  BY <1>0, <1>4 DEF SegmentsBounded
<1> QED BY <1>2, <1>3, <1>5, <1>6, <1>7, <1>8, <1>9, EngineStepKeepsInv

\* The outcome reaches the file, and the engine goes on to log it or gives up.
LEMMA SettlingKeepsInv ==
  ASSUME TypeOK, EmergencyTypeOK, EmergencyInv, NEW e \in Engine,
         NEW outcome \in {"completed", "failed"},
         Settle(e, outcome) \/ SettleFails(e, outcome),
         archives' = ArchivesAfter(engine[e].attempt, outcome)
  PROVE  EmergencyInv'
<1> DEFINE a == engine[e].attempt
<1>0. /\ SegmentsBounded /\ ArchivesInv /\ LogInv /\ OwnArchives
      /\ \A f \in Engine : WorkingOf(f) /\ MemoryOf(f)
  BY DEF EmergencyInv, WorkingInv, MemoryInv
<1>1. engine \in [Engine -> EngineMemory]
  BY DEF EmergencyTypeOK
<1>2. /\ engine[e].stage = "bound" /\ ~Idle(e)
      /\ UNCHANGED <<segments, archiveOf, attempts>>
  BY DEF Settle, SettleFails, Idle, vars
<1>3. /\ \A f \in Engine \ {e} : engine'[f] = engine[f]
      /\ engine'[e].segment = engine[e].segment
      /\ engine'[e].context = engine[e].context
      /\ engine'[e].snapshot = engine[e].snapshot
      /\ \/ engine'[e].stage = "idle"
         \/ /\ engine'[e].stage = "settled" /\ engine'[e].attempt = a
            /\ engine'[e].status = engine[e].status
  BY <1>1 DEF Settle, SettleFails, Unavailable, EngineMemory
<1>4. /\ ArchivesInv' /\ LogInv' /\ FilesKept
      /\ \A b \in DOMAIN archives \ {a} : FileUntouched(b)
      /\ a \in DOMAIN archives' /\ archives'[a].segment = archives[a].segment
      /\ archives'[a].state = outcome
      /\ Bound(a, archives', archiveOf')
  BY <1>0, <1>2, SettlingKeepsFiles
<1>5. \A f \in Engine \ {e} : ~Idle(f) => engine[f].attempt \in DOMAIN archives \ {a}
  BY <1>0, <1>2 DEF WorkingOf, OwnArchives
<1>6. OwnArchives'
  BY <1>0, <1>2, <1>3 DEF OwnArchives, Idle
<1>7. WorkingOf(e)'
  BY <1>0, <1>2, <1>3, <1>4 DEF WorkingOf, Idle
<1>8. engine[e].context = 0
  BY <1>2, UntriggeredHoldsNothing
<1>9. MemoryOf(e)'
  BY <1>0, <1>3, <1>4, <1>8, MemoryKept
<1>10. SegmentsBounded'
  BY <1>0, <1>2 DEF SegmentsBounded
<1> QED BY <1>3, <1>4, <1>5, <1>6, <1>7, <1>9, <1>10, EngineStepKeepsInv

LEMMA RecordOutcomeKeepsInv ==
  ASSUME TypeOK, EmergencyTypeOK, EmergencyInv, NEW e \in Engine, RecordOutcome(e)
  PROVE  EmergencyInv'
<1> DEFINE a == engine[e].attempt
           outcome == archives[a].state
<1>0. /\ SegmentsBounded /\ ArchivesInv /\ LogInv /\ OwnArchives
      /\ \A f \in Engine : WorkingOf(f) /\ MemoryOf(f)
  BY DEF EmergencyInv, WorkingInv, MemoryInv
<1>1. engine[e].stage = "settled" /\ ~Idle(e) /\ UNCHANGED <<segments, archives, archiveOf>>
  BY DEF RecordOutcome, Idle, vars
<1>2. /\ a \in DOMAIN archives /\ Bound(a, archives, archiveOf)
      /\ archives[a].segment = engine[e].snapshot.segment
  BY <1>0, <1>1 DEF WorkingOf
<1>3. /\ \A f \in Engine \ {e} : engine'[f] = engine[f]
      /\ engine'[e].segment = engine[e].snapshot.segment
      /\ engine'[e].status = outcome
      /\ engine'[e].context = IF outcome = "completed" THEN a ELSE engine[e].context
      /\ engine'[e].snapshot = engine[e].snapshot
      /\ engine'[e].stage = "idle"
  BY <1>2, RecordOutcomeIs DEF Remembers
<1>4. /\ ArchivesInv' /\ LogInv' /\ FilesKept
      /\ \A b \in DOMAIN archives \ {a} : FileUntouched(b)
  BY <1>0, RecordingKeepsFiles
<1>5. \A f \in Engine \ {e} : ~Idle(f) => engine[f].attempt \in DOMAIN archives \ {a}
  BY <1>0, <1>1 DEF WorkingOf, OwnArchives
<1>6. OwnArchives'
  BY <1>0, <1>1, <1>3 DEF OwnArchives, Idle
<1>7. WorkingOf(e)'
  BY <1>3 DEF WorkingOf, Idle
<1>8. engine[e].context = 0 /\ engine[e].snapshot.base = 0
  BY <1>1, UntriggeredHoldsNothing
<1>9. MemoryOf(e)'
  BY <1>0, <1>1, <1>2, <1>3, <1>8 DEF MemoryOf
<1>10. SegmentsBounded'
  BY <1>0, <1>1 DEF SegmentsBounded
<1> QED BY <1>3, <1>4, <1>5, <1>6, <1>7, <1>9, <1>10, EngineStepKeepsInv

\* A step of the services, of Hermes or of the file system, that no engine takes.
LEMMA OutsideStepKeepsInv ==
  ASSUME EmergencyTypeOK, EmergencyInv, SegmentsBounded', FilesSame, engine' = engine
  PROVE  EmergencyInv'
<1>1. ArchivesInv' /\ LogInv' /\ FilesKept /\ \A a \in DOMAIN archives : FileUntouched(a)
  BY SameFilesKeepInv DEF EmergencyInv
<1>2. \A e \in Engine : WorkingOf(e) /\ MemoryOf(e)
  BY DEF EmergencyInv, WorkingInv, MemoryInv
<1>3. WorkingInv'
  <2>1. ASSUME NEW e \in Engine
        PROVE  WorkingOf(e)'
    <3>1. ~Idle(e) => FileUntouched(engine[e].attempt)
      BY <1>1, <1>2 DEF WorkingOf
    <3> QED BY <1>2, <3>1, WorkingKept
  <2> QED BY <2>1 DEF WorkingInv
<1>4. MemoryInv'
  <2>1. ASSUME NEW e \in Engine
        PROVE  MemoryOf(e)'
    BY <1>1, <1>2, MemoryKept
  <2> QED BY <2>1 DEF MemoryInv
<1>5. OwnArchives'
  BY DEF EmergencyInv, OwnArchives, Idle
<1> QED BY <1>1, <1>3, <1>4, <1>5 DEF EmergencyInv

LEMMA EmergencyInvStep ==
  ASSUME TypeOK, EmergencyTypeOK, EmergencyInv, MemoryStep,
         SegmentsBounded', DOMAIN segments \subseteq DOMAIN segments'
  PROVE  EmergencyInv'
<1>1. ASSUME NEW e \in Engine, NEW s \in SessionId \cup {None},
             \/ Forgets(e) /\ s = engine[e].session
             \/ engine' = [engine EXCEPT ![e] = [Forgotten(@) EXCEPT !.session = s]],
             Idle(e), OnlyMemory
      PROVE  EmergencyInv'
  <2>1. Remembers(e, [NoMemory EXCEPT !.session = s, !.stage = engine[e].stage,
                                       !.attempt = engine[e].attempt])
    BY <1>1, ForgottenIs
  <2>2. /\ \A f \in Engine \ {e} : engine'[f] = engine[f]
        /\ engine'[e].stage = "idle"
        /\ engine'[e].snapshot = NoSnapshot /\ engine'[e].context = 0
    BY <1>1, <2>1 DEF Remembers, NoMemory, Idle
  <2> QED BY <1>1, <2>2, IdlingKeepsInv
<1>2. ASSUME NEW e \in Engine, Idle(e), Forgets(e), OnlyMemory
      PROVE  EmergencyInv'
  <2>1. engine[e].session \in SessionId \cup {None}
    BY DEF EmergencyTypeOK, EngineMemory
  <2> QED BY <1>1, <1>2, <2>1
<1>3. ASSUME NEW e \in Engine, ResetSession(e) \/ \E s \in SessionId : StartSession(e, s)
      PROVE  EmergencyInv'
  BY <1>1, <1>3 DEF ResetSession, StartSession, OnlyMemory
<1>4. ASSUME NEW e \in Engine, Crash(e)
      PROVE  EmergencyInv'
  <2>1. Remembers(e, NoMemory)
    BY <1>4, CrashIs
  <2>2. /\ \A f \in Engine \ {e} : engine'[f] = engine[f]
        /\ engine'[e].stage = "idle"
        /\ engine'[e].snapshot = NoSnapshot /\ engine'[e].context = 0
    BY <2>1 DEF Remembers, NoMemory
  <2> QED BY <1>4, <2>2, IdlingKeepsInv DEF Crash, OnlyMemory
<1>5. ASSUME NEW e \in Engine,
             \/ WriteArchiveFails(e) \/ BindArchiveFails(e) \/ RecordOutcomeFails(e)
             \/ Interrupt(e)
      PROVE  EmergencyInv'
  BY <1>5, GivingUpKeepsInv
  DEF WriteArchiveFails, BindArchiveFails, RecordOutcomeFails, Interrupt, OnlyMemory, Idle
<1>6. ASSUME NEW e \in Engine, NEW outcome \in {"completed", "failed"},
             Settle(e, outcome) \/ SettleFails(e, outcome)
      PROVE  EmergencyInv'
  <2>1. CASE archives' = ArchivesAfter(engine[e].attempt, outcome)
    BY <1>6, <2>1, SettlingKeepsInv
  <2>2. CASE SettleFails(e, outcome) /\ archives' = archives
    BY <2>2, GivingUpKeepsInv DEF SettleFails, OnlyMemory, Idle
  <2> QED BY <1>6, <2>1, <2>2 DEF Settle, SettleFails
<1>7. ASSUME NEW e \in Engine, HostStep(e)
      PROVE  EmergencyInv'
  BY <1>3, <1>4, <1>5, <1>6, <1>7, WriteArchiveKeepsInv, BindArchiveKeepsInv,
     RecordOutcomeKeepsInv
  DEF HostStep, CompressStep
<1>8. ASSUME NEW a \in DOMAIN archives, CorruptArchive(a)
      PROVE  EmergencyInv'
  <2>1. FilesSame /\ engine' = engine
    BY <1>8, CorruptArchiveIs DEF FilesSame, CorruptArchive, vars
  <2> QED BY <2>1, OutsideStepKeepsInv
<1>9. ASSUME NEW s \in SessionId, Rewind(s) \/ \E m \in Message : AppendMessage(s, m)
      PROVE  EmergencyInv'
  <2>1. FilesSame /\ engine' = engine
    BY <1>9 DEF FilesSame, Rewind, AppendMessage, vars, emergencyVars
  <2> QED BY <2>1, OutsideStepKeepsInv
<1>10. CASE ServiceStep \/ UNCHANGED allVars
  <2>1. FilesSame /\ engine' = engine
    BY <1>10 DEF FilesSame, ServiceStep, allVars, emergencyVars
  <2> QED BY <2>1, OutsideStepKeepsInv
<1> QED
  BY <1>2, <1>7, <1>8, <1>9, <1>10, SelectingKeepsInv DEF MemoryStep

-----------------------------------------------------------------------------
(* The services under the engines: both specifications implement Spec, so    *)
(* what is proved of the services holds here too.                            *)

LEMMA EmergencyImplementsLifecycle == EmergencySpec => Spec
<1>1. EmergencyInit => Init
  BY DEF EmergencyInit
<1>2. [EmergencyNext]_allVars => [Next]_vars
  BY DEF EmergencyNext, EngineStep, HostStep, CompressStep, Select, SelectIneligible,
         StartSession, ResetSession, WriteArchive, WriteArchiveFails, BindArchive,
         BindArchiveFails, Settle, SettleFails, RecordOutcome, RecordOutcomeFails, Interrupt,
         Crash, AppendMessage, Rewind, CorruptArchive, ServiceStep, allVars
<1> QED BY <1>1, <1>2, PTL DEF EmergencySpec, Spec

LEMMA ReadsImplementsLifecycle == ReadsSpec => Spec
<1>1. ReadsInit => Init
  BY DEF ReadsInit, EmergencyInit
<1>2. [ReadsNext]_readsVars => [Next]_vars
  <2>1. \A e \in Engine : HostStep(e) => UNCHANGED vars
    BY DEF HostStep, CompressStep, StartSession, ResetSession, WriteArchive, WriteArchiveFails,
           BindArchive, BindArchiveFails, Settle, SettleFails, RecordOutcome,
           RecordOutcomeFails, Interrupt, Crash
  <2>2. \A e \in Engine : SelectionStep(e) => UNCHANGED vars
    BY DEF SelectionStep, ReadState, ReadLatest, ReadSegment, ReadTask, Reads, AnswerPlain,
           AnswerIsolated, AnswerEligible, AnswerIneligible, AnswerRaised, Answers, allVars
  <2>3. \A e \in Engine : HostStepResting(e) \/ CrashReading(e) => UNCHANGED vars
    BY <2>1 DEF HostStepResting, CrashReading, Crash
  <2>4. \A s \in SessionId : ConversationStep(s) => UNCHANGED vars
    BY DEF ConversationStep, Rewind, AppendMessage
  <2>5. \A a \in DOMAIN archives : CorruptArchive(a) => UNCHANGED vars
    BY DEF CorruptArchive
  <2>6. ServiceStepSeen => Next
    BY DEF ServiceStepSeen, ServiceStep
  <2>7. UNCHANGED readsVars => UNCHANGED vars
    BY DEF readsVars, allVars
  <2> QED BY <2>2, <2>3, <2>4, <2>5, <2>6, <2>7 DEF ReadsNext
<1> QED BY <1>1, <1>2, PTL DEF ReadsSpec, Spec

\* The rows of context_segments are never removed, and stay with their session.
LEMMA SegmentsGrow ==
  ASSUME TypeOK, TypeOK', Ownership, SegmentsBounded, [Next]_vars
  PROVE  /\ SegmentsBounded'
         /\ DOMAIN segments \subseteq DOMAIN segments'
         /\ \A h \in DOMAIN segments : segments'[h].session = segments[h].session
<1>1. DOMAIN segments = 1..Len(segments) /\ DOMAIN segments' = 1..Len(segments')
      /\ Len(segments) \in Nat /\ Len(segments') \in Nat
  BY SegmentCountIsNat, LenProperties DEF TypeOK
<1>2. ASSUME NEW s \in SessionId, NEW t \in TaskId, NEW now \in CallTimes, NEW parent, NEW c,
             Opens(s, t, parent, c, now)
      PROVE  /\ Len(segments') = Len(segments) + 1
             /\ \A h \in 1..Len(segments) : segments'[h].session = segments[h].session
  BY <1>2 DEF Opens, ClosesCurrent
<1>3. ASSUME NEW s \in SessionId, NEW t \in TaskId, NEW now \in CallTimes, NEW status,
             Releases(s, t, status, now)
      PROVE  /\ Len(segments') = Len(segments)
             /\ \A h \in 1..Len(segments) : segments'[h].session = segments[h].session
  BY <1>3 DEF Releases, ClosesCurrent
<1>4. QuietStep => segments' = segments
  BY QuietStepRows
<1>5. /\ Len(segments') \in {Len(segments), Len(segments) + 1}
      /\ \A h \in 1..Len(segments) : segments'[h].session = segments[h].session
  BY <1>2, <1>3, <1>4, StepShapes
<1>6. Len(segments') = Len(segments) \/ Len(segments) < MaxSegments
  <2>1. ASSUME NEW s \in SessionId, NEW t \in TaskId, NEW now \in CallTimes,
               NEW parent \in TaskId \cup {None}, CreateTask(s, t, parent, now)
        PROVE  Len(segments) < MaxSegments
    BY <2>1 DEF CreateTask
  <2>2. ASSUME NEW s \in SessionId, NEW t \in TaskId, NEW now \in CallTimes,
               ResumeTask(s, t, tasks[t].version, now)
        PROVE  Len(segments) < MaxSegments
    BY <2>2 DEF ResumeTask
  <2>3. ASSUME NEW s \in SessionId, NEW t \in TaskId, NEW now \in CallTimes,
               NEW c \in DOMAIN checkpoints, NEW g \in DOMAIN segments,
               Rotate(s, t, c, g, now)
        PROVE  Len(segments) < MaxSegments
    BY <2>3 DEF Rotate
  <2>4. ASSUME NEW s \in SessionId, NEW t \in TaskId, NEW now \in CallTimes,
               \/ PauseTask(s, t, tasks[t].version, now)
               \/ \E status \in Finished \cup {"blocked"} :
                     TransitionTask(s, t, tasks[t].version, status, now)
        PROVE  Len(segments') = Len(segments)
    BY <1>3, <2>4, CallTimesAreNat, PauseTaskReleases, TransitionTaskReleases
  <2> QED BY <1>4, <2>1, <2>2, <2>3, <2>4 DEF Next, TaskOperation, QuietStep
<1>7. SegmentsBounded'
  <2> DEFINE n == Len(segments)
             m == Len(segments')
  <2>1. n \in Nat /\ m \in Nat /\ n <= MaxSegments /\ MaxSegments \in Nat
    <3>1. n \in Nat /\ m \in Nat
      BY <1>1
    <3>2. Len(segments) <= MaxSegments
      BY DEF SegmentsBounded
    <3>3. MaxSegments \in Nat
      BY BoundAssumption
    <3> QED BY <3>1, <3>2, <3>3
  <2>2. m \in {n, n + 1} /\ (m = n \/ n < MaxSegments)
    BY <1>5, <1>6
  <2> HIDE DEF n, m
  <2>3. m <= MaxSegments
    BY <2>1, <2>2
  <2> QED BY <2>3 DEF m, SegmentsBounded
<1>8. 1..Len(segments) \subseteq 1..Len(segments')
  <2> DEFINE n == Len(segments)
             m == Len(segments')
  <2>1. n \in Nat /\ m \in Nat
    BY <1>1
  <2>2. m \in {n, n + 1}
    BY <1>5
  <2> HIDE DEF n, m
  <2>3. 1..n \subseteq 1..m
    BY <2>1, <2>2
  <2> QED BY <2>3 DEF n, m
<1> QED BY <1>1, <1>5, <1>7, <1>8

-----------------------------------------------------------------------------
(* The invariants of both specifications *)

LEMMA EmergencyStart ==
  EmergencyInit => SegmentsBounded /\ EmergencyTypeOK /\ EmergencyInv
<1> SUFFICES ASSUME EmergencyInit
             PROVE  SegmentsBounded /\ EmergencyTypeOK /\ EmergencyInv
  OBVIOUS
<1>1. /\ segments = <<>> /\ archives = <<>> /\ attempts = <<>>
      /\ archiveOf = [g \in 1..MaxSegments |-> 0]
      /\ conversation = [s \in SessionId |-> <<>>]
      /\ engine = [e \in Engine |-> NoMemory]
  BY DEF EmergencyInit, Init
<1>2. SegmentsBounded
  BY <1>1, BoundAssumption DEF SegmentsBounded
<1>3. NoMemory \in EngineMemory
  BY DEF NoMemory, EngineMemory, NoSnapshot, Snapshot, EmergencyState, Stage
<1>4. EmergencyTypeOK
  BY <1>1, <1>3 DEF EmergencyTypeOK
<1>5. ArchivesInv /\ LogInv
  BY <1>1 DEF ArchivesInv, LogInv
<1>6. \A e \in Engine : /\ engine[e].stage = "idle" /\ engine[e].context = 0
                        /\ engine[e].snapshot = NoSnapshot
  BY <1>1 DEF NoMemory
<1>7. OwnArchives /\ WorkingInv /\ MemoryInv
  BY <1>6 DEF OwnArchives, WorkingInv, WorkingOf, MemoryInv, MemoryOf, Idle, NoSnapshot
<1> QED BY <1>2, <1>4, <1>5, <1>7 DEF EmergencyInv

LEMMA EmergencyNextIsMemoryStep ==
  ASSUME TypeOK, Ownership, EmergencyTypeOK, [EmergencyNext]_allVars
  PROVE  MemoryStep
<1>1. ASSUME NEW e \in Engine, Select(e)
      PROVE  Selects(e)
  <2> DEFINE s == engine[e].session
  <2>1. s \in SessionId
    BY <1>1 DEF Select, EmergencyTypeOK, EngineMemory
  <2>2. sessions[s].segment \in DOMAIN segments
    BY <1>1, <2>1 DEF Select, Ownership, PointerWellFormed
  <2> QED BY <1>1, <2>1, <2>2 DEF Select, Selects, OnlyMemory
<1>2. ASSUME NEW e \in Engine, SelectIneligible(e)
      PROVE  Idle(e) /\ Forgets(e) /\ OnlyMemory
  BY <1>2 DEF SelectIneligible, Forgets, OnlyMemory
<1> QED BY <1>1, <1>2 DEF EmergencyNext, EngineStep, MemoryStep

LEMMA EmergencyInvHolds ==
  EmergencySpec => [](TypeOK /\ Ownership /\ EmergencyTypeOK /\ EmergencyInv)
<1>1. EmergencyInit => EmergencyTypeOK /\ EmergencyInv
  BY EmergencyStart
<1>2. /\ TypeOK /\ TypeOK' /\ Ownership /\ EmergencyTypeOK /\ EmergencyInv
      /\ [Next]_vars /\ [EmergencyNext]_allVars
      => EmergencyTypeOK' /\ EmergencyInv'
  <2> SUFFICES ASSUME TypeOK, TypeOK', Ownership, EmergencyTypeOK, EmergencyInv,
                      [Next]_vars, [EmergencyNext]_allVars
               PROVE  EmergencyTypeOK' /\ EmergencyInv'
    OBVIOUS
  <2>1. MemoryStep
    BY EmergencyNextIsMemoryStep
  <2>2. SegmentsBounded /\ WorkingInv
    BY DEF EmergencyInv
  <2>3. SegmentsBounded' /\ DOMAIN segments \subseteq DOMAIN segments'
    BY <2>2, SegmentsGrow
  <2> QED BY <2>1, <2>2, <2>3, EmergencyTypeStep, EmergencyInvStep
<1>3. EmergencySpec => Spec
  BY EmergencyImplementsLifecycle
<1>4. Spec => []TypeOK
  BY TypeCorrect
<1>5. Spec => []Ownership
  BY OwnershipHolds
<1>6. Spec => [][Next]_vars
  BY PTL DEF Spec
<1>7. EmergencySpec => EmergencyInit /\ [][EmergencyNext]_allVars
  BY PTL DEF EmergencySpec
<1> QED BY <1>1, <1>2, <1>3, <1>4, <1>5, <1>6, <1>7, PTL

-----------------------------------------------------------------------------
(* What follows of a state *)

LEMMA LogProperties ==
  ASSUME EmergencyTypeOK, EmergencyInv
  PROVE  OneAttemptPerSegment /\ LogFollowsArchives
<1>1. ArchivesInv /\ LogInv
  BY DEF EmergencyInv
<1>2. OneAttemptPerSegment
  <2>1. ASSUME NEW i \in DOMAIN attempts, NEW j \in DOMAIN attempts,
               attempts[i].type = "triggered", attempts[j].type = "triggered",
               archives[attempts[i].archive].segment = archives[attempts[j].archive].segment
        PROVE  i = j
    <3>1. attempts[i].archive = attempts[j].archive
      BY <1>1, <2>1 DEF LogInv, Bound
    <3> QED BY <1>1, <2>1, <3>1 DEF LogInv
  <2>2. \A a \in DOMAIN archives :
          archives[a].state # "triggered" => archiveOf[archives[a].segment] = a
    BY <1>1 DEF ArchivesInv, Bound
  <2> QED BY <2>1, <2>2 DEF OneAttemptPerSegment
<1>3. LogFollowsArchives
  <2> SUFFICES ASSUME NEW i \in DOMAIN attempts, attempts[i].type # "triggered"
               PROVE  /\ archives[attempts[i].archive].state = attempts[i].type
                      /\ \E j \in 1..(i - 1) : attempts[j] = [attempts[i] EXCEPT !.type = "triggered"]
                      /\ \A j \in DOMAIN attempts \ {i} :
                            attempts[j].archive = attempts[i].archive
                              => attempts[j].type = "triggered"
    BY DEF LogFollowsArchives
  <2>1. /\ DOMAIN attempts = 1..Len(attempts) /\ Len(attempts) \in Nat
        /\ \A j \in DOMAIN attempts : attempts[j] \in Attempt
    BY LenProperties, ElementOfSeq DEF EmergencyTypeOK
  <2>2. PICK j \in DOMAIN attempts :
           j < i /\ attempts[j].type = "triggered" /\ attempts[j].archive = attempts[i].archive
    BY <1>1 DEF LogInv
  <2>3. attempts[j] = [attempts[i] EXCEPT !.type = "triggered"]
    BY <2>1, <2>2 DEF Attempt
  <2>4. j \in 1..(i - 1)
    BY <2>1, <2>2
  <2>5. \A k \in DOMAIN attempts \ {i} :
           attempts[k].archive = attempts[i].archive => attempts[k].type = "triggered"
    BY <1>1 DEF LogInv
  <2> QED BY <1>1, <2>3, <2>4, <2>5 DEF LogInv
<1> QED BY <1>2, <1>3

LEMMA MemoryProperties ==
  ASSUME EmergencyTypeOK, EmergencyInv
  PROVE  NeverResummarised /\ ServedIsVerified
<1>1. NeverResummarised
  BY UntriggeredHoldsNothing DEF NeverResummarised
<1>2. ServedIsVerified
  <2> SUFFICES ASSUME NEW e \in Engine, engine[e].snapshot.base # 0
               PROVE  LET request == engine[e].snapshot
                      IN  /\ archives[request.base].state = "completed"
                          /\ archives[request.base].segment = request.segment
                          /\ archiveOf[request.segment] = request.base
                          /\ AnchorHolds(request.base, request.conversation)
    BY DEF ServedIsVerified
  <2>1. MemoryOf(e)
    BY DEF EmergencyInv, MemoryInv
  <2>2. /\ engine[e].snapshot.base = engine[e].context
        /\ engine[e].snapshot.segment = engine[e].segment
        /\ IsPrefix(archives[engine[e].context].conversation, engine[e].snapshot.conversation)
    BY <2>1 DEF MemoryOf
  <2>3. /\ archives[engine[e].context].state = "completed"
        /\ archives[engine[e].context].segment = engine[e].segment
        /\ Bound(engine[e].context, archives, archiveOf)
    BY <2>1, <2>2 DEF MemoryOf
  <2> QED BY <2>2, <2>3 DEF Bound, AnchorHolds
<1> QED BY <1>1, <1>2

-----------------------------------------------------------------------------
(* What follows of a step *)

LEMMA ReferencesStep ==
  ASSUME Ownership, EmergencyTypeOK, EmergencyInv, MemoryStep,
         NEW g \in 1..MaxSegments, archiveOf'[g] # archiveOf[g]
  PROVE  archiveOf[g] = 0 /\ sessions[segments[g].session].segment = g
<1>1. PICK e \in Engine : BindArchive(e)
  BY DEF MemoryStep, Selects, OnlyMemory, HostStep, CompressStep, StartSession, ResetSession,
         WriteArchive, WriteArchiveFails, BindArchiveFails, Settle, SettleFails, RecordOutcome,
         RecordOutcomeFails, Interrupt, Crash, AppendMessage, Rewind, CorruptArchive,
         ServiceStep, emergencyVars, allVars
<1>2. /\ engine[e].snapshot.segment = g
      /\ engine[e].stage = "archived"
      /\ IsOpen(g) /\ archiveOf[g] = 0
  BY <1>1 DEF BindArchive, CanBind, EmergencyTypeOK
<1>3. engine[e].snapshot # NoSnapshot
  BY <1>2 DEF EmergencyInv, WorkingInv, WorkingOf, Idle
<1>4. g \in DOMAIN segments
  BY <1>2, <1>3 DEF EmergencyInv, MemoryInv, MemoryOf
<1> QED BY <1>2, <1>4 DEF Ownership, OpenIsCurrent

\* An open segment is one of an active task, so nothing is bound to a finished one;
\* and who logs an outcome has logged the attempt before.
LEMMA LogStep ==
  ASSUME TypeOK, Ownership, EmergencyTypeOK, EmergencyInv, MemoryStep,
         NEW i \in DOMAIN attempts' \ DOMAIN attempts,
         tasks[segments[archives[attempts'[i].archive].segment].task].status \in Finished
  PROVE  /\ attempts'[i].type # "triggered"
         /\ \E j \in DOMAIN attempts :
               attempts[j] = [type |-> "triggered", archive |-> attempts'[i].archive]
<1>1. PICK e \in Engine : BindArchive(e) \/ RecordOutcome(e)
  BY DEF MemoryStep, Selects, OnlyMemory, HostStep, CompressStep, StartSession, ResetSession,
         WriteArchive, WriteArchiveFails, BindArchiveFails, Settle, SettleFails,
         RecordOutcomeFails, Interrupt, Crash, AppendMessage, Rewind, CorruptArchive,
         ServiceStep, emergencyVars, allVars
<1> DEFINE a == engine[e].attempt
           g == engine[e].snapshot.segment
<1>2. /\ ~Idle(e) => a \in DOMAIN archives /\ archives[a].segment = g /\ g \in DOMAIN segments
      /\ ArchivesInv /\ WorkingOf(e) /\ MemoryOf(e)
  BY DEF EmergencyInv, WorkingInv, WorkingOf, MemoryInv, MemoryOf
<1>3. archives[a].state \in EmergencyState \ {"not_triggered"} /\ a \in Nat
  BY <1>1, <1>2, ArchiveRow DEF BindArchive, RecordOutcome, Idle, Archive, EmergencyTypeOK,
     EngineMemory
<1>4. CASE BindArchive(e)
  <2>1. attempts' = Append(attempts, [type |-> "triggered", archive |-> a])
    BY <1>4 DEF BindArchive
  <2>2. attempts'[i].archive = a
    BY <1>3, <2>1, LoggedIs DEF EmergencyState
  <2>3. IsOpen(g) /\ g \in DOMAIN segments /\ archives[a].segment = g
    BY <1>2, <1>4 DEF BindArchive, CanBind, Idle
  <2>4. sessions[segments[g].session].segment = g
    BY <2>3 DEF Ownership, OpenIsCurrent
  <2>5. segments[g].session \in SessionId /\ g # 0
    <3>1. DOMAIN segments = 1..Len(segments) /\ Len(segments) \in Nat
      BY SegmentCountIsNat
    <3>2. segments[g] \in ContextSegment
      BY <2>3, <3>1, SegmentRow
    <3> QED BY <2>3, <3>1, <3>2 DEF ContextSegment
  <2>6. tasks[segments[g].task].status = "active"
    BY <2>4, <2>5 DEF Ownership, PointerWellFormed
  <2> QED BY <2>2, <2>3, <2>6 DEF Finished
<1>5. CASE RecordOutcome(e)
  <2>1. engine[e].stage = "settled" /\ ~Idle(e)
    BY <1>5 DEF RecordOutcome, Idle
  <2>2. attempts' = Append(attempts, [type |-> archives[a].state, archive |-> a])
    BY <1>5 DEF RecordOutcome
  <2>3. attempts'[i] = [type |-> archives[a].state, archive |-> a]
    BY <1>3, <2>2, LoggedIs
  <2>4. archives[a].state # "triggered" /\ Unsettled(a, attempts)
    BY <1>2, <2>1 DEF WorkingOf
  <2>5. \A j \in DOMAIN attempts : attempts[j] \in Attempt
    BY ElementOfSeq DEF EmergencyTypeOK
  <2>6. PICK j \in DOMAIN attempts : attempts[j].type = "triggered" /\ attempts[j].archive = a
    BY <2>4 DEF Unsettled
  <2>7. attempts[j] = [type |-> "triggered", archive |-> a]
    BY <2>5, <2>6 DEF Attempt
  <2> QED BY <2>3, <2>4, <2>6, <2>7
<1> QED BY <1>1, <1>4, <1>5

\* Only an eligible selection puts a new request into an engine's memory.
LEMMA SnapshotsAreSelected ==
  ASSUME EmergencyTypeOK, MemoryStep, NEW e \in Engine,
         engine'[e].snapshot # engine[e].snapshot, engine'[e].snapshot # NoSnapshot
  PROVE  Selects(e)
<1>1. engine \in [Engine -> EngineMemory]
  BY DEF EmergencyTypeOK
<1>2. ASSUME NEW f \in Engine, Selects(f)
      PROVE  f = e
  BY <1>1, <1>2 DEF Selects, SelectedFor
<1>3. ASSUME NEW f \in Engine, NEW memory, memory.snapshot = NoSnapshot,
             engine' = [engine EXCEPT ![f] = memory]
      PROVE  FALSE
  BY <1>1, <1>3
<1>4. ASSUME NEW f \in Engine, NEW s,
             \/ engine' = [engine EXCEPT ![f] = Forgotten(@)]
             \/ engine' = [engine EXCEPT ![f] = [Forgotten(@) EXCEPT !.session = s]]
             \/ engine' = [engine EXCEPT ![f] = NoMemory]
      PROVE  FALSE
  <2>1. engine[f] \in EngineMemory
    BY <1>1
  <2>2. /\ Forgotten(engine[f]).snapshot = NoSnapshot
        /\ [Forgotten(engine[f]) EXCEPT !.session = s].snapshot = NoSnapshot
    BY <2>1 DEF Forgotten, EngineMemory
  <2>3. NoMemory.snapshot = NoSnapshot
    BY DEF NoMemory
  <2>4. CASE engine' = [engine EXCEPT ![f] = Forgotten(@)]
    BY <1>3, <2>2, <2>4
  <2>5. CASE engine' = [engine EXCEPT ![f] = [Forgotten(@) EXCEPT !.session = s]]
    BY <1>3, <2>2, <2>5
  <2>6. CASE engine' = [engine EXCEPT ![f] = NoMemory]
    BY <1>3, <2>3, <2>6
  <2> QED BY <1>4, <2>4, <2>5, <2>6
<1>5. ASSUME NEW f \in Engine,
             \/ WriteArchive(f) \/ WriteArchiveFails(f) \/ BindArchive(f) \/ BindArchiveFails(f)
             \/ \E outcome \in {"completed", "failed"} :
                   Settle(f, outcome) \/ SettleFails(f, outcome)
             \/ RecordOutcome(f) \/ RecordOutcomeFails(f) \/ Interrupt(f)
      PROVE  FALSE
  <2>1. engine[e] \in EngineMemory /\ engine[f] \in EngineMemory
    BY <1>1
  <2>2. ASSUME NEW status, NEW stage, NEW a,
               \/ engine' = [engine EXCEPT ![f].status = status, ![f].stage = stage,
                                           ![f].attempt = a]
               \/ engine' = [engine EXCEPT ![f].stage = stage, ![f].attempt = a]
               \/ engine' = [engine EXCEPT ![f].stage = stage]
        PROVE  FALSE
    BY <1>1, <2>1, <2>2 DEF EngineMemory
  <2>3. CASE WriteArchive(f) \/ BindArchive(f) \/ Interrupt(f)
    <3>1. \/ engine' = [engine EXCEPT ![f].stage = "archived", ![f].attempt = Len(archives) + 1]
          \/ engine' = [engine EXCEPT ![f].stage = "idle", ![f].attempt = 0]
          \/ engine' = [engine EXCEPT ![f].stage = "bound"]
      BY <2>3 DEF WriteArchive, BindArchive, Interrupt
    <3> QED BY <2>2, <3>1
  <2>4. CASE \/ WriteArchiveFails(f) \/ BindArchiveFails(f) \/ RecordOutcomeFails(f)
             \/ \E outcome \in {"completed", "failed"} : SettleFails(f, outcome)
    <3>1. engine' = [engine EXCEPT ![f].status = "failed", ![f].stage = "idle", ![f].attempt = 0]
      BY <2>4
      DEF WriteArchiveFails, BindArchiveFails, RecordOutcomeFails, SettleFails, Unavailable
    <3> QED BY <2>2, <3>1
  <2>5. CASE \E outcome \in {"completed", "failed"} : Settle(f, outcome)
    BY <2>2, <2>5 DEF Settle
  <2>6. CASE RecordOutcome(f)
    BY <1>1, <2>1, <2>6 DEF RecordOutcome, EngineMemory
  <2> QED BY <1>5, <2>3, <2>4, <2>5, <2>6
<1>6. ASSUME NEW f \in Engine, HostStep(f)
      PROVE  FALSE
  <2>1. ASSUME ResetSession(f) \/ (\E s \in SessionId : StartSession(f, s)) \/ Crash(f)
        PROVE  FALSE
    BY <1>4, <2>1 DEF ResetSession, StartSession, Crash
  <2> QED BY <1>5, <1>6, <2>1 DEF HostStep, CompressStep
<1>7. engine' # engine
  OBVIOUS
<1> QED
  BY <1>2, <1>4, <1>6, <1>7
  DEF MemoryStep, Forgets, AppendMessage, Rewind, CorruptArchive, ServiceStep, emergencyVars,
      allVars

LEMMA RestoringStep ==
  ASSUME TypeOK, EmergencyTypeOK, EmergencyInv, MemoryStep, "storage" \notin Faults,
         NEW e \in Engine,
         LET request == engine'[e].snapshot
             a == archiveOf[request.segment]
         IN  /\ request # engine[e].snapshot
             /\ request # NoSnapshot
             /\ engine[e].segment # request.segment
             /\ a # 0
             /\ archives[a].state = "completed"
             /\ archives[a].readable
             /\ AnchorHolds(a, request.conversation)
  PROVE  engine'[e].snapshot.base = archiveOf[engine'[e].snapshot.segment]
<1> DEFINE messages == conversation[engine[e].session]
<1>1. Selects(e)
  BY SnapshotsAreSelected
<1>2. PICK g \in DOMAIN segments : SelectedFor(e, g)
  BY <1>1 DEF Selects
<1>3. g \in 1..MaxSegments
  BY <1>2, SegmentNumbers DEF EmergencyInv
<1>4. PICK b \in Synced(e, g, messages) :
         Remembers(e, [session |-> engine[e].session, segment |-> g, status |-> b.status,
                       context |-> b.context,
                       snapshot |-> [segment |-> g, conversation |-> messages,
                                     base |-> b.context],
                       stage |-> engine[e].stage, attempt |-> engine[e].attempt])
  BY <1>1, <1>2, <1>3, SelectedForIs DEF Selects
<1>5. engine'[e].snapshot = [segment |-> g, conversation |-> messages, base |-> b.context]
  BY <1>4 DEF Remembers
<1> DEFINE a == archiveOf[g]
<1>6. /\ engine[e].segment # g /\ a # 0
      /\ archives[a].state = "completed" /\ archives[a].readable
      /\ AnchorHolds(a, messages)
  BY <1>5
<1>7. archives[a].segment = g
  BY <1>3, <1>6 DEF EmergencyInv, ArchivesInv
<1>8. b = Restored(g, messages)
  BY <1>4, <1>6 DEF Synced, MemoryHolds, Hits
<1>9. b.context = a
  BY <1>6, <1>7, <1>8 DEF Restored
<1> QED BY <1>5, <1>9

-----------------------------------------------------------------------------
(* A selection that reads: its memory has its type *)

Reading == [at: {"none", "latest", "segment", "task", "build"}, attached: BOOLEAN,
            missing: BOOLEAN, task: TaskId \cup {None}, segment: Nat, checkpoint: Nat,
            closed: BOOLEAN, inactive: BOOLEAN]

ReadingTypeOK ==
    /\ reading \in [Engine -> Reading]
    /\ answer \in [Engine -> [kind: {"none", "request", "plain", "isolated", "raised"},
                              segment: Nat]]
    /\ overlap \in [Engine -> [cuts: SUBSET Nat, moved: BOOLEAN]]

\* The selection of e is where it was, and so is all that it may read.
SelectionRests(e) ==
    /\ reading'[e] = reading[e]
    /\ answer'[e] = answer[e]
    /\ overlap'[e] = overlap[e]
    /\ ~Resting(e) => engine'[e] = engine[e]
    /\ UNCHANGED vars

LEMMA SessionRow ==
  ASSUME TypeOK, NEW s \in SessionId
  PROVE  /\ sessions[s].exists \in BOOLEAN
         /\ sessions[s].task \in TaskId \cup {None}
         /\ sessions[s].segment \in Nat
  BY DEF TypeOK, SessionContextState

LEMMA CutsAreSegments ==
  ASSUME TypeOK, NEW s
  PROVE  CutOf(s) \subseteq DOMAIN segments /\ CutOf(s) \in SUBSET Nat
  BY SegmentCountIsNat DEF CutOf, SegmentsOfSession

\* The record of a selection after each of its queries, field by field.
LEMMA ReadStateIs ==
  ASSUME TypeOK, EmergencyTypeOK, ReadingTypeOK, ReadingInv, NEW e \in Engine, ReadState(e)
  PROVE  LET row == sessions[engine[e].session]
         IN  /\ engine[e].session \in SessionId
             /\ reading'[e] \in Reading
             /\ reading'[e].at = IF row.task = None THEN "latest" ELSE "segment"
             /\ reading'[e].attached <=> row.task # None
             /\ reading'[e].missing <=> ~row.exists
             /\ reading'[e].task = row.task
             /\ reading'[e].segment = row.segment
             /\ ~reading'[e].closed /\ ~reading'[e].inactive
             /\ overlap'[e] = [cuts |-> CutOf(engine[e].session), moved |-> FALSE]
<1> DEFINE s == engine[e].session
           row == sessions[s]
           read == [NotReading EXCEPT !.at = IF row.task = None THEN "latest" ELSE "segment",
                                      !.attached = row.task # None, !.missing = ~row.exists,
                                      !.task = row.task, !.segment = row.segment]
<1>1. s \in SessionId
  BY DEF ReadState, EmergencyTypeOK, EngineMemory
<1>2. /\ row.exists \in BOOLEAN /\ row.task \in TaskId \cup {None} /\ row.segment \in Nat
  BY <1>1, SessionRow
<1>3. reading'[e] = read
  BY DEF ReadState, ReadingTypeOK
<1>4. /\ read.at = IF row.task = None THEN "latest" ELSE "segment"
      /\ read.attached <=> row.task # None
      /\ read.missing <=> ~row.exists
      /\ read.task = row.task
      /\ read.segment = row.segment
      /\ ~read.closed /\ ~read.inactive
  BY DEF NotReading
<1>5. read \in Reading
  BY <1>2 DEF NotReading, Reading
<1>6. overlap'[e] = [cuts |-> CutOf(s), moved |-> FALSE]
  <2>1. overlap[e] = NoOverlap
    BY DEF ReadState, ReadingInv
  <2>2. overlap'[e] = [overlap[e] EXCEPT !.cuts = CutOf(s)]
    BY DEF ReadState, ReadingTypeOK
  <2>3. NoOverlap = [cuts |-> {}, moved |-> FALSE]
    BY DEF NoOverlap
  <2>4. overlap'[e] = [[cuts |-> {}, moved |-> FALSE] EXCEPT !.cuts = CutOf(s)]
    BY <2>1, <2>2, <2>3
  <2> QED BY <2>4
<1> QED BY <1>1, <1>3, <1>4, <1>5, <1>6

LEMMA ReadLatestIs ==
  ASSUME TypeOK, ReadingTypeOK, NEW e \in Engine, ReadLatest(e)
  PROVE  /\ reading[e].at = "latest"
         /\ \E g \in DOMAIN segments :
               /\ IsLatestIn(g, SegmentsOfSession(engine[e].session))
               /\ reading'[e] \in Reading
               /\ reading'[e].at = "segment"
               /\ reading'[e].segment = g
               /\ reading'[e].attached = reading[e].attached
               /\ reading'[e].missing = reading[e].missing
               /\ reading'[e].closed = reading[e].closed
               /\ reading'[e].inactive = reading[e].inactive
<1>1. PICK g \in DOMAIN segments :
         /\ IsLatestIn(g, SegmentsOfSession(engine[e].session))
         /\ Reads(e, [reading[e] EXCEPT !.at = "segment", !.segment = g,
                                        !.task = segments[g].task])
  BY DEF ReadLatest
<1>2. reading'[e] = [reading[e] EXCEPT !.at = "segment", !.segment = g, !.task = segments[g].task]
  BY <1>1 DEF Reads, ReadingTypeOK
<1>3. reading[e] \in Reading /\ g \in Nat /\ segments[g].task \in TaskId
  BY SegmentRow, SegmentCountIsNat DEF ReadingTypeOK, ContextSegment
<1> QED BY <1>1, <1>2, <1>3 DEF Reading, ReadLatest

LEMMA ReadSegmentIs ==
  ASSUME TypeOK, ReadingTypeOK, NEW e \in Engine, ReadSegment(e),
         reading[e].segment \in DOMAIN segments
  PROVE  /\ reading[e].at = "segment"
         /\ reading'[e] \in Reading
         /\ reading'[e].at = "task"
         /\ reading'[e].closed <=> ~IsOpen(reading[e].segment)
         /\ reading'[e].segment = reading[e].segment
         /\ reading'[e].task = reading[e].task
         /\ reading'[e].attached = reading[e].attached
         /\ reading'[e].missing = reading[e].missing
         /\ reading'[e].inactive = reading[e].inactive
<1> DEFINE g == reading[e].segment
<1>1. reading'[e] = [reading[e] EXCEPT !.at = "task", !.closed = ~IsOpen(g),
                                       !.checkpoint = segments[g].checkpoint]
  BY DEF ReadSegment, Reads, ReadingTypeOK
<1>2. reading[e] \in Reading /\ segments[g].checkpoint \in Nat
  <2>1. segments[g] \in ContextSegment
    BY SegmentRow
  <2> QED BY <2>1 DEF ReadingTypeOK, ContextSegment
<1>3. IsOpen(g) \in BOOLEAN
  BY DEF IsOpen
<1> QED BY <1>1, <1>2, <1>3 DEF Reading, ReadSegment

LEMMA ReadTaskIs ==
  ASSUME ReadingTypeOK, NEW e \in Engine, ReadTask(e)
  PROVE  /\ reading[e].at = "task"
         /\ reading'[e] \in Reading
         /\ reading'[e].at = "build"
         /\ reading'[e].inactive <=> tasks[reading[e].task].status # "active"
         /\ reading'[e].segment = reading[e].segment
         /\ reading'[e].task = reading[e].task
         /\ reading'[e].attached = reading[e].attached
         /\ reading'[e].missing = reading[e].missing
         /\ reading'[e].closed = reading[e].closed
<1>1. reading'[e] = [reading[e] EXCEPT !.at = "build",
                                       !.inactive = tasks[reading[e].task].status # "active"]
  BY DEF ReadTask, Reads, ReadingTypeOK
<1>2. reading[e] \in Reading
  BY DEF ReadingTypeOK
<1> QED BY <1>1, <1>2 DEF Reading, ReadTask

\* The four queries, and what they leave alone.
Queries(e) == ReadState(e) \/ ReadLatest(e) \/ ReadSegment(e) \/ ReadTask(e)

LEMMA QueriesAre ==
  ASSUME TypeOK, EmergencyTypeOK, ReadingTypeOK, ReadingInv, NEW e \in Engine, Queries(e)
  PROVE  /\ reading'[e] \in Reading
         /\ ~Resting(e)'
         /\ \A f \in Engine \ {e} : reading'[f] = reading[f] /\ overlap'[f] = overlap[f]
         /\ DOMAIN reading' = Engine
         /\ ReadState(e) \/ overlap' = overlap
         /\ UNCHANGED <<allVars, answer>>
<1>1. CASE ReadState(e)
  <2>1. reading'[e] \in Reading /\ ~Resting(e)'
    BY <1>1, ReadStateIs DEF Resting
  <2> QED BY <1>1, <2>1 DEF ReadState, ReadingTypeOK
<1>2. CASE ReadLatest(e)
  <2>1. reading'[e] \in Reading /\ ~Resting(e)'
    BY <1>2, ReadLatestIs DEF Resting
  <2> QED BY <1>2, <2>1 DEF ReadLatest, Reads, ReadingTypeOK
<1>3. CASE ReadSegment(e)
  <2>1. reading[e].segment \in DOMAIN segments
    BY <1>3 DEF ReadSegment, ReadingInv
  <2>2. reading'[e] \in Reading /\ ~Resting(e)'
    BY <1>3, <2>1, ReadSegmentIs DEF Resting
  <2> QED BY <1>3, <2>2 DEF ReadSegment, Reads, ReadingTypeOK
<1>4. CASE ReadTask(e)
  <2>1. reading'[e] \in Reading /\ ~Resting(e)'
    BY <1>4, ReadTaskIs DEF Resting
  <2> QED BY <1>4, <2>1 DEF ReadTask, Reads, ReadingTypeOK
<1> QED BY <1>1, <1>2, <1>3, <1>4 DEF Queries

\* The five ends of a selection.
Answering(e) ==
    \/ AnswerPlain(e) \/ AnswerIsolated(e) \/ AnswerEligible(e) \/ AnswerIneligible(e)
    \/ AnswerRaised(e)

LEMMA AnsweringIs ==
  ASSUME ReadingTypeOK, NEW e \in Engine, Answering(e)
  PROVE  /\ ~Resting(e)
         /\ reading'[e] = NotReading /\ overlap'[e] = NoOverlap
         /\ answer'[e].kind \in {"request", "plain", "isolated", "raised"}
         /\ answer'[e].segment \in Nat
         /\ answer'[e] = [kind |-> answer'[e].kind, segment |-> answer'[e].segment]
         /\ answer'[e].kind = "isolated" => reading[e].at = "build" /\ Alarms(reading[e])
         /\ answer'[e].kind = "request" =>
               reading[e].at = "build" /\ answer'[e].segment = reading[e].segment
         /\ \A f \in Engine \ {e} : /\ reading'[f] = reading[f] /\ overlap'[f] = overlap[f]
                                    /\ answer'[f] = answer[f]
         /\ DOMAIN reading' = Engine /\ DOMAIN overlap' = Engine /\ DOMAIN answer' = Engine
         /\ OnlyMemory
<1>1. reading[e].segment \in Nat
  BY DEF ReadingTypeOK, Reading
<1>2. ASSUME NEW kind \in {"request", "plain", "isolated", "raised"}, NEW g \in Nat,
             Answers(e, kind, g)
      PROVE  /\ reading'[e] = NotReading /\ overlap'[e] = NoOverlap
             /\ answer'[e].kind = kind /\ answer'[e].segment = g
             /\ answer'[e] = [kind |-> answer'[e].kind, segment |-> answer'[e].segment]
             /\ \A f \in Engine \ {e} : /\ reading'[f] = reading[f] /\ overlap'[f] = overlap[f]
                                        /\ answer'[f] = answer[f]
             /\ DOMAIN reading' = Engine /\ DOMAIN overlap' = Engine /\ DOMAIN answer' = Engine
             /\ OnlyMemory
  <2>1. answer'[e] = [kind |-> kind, segment |-> g]
    BY <1>2 DEF Answers, ReadingTypeOK
  <2>2. /\ answer'[e].kind = kind /\ answer'[e].segment = g
        /\ answer'[e] = [kind |-> answer'[e].kind, segment |-> answer'[e].segment]
    BY <2>1
  <2> QED BY <1>2, <2>2 DEF Answers, ReadingTypeOK, OnlyMemory
<1>3. CASE AnswerPlain(e)
  <2>1. Answers(e, "plain", 0) /\ ~Resting(e)
    BY <1>3 DEF AnswerPlain, Resting
  <2> QED BY <1>2, <2>1
<1>4. CASE AnswerIsolated(e)
  <2>1. /\ Answers(e, "isolated", reading[e].segment) /\ ~Resting(e)
        /\ reading[e].at = "build" /\ Alarms(reading[e])
    BY <1>4 DEF AnswerIsolated, Resting
  <2> QED BY <1>1, <1>2, <2>1
<1>5. CASE AnswerEligible(e) \/ AnswerIneligible(e)
  <2>1. /\ Answers(e, "request", reading[e].segment) /\ ~Resting(e)
        /\ reading[e].at = "build"
    BY <1>5 DEF AnswerEligible, AnswerIneligible, Resting
  <2> QED BY <1>1, <1>2, <2>1
<1>6. CASE AnswerRaised(e)
  <2>1. Answers(e, "raised", 0) /\ ~Resting(e)
    BY <1>6 DEF AnswerRaised
  <2> QED BY <1>2, <2>1
<1> QED BY <1>3, <1>4, <1>5, <1>6 DEF Answering

\* An engine writes its own memory only.
LEMMA MemoryIsOwn ==
  ASSUME EmergencyTypeOK, NEW e \in Engine, NEW f \in Engine \ {e}, HostStep(f) \/ Answering(f)
  PROVE  engine'[e] = engine[e]
<1>1. engine \in [Engine -> EngineMemory]
  BY DEF EmergencyTypeOK
<1>2. CASE ResetSession(f) \/ (\E s \in SessionId : StartSession(f, s)) \/ Crash(f)
  BY <1>1, <1>2 DEF ResetSession, StartSession, Crash
<1>3. CASE \/ WriteArchive(f) \/ WriteArchiveFails(f) \/ BindArchive(f) \/ BindArchiveFails(f)
           \/ RecordOutcomeFails(f) \/ Interrupt(f)
  BY <1>1, <1>3 DEF WriteArchive, WriteArchiveFails, BindArchive, BindArchiveFails,
                    RecordOutcomeFails, Interrupt, Unavailable
<1>4. CASE \E outcome \in {"completed", "failed"} : Settle(f, outcome) \/ SettleFails(f, outcome)
  BY <1>1, <1>4 DEF Settle, SettleFails, Unavailable
<1>5. CASE RecordOutcome(f)
  BY <1>1, <1>5 DEF RecordOutcome
<1>6. CASE Forgets(f) \/ \E g : SelectedFor(f, g)
  BY <1>1, <1>6 DEF Forgets, SelectedFor
<1>7. Answering(f) => Forgets(f) \/ \E g : SelectedFor(f, g)
  BY DEF Answering, AnswerPlain, AnswerIsolated, AnswerEligible, AnswerIneligible, AnswerRaised
<1> QED BY <1>2, <1>3, <1>4, <1>5, <1>6, <1>7 DEF HostStep, CompressStep

LEMMA HostStepIsLocal ==
  ASSUME NEW e \in Engine, HostStep(e)
  PROVE  UNCHANGED vars
  BY DEF HostStep, CompressStep, StartSession, ResetSession, WriteArchive, WriteArchiveFails,
         BindArchive, BindArchiveFails, Settle, SettleFails, RecordOutcome, RecordOutcomeFails,
         Interrupt, Crash

\* What a step is to the selection of one engine.
LEMMA SelectionShapes ==
  ASSUME TypeOK, EmergencyTypeOK, ReadingTypeOK, ReadingInv, [ReadsNext]_readsVars,
         NEW e \in Engine
  PROVE  \/ Queries(e) \/ Answering(e) \/ CrashReading(e)
         \/ SelectionRests(e)
         \/ ServiceStepSeen
<1>1. ASSUME NEW f \in Engine \ {e}, Queries(f)
      PROVE  SelectionRests(e)
  <2>1. /\ reading'[e] = reading[e] /\ overlap'[e] = overlap[e]
        /\ UNCHANGED <<allVars, answer>>
    BY <1>1, QueriesAre
  <2> QED BY <2>1, SMTT(30) DEF SelectionRests, allVars, emergencyVars
<1>2. ASSUME NEW f \in Engine \ {e}, Answering(f)
      PROVE  SelectionRests(e)
  <2>1. /\ reading'[e] = reading[e] /\ overlap'[e] = overlap[e] /\ answer'[e] = answer[e]
        /\ OnlyMemory
    BY <1>2, AnsweringIs, ZenonT(40)
  <2>2. engine'[e] = engine[e]
    BY <1>2, MemoryIsOwn
  <2> QED BY <2>1, <2>2 DEF SelectionRests, OnlyMemory
<1>3. ASSUME NEW f \in Engine \ {e}, CrashReading(f)
      PROVE  SelectionRests(e)
  <2>1. HostStep(f)
    BY <1>3 DEF CrashReading, HostStep
  <2>2. engine'[e] = engine[e] /\ UNCHANGED vars
    BY <2>1, MemoryIsOwn, HostStepIsLocal
  <2> QED BY <1>3, <2>2 DEF CrashReading, SelectionRests, ReadingTypeOK
<1>4. ASSUME NEW f \in Engine, HostStepResting(f)
      PROVE  SelectionRests(e)
  <2>1. UNCHANGED vars /\ UNCHANGED readVars /\ HostStep(f) /\ Resting(f)
    BY <1>4, HostStepIsLocal DEF HostStepResting
  <2>2. f # e => engine'[e] = engine[e]
    BY <2>1, MemoryIsOwn
  <2> QED BY <2>1, <2>2 DEF SelectionRests, readVars
<1>5. ASSUME \/ \E s \in SessionId : ConversationStep(s)
             \/ \E a \in DOMAIN archives : CorruptArchive(a) /\ UNCHANGED readVars
             \/ UNCHANGED readsVars
      PROVE  SelectionRests(e)
  <2>1. UNCHANGED <<vars, engine>> /\ UNCHANGED readVars
    BY <1>5 DEF ConversationStep, Rewind, AppendMessage, CorruptArchive, emergencyVars, allVars,
                readsVars
  <2> QED BY <2>1 DEF SelectionRests, readVars
<1>6. \A f \in Engine : SelectionStep(f) => Queries(f) \/ Answering(f)
  BY DEF SelectionStep, Queries, Answering
<1> QED BY <1>1, <1>2, <1>3, <1>4, <1>5, <1>6 DEF ReadsNext

LEMMA ReadingTypeStep ==
  ASSUME TypeOK, TypeOK', EmergencyTypeOK, ReadingTypeOK, ReadingInv, [ReadsNext]_readsVars
  PROVE  ReadingTypeOK'
<1> DEFINE Answer == [kind: {"none", "request", "plain", "isolated", "raised"}, segment: Nat]
           Overlap == [cuts: SUBSET Nat, moved: BOOLEAN]
<1>1. /\ NotReading \in Reading /\ NoOverlap \in Overlap /\ NoAnswer \in Answer
  BY DEF NotReading, Reading, NoOverlap, NoAnswer
<1>2. /\ reading \in [Engine -> Reading]
      /\ answer \in [Engine -> Answer]
      /\ overlap \in [Engine -> Overlap]
  BY DEF ReadingTypeOK
<1>3. ASSUME NEW e \in Engine, Queries(e)
      PROVE  ReadingTypeOK'
  <2>1. /\ reading'[e] \in Reading
        /\ \A f \in Engine \ {e} : reading'[f] = reading[f]
        /\ answer' = answer
    BY <1>3, QueriesAre
  <2>2. reading' \in [Engine -> Reading]
    <3>1. \E read : reading' = [reading EXCEPT ![e] = read]
      BY <1>3 DEF Queries, ReadState, ReadLatest, ReadSegment, ReadTask, Reads
    <3> QED BY <1>2, <2>1, <3>1
  <2>3. overlap' \in [Engine -> Overlap]
    <3>1. CASE ReadState(e)
      <4>1. overlap' = [overlap EXCEPT ![e].cuts = CutOf(engine[e].session)]
        BY <3>1 DEF ReadState
      <4>2. CutOf(engine[e].session) \in SUBSET Nat
        BY CutsAreSegments
      <4> QED BY <1>2, <4>1, <4>2
    <3>2. CASE ~ReadState(e)
      BY <1>2, <1>3, <3>2, QueriesAre
    <3> QED BY <3>1, <3>2
  <2> QED BY <1>2, <2>1, <2>2, <2>3 DEF ReadingTypeOK
<1>4. ASSUME NEW e \in Engine, Answering(e)
      PROVE  ReadingTypeOK'
  <2>1. /\ reading'[e] = NotReading /\ overlap'[e] = NoOverlap
        /\ answer'[e] = [kind |-> answer'[e].kind, segment |-> answer'[e].segment]
        /\ answer'[e].kind \in {"request", "plain", "isolated", "raised"}
        /\ answer'[e].segment \in Nat
        /\ \A f \in Engine \ {e} : /\ reading'[f] = reading[f] /\ overlap'[f] = overlap[f]
                                   /\ answer'[f] = answer[f]
    BY <1>4, AnsweringIs
  <2>2. answer'[e] \in Answer
    BY <2>1
  <2>3. \E read, answered, seen :
           /\ reading' = [reading EXCEPT ![e] = read]
           /\ answer' = [answer EXCEPT ![e] = answered]
           /\ overlap' = [overlap EXCEPT ![e] = seen]
    BY <1>4 DEF Answering, AnswerPlain, AnswerIsolated, AnswerEligible, AnswerIneligible,
                AnswerRaised, Answers
  <2>4. reading' \in [Engine -> Reading]
    BY <1>1, <1>2, <2>1, <2>3
  <2>5. answer' \in [Engine -> Answer]
    BY <1>2, <2>1, <2>2, <2>3
  <2>6. overlap' \in [Engine -> Overlap]
    BY <1>1, <1>2, <2>1, <2>3
  <2> QED BY <2>4, <2>5, <2>6 DEF ReadingTypeOK
<1>5. ASSUME NEW e \in Engine, CrashReading(e)
      PROVE  ReadingTypeOK'
  BY <1>1, <1>2, <1>5 DEF CrashReading, ReadingTypeOK
<1>6. ASSUME ServiceStepSeen
      PROVE  ReadingTypeOK'
  <2>1. \A e \in Engine : CutOf(engine[e].session)' \in SUBSET Nat
    <3>1. DOMAIN segments' = 1..Len(segments') /\ Len(segments') \in Nat
      BY LenProperties DEF TypeOK
    <3>2. DOMAIN segments' \subseteq Nat
      BY <3>1
    <3>3. \A e \in Engine : CutOf(engine[e].session)' \subseteq DOMAIN segments'
      BY DEF CutOf, SegmentsOfSession
    <3> QED BY <3>2, <3>3
  <2>2. \A e \in Engine : overlap[e].cuts \in SUBSET Nat
    BY <1>2
  <2>3. \A e \in Engine :
           overlap'[e] = IF Resting(e) THEN NoOverlap
              ELSE [cuts |-> overlap[e].cuts \cup CutOf(engine[e].session)',
                    moved |-> overlap[e].moved
                              \/ sessions'[engine[e].session] # sessions[engine[e].session]]
    BY <1>6 DEF ServiceStepSeen
  <2>4. ASSUME NEW e \in Engine
        PROVE  overlap'[e] \in Overlap
    <3>1. CASE Resting(e)
      BY <1>1, <2>3, <3>1
    <3>2. CASE ~Resting(e)
      <4>1. PICK moved \in BOOLEAN :
               overlap'[e] = [cuts |-> overlap[e].cuts \cup CutOf(engine[e].session)',
                              moved |-> moved]
        BY <2>3, <3>2
      <4> QED BY <2>1, <2>2, <4>1
    <3> QED BY <3>1, <3>2
  <2>5. overlap' = [e \in Engine |-> overlap'[e]]
    BY <1>6 DEF ServiceStepSeen
  <2>6. overlap' \in [Engine -> Overlap]
    BY <2>4, <2>5
  <2> QED BY <1>2, <1>6, <2>6 DEF ServiceStepSeen, ReadingTypeOK
<1>7. ASSUME UNCHANGED readVars
      PROVE  ReadingTypeOK'
  BY <1>2, <1>7 DEF readVars, ReadingTypeOK
<1>8. \A e \in Engine : SelectionStep(e) => Queries(e) \/ Answering(e)
  BY DEF SelectionStep, Queries, Answering
<1> QED
  BY <1>3, <1>4, <1>5, <1>6, <1>7, <1>8
  DEF ReadsNext, HostStepResting, ConversationStep, readsVars

LEMMA ReadingInvStep ==
  ASSUME TypeOK, TypeOK', Ownership, EmergencyTypeOK, ReadingTypeOK, ReadingInv,
         SegmentsBounded, [Next]_vars, [ReadsNext]_readsVars
  PROVE  ReadingInv'
<1> DEFINE P(e, read, seen, idle, s, rows) ==
       /\ read.at \in {"none", "latest", "segment", "task", "build"}
       /\ read.at = "none" => read = NotReading /\ seen = NoOverlap
       /\ read.at # "none" => idle /\ s \in SessionId
       /\ read.at \in {"segment", "task", "build"} =>
             /\ read.segment \in DOMAIN rows
             /\ rows[read.segment].session = s
<1>1. \A e \in Engine : P(e, reading[e], overlap[e], Idle(e), engine[e].session, segments)
  BY DEF ReadingInv, Resting
<1> SUFFICES ASSUME NEW e \in Engine
             PROVE  P(e, reading'[e], overlap'[e], Idle(e)', engine'[e].session, segments')
  BY DEF ReadingInv, Resting
<1>2. CASE Queries(e)
  <2>1. UNCHANGED allVars
    BY <1>2, QueriesAre
  <2>2. engine' = engine /\ segments' = segments
    BY <2>1 DEF allVars, vars, emergencyVars
  <2>3. Idle(e) /\ engine[e].session \in SessionId
    BY <1>1, <1>2, ReadStateIs
    DEF Queries, ReadState, ReadLatest, ReadSegment, ReadTask
  <2>4. reading'[e].at \in {"latest", "segment", "task", "build"}
    <3>1. reading'[e] \in Reading /\ reading'[e].at # "none"
      BY <1>2, QueriesAre DEF Resting
    <3> QED BY <3>1 DEF Reading
  <2>5. reading'[e].at # "latest" => /\ reading'[e].segment \in DOMAIN segments
                                     /\ segments[reading'[e].segment].session = engine[e].session
    <3>1. CASE ReadState(e)
      BY <3>1, ReadStateIs DEF Ownership, PointerWellFormed, Attached
    <3>2. CASE ReadLatest(e)
      BY <3>2, ReadLatestIs DEF IsLatestIn, SegmentsOfSession
    <3>3. CASE ReadSegment(e)
      <4>1. reading[e].at = "segment"
        BY <3>3 DEF ReadSegment
      <4> QED BY <1>1, <3>3, <4>1, ReadSegmentIs
    <3>4. CASE ReadTask(e)
      <4>1. reading[e].at = "task"
        BY <3>4 DEF ReadTask
      <4> QED BY <1>1, <3>4, <4>1, ReadTaskIs
    <3> QED BY <1>2, <3>1, <3>2, <3>3, <3>4 DEF Queries
  <2> QED BY <2>2, <2>3, <2>4, <2>5 DEF Idle
<1>3. CASE Answering(e) \/ CrashReading(e)
  <2>1. reading'[e] = NotReading /\ overlap'[e] = NoOverlap
    BY <1>3, AnsweringIs DEF CrashReading, ReadingTypeOK
  <2> QED BY <2>1 DEF NotReading
<1>4. CASE SelectionRests(e)
  <2>1. /\ reading'[e] = reading[e] /\ overlap'[e] = overlap[e] /\ segments' = segments
        /\ reading[e].at # "none" => engine'[e] = engine[e]
    BY <1>4 DEF SelectionRests, Resting, vars
  <2> QED BY <1>1, <2>1 DEF Idle
<1>5. CASE ServiceStepSeen
  <2>1. reading' = reading /\ engine' = engine
    BY <1>5 DEF ServiceStepSeen, ServiceStep, emergencyVars
  <2>2. Resting(e) => overlap'[e] = NoOverlap
    BY <1>5 DEF ServiceStepSeen
  <2>3. /\ DOMAIN segments \subseteq DOMAIN segments'
        /\ \A h \in DOMAIN segments : segments'[h].session = segments[h].session
    BY SegmentsGrow
  <2> QED BY <1>1, <2>1, <2>2, <2>3 DEF Idle, Resting
<1> QED BY <1>2, <1>3, <1>4, <1>5, SelectionShapes

\* What ReadsSpec does to an engine's memory, EmergencySpec does too.
LEMMA ReadsNextIsMemoryStep ==
  ASSUME ReadingTypeOK, ReadingInv, [ReadsNext]_readsVars
  PROVE  MemoryStep
<1>1. ASSUME NEW e \in Engine, AnswerEligible(e)
      PROVE  Selects(e)
  <2>1. /\ Idle(e) /\ engine[e].session \in SessionId
        /\ reading[e].segment \in DOMAIN segments
    BY <1>1 DEF AnswerEligible, ReadingInv, Resting
  <2> QED BY <1>1, <2>1 DEF AnswerEligible, Answers, Selects, OnlyMemory
<1>2. ASSUME NEW e \in Engine,
             AnswerPlain(e) \/ AnswerIsolated(e) \/ AnswerIneligible(e) \/ AnswerRaised(e)
      PROVE  Idle(e) /\ Forgets(e) /\ OnlyMemory
  <2>1. ~Resting(e)
    BY <1>2 DEF AnswerPlain, AnswerIsolated, AnswerIneligible, AnswerRaised, Resting
  <2> QED BY <1>2, <2>1 DEF AnswerPlain, AnswerIsolated, AnswerIneligible, AnswerRaised,
                            Answers, ReadingInv, OnlyMemory
<1>3. ASSUME NEW e \in Engine, ReadState(e) \/ ReadLatest(e) \/ ReadSegment(e) \/ ReadTask(e)
      PROVE  UNCHANGED allVars
  BY <1>3 DEF ReadState, ReadLatest, ReadSegment, ReadTask, Reads
<1> QED
  BY <1>1, <1>2, <1>3
  DEF ReadsNext, SelectionStep, HostStepResting, HostStep, CrashReading, ConversationStep,
      ServiceStepSeen, MemoryStep, readsVars

LEMMA ReadsInvHolds ==
  ReadsSpec => [](TypeOK /\ Ownership /\ EmergencyTypeOK /\ EmergencyInv
                    /\ ReadingTypeOK /\ ReadingInv)
<1>1. ReadsInit => EmergencyTypeOK /\ EmergencyInv /\ ReadingTypeOK /\ ReadingInv
  <2>1. ReadsInit => EmergencyTypeOK /\ EmergencyInv
    BY EmergencyStart DEF ReadsInit
  <2>2. ReadsInit => ReadingTypeOK /\ ReadingInv
    BY DEF ReadsInit, ReadingTypeOK, ReadingInv, Reading, NotReading, NoAnswer, NoOverlap, Resting
  <2> QED BY <2>1, <2>2
<1>2. /\ TypeOK /\ TypeOK' /\ Ownership /\ EmergencyTypeOK /\ EmergencyInv
      /\ ReadingTypeOK /\ ReadingInv /\ [Next]_vars /\ [ReadsNext]_readsVars
      => EmergencyTypeOK' /\ EmergencyInv' /\ ReadingTypeOK' /\ ReadingInv'
  <2> SUFFICES ASSUME TypeOK, TypeOK', Ownership, EmergencyTypeOK, EmergencyInv,
                      ReadingTypeOK, ReadingInv, [Next]_vars, [ReadsNext]_readsVars
               PROVE  EmergencyTypeOK' /\ EmergencyInv' /\ ReadingTypeOK' /\ ReadingInv'
    OBVIOUS
  <2>1. MemoryStep
    BY ReadsNextIsMemoryStep
  <2>2. SegmentsBounded /\ WorkingInv
    BY DEF EmergencyInv
  <2>3. SegmentsBounded' /\ DOMAIN segments \subseteq DOMAIN segments'
    BY <2>2, SegmentsGrow
  <2>4. EmergencyTypeOK' /\ EmergencyInv'
    BY <2>1, <2>2, <2>3, EmergencyTypeStep, EmergencyInvStep
  <2>5. ReadingTypeOK' /\ ReadingInv'
    BY <2>2, ReadingTypeStep, ReadingInvStep
  <2> QED BY <2>4, <2>5
<1>3. ReadsSpec => Spec
  BY ReadsImplementsLifecycle
<1>4. Spec => []TypeOK
  BY TypeCorrect
<1>5. Spec => []Ownership
  BY OwnershipHolds
<1>6. Spec => [][Next]_vars
  BY PTL DEF Spec
<1>7. ReadsSpec => ReadsInit /\ [][ReadsNext]_readsVars
  BY DEF ReadsSpec
<1> QED BY <1>1, <1>2, <1>3, <1>4, <1>5, <1>6, <1>7, PTL

-----------------------------------------------------------------------------
(* A torn read raises no alarm of its own *)

LEMMA SessionsExistStep ==
  ASSUME TypeOK, TypeOK', Ownership, SessionsExist, [Next]_vars
  PROVE  SessionsExist'
<1>1. ASSUME NEW s \in SessionId, NEW t \in TaskId, NEW now \in CallTimes, NEW parent, NEW c,
             Opens(s, t, parent, c, now)
      PROVE  SessionsExist'
  <2> DEFINE n == Len(segments)
  <2>1. now \in Nat
    BY CallTimesAreNat
  <2>2. /\ n \in Nat /\ DOMAIN segments = 1..n /\ DOMAIN segments' = 1..(n + 1)
        /\ \A h \in 1..n : segments'[h].session = segments[h].session
        /\ segments'[n + 1].session = s
        /\ \A o \in SessionId \ {s} : sessions'[o] = sessions[o]
    BY <1>1, <2>1, OpenedRows
  <2>3. sessions'[s].exists
    BY <1>1 DEF Opens, TypeOK, PointedSession
  <2>4. \A h \in 1..n : segments[h].session \in SessionId
    BY <2>2, SegmentRow DEF ContextSegment
  <2> QED BY <2>2, <2>3, <2>4 DEF SessionsExist, Attached
<1>2. ASSUME NEW s \in SessionId, NEW t \in TaskId, NEW now \in CallTimes, NEW status,
             Releases(s, t, status, now)
      PROVE  SessionsExist'
  <2> DEFINE n == Len(segments)
  <2>1. now \in Nat
    BY CallTimesAreNat
  <2>2. /\ n \in Nat /\ DOMAIN segments = 1..n /\ DOMAIN segments' = 1..n
        /\ \A h \in 1..n : segments'[h].session = segments[h].session
        /\ \A o \in SessionId \ {s} : sessions'[o] = sessions[o]
    BY <1>2, <2>1, ReleasedRows
  <2>3. sessions'[s].exists
    BY <1>2 DEF Releases, TypeOK, PointedSession
  <2>4. \A h \in 1..n : segments[h].session \in SessionId
    BY <2>2, SegmentRow DEF ContextSegment
  <2> QED BY <2>2, <2>3, <2>4 DEF SessionsExist, Attached
<1>3. ASSUME QuietStep
      PROVE  SessionsExist'
  BY <1>3, QuietStepRows DEF SessionsExist, Attached
<1> QED BY <1>1, <1>2, <1>3, StepShapes

LEMMA SessionsExistHolds == Spec => []SessionsExist
<1>1. Init => SessionsExist
  BY DEF Init, NoSession, SessionsExist, Attached
<1>2. TypeOK /\ TypeOK' /\ Ownership /\ SessionsExist /\ [Next]_vars => SessionsExist'
  BY SessionsExistStep
<1> QED BY <1>1, <1>2, TypeCorrect, OwnershipHolds, PTL DEF Spec

LEMMA UnmovedStep ==
  ASSUME TypeOK, Ownership, SessionsExist, EmergencyTypeOK, ReadingTypeOK, ReadingInv,
         UnmovedInv, [ReadsNext]_readsVars
  PROVE  UnmovedInv'
<1>1. \A e \in Engine : reading[e].at # "none" /\ ~overlap[e].moved =>
         Matches(reading[e], sessions[engine[e].session])
  BY DEF UnmovedInv, Resting
<1>2. ASSUME NEW e \in Engine, reading'[e].at # "none", ~overlap'[e].moved
      PROVE  Matches(reading'[e], sessions'[engine'[e].session])
  <2> DEFINE s == engine[e].session
             row == sessions[s]
  <2>1. CASE Queries(e)
    <3>1. sessions' = sessions /\ engine' = engine
      BY <2>1, QueriesAre DEF allVars, vars, emergencyVars
    <3>2. s \in SessionId
      BY <2>1, ReadStateIs
      DEF Queries, ReadLatest, ReadSegment, ReadTask, ReadingInv, Resting
    <3>3. Attached(s) => /\ IsOpen(row.segment) /\ tasks[row.task].status = "active"
                         /\ row.exists
      BY <3>2 DEF Ownership, PointerWellFormed, SessionsExist, Attached
    <3>4. CASE ReadState(e)
      BY <3>1, <3>3, <3>4, ReadStateIs DEF Matches, Attached
    <3>5. ~ReadState(e) => ~overlap[e].moved
      BY <1>2, <2>1, QueriesAre
    <3>6. CASE ReadLatest(e)
      <4>1. reading[e].at = "latest" /\ ~overlap[e].moved
        BY <3>5, <3>6 DEF ReadLatest, ReadState, Resting
      <4>2. Matches(reading[e], row)
        BY <1>1, <4>1
      <4>3. PICK g \in DOMAIN segments :
               /\ g \in SegmentsOfSession(s)
               /\ reading'[e].at = "segment"
               /\ reading'[e].attached = reading[e].attached
               /\ reading'[e].missing = reading[e].missing
        BY <3>6, ReadLatestIs DEF IsLatestIn
      <4>4. row.exists
        BY <4>3 DEF SessionsExist, SegmentsOfSession
      <4> QED BY <3>1, <4>1, <4>2, <4>3, <4>4 DEF Matches
    <3>7. CASE ReadSegment(e)
      <4>1. reading[e].at = "segment" /\ ~overlap[e].moved
        BY <3>5, <3>7 DEF ReadSegment, ReadState, Resting
      <4>2. Matches(reading[e], row)
        BY <1>1, <4>1
      <4>3. reading[e].segment \in DOMAIN segments
        BY <4>1 DEF ReadingInv
      <4>4. /\ reading'[e].at = "task"
            /\ reading'[e].closed <=> ~IsOpen(reading[e].segment)
            /\ reading'[e].segment = reading[e].segment
            /\ reading'[e].task = reading[e].task
            /\ reading'[e].attached = reading[e].attached
            /\ reading'[e].missing = reading[e].missing
            /\ reading'[e].inactive = reading[e].inactive
        BY <3>7, <4>3, ReadSegmentIs
      <4> QED BY <3>1, <3>3, <4>1, <4>2, <4>4 DEF Matches, Attached
    <3>8. CASE ReadTask(e)
      <4>1. reading[e].at = "task" /\ ~overlap[e].moved
        BY <3>5, <3>8 DEF ReadTask, ReadState, Resting
      <4>2. Matches(reading[e], row)
        BY <1>1, <4>1
      <4>3. /\ reading'[e].at = "build"
            /\ reading'[e].inactive <=> tasks[reading[e].task].status # "active"
            /\ reading'[e].segment = reading[e].segment
            /\ reading'[e].task = reading[e].task
            /\ reading'[e].attached = reading[e].attached
            /\ reading'[e].missing = reading[e].missing
            /\ reading'[e].closed = reading[e].closed
        BY <3>8, ReadTaskIs
      <4> QED BY <3>1, <3>3, <4>1, <4>2, <4>3 DEF Matches, Attached
    <3> QED BY <2>1, <3>4, <3>6, <3>7, <3>8 DEF Queries
  <2>2. CASE Answering(e) \/ CrashReading(e)
    <3>1. reading'[e] = NotReading
      BY <2>2, AnsweringIs DEF CrashReading, ReadingTypeOK
    <3> QED BY <1>2, <3>1 DEF NotReading
  <2>3. CASE SelectionRests(e)
    <3>1. /\ reading'[e] = reading[e] /\ overlap'[e] = overlap[e]
          /\ ~Resting(e) => engine'[e] = engine[e]
          /\ sessions' = sessions
      BY <2>3 DEF SelectionRests, vars
    <3> QED BY <1>1, <1>2, <3>1 DEF Resting
  <2>4. CASE ServiceStepSeen
    <3>1. reading' = reading /\ engine' = engine
      BY <2>4 DEF ServiceStepSeen, ServiceStep, emergencyVars
    <3>2. ~Resting(e)
      BY <1>2, <3>1 DEF Resting
    <3>3. overlap'[e] = [cuts |-> overlap[e].cuts \cup CutOf(engine[e].session)',
                         moved |-> overlap[e].moved \/ sessions'[s] # sessions[s]]
      BY <2>4, <3>2 DEF ServiceStepSeen
    <3>4. overlap'[e].moved = (overlap[e].moved \/ sessions'[s] # sessions[s])
      BY <3>3
    <3>5. ~overlap[e].moved /\ sessions'[s] = sessions[s]
      BY <1>2, <3>4
    <3> QED BY <1>1, <1>2, <3>1, <3>5
  <2> QED BY <2>1, <2>2, <2>3, <2>4, SelectionShapes
<1> QED BY <1>2 DEF UnmovedInv, Resting

\* A selection that ends in an alarm has seen its pointer move.
LEMMA AlarmStep ==
  ASSUME EmergencyTypeOK, TypeOK, ReadingTypeOK, ReadingInv, UnmovedInv, [ReadsNext]_readsVars,
         NEW e \in Engine, ~Resting(e), Resting(e)', answer'[e].kind = "isolated"
  PROVE  overlap[e].moved
<1>1. Answering(e)
  <2>1. ~Queries(e)
    BY QueriesAre
  <2>2. ~CrashReading(e)
    BY DEF CrashReading, NoAnswer, ReadingTypeOK
  <2>3. ~SelectionRests(e) /\ ~ServiceStepSeen
    BY DEF SelectionRests, ServiceStepSeen, Resting
  <2> QED BY <2>1, <2>2, <2>3, SelectionShapes
<1>2. reading[e].at = "build" /\ Alarms(reading[e])
  BY <1>1, AnsweringIs
<1>3. CASE ~overlap[e].moved
  <2>1. Matches(reading[e], sessions[engine[e].session])
    BY <1>3 DEF UnmovedInv
  <2> QED BY <1>2, <2>1 DEF Matches, Alarms
<1> QED BY <1>3

-----------------------------------------------------------------------------
(* A torn read invents no cut *)

LEMMA CutsStep ==
  ASSUME TypeOK, Ownership, History, TimeInOrder, EmergencyTypeOK, ReadingTypeOK, ReadingInv,
         CutsInv, [ReadsNext]_readsVars
  PROVE  CutsInv'
<1>1. \A e \in Engine : reading[e].at # "none" =>
         /\ CutOf(engine[e].session) \subseteq overlap[e].cuts
         /\ reading[e].at # "latest" => reading[e].segment \in overlap[e].cuts
  BY DEF CutsInv, Resting
<1>2. ASSUME NEW e \in Engine, reading'[e].at # "none"
      PROVE  /\ CutOf(engine[e].session)' \subseteq overlap'[e].cuts
             /\ reading'[e].at # "latest" => reading'[e].segment \in overlap'[e].cuts
  <2> DEFINE s == engine[e].session
             row == sessions[s]
  <2>1. CASE Queries(e)
    <3>1. UNCHANGED <<vars, engine>>
      BY <2>1, QueriesAre DEF allVars, emergencyVars
    <3>2. CutOf(engine[e].session)' = CutOf(s)
      BY <3>1 DEF CutOf, SegmentsOfSession, Attached, vars
    <3>3. CASE ReadState(e)
      <4>1. /\ s \in SessionId
            /\ overlap'[e] = [cuts |-> CutOf(s), moved |-> FALSE]
            /\ reading'[e].at # "latest" => row.task # None
            /\ reading'[e].segment = row.segment
        BY <3>3, ReadStateIs
      <4>2. row.task # None => row.segment \in CutOf(s)
        BY <4>1 DEF Ownership, PointerWellFormed, Attached, CutOf, SegmentsOfSession
      <4>3. overlap'[e].cuts = CutOf(s)
        BY <4>1
      <4> QED BY <3>2, <4>1, <4>2, <4>3
    <3>4. CASE ReadLatest(e)
      <4>1. reading[e].at = "latest" /\ ~ReadState(e)
        BY <3>4 DEF ReadLatest, ReadState, Resting
      <4>2. overlap'[e] = overlap[e] /\ CutOf(s) \subseteq overlap[e].cuts /\ s \in SessionId
        BY <1>1, <2>1, <4>1, QueriesAre DEF ReadingInv, Resting
      <4>3. PICK g \in DOMAIN segments :
               /\ IsLatestIn(g, SegmentsOfSession(s))
               /\ reading'[e].segment = g
        BY <3>4, ReadLatestIs
      <4>4. g \in SegmentsOfSession(s) /\ \A h \in SegmentsOfSession(s) : h <= g
        BY <4>3, LatestIsLast DEF IsLatestIn, SegmentsOfSession
      <4>5. g \in CutOf(s)
        <5>1. CASE Attached(s)
          <6>1. row.segment \in DOMAIN segments /\ row.segment \in SegmentsOfSession(s)
            BY <4>2, <5>1 DEF Ownership, PointerWellFormed, SegmentsOfSession
          <6>2. g <= row.segment
            BY <4>2, <4>4, <5>1 DEF History, CurrentIsNewest, SegmentsOfSession
          <6>3. g = row.segment
            BY <4>3, <4>4, <6>1, <6>2, SegmentCountIsNat
          <6> QED BY <4>4, <5>1, <6>3 DEF CutOf
        <5>2. CASE ~Attached(s)
          BY <4>4, <5>2 DEF CutOf
        <5> QED BY <5>1, <5>2
      <4> QED BY <3>2, <4>2, <4>3, <4>5
    <3>5. CASE ReadSegment(e) \/ ReadTask(e)
      <4>1. reading[e].at \in {"segment", "task"} /\ ~ReadState(e)
        BY <3>5 DEF ReadSegment, ReadTask, ReadState, Resting
      <4>2. /\ overlap'[e] = overlap[e] /\ CutOf(s) \subseteq overlap[e].cuts
            /\ reading[e].segment \in overlap[e].cuts
        BY <1>1, <2>1, <4>1, QueriesAre
      <4>3. reading'[e].segment = reading[e].segment
        BY <3>5, <4>1, ReadSegmentIs, ReadTaskIs DEF ReadingInv
      <4> QED BY <3>2, <4>2, <4>3
    <3> QED BY <2>1, <3>3, <3>4, <3>5 DEF Queries
  <2>2. CASE Answering(e) \/ CrashReading(e)
    <3>1. reading'[e] = NotReading
      BY <2>2, AnsweringIs DEF CrashReading, ReadingTypeOK
    <3> QED BY <1>2, <3>1 DEF NotReading
  <2>3. CASE SelectionRests(e)
    <3>1. /\ reading'[e] = reading[e] /\ overlap'[e] = overlap[e]
          /\ ~Resting(e) => engine'[e] = engine[e]
          /\ UNCHANGED vars
      BY <2>3 DEF SelectionRests
    <3>2. engine'[e] = engine[e]
      BY <1>2, <3>1 DEF Resting
    <3>3. CutOf(engine[e].session)' = CutOf(s)
      BY <3>1, <3>2 DEF CutOf, SegmentsOfSession, Attached, vars
    <3> QED BY <1>1, <1>2, <3>1, <3>3
  <2>4. CASE ServiceStepSeen
    <3>1. reading' = reading
      BY <2>4 DEF ServiceStepSeen
    <3>2. ~Resting(e)
      BY <1>2, <3>1 DEF Resting
    <3>3. overlap'[e] = [cuts |-> overlap[e].cuts \cup CutOf(engine[e].session)',
                         moved |-> overlap[e].moved \/ sessions'[s] # sessions[s]]
      BY <2>4, <3>2 DEF ServiceStepSeen
    <3>4. overlap'[e].cuts = overlap[e].cuts \cup CutOf(engine[e].session)'
      BY <3>3
    <3> QED BY <1>1, <1>2, <3>1, <3>4
  <2> QED BY <2>1, <2>2, <2>3, <2>4, SelectionShapes
<1> QED BY <1>2 DEF CutsInv, Resting

LEMMA RequestStep ==
  ASSUME TypeOK, EmergencyTypeOK, ReadingTypeOK, ReadingInv, CutsInv, [ReadsNext]_readsVars,
         NEW e \in Engine, ~Resting(e), Resting(e)', answer'[e].kind = "request"
  PROVE  answer'[e].segment \in overlap[e].cuts
<1>1. Answering(e)
  <2>1. ~Queries(e)
    BY QueriesAre
  <2>2. ~CrashReading(e)
    BY DEF CrashReading, NoAnswer, ReadingTypeOK
  <2>3. ~SelectionRests(e) /\ ~ServiceStepSeen
    BY DEF SelectionRests, ServiceStepSeen, Resting
  <2> QED BY <2>1, <2>2, <2>3, SelectionShapes
<1>2. reading[e].at = "build" /\ answer'[e].segment = reading[e].segment
  BY <1>1, AnsweringIs
<1> QED BY <1>2 DEF CutsInv

-----------------------------------------------------------------------------
(* Theorems: emergency compression, with selections as one step and as reads *)

\* However many engines work on a segment, and wherever they die, what is in the
\* files, in the log and in the engines has its type: a status is one that the
\* callers know, a reference is to a file that exists.
THEOREM EmergencyTypeCorrect ==
  (EmergencySpec => []EmergencyTypeOK) /\ (ReadsSpec => []EmergencyTypeOK)
<1>1. EmergencySpec => []EmergencyTypeOK
  BY EmergencyInvHolds, PTL
<1>2. ReadsSpec => []EmergencyTypeOK
  BY ReadsInvHolds, PTL
<1> QED BY <1>1, <1>2

\* One attempt is logged for a segment, and only its own archive gets an outcome
\* (CAS of update_segment_archive_reference, in the transaction of the log).
THEOREM OneAttemptPerSegmentHolds ==
  (EmergencySpec => []OneAttemptPerSegment) /\ (ReadsSpec => []OneAttemptPerSegment)
<1>1. EmergencyTypeOK /\ EmergencyInv => OneAttemptPerSegment
  BY LogProperties
<1>2. EmergencySpec => []OneAttemptPerSegment
  BY <1>1, EmergencyInvHolds, PTL
<1>3. ReadsSpec => []OneAttemptPerSegment
  BY <1>1, ReadsInvHolds, PTL
<1> QED BY <1>2, <1>3

\* An outcome in the log is in the file too, once and after its TRIGGERED event.
THEOREM LogFollowsArchivesHolds ==
  (EmergencySpec => []LogFollowsArchives) /\ (ReadsSpec => []LogFollowsArchives)
<1>1. EmergencyTypeOK /\ EmergencyInv => LogFollowsArchives
  BY LogProperties
<1>2. EmergencySpec => []LogFollowsArchives
  BY <1>1, EmergencyInvHolds, PTL
<1>3. ReadsSpec => []LogFollowsArchives
  BY <1>1, ReadsInvHolds, PTL
<1> QED BY <1>2, <1>3

\* What is archived and summarised never begins with a summary already.
THEOREM NeverResummarisedHolds ==
  (EmergencySpec => []NeverResummarised) /\ (ReadsSpec => []NeverResummarised)
<1>1. EmergencyTypeOK /\ EmergencyInv => NeverResummarised
  BY MemoryProperties
<1>2. EmergencySpec => []NeverResummarised
  BY <1>1, EmergencyInvHolds, PTL
<1>3. ReadsSpec => []NeverResummarised
  BY <1>1, ReadsInvHolds, PTL
<1> QED BY <1>2, <1>3

\* A request that begins with a summary is the one the summary was made for, or
\* continues it; also when the segment is closed, or its task passed on, between
\* the queries of the selection.
THEOREM ServedIsVerifiedHolds ==
  (EmergencySpec => []ServedIsVerified) /\ (ReadsSpec => []ServedIsVerified)
<1>1. EmergencyTypeOK /\ EmergencyInv => ServedIsVerified
  BY MemoryProperties
<1>2. EmergencySpec => []ServedIsVerified
  BY <1>1, EmergencyInvHolds, PTL
<1>3. ReadsSpec => []ServedIsVerified
  BY <1>1, ReadsInvHolds, PTL
<1> QED BY <1>2, <1>3

\* A segment's reference is written once, while the segment is open.
THEOREM ArchiveIsImmutableHolds ==
  (EmergencySpec => ArchiveIsImmutable) /\ (ReadsSpec => ArchiveIsImmutable)
<1> DEFINE Step == \A g \in 1..MaxSegments : archiveOf'[g] # archiveOf[g] =>
                      archiveOf[g] = 0 /\ sessions[segments[g].session].segment = g
<1>1. TypeOK /\ Ownership /\ EmergencyTypeOK /\ EmergencyInv /\ [EmergencyNext]_allVars => Step
  BY EmergencyNextIsMemoryStep, ReferencesStep
<1>2. /\ Ownership /\ EmergencyTypeOK /\ EmergencyInv /\ ReadingTypeOK /\ ReadingInv
      /\ [ReadsNext]_readsVars
      => Step
  BY ReadsNextIsMemoryStep, ReferencesStep
<1>3. Step => [Step]_allVars
  OBVIOUS
<1> HIDE DEF Step
<1>4. EmergencySpec => [][Step]_allVars
  <2>1. EmergencySpec => [][EmergencyNext]_allVars
    BY PTL DEF EmergencySpec
  <2> QED BY <1>1, <2>1, EmergencyInvHolds, PTL
<1>5. ReadsSpec => [][Step]_allVars
  <2>1. ReadsSpec => [][ReadsNext]_readsVars
    BY DEF ReadsSpec
  <2> QED BY <1>2, <1>3, <2>1, ReadsInvHolds, PTL
<1> QED BY <1>4, <1>5 DEF Step, ArchiveIsImmutable

\* Of a finished task the tools leave everything as it is, and the engines log no
\* more than the outcome of an attempt it already has in its log.
THEOREM FinishedOnlySettlesHolds ==
  /\ EmergencySpec => FinishedOnlySettles /\ ToolsLeaveFinished
  /\ ReadsSpec => FinishedOnlySettles /\ ToolsLeaveFinished
<1> DEFINE Step == \A i \in DOMAIN attempts' \ DOMAIN attempts :
                      LET a == attempts'[i].archive
                      IN  tasks[segments[archives[a].segment].task].status \in Finished =>
                            /\ attempts'[i].type # "triggered"
                            /\ \E j \in DOMAIN attempts :
                                  attempts[j] = [type |-> "triggered", archive |-> a]
<1>1. TypeOK /\ Ownership /\ EmergencyTypeOK /\ EmergencyInv /\ [EmergencyNext]_allVars => Step
  BY EmergencyNextIsMemoryStep, LogStep
<1>2. /\ TypeOK /\ Ownership /\ EmergencyTypeOK /\ EmergencyInv
      /\ ReadingTypeOK /\ ReadingInv /\ [ReadsNext]_readsVars
      => Step
  BY ReadsNextIsMemoryStep, LogStep
<1>3. Step => [Step]_allVars
  OBVIOUS
<1> HIDE DEF Step
<1>4. EmergencySpec => [][Step]_allVars
  <2>1. EmergencySpec => [][EmergencyNext]_allVars
    BY PTL DEF EmergencySpec
  <2> QED BY <1>1, <2>1, EmergencyInvHolds, PTL
<1>5. ReadsSpec => [][Step]_allVars
  <2>1. ReadsSpec => [][ReadsNext]_readsVars
    BY DEF ReadsSpec
  <2> QED BY <1>2, <1>3, <2>1, ReadsInvHolds, PTL
<1>6. EmergencySpec => ToolsLeaveFinished
  BY EmergencyImplementsLifecycle, ToolsLeaveFinishedHolds, PTL
<1>7. ReadsSpec => ToolsLeaveFinished
  BY ReadsImplementsLifecycle, ToolsLeaveFinishedHolds, PTL
<1> QED BY <1>4, <1>5, <1>6, <1>7 DEF Step, FinishedOnlySettles

\* A completed attempt is restored after a restart, as long as storage does not
\* fail while it is read (it then counts as failed; see Synced).
THEOREM CompletedIsRestoredHolds ==
  ASSUME "storage" \notin Faults
  PROVE  (EmergencySpec => CompletedIsRestored) /\ (ReadsSpec => CompletedIsRestored)
<1> DEFINE Step ==
      \A e \in Engine :
          LET request == engine'[e].snapshot
              a == archiveOf[request.segment]
          IN  (/\ request # engine[e].snapshot
               /\ request # NoSnapshot
               /\ engine[e].segment # request.segment
               /\ a # 0
               /\ archives[a].state = "completed"
               /\ archives[a].readable
               /\ AnchorHolds(a, request.conversation))
              => request.base = a
<1>1. TypeOK /\ Ownership /\ EmergencyTypeOK /\ EmergencyInv /\ [EmergencyNext]_allVars => Step
  BY EmergencyNextIsMemoryStep, RestoringStep
<1>2. /\ TypeOK /\ EmergencyTypeOK /\ EmergencyInv /\ ReadingTypeOK /\ ReadingInv
      /\ [ReadsNext]_readsVars
      => Step
  BY ReadsNextIsMemoryStep, RestoringStep
<1>3. Step => [Step]_allVars
  OBVIOUS
<1> HIDE DEF Step
<1>4. EmergencySpec => [][Step]_allVars
  <2>1. EmergencySpec => [][EmergencyNext]_allVars
    BY PTL DEF EmergencySpec
  <2> QED BY <1>1, <2>1, EmergencyInvHolds, PTL
<1>5. ReadsSpec => [][Step]_allVars
  <2>1. ReadsSpec => [][ReadsNext]_readsVars
    BY DEF ReadsSpec
  <2> QED BY <1>2, <1>3, <2>1, ReadsInvHolds, PTL
<1> QED BY <1>4, <1>5 DEF Step, CompletedIsRestored

-----------------------------------------------------------------------------
(* Theorems: a selection that reads while transactions commit *)

\* Nothing that commits between two queries makes a pointer look broken: after
\* an alarm, the session's own pointer has moved meanwhile.
THEOREM NoFalseAlarmHolds == ReadsSpec => NoFalseAlarm
<1> DEFINE Step ==
             \A e \in Engine : ~Resting(e) /\ Resting(e)' /\ answer'[e].kind = "isolated" =>
                overlap[e].moved
<1>1. ReadsInit => UnmovedInv
  BY DEF ReadsInit, UnmovedInv, Resting, NotReading
<1>2. /\ TypeOK /\ Ownership /\ SessionsExist /\ EmergencyTypeOK /\ ReadingTypeOK /\ ReadingInv
      /\ UnmovedInv /\ [ReadsNext]_readsVars
      => UnmovedInv'
  BY UnmovedStep
<1>3. /\ TypeOK /\ EmergencyTypeOK /\ ReadingTypeOK /\ ReadingInv /\ UnmovedInv
      /\ [ReadsNext]_readsVars
      => Step
  BY AlarmStep
<1>4. ReadsSpec => Spec
  BY ReadsImplementsLifecycle
<1>5. Spec => []SessionsExist
  BY SessionsExistHolds
<1>6. ReadsSpec => ReadsInit /\ [][ReadsNext]_readsVars
  BY DEF ReadsSpec
<1> HIDE DEF Step
<1>7. ReadsSpec => [][Step]_readsVars
  BY <1>1, <1>2, <1>3, <1>4, <1>5, <1>6, ReadsInvHolds, PTL
<1> QED BY <1>7 DEF Step, NoFalseAlarm

\* Torn reads do not invent a cut, as long as clock readings and commits are in
\* the same order.
THEOREM RequestIsOneCutHolds ==
  ASSUME StaleStamps = FALSE
  PROVE  ReadsSpec => RequestIsOneCut
<1> DEFINE Step ==
             \A e \in Engine : ~Resting(e) /\ Resting(e)' /\ answer'[e].kind = "request" =>
                answer'[e].segment \in overlap[e].cuts
<1>1. ReadsInit => CutsInv
  BY DEF ReadsInit, CutsInv, Resting, NotReading
<1>2. /\ TypeOK /\ Ownership /\ History /\ TimeInOrder /\ EmergencyTypeOK /\ ReadingTypeOK
      /\ ReadingInv /\ CutsInv /\ [ReadsNext]_readsVars
      => CutsInv'
  BY CutsStep
<1>3. /\ TypeOK /\ EmergencyTypeOK /\ ReadingTypeOK /\ ReadingInv /\ CutsInv
      /\ [ReadsNext]_readsVars
      => Step
  BY RequestStep
<1>4. ReadsSpec => Spec
  BY ReadsImplementsLifecycle
<1>5. Spec => []History
  BY HistoryHolds
<1>6. Spec => []TimeInOrder
  BY TimeInOrderHolds
<1>7. ReadsSpec => ReadsInit /\ [][ReadsNext]_readsVars
  BY DEF ReadsSpec
<1> HIDE DEF Step
<1>8. ReadsSpec => [][Step]_readsVars
  BY <1>1, <1>2, <1>3, <1>4, <1>5, <1>6, <1>7, ReadsInvHolds, PTL
<1> QED BY <1>8 DEF Step, RequestIsOneCut

=============================================================================
