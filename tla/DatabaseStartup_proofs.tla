----------------------- MODULE DatabaseStartup_proofs -----------------------
(* Proofs about DatabaseStartup and the transactions of StoreTransaction on *)
(* the connections it opens: for any number of calls and connections, with  *)
(* or without the trigram tokenizer, whatever fails or dies.                *)
EXTENDS DatabaseStartup, TLAPS

-----------------------------------------------------------------------------
(* Type correctness *)

LEMMA DatabaseTypeInit == DatabaseInit => DatabaseTypeOK
  BY StartAssumption, HomeAssumption
  DEF DatabaseInit, Init, DatabaseTypeOK, TypeOK, Stage, CoreSchema, SegmentColumns, Newer,
      SCHEMA_VERSION, Backend, Closed

\* What a step of a running call or a query does to the tables of calls is
\* well typed.
LEMMA CallStepType ==
  ASSUME TypeOK, NEW k \in Call, CallStep(k)
  PROVE  TypeOK'
<1>1. Home[k] \in Conn
  BY HomeAssumption
<1>2. CASE TakeLock(k)
  BY <1>1, <1>2 DEF TypeOK, TakeLock, Stage
<1>3. CASE Begin(k)
  BY <1>1, <1>3 DEF TypeOK, Begin, Stage
<1>4. CASE BeginTimesOut(k)
  BY <1>1, <1>4 DEF TypeOK, BeginTimesOut, Leave, Stage, Replied, Failed, Ended
<1>5. CASE WriteStep(k)
  BY <1>1, <1>5 DEF TypeOK, WriteStep, Stage, Write
<1>6. CASE Raise(k)
  BY <1>1, <1>6 DEF TypeOK, Raise, Undo, Leave, Stage, Replied, Failed, Ended
<1>7. CASE Interrupt(k)
  BY <1>1, <1>7 DEF TypeOK, Interrupt, Leave, Stage, Replied, Failed, Ended
<1>8. CASE Commit(k)
  BY <1>1, <1>8 DEF TypeOK, Commit, Leave, Stage, Replied, Failed, Ended
<1>9. CASE LeaveWithoutCommit(k)
  BY <1>1, <1>9 DEF TypeOK, LeaveWithoutCommit, Leave, Stage, Replied, Failed, Ended
<1>10. CASE CommitRaises(k)
  BY <1>1, <1>10 DEF TypeOK, CommitRaises, Leave, Stage, Replied, Failed, Ended
<1> QED BY <1>2, <1>3, <1>4, <1>5, <1>6, <1>7, <1>8, <1>9, <1>10 DEF CallStep

\* A step of a start moves one connection, and one call at most, from one
\* well-typed state to another.
LEMMA StartStepType ==
  ASSUME DatabaseTypeOK, NEW k \in Call, StartStep(k)
  PROVE  DatabaseTypeOK'
<1> USE HomeAssumption
<1> USE DEF DatabaseTypeOK, TypeOK, vars, fileVars, Starting, Writing, At, Goes
<1>1. CASE OpenDatabase(k)
  BY <1>1 DEF OpenDatabase
<1>2. CASE RefuseDatabase(k)
  BY <1>2 DEF RefuseDatabase, Stage, Replied, Failed, Ended
<1>3. CASE CreateMetadata(k)
  BY <1>3 DEF CreateMetadata, CreateIfMissing, CoreSchema
<1>4. CASE CreateSegments(k)
  BY <1>4 DEF CreateSegments, CreateIfMissing, CoreSchema
<1>5. CASE ReadColumns(k)
  BY <1>5 DEF ReadColumns
<1>6. CASE AddColumn(k)
  BY <1>6 DEF AddColumn, CoreSchema, SegmentColumns
<1>7. CASE ReadBackend(k)
  BY <1>7 DEF ReadBackend
<1>8. CASE CreateIndex(k)
  BY <1>8 DEF CreateIndex, Backend
<1>9. CASE FallBack(k)
  BY <1>9 DEF FallBack, Backend
<1>10. CASE InsertBackend(k)
  BY <1>10 DEF InsertBackend
<1>11. CASE CommitStart(k)
  BY <1>11 DEF CommitStart, Opened, SCHEMA_VERSION, Newer
<1>12. CASE WriteVersion(k)
  BY <1>12 DEF WriteVersion, Opened, SCHEMA_VERSION, Newer
<1>13. CASE StartFails(k)
  BY <1>13 DEF StartFails, CloseAndRaise, Closed, Stage, Replied, Failed, Ended
<1> QED
  BY <1>1, <1>2, <1>3, <1>4, <1>5, <1>6, <1>7, <1>8, <1>9, <1>10, <1>11, <1>12, <1>13
  DEF StartStep

LEMMA DatabaseTypeStep ==
  ASSUME DatabaseTypeOK, [DatabaseNext]_databaseVars
  PROVE  DatabaseTypeOK'
<1>1. ASSUME NEW k \in Call, StartStep(k)
      PROVE  DatabaseTypeOK'
  BY <1>1, StartStepType
<1>2. ASSUME NEW k \in Call, StartDies(k)
      PROVE  DatabaseTypeOK'
  BY <1>2, HomeAssumption, StartAssumption
  DEF StartDies, DatabaseTypeOK, TypeOK, fileVars, Closed
<1>3. ASSUME NEW k \in Call, CallStepOpened(k)
      PROVE  DatabaseTypeOK'
  BY <1>3, CallStepType DEF CallStepOpened, DatabaseTypeOK, fileVars
<1>4. ASSUME NEW c \in Conn, Query(c)
      PROVE  DatabaseTypeOK'
  BY <1>4 DEF Query, BeginRead, EndRead, DatabaseTypeOK, TypeOK, fileVars
<1>5. ASSUME NEW c \in Conn, RestartOpened(c)
      PROVE  DatabaseTypeOK'
  BY <1>5 DEF RestartOpened, Restart, DatabaseTypeOK, TypeOK, fileVars, Closed
<1>6. CASE UNCHANGED databaseVars
  BY <1>6 DEF databaseVars, vars, fileVars, DatabaseTypeOK, TypeOK
<1> QED BY <1>1, <1>2, <1>3, <1>4, <1>5, <1>6 DEF DatabaseNext

\* Type correctness of the connections, their starts and the running calls.
THEOREM DatabaseTypeCorrect == DatabaseSpec => []DatabaseTypeOK
<1>1. DatabaseInit => DatabaseTypeOK
  BY DatabaseTypeInit
<1>2. DatabaseTypeOK /\ [DatabaseNext]_databaseVars => DatabaseTypeOK'
  BY DatabaseTypeStep
<1> QED BY <1>1, <1>2, PTL DEF DatabaseSpec

-----------------------------------------------------------------------------
(* The inductive invariant of the transactions. Its parts say who is inside *)
(* transaction(), whose writes an open transaction holds, and that a start  *)
(* has its connection to itself.                                            *)

Running == {"entered", "first", "second", "done"}
InBody == {"first", "second", "done"}

\* The RLock of a connection is held by the one call that runs on it.
LockHeld ==
    \A c \in Conn, k \in Call : lock[c] = k <=> Home[k] = c /\ pc[k] \in Running

\* SQLite has one writer; a body runs inside an open transaction.
OneWriter ==
    /\ \A c, d \in Conn : open[c] /\ open[d] => c = d
    /\ \A k \in Call : pc[k] \in InBody => open[Home[k]]
    /\ \A c \in Conn : ~open[c] => pending[c] = {}

\* What is pending was written on its own connection by a body that came so far.
PendingIsOwn ==
    \A c \in Conn, k \in Call, i \in {1, 2} : <<k, i>> \in pending[c] =>
        /\ Home[k] = c
        /\ pc[k] \in {"second", "done"} \cup Ended

\* What a body has written is still there when it goes on.
BodyIsPending ==
    \A k \in Call :
        /\ pc[k] = "second" => <<k, 1>> \in pending[Home[k]]
        /\ pc[k] = "done" => WritesOf(k) \subseteq pending[Home[k]]

\* A transaction holds nothing but the writes of the call that owns it.
OwnerIsAlone ==
    \A k, l \in Call, i \in {1, 2} :
        pc[k] \in InBody /\ owns[k] /\ <<l, i>> \in pending[Home[k]] => l = k

DurableIsWhole ==
    \A k \in Call, i \in {1, 2} :
        <<k, i>> \in durable => pc[k] = "ok" /\ WritesOf(k) \subseteq durable

\* A connection that is not handed out yet is used by its start alone.
StartIsAlone ==
    \A c \in Conn :
        /\ ~IsOpened(c) => lock[c] = None /\ pending[c] = {}
        /\ ~IsOpened(c) /\ open[c] => start[c].stage = "commit"
        /\ start[c].stage = "commit" => open[c]
        /\ start[c].stage \in Starting =>
              /\ start[c].call \in Call
              /\ Home[start[c].call] = c
              /\ pc[start[c].call] = "waiting"

\* On a connection that meets no fault every body owns its transaction, no
\* transaction outlives its call, and the reply says what became of the writes.
HealthyKeepsWord ==
    \A k \in Call : Home[k] \notin Faulty =>
        /\ pc[k] \in InBody => owns[k]
        /\ pc[k] = "ok" => WritesOf(k) \subseteq durable
        /\ pc[k] \in Failed => \A i \in {1, 2} : <<k, i>> \notin pending[Home[k]]

HealthyIsClosed ==
    \A c \in Conn \ Faulty : open[c] /\ IsOpened(c) =>
        \E k \in Call : Home[k] = c /\ pc[k] \in InBody

TransactionInv ==
    /\ LockHeld
    /\ OneWriter
    /\ PendingIsOwn
    /\ BodyIsPending
    /\ OwnerIsAlone
    /\ DurableIsWhole
    /\ StartIsAlone
    /\ HealthyKeepsWord
    /\ HealthyIsClosed

\* How far a start is says what of the schema exists and what it has chosen.
SchemaGrows ==
    /\ "start_message_checksum" \in schema => "context_segments" \in schema
    /\ backend \in Backend \cup {None}
    /\ backend = "fts5_trigram" => "task_search_fts" \in schema
    /\ version = SCHEMA_VERSION => CoreSchema \subseteq schema /\ backend # None

\* For a connection at stage, that believes in backend chosen.
Reached(stage, chosen, tables, recorded) ==
    /\ stage \in {"segments", "columns", "alter", "backend"} => "plugin_metadata" \in tables
    /\ stage \in {"columns", "alter", "backend"} => "context_segments" \in tables
    /\ stage \in {"backend", "virtual", "insert", "commit", "version", "open"} =>
          CoreSchema \subseteq tables
    /\ stage \in {"insert", "commit"} =>
          /\ chosen \in Backend
          /\ chosen = "fts5_trigram" => "task_search_fts" \in tables
    /\ stage = "commit" => recorded = None
    /\ stage \in {"version", "open"} => recorded # None
    /\ stage = "open" => chosen = recorded

StageReached == \A c \in Conn : Reached(start[c].stage, choice[c], schema, backend)

SchemaInv == SchemaGrows /\ StageReached

LEMMA TransactionInit == DatabaseInit => TransactionInv
  BY HomeAssumption, CallAssumption
  DEF DatabaseInit, Init, TransactionInv, LockHeld, OneWriter, PendingIsOwn, BodyIsPending,
      OwnerIsAlone, DurableIsWhole, StartIsAlone, HealthyKeepsWord, HealthyIsClosed, Running,
      InBody, IsOpened, Closed, Starting, Writing

-----------------------------------------------------------------------------
(* A step of call k changes its own stage and its own connection. Becomes   *)
(* says what they are afterwards, Sound what that has to respect.           *)

Becomes(k, stage, owning, opened, writes) ==
    /\ \A l \in Call : pc'[l] = IF l = k THEN stage ELSE pc[l]
    /\ \A l \in Call : owns'[l] = IF l = k THEN owning ELSE owns[l]
    /\ \A d \in Conn : lock'[d] = IF d # Home[k] THEN lock[d]
                                 ELSE IF stage \in Running THEN k ELSE None
    /\ \A d \in Conn : open'[d] = IF d = Home[k] THEN opened ELSE open[d]
    /\ \A d \in Conn : pending'[d] = IF d = Home[k] THEN writes ELSE pending[d]

SoundConnection(k, stage, opened, writes) ==
    /\ lock[Home[k]] \in {k, None}
    /\ opened => \A d \in Conn \ {Home[k]} : ~open[d]
    /\ stage \in InBody => opened
    /\ ~opened => writes = {}
    /\ opened /\ Home[k] \notin Faulty => stage \in InBody

SoundWrites(k, stage, owning, writes) ==
    /\ \A l \in Call, i \in {1, 2} : <<l, i>> \in writes => l = k \/ <<l, i>> \in pending[Home[k]]
    /\ \A i \in {1, 2} : <<k, i>> \in writes => stage \in {"second", "done"} \cup Ended
    /\ stage = "second" => <<k, 1>> \in writes
    /\ stage = "done" => WritesOf(k) \subseteq writes
    /\ stage \in InBody /\ owning => \A l \in Call, i \in {1, 2} : <<l, i>> \in writes => l = k

SoundReply(k, stage, owning, writes) ==
    /\ pc[k] \notin Ended
    /\ durable \subseteq durable'
    /\ \A l \in Call, i \in {1, 2} : <<l, i>> \in durable' \ durable =>
          l = k /\ stage = "ok" /\ WritesOf(k) \subseteq durable'
    /\ Home[k] \notin Faulty =>
          /\ stage \in InBody => owning
          /\ stage = "ok" => WritesOf(k) \subseteq durable'
          /\ stage \in Failed => \A i \in {1, 2} : <<k, i>> \notin writes

\* No other call runs on the connection of a call that may use it.
LEMMA AloneOnConnection ==
  ASSUME TransactionInv, NEW k \in Call, NEW l \in Call, lock[Home[k]] \in {k, None},
         Home[l] = Home[k], l # k
  PROVE  pc[l] \notin Running
<1>1. LockHeld /\ Home[k] \in Conn
  BY HomeAssumption DEF TransactionInv
<1> QED BY <1>1, CallAssumption DEF LockHeld

\* Steps that respect the conditions above keep the invariant.
LEMMA SoundStepKeepsInv ==
  ASSUME TransactionInv, NEW k \in Call, IsOpened(Home[k]), start' = start,
         NEW stage, NEW owning, NEW opened \in BOOLEAN, NEW writes,
         Becomes(k, stage, owning, opened, writes),
         SoundConnection(k, stage, opened, writes),
         SoundWrites(k, stage, owning, writes),
         SoundReply(k, stage, owning, writes)
  PROVE  TransactionInv'
<1>h. Home[k] \in Conn /\ \A l \in Call : Home[l] \in Conn /\ l # None
  BY HomeAssumption, CallAssumption
<1>a. \A l \in Call : l # k /\ Home[l] = Home[k] => pc[l] \notin Running
  BY AloneOnConnection DEF SoundConnection
<1>1. LockHeld'
  BY <1>h, <1>a DEF TransactionInv, LockHeld, Becomes, SoundConnection
<1>2. OneWriter'
  BY <1>h, <1>a DEF TransactionInv, OneWriter, Becomes, SoundConnection, InBody, Running
<1>3. PendingIsOwn'
  <2> SUFFICES ASSUME NEW c \in Conn, NEW l \in Call, NEW i \in {1, 2},
                      <<l, i>> \in pending'[c]
               PROVE  Home[l] = c /\ pc'[l] \in {"second", "done"} \cup Ended
    BY DEF PendingIsOwn
  <2>p. PendingIsOwn
    BY DEF TransactionInv
  <2>1. CASE c = Home[k]
    <3>1. <<l, i>> \in writes
      BY <1>h, <2>1 DEF Becomes
    <3>2. CASE l = k
      BY <2>1, <3>1, <3>2 DEF Becomes, SoundWrites
    <3>3. CASE l # k
      <4>1. <<l, i>> \in pending[c] /\ pc'[l] = pc[l]
        BY <2>1, <3>1, <3>3 DEF Becomes, SoundWrites
      <4> QED BY <2>p, <4>1 DEF PendingIsOwn
    <3> QED BY <3>2, <3>3
  <2>2. CASE c # Home[k]
    <3>1. <<l, i>> \in pending[c]
      BY <1>h, <2>2 DEF Becomes
    <3>2. Home[l] = c /\ pc[l] \in {"second", "done"} \cup Ended
      BY <2>p, <3>1 DEF PendingIsOwn
    <3> QED BY <2>2, <3>2 DEF Becomes
  <2> QED BY <2>1, <2>2
<1>4. BodyIsPending'
  <2> SUFFICES ASSUME NEW l \in Call
               PROVE  /\ pc'[l] = "second" => <<l, 1>> \in pending'[Home[l]]
                      /\ pc'[l] = "done" => WritesOf(l) \subseteq pending'[Home[l]]
    BY DEF BodyIsPending
  <2>1. CASE l = k
    BY <1>h, <2>1 DEF Becomes, SoundWrites
  <2>2. CASE l # k /\ Home[l] = Home[k]
    BY <1>h, <1>a, <2>2 DEF Becomes, Running
  <2>3. CASE l # k /\ Home[l] # Home[k]
    BY <1>h, <2>3 DEF TransactionInv, BodyIsPending, Becomes
  <2> QED BY <2>1, <2>2, <2>3
<1>5. OwnerIsAlone'
  <2> SUFFICES ASSUME NEW m \in Call, NEW l \in Call, NEW i \in {1, 2},
                      pc'[m] \in InBody, owns'[m], <<l, i>> \in pending'[Home[m]]
               PROVE  l = m
    BY DEF OwnerIsAlone
  <2>1. CASE m = k
    BY <1>h, <2>1, ZenonT(40) DEF Becomes, SoundWrites
  <2>2. CASE m # k /\ Home[m] = Home[k]
    BY <1>h, <1>a, <2>2 DEF Becomes, Running, InBody
  <2>3. CASE m # k /\ Home[m] # Home[k]
    <3>1. OwnerIsAlone
      BY DEF TransactionInv
    <3>2. pc[m] \in InBody /\ owns[m] /\ <<l, i>> \in pending[Home[m]]
      <4>1. pc'[m] = pc[m] /\ owns'[m] = owns[m] /\ pending'[Home[m]] = pending[Home[m]]
        BY <1>h, <2>3 DEF Becomes
      <4> QED BY <4>1
    <3> QED BY <3>1, <3>2 DEF OwnerIsAlone
  <2> QED BY <2>1, <2>2, <2>3
<1>6. DurableIsWhole'
  BY <1>h DEF TransactionInv, DurableIsWhole, Becomes, SoundReply, Replied, Failed, Ended, WritesOf
<1>7. StartIsAlone'
  BY <1>h DEF TransactionInv, StartIsAlone, Becomes, IsOpened, Starting, Writing
<1>8. HealthyKeepsWord'
  BY <1>h, <1>a
  DEF TransactionInv, HealthyKeepsWord, Becomes, SoundReply, SoundWrites, WritesOf
<1>9. HealthyIsClosed'
  BY <1>h, <1>a
  DEF TransactionInv, HealthyIsClosed, Becomes, SoundConnection, IsOpened, InBody, Running
<1> QED
  BY <1>1, <1>2, <1>3, <1>4, <1>5, <1>6, <1>7, <1>8, <1>9 DEF TransactionInv

-----------------------------------------------------------------------------
(* Every step of a call is such a step. *)

\* What the invariant says of the connection of call k, when it may use it.
CallSees(k) ==
    LET c == Home[k]
    IN  /\ open[c] \in BOOLEAN /\ owns[k] \in BOOLEAN
        /\ pc[k] \in Running => lock[c] = k
        /\ pc[k] \in InBody => open[c] /\ \A d \in Conn \ {c} : ~open[d]
        /\ ~open[c] => pending[c] = {}
        /\ \A i \in {1, 2} :
              <<k, i>> \in pending[c] => pc[k] \in {"second", "done"} \cup Ended
        /\ pc[k] = "second" => <<k, 1>> \in pending[c]
        /\ pc[k] = "done" => WritesOf(k) \subseteq pending[c]
        /\ pc[k] \in InBody /\ owns[k] =>
              \A l \in Call, i \in {1, 2} : <<l, i>> \in pending[c] => l = k
        /\ c \notin Faulty =>
              /\ pc[k] \in InBody => owns[k]
              /\ pc[k] = "entered" \/ lock[c] = None => ~open[c]

LEMMA CallSeesHolds ==
  ASSUME TypeOK, TransactionInv, NEW k \in Call, IsOpened(Home[k])
  PROVE  CallSees(k)
<1> DEFINE c == Home[k]
<1>h. c \in Conn /\ \A l \in Call : l # None
  BY HomeAssumption, CallAssumption
<1>i. /\ LockHeld /\ OneWriter /\ PendingIsOwn /\ BodyIsPending /\ OwnerIsAlone
      /\ HealthyKeepsWord /\ HealthyIsClosed
  BY DEF TransactionInv
<1>1. /\ open[c] \in BOOLEAN /\ owns[k] \in BOOLEAN
      /\ pc[k] \in Running => lock[c] = k
      /\ pc[k] \in InBody => open[c] /\ \A d \in Conn \ {c} : ~open[d]
      /\ ~open[c] => pending[c] = {}
  BY <1>h, <1>i DEF TypeOK, LockHeld, OneWriter, Running, InBody
<1>2. /\ \A i \in {1, 2} :
            <<k, i>> \in pending[c] => pc[k] \in {"second", "done"} \cup Ended
      /\ pc[k] = "second" => <<k, 1>> \in pending[c]
      /\ pc[k] = "done" => WritesOf(k) \subseteq pending[c]
      /\ pc[k] \in InBody /\ owns[k] =>
            \A l \in Call, i \in {1, 2} : <<l, i>> \in pending[c] => l = k
  BY <1>h, <1>i DEF PendingIsOwn, BodyIsPending, OwnerIsAlone
<1>3. ASSUME c \notin Faulty, open[c], pc[k] = "entered" \/ lock[c] = None
      PROVE  FALSE
  <2>1. PICK l \in Call : Home[l] = c /\ pc[l] \in InBody
    BY <1>h, <1>i, <1>3 DEF HealthyIsClosed
  <2>2. lock[c] = l /\ (pc[k] = "entered" => lock[c] = k)
    BY <1>h, <1>i, <2>1 DEF LockHeld, Running, InBody
  <2> QED BY <1>h, <1>3, <2>1, <2>2 DEF InBody
<1>4. c \notin Faulty /\ pc[k] \in InBody => owns[k]
  BY <1>i DEF HealthyKeepsWord
<1> QED BY <1>1, <1>2, <1>3, <1>4 DEF CallSees

\* with self._lock, BEGIN IMMEDIATE and the statements of the body.
LEMMA BodyStepKeepsInv ==
  ASSUME TypeOK, TransactionInv, NEW k \in Call, IsOpened(Home[k]), start' = start,
         TakeLock(k) \/ Begin(k) \/ WriteStep(k)
  PROVE  TransactionInv'
<1> DEFINE c == Home[k]
<1>h. c \in Conn /\ CallSees(k) /\ k # None
  BY HomeAssumption, CallAssumption, CallSeesHolds
<1> USE DEF Running, InBody, Replied, Failed, Ended, WritesOf
<1>1. CASE TakeLock(k)
  <2>1. /\ Becomes(k, "entered", owns[k], open[c], pending[c])
        /\ durable' = durable /\ pc[k] = "waiting" /\ lock[c] = None
    BY <1>h, <1>1 DEF TypeOK, TakeLock, Becomes
  <2>2. open[c] => \A d \in Conn \ {c} : ~open[d]
    BY <1>h DEF TransactionInv, OneWriter
  <2>3. SoundConnection(k, "entered", open[c], pending[c])
    BY <1>h, <2>1, <2>2 DEF CallSees, SoundConnection
  <2>4. SoundWrites(k, "entered", owns[k], pending[c])
    BY <1>h, <2>1 DEF CallSees, SoundWrites
  <2>5. SoundReply(k, "entered", owns[k], pending[c])
    BY <1>h, <2>1 DEF CallSees, SoundReply
  <2> QED BY <1>h, <2>1, <2>3, <2>4, <2>5, SoundStepKeepsInv DEF CallSees
<1>2. CASE Begin(k)
  <2>1. /\ Becomes(k, "first", ~open[c], TRUE, pending[c])
        /\ durable' = durable /\ pc[k] = "entered" /\ WriteLockFree(c)
    BY <1>h, <1>2 DEF TypeOK, CallSees, Begin, Becomes
  <2>2. SoundConnection(k, "first", TRUE, pending[c])
    BY <1>h, <2>1 DEF CallSees, SoundConnection, WriteLockFree
  <2>3. SoundWrites(k, "first", ~open[c], pending[c])
    BY <1>h, <2>1 DEF CallSees, SoundWrites
  <2>4. SoundReply(k, "first", ~open[c], pending[c])
    BY <1>h, <2>1 DEF CallSees, SoundReply
  <2> QED BY <1>h, <2>1, <2>2, <2>3, <2>4, SoundStepKeepsInv DEF CallSees
<1>3. CASE WriteStep(k)
  <2>1. PICK i \in {1, 2}, stage \in {"second", "done"} :
          /\ Becomes(k, stage, owns[k], open[c], pending[c] \cup {<<k, i>>})
          /\ durable' = durable
          /\ pc[k] = (IF i = 1 THEN "first" ELSE "second")
          /\ stage = (IF i = 1 THEN "second" ELSE "done")
    <3>1. CASE pc[k] = "first"
      BY <1>h, <1>3, <3>1 DEF TypeOK, CallSees, WriteStep, Becomes
    <3>2. CASE pc[k] = "second"
      BY <1>h, <1>3, <3>2 DEF TypeOK, CallSees, WriteStep, Becomes
    <3> QED BY <1>3, <3>1, <3>2 DEF WriteStep
  <2> DEFINE writes == pending[c] \cup {<<k, i>>}
  <2>2. SoundConnection(k, stage, open[c], writes)
    BY <1>h, <2>1 DEF CallSees, SoundConnection
  <2>3. SoundWrites(k, stage, owns[k], writes)
    BY <1>h, <2>1 DEF CallSees, SoundWrites
  <2>4. SoundReply(k, stage, owns[k], writes)
    BY <1>h, <2>1 DEF CallSees, SoundReply
  <2> QED BY <1>h, <2>1, <2>2, <2>3, <2>4, SoundStepKeepsInv DEF CallSees
<1> QED BY <1>1, <1>2, <1>3

\* The ways out of transaction(): except, else, and past both.
LEMMA LeavingKeepsInv ==
  ASSUME TypeOK, TransactionInv, NEW k \in Call, IsOpened(Home[k]), start' = start,
         \/ BeginTimesOut(k) \/ Raise(k) \/ Interrupt(k)
         \/ Commit(k) \/ LeaveWithoutCommit(k) \/ CommitRaises(k)
  PROVE  TransactionInv'
<1> DEFINE c == Home[k]
<1>h. c \in Conn /\ CallSees(k) /\ k # None
  BY HomeAssumption, CallAssumption, CallSeesHolds
<1> USE DEF Running, InBody, Replied, Failed, Ended, WritesOf
<1>1. CASE BeginTimesOut(k)
  <2>1. /\ Becomes(k, "error", owns[k], open[c], pending[c])
        /\ durable' = durable /\ pc[k] = "entered" /\ ~WriteLockFree(c)
    BY <1>h, <1>1 DEF TypeOK, BeginTimesOut, Leave, Becomes
  <2>2. ~open[c]
    BY <1>h, <2>1 DEF TransactionInv, OneWriter, WriteLockFree
  <2>3. SoundConnection(k, "error", open[c], pending[c])
    BY <1>h, <2>1, <2>2 DEF CallSees, SoundConnection
  <2>4. SoundWrites(k, "error", owns[k], pending[c])
    BY <1>h, <2>1 DEF CallSees, SoundWrites
  <2>5. SoundReply(k, "error", owns[k], pending[c])
    BY <1>h, <2>1, <2>2 DEF CallSees, SoundReply
  <2> QED BY <1>h, <2>1, <2>3, <2>4, <2>5, SoundStepKeepsInv DEF CallSees
<1>2. CASE Raise(k)
  <2> DEFINE opened == open[c] /\ ~owns[k]
             writes == IF owns[k] THEN {} ELSE pending[c]
  <2>1. /\ Becomes(k, "error", owns[k], opened, writes)
        /\ durable' = durable /\ pc[k] \in {"first", "second"}
    BY <1>h, <1>2 DEF TypeOK, Raise, Undo, Leave, Becomes
  <2>2. SoundConnection(k, "error", opened, writes)
    BY <1>h, <2>1 DEF CallSees, SoundConnection
  <2>3. SoundWrites(k, "error", owns[k], writes)
    BY <1>h, <2>1 DEF CallSees, SoundWrites
  <2>4. SoundReply(k, "error", owns[k], writes)
    BY <1>h, <2>1 DEF CallSees, SoundReply
  <2> QED BY <1>h, <2>1, <2>2, <2>3, <2>4, SoundStepKeepsInv DEF CallSees
<1>3. CASE Interrupt(k) \/ CommitRaises(k)
  <2>1. PICK end \in Failed :
           /\ Becomes(k, end, owns[k], open[c], pending[c])
           /\ durable' = durable /\ pc[k] \in InBody /\ c \in Faulty
    BY <1>h, <1>3 DEF TypeOK, Interrupt, CommitRaises, Hits, Leave, Becomes
  <2>2. SoundConnection(k, end, open[c], pending[c])
    BY <1>h, <2>1 DEF CallSees, SoundConnection
  <2>3. SoundWrites(k, end, owns[k], pending[c])
    BY <1>h, <2>1 DEF CallSees, SoundWrites
  <2>4. SoundReply(k, end, owns[k], pending[c])
    BY <1>h, <2>1 DEF CallSees, SoundReply
  <2> QED BY <1>h, <2>1, <2>2, <2>3, <2>4, SoundStepKeepsInv DEF CallSees
<1>4. CASE Commit(k)
  <2>1. /\ Becomes(k, "ok", owns[k], FALSE, {})
        /\ durable' = durable \cup pending[c] /\ pc[k] = "done" /\ owns[k]
    BY <1>h, <1>4 DEF TypeOK, Commit, Leave, Becomes
  <2>2. SoundConnection(k, "ok", FALSE, {})
    BY <1>h, <2>1 DEF CallSees, SoundConnection
  <2>3. SoundWrites(k, "ok", owns[k], {})
    BY <1>h, <2>1 DEF CallSees, SoundWrites
  <2>4. SoundReply(k, "ok", owns[k], {})
    BY <1>h, <2>1 DEF CallSees, SoundReply
  <2> QED BY <1>h, <2>1, <2>2, <2>3, <2>4, SoundStepKeepsInv DEF CallSees
<1>5. CASE LeaveWithoutCommit(k)
  <2>1. /\ Becomes(k, "ok", owns[k], open[c], pending[c])
        /\ durable' = durable /\ pc[k] = "done" /\ ~owns[k]
    BY <1>h, <1>5 DEF TypeOK, LeaveWithoutCommit, Leave, Becomes
  <2>2. SoundConnection(k, "ok", open[c], pending[c])
    BY <1>h, <2>1 DEF CallSees, SoundConnection
  <2>3. SoundWrites(k, "ok", owns[k], pending[c])
    BY <1>h, <2>1 DEF CallSees, SoundWrites
  <2>4. SoundReply(k, "ok", owns[k], pending[c])
    BY <1>h, <2>1 DEF CallSees, SoundReply
  <2> QED BY <1>h, <2>1, <2>2, <2>3, <2>4, SoundStepKeepsInv DEF CallSees
<1> QED BY <1>1, <1>2, <1>3, <1>4, <1>5

-----------------------------------------------------------------------------
(* Starts, queries and exits *)

\* What a step of a start, made for call k, does to the tables of transactions:
\* nothing, but for the end of a refused call and for the transaction that records the
\* backend.
StartBecomes(k, stage, opened, at) ==
    /\ \A l \in Call : pc'[l] = IF l = k THEN stage ELSE pc[l]
    /\ \A d \in Conn : open'[d] = IF d = Home[k] THEN opened ELSE open[d]
    /\ \A d \in Conn : start'[d] = IF d = Home[k] THEN at ELSE start[d]
    /\ UNCHANGED <<owns, lock, pending, durable>>
    /\ ~IsOpened(Home[k])
    /\ pc[k] = "waiting" /\ stage \in {"waiting"} \cup Failed
    /\ opened => at.stage = "commit" /\ \A d \in Conn \ {Home[k]} : ~open[d]
    /\ at.stage = "commit" => opened
    /\ at.stage \in Starting => at.call = k /\ stage = "waiting"

LEMMA StartMoveKeepsInv ==
  ASSUME TransactionInv, NEW k \in Call, NEW stage, NEW opened \in BOOLEAN, NEW at,
         StartBecomes(k, stage, opened, at)
  PROVE  TransactionInv'
<1>h. Home[k] \in Conn /\ \A l \in Call : Home[l] \in Conn /\ l # None
  BY HomeAssumption, CallAssumption
<1>i. /\ LockHeld /\ OneWriter /\ PendingIsOwn /\ BodyIsPending /\ OwnerIsAlone
      /\ DurableIsWhole /\ StartIsAlone /\ HealthyKeepsWord /\ HealthyIsClosed
  BY DEF TransactionInv
<1>u. owns' = owns /\ lock' = lock /\ pending' = pending /\ durable' = durable
  BY DEF StartBecomes
<1>p. \A l \in Call : pc'[l] # pc[l] => pc[l] = "waiting" /\ pc'[l] \in {"error", "raised"}
  BY DEF StartBecomes, Failed
<1>a. lock[Home[k]] = None /\ pending[Home[k]] = {}
  BY <1>h, <1>i DEF StartIsAlone, StartBecomes
<1>o. \A l \in Call : pc[l] \in Running => Home[l] # Home[k]
  BY <1>h, <1>i, <1>a DEF LockHeld
<1>1. LockHeld'
  <2>1. \A l \in Call : pc'[l] \in Running <=> pc[l] \in Running
    BY <1>p DEF Running
  <2> QED BY <1>i, <1>u, <2>1 DEF LockHeld
<1>2. OneWriter'
  <2>1. ASSUME NEW c \in Conn, NEW d \in Conn, open'[c], open'[d]
        PROVE  c = d
    BY <1>h, <1>i, <2>1 DEF OneWriter, StartBecomes
  <2>2. ASSUME NEW l \in Call, pc'[l] \in InBody
        PROVE  open'[Home[l]]
    BY <1>h, <1>i, <1>p, <1>o, <2>2 DEF OneWriter, StartBecomes, InBody, Running
  <2>3. ASSUME NEW c \in Conn, ~open'[c]
        PROVE  pending'[c] = {}
    BY <1>h, <1>i, <1>u, <1>a, <2>3 DEF OneWriter, StartBecomes
  <2> QED BY <2>1, <2>2, <2>3 DEF OneWriter
<1>3. PendingIsOwn'
  BY <1>i, <1>u, <1>p DEF PendingIsOwn, Ended, Replied, Failed
<1>4. BodyIsPending'
  BY <1>i, <1>u, <1>p DEF BodyIsPending
<1>5. OwnerIsAlone'
  BY <1>i, <1>u, <1>p DEF OwnerIsAlone, InBody
<1>6. DurableIsWhole'
  BY <1>i, <1>u, <1>p DEF DurableIsWhole
<1>7. StartIsAlone'
  <2> SUFFICES ASSUME NEW c \in Conn
               PROVE  /\ ~IsOpened(c)' => lock'[c] = None /\ pending'[c] = {}
                      /\ ~IsOpened(c)' /\ open'[c] => start'[c].stage = "commit"
                      /\ start'[c].stage = "commit" => open'[c]
                      /\ start'[c].stage \in Starting =>
                            /\ start'[c].call \in Call
                            /\ Home[start'[c].call] = c
                            /\ pc'[start'[c].call] = "waiting"
    BY DEF StartIsAlone
  <2>1. CASE c = Home[k]
    BY <1>h, <1>u, <1>a, <2>1 DEF StartBecomes, IsOpened
  <2>2. CASE c # Home[k]
    BY <1>h, <1>i, <1>u, <2>2 DEF StartBecomes, IsOpened, StartIsAlone
  <2> QED BY <2>1, <2>2
<1>8. HealthyKeepsWord'
  <2> SUFFICES ASSUME NEW l \in Call, Home[l] \notin Faulty
               PROVE  /\ pc'[l] \in InBody => owns'[l]
                      /\ pc'[l] = "ok" => WritesOf(l) \subseteq durable'
                      /\ pc'[l] \in Failed =>
                            \A i \in {1, 2} : <<l, i>> \notin pending'[Home[l]]
    BY DEF HealthyKeepsWord
  <2>1. CASE pc'[l] = pc[l]
    BY <1>i, <1>u, <2>1 DEF HealthyKeepsWord
  <2>2. CASE pc'[l] # pc[l]
    <3>1. pc[l] = "waiting" /\ pc'[l] \in {"error", "raised"}
      BY <1>p, <2>2
    <3>2. \A i \in {1, 2} : <<l, i>> \notin pending[Home[l]]
      BY <1>i, <1>h, <3>1 DEF PendingIsOwn, Ended, Replied, Failed
    <3> QED BY <1>u, <3>1, <3>2 DEF InBody
  <2> QED BY <2>1, <2>2
<1>9. HealthyIsClosed'
  <2> SUFFICES ASSUME NEW c \in Conn \ Faulty, open'[c], IsOpened(c)'
               PROVE  \E l \in Call : Home[l] = c /\ pc'[l] \in InBody
    BY DEF HealthyIsClosed
  <2>1. c # Home[k]
    BY <1>h DEF StartBecomes, IsOpened
  <2>2. open[c] /\ IsOpened(c)
    BY <1>h, <2>1 DEF StartBecomes, IsOpened
  <2> QED BY <1>i, <1>p, <2>2 DEF HealthyIsClosed, InBody
<1> QED
  BY <1>1, <1>2, <1>3, <1>4, <1>5, <1>6, <1>7, <1>8, <1>9 DEF TransactionInv

\* The call of a start has not got further than "waiting".
LEMMA StartCallWaits ==
  ASSUME TransactionInv, NEW k \in Call, NEW stage \in Starting, At(k, stage)
  PROVE  /\ pc[k] = "waiting"
         /\ ~IsOpened(Home[k])
         /\ open[Home[k]] => stage = "commit"
<1>1. Home[k] \in Conn /\ StartIsAlone
  BY HomeAssumption DEF TransactionInv
<1>2. start[Home[k]].stage = stage /\ start[Home[k]].call = k
  BY DEF At
<1>3. stage # "open"
  BY DEF Starting, Writing
<1> QED BY <1>1, <1>2, <1>3 DEF StartIsAlone, IsOpened

LEMMA StartStepKeepsInv ==
  ASSUME DatabaseTypeOK, TransactionInv, NEW k \in Call, StartStep(k) \/ StartDies(k)
  PROVE  TransactionInv'
<1> DEFINE c == Home[k]
<1>h. c \in Conn
  BY HomeAssumption
<1>t. /\ pc \in [Call -> Stage] /\ open \in [Conn -> BOOLEAN]
      /\ start \in [Conn -> [stage: Starting \cup {"closed", "open"}, call: Call \cup {None}]]
  BY DEF DatabaseTypeOK, TypeOK
<1>r. ASSUME NEW stage \in Starting, NEW next, At(k, stage), Goes(k, next),
             next \in Starting, next = "commit" <=> stage = "commit", UNCHANGED vars
      PROVE  TransactionInv'
  <2>1. pc[k] = "waiting" /\ ~IsOpened(c) /\ (open[c] => stage = "commit")
    BY <1>r, StartCallWaits
  <2>2. start[c].stage = "commit" => open[c]
    BY <1>h DEF TransactionInv, StartIsAlone
  <2>3. start[c] = [stage |-> stage, call |-> k]
    BY <1>r DEF At
  <2>4. StartBecomes(k, "waiting", open[c], [stage |-> next, call |-> k])
    BY <1>h, <1>t, <1>r, <2>1, <2>2, <2>3
    DEF Goes, vars, StartBecomes, TransactionInv, OneWriter
  <2> QED BY <1>h, <1>t, <2>4, StartMoveKeepsInv
<1>1. CASE OpenDatabase(k)
  <2>1. StartBecomes(k, "waiting", open[c], [stage |-> "metadata", call |-> k])
    <3>1. /\ start[c] = Closed /\ pc[k] = "waiting" /\ UNCHANGED vars
          /\ start' = [start EXCEPT ![c] = [stage |-> "metadata", call |-> k]]
      BY <1>1 DEF OpenDatabase
    <3>2. ~IsOpened(c) /\ ~open[c]
      BY <1>h, <3>1 DEF TransactionInv, StartIsAlone, IsOpened, Closed
    <3> QED BY <1>h, <1>t, <3>1, <3>2 DEF StartBecomes, vars, Starting, Writing
  <2> QED BY <1>h, <1>t, <2>1, StartMoveKeepsInv
<1>2. CASE RefuseDatabase(k)
  <2>1. PICK end \in Failed : StartBecomes(k, end, open[c], Closed)
    <3>1. PICK end \in Failed :
             /\ start[c] = Closed /\ pc[k] = "waiting" /\ pc' = [pc EXCEPT ![k] = end]
             /\ UNCHANGED <<owns, lock, open, pending, durable, start>>
      BY <1>2 DEF RefuseDatabase
    <3>2. ~IsOpened(c) /\ ~open[c]
      BY <1>h, <3>1 DEF TransactionInv, StartIsAlone, IsOpened, Closed
    <3> QED BY <1>h, <1>t, <3>1, <3>2 DEF StartBecomes, Closed, Starting, Writing, Failed
  <2> QED BY <1>h, <1>t, <2>1, StartMoveKeepsInv
<1>3. CASE CreateMetadata(k)
  BY <1>r, <1>3 DEF CreateMetadata, CreateIfMissing, Starting, Writing
<1>4. CASE CreateSegments(k)
  BY <1>r, <1>4 DEF CreateSegments, CreateIfMissing, Starting, Writing
<1>5. CASE ReadColumns(k)
  BY <1>r, <1>5 DEF ReadColumns, Starting, Writing
<1>6. CASE AddColumn(k)
  BY <1>r, <1>6 DEF AddColumn, Starting, Writing
<1>7. CASE ReadBackend(k)
  BY <1>r, <1>7 DEF ReadBackend, Starting, Writing
<1>8. CASE CreateIndex(k)
  BY <1>r, <1>8 DEF CreateIndex, Starting, Writing
<1>9. CASE FallBack(k)
  BY <1>r, <1>9 DEF FallBack, Starting, Writing
<1>10. CASE InsertBackend(k)
  <2>1. /\ At(k, "insert") /\ WriteLockFree(c) /\ Goes(k, "commit")
        /\ open' = [open EXCEPT ![c] = TRUE] /\ UNCHANGED <<pc, owns, lock, pending, durable>>
    BY <1>10 DEF InsertBackend
  <2>2. pc[k] = "waiting" /\ ~IsOpened(c)
    BY <2>1, StartCallWaits DEF Starting, Writing
  <2>3. StartBecomes(k, "waiting", TRUE, [stage |-> "commit", call |-> k])
    BY <1>h, <1>t, <2>1, <2>2 DEF StartBecomes, WriteLockFree, At, Goes
  <2> QED BY <2>3, StartMoveKeepsInv
<1>11. CASE CommitStart(k)
  <2>1. /\ At(k, "commit") /\ start' = [start EXCEPT ![c] = [stage |-> "open", call |-> None]]
        /\ open' = [open EXCEPT ![c] = FALSE] /\ UNCHANGED <<pc, owns, lock, pending, durable>>
    BY <1>11 DEF CommitStart, Opened
  <2>2. pc[k] = "waiting" /\ ~IsOpened(c)
    BY <2>1, StartCallWaits DEF Starting, Writing
  <2>3. StartBecomes(k, "waiting", FALSE, [stage |-> "open", call |-> None])
    BY <1>h, <1>t, <2>1, <2>2 DEF StartBecomes, Starting, Writing
  <2> QED BY <2>3, StartMoveKeepsInv
<1>12. CASE WriteVersion(k)
  <2>1. /\ At(k, "version") /\ start' = [start EXCEPT ![c] = [stage |-> "open", call |-> None]]
        /\ UNCHANGED vars
    BY <1>12 DEF WriteVersion, Opened
  <2>2. pc[k] = "waiting" /\ ~IsOpened(c) /\ ~open[c]
    BY <2>1, StartCallWaits DEF Starting, Writing
  <2>3. StartBecomes(k, "waiting", FALSE, [stage |-> "open", call |-> None])
    BY <1>h, <1>t, <2>1, <2>2 DEF StartBecomes, vars, Starting, Writing
  <2> QED BY <2>3, StartMoveKeepsInv
<1>13. CASE StartFails(k)
  <2>1. /\ \E stage \in Starting : At(k, stage)
        /\ CloseAndRaise(k) /\ UNCHANGED <<owns, lock, pending, durable>>
    BY <1>13 DEF StartFails, Starting, Writing
  <2>2. pc[k] = "waiting" /\ ~IsOpened(c)
    BY <2>1, StartCallWaits
  <2>3. StartBecomes(k, "error", FALSE, Closed)
    BY <1>h, <1>t, <2>1, <2>2 DEF StartBecomes, CloseAndRaise, Closed, Starting, Writing, Failed
  <2> QED BY <2>3, StartMoveKeepsInv
<1>14. CASE StartDies(k)
  <2>1. /\ \E stage \in Starting : At(k, stage)
        /\ start' = [start EXCEPT ![c] = Closed] /\ open' = [open EXCEPT ![c] = FALSE]
        /\ UNCHANGED <<pc, owns, lock, pending, durable>>
    BY <1>14 DEF StartDies
  <2>2. pc[k] = "waiting" /\ ~IsOpened(c)
    BY <2>1, StartCallWaits
  <2>3. StartBecomes(k, "waiting", FALSE, Closed)
    BY <1>h, <1>t, <2>1, <2>2 DEF StartBecomes, Closed, Starting, Writing
  <2> QED BY <2>3, StartMoveKeepsInv
<1> QED
  BY <1>1, <1>2, <1>3, <1>4, <1>5, <1>6, <1>7, <1>8, <1>9, <1>10, <1>11, <1>12, <1>13, <1>14
  DEF StartStep

\* A query takes the RLock from nobody, and an exit ends no running call.
LEMMA ConnectionStepKeepsInv ==
  ASSUME DatabaseTypeOK, TransactionInv, NEW c \in Conn, Query(c) \/ RestartOpened(c)
  PROVE  TransactionInv'
<1>i. /\ LockHeld /\ OneWriter /\ PendingIsOwn /\ BodyIsPending /\ OwnerIsAlone
      /\ DurableIsWhole /\ StartIsAlone /\ HealthyKeepsWord /\ HealthyIsClosed
  BY DEF TransactionInv
<1>t. /\ lock \in [Conn -> Call \cup {None, "reader"}] /\ open \in [Conn -> BOOLEAN]
      /\ pending \in [Conn -> SUBSET Write]
      /\ start \in [Conn -> [stage: Starting \cup {"closed", "open"}, call: Call \cup {None}]]
  BY DEF DatabaseTypeOK, TypeOK
<1>h. \A l \in Call : Home[l] \in Conn /\ l # None /\ l # "reader"
  BY HomeAssumption, CallAssumption
<1>1. CASE Query(c)
  <2>1. /\ UNCHANGED <<pc, owns, open, pending, durable, start>>
        /\ lock[c] \in {None, "reader"} /\ IsOpened(c)
        /\ \E holder \in {None, "reader"} : lock' = [lock EXCEPT ![c] = holder]
    BY <1>1 DEF Query, BeginRead, EndRead
  <2>2. LockHeld'
    BY <1>h, <1>i, <1>t, <2>1 DEF LockHeld
  <2>3. OneWriter' /\ PendingIsOwn' /\ BodyIsPending' /\ OwnerIsAlone' /\ DurableIsWhole'
    BY <1>i, <2>1 DEF OneWriter, PendingIsOwn, BodyIsPending, OwnerIsAlone, DurableIsWhole
  <2>4. StartIsAlone'
    <3>1. \A d \in Conn : ~IsOpened(d) => lock'[d] = lock[d]
      BY <1>t, <2>1
    <3> QED BY <1>i, <2>1, <3>1 DEF StartIsAlone, IsOpened
  <2>5. HealthyKeepsWord' /\ HealthyIsClosed'
    BY <1>i, <2>1 DEF HealthyKeepsWord, HealthyIsClosed, IsOpened
  <2> QED BY <2>2, <2>3, <2>4, <2>5 DEF TransactionInv
<1>2. CASE RestartOpened(c)
  <2>1. /\ UNCHANGED <<pc, owns, lock, durable>>
        /\ lock[c] = None /\ open[c] /\ IsOpened(c)
        /\ open' = [open EXCEPT ![c] = FALSE] /\ pending' = [pending EXCEPT ![c] = {}]
        /\ start' = [start EXCEPT ![c] = Closed]
    BY <1>2 DEF RestartOpened, Restart
  <2>2. \A l \in Call : pc[l] \in Running => Home[l] # c
    BY <1>h, <1>i, <2>1 DEF LockHeld
  <2>3. \A d \in Conn : /\ d # c => open'[d] = open[d] /\ pending'[d] = pending[d]
                        /\ d # c => start'[d] = start[d]
                        /\ ~open'[c] /\ pending'[c] = {} /\ start'[c] = Closed
    BY <1>t, <2>1
  <2>4. LockHeld' /\ DurableIsWhole'
    BY <1>i, <2>1 DEF LockHeld, DurableIsWhole
  <2>5. OneWriter'
    BY <1>h, <1>i, <2>1, <2>2, <2>3, ZenonT(40) DEF OneWriter, InBody, Running
  <2>6. PendingIsOwn'
    BY <1>i, <2>1, <2>3, ZenonT(40) DEF PendingIsOwn
  <2>7. BodyIsPending'
    BY <1>h, <1>i, <2>1, <2>2, <2>3 DEF BodyIsPending, Running
  <2>8. OwnerIsAlone'
    BY <1>h, <1>i, <2>1, <2>2, <2>3 DEF OwnerIsAlone, InBody, Running
  <2>9. StartIsAlone'
    <3>1. start'[c].stage \notin Starting \cup {"commit", "open"}
      BY <2>3 DEF Closed, Starting, Writing
    <3>2. \A d \in Conn \ {c} : start'[d] = start[d] /\ open'[d] = open[d]
                               /\ pending'[d] = pending[d] /\ lock'[d] = lock[d]
      BY <2>1, <2>3
    <3> SUFFICES ASSUME NEW d \in Conn
                 PROVE  /\ ~IsOpened(d)' => lock'[d] = None /\ pending'[d] = {}
                        /\ ~IsOpened(d)' /\ open'[d] => start'[d].stage = "commit"
                        /\ start'[d].stage = "commit" => open'[d]
                        /\ start'[d].stage \in Starting =>
                              /\ start'[d].call \in Call
                              /\ Home[start'[d].call] = d
                              /\ pc'[start'[d].call] = "waiting"
      BY DEF StartIsAlone
    <3>3. CASE d = c
      BY <2>1, <2>3, <3>1, <3>3
    <3>4. CASE d # c
      BY <1>i, <2>1, <3>2, <3>4 DEF StartIsAlone, IsOpened
    <3> QED BY <3>3, <3>4
  <2>10. HealthyKeepsWord'
    <3>1. \A d \in Conn : pending'[d] \subseteq pending[d]
      BY <2>3
    <3> QED BY <1>h, <1>i, <2>1, <3>1 DEF HealthyKeepsWord
  <2>11. HealthyIsClosed'
    BY <1>i, <2>1, <2>3 DEF HealthyIsClosed, IsOpened
  <2> QED
    BY <2>4, <2>5, <2>6, <2>7, <2>8, <2>9, <2>10, <2>11 DEF TransactionInv
<1> QED BY <1>1, <1>2

LEMMA TransactionStep ==
  ASSUME DatabaseTypeOK, TransactionInv, [DatabaseNext]_databaseVars
  PROVE  TransactionInv'
<1>1. ASSUME NEW k \in Call, CallStepOpened(k)
      PROVE  TransactionInv'
  <2>1. TypeOK /\ IsOpened(Home[k]) /\ start' = start /\ CallStep(k)
    BY <1>1 DEF CallStepOpened, DatabaseTypeOK
  <2>2. CASE TakeLock(k) \/ Begin(k) \/ WriteStep(k)
    BY <2>1, <2>2, BodyStepKeepsInv
  <2>3. CASE \/ BeginTimesOut(k) \/ Raise(k) \/ Interrupt(k)
             \/ Commit(k) \/ LeaveWithoutCommit(k) \/ CommitRaises(k)
    BY <2>1, <2>3, LeavingKeepsInv
  <2> QED BY <2>1, <2>2, <2>3 DEF CallStep
<1>2. CASE UNCHANGED databaseVars
  BY <1>2
  DEF databaseVars, vars, TransactionInv, LockHeld, OneWriter, PendingIsOwn, BodyIsPending,
      OwnerIsAlone, DurableIsWhole, StartIsAlone, HealthyKeepsWord, HealthyIsClosed, IsOpened
<1>3. ASSUME NEW k \in Call, StartStep(k) \/ StartDies(k)
      PROVE  TransactionInv'
  BY <1>3, StartStepKeepsInv
<1>4. ASSUME NEW c \in Conn, Query(c) \/ RestartOpened(c)
      PROVE  TransactionInv'
  BY <1>4, ConnectionStepKeepsInv
<1> QED BY <1>1, <1>2, <1>3, <1>4 DEF DatabaseNext

LEMMA TransactionInvHolds == DatabaseSpec => []TransactionInv
<1>1. DatabaseInit => TransactionInv
  BY TransactionInit
<1>2. DatabaseTypeOK /\ TransactionInv /\ [DatabaseNext]_databaseVars => TransactionInv'
  BY TransactionStep
<1> QED BY <1>1, <1>2, DatabaseTypeCorrect, PTL DEF DatabaseSpec

\* The database is always in a state between two operations: what is committed
\* is a set of whole calls.
THEOREM WholeCallsDurableHolds == DatabaseSpec => []WholeCallsDurable
<1>1. TransactionInv => WholeCallsDurable
  BY DEF TransactionInv, DurableIsWhole, WholeCallsDurable
<1> QED BY <1>1, TransactionInvHolds, PTL

\* No later call commits what a call that failed had written,
\* although its transaction may still be open.
THEOREM ErrorIsNotDurableHolds == DatabaseSpec => []ErrorIsNotDurable
<1>1. TransactionInv => ErrorIsNotDurable
  <2>1. ASSUME DurableIsWhole, NEW k \in Call, pc[k] \in Failed, NEW i \in {1, 2}
        PROVE  <<k, i>> \notin durable
    BY <2>1 DEF DurableIsWhole, Failed
  <2> SUFFICES ASSUME TransactionInv, NEW k \in Call, pc[k] \in Failed
               PROVE  durable \cap WritesOf(k) = {}
    BY DEF ErrorIsNotDurable
  <2>2. \A i \in {1, 2} : <<k, i>> \notin durable
    BY <2>1 DEF TransactionInv
  <2> QED BY <2>2 DEF WritesOf
<1> QED BY <1>1, TransactionInvHolds, PTL

\* Whatever goes wrong on other connections: on one that meets no fault, ok
\* means on disk, and a failure means that nothing can be seen.
THEOREM HealthyIsAtomicHolds == DatabaseSpec => []HealthyIsAtomic
<1>1. ASSUME TransactionInv, NEW k \in Call, Home[k] \notin Faulty
      PROVE  /\ pc[k] = "ok" => WritesOf(k) \subseteq durable
             /\ pc[k] \in Failed => \A c \in Conn : Visible(c) \cap WritesOf(k) = {}
  <2>1. pc[k] = "ok" => WritesOf(k) \subseteq durable
    BY <1>1 DEF TransactionInv, HealthyKeepsWord
  <2>2. ASSUME pc[k] \in Failed, NEW c \in Conn, NEW i \in {1, 2}
        PROVE  <<k, i>> \notin durable /\ <<k, i>> \notin pending[c]
    BY <1>1, <2>2, HomeAssumption
    DEF TransactionInv, DurableIsWhole, PendingIsOwn, HealthyKeepsWord, Failed
  <2> QED BY <2>1, <2>2 DEF Visible, WritesOf
<1>2. TransactionInv => HealthyIsAtomic
  BY <1>1 DEF HealthyIsAtomic
<1> QED BY <1>2, TransactionInvHolds, PTL

-----------------------------------------------------------------------------
(* The schema. Only steps of a start change it, and they only add to it; the *)
(* one that records the backend has the database to itself.                  *)

LEMMA SchemaInit == DatabaseInit => SchemaInv
<1> SUFFICES ASSUME DatabaseInit PROVE SchemaInv
  OBVIOUS
<1>1. SchemaGrows
  <2> USE DEF SchemaGrows, CoreSchema, SegmentColumns, Backend, SCHEMA_VERSION, Newer
  <2>1. CASE version = 0 /\ schema = {} /\ backend = None
    BY <2>1, BackendAssumption
  <2>2. CASE /\ version = 1 /\ backend = "fts5_trigram"
             /\ schema = {"plugin_metadata", "context_segments", "task_search_fts"}
    BY <2>2
  <2>3. CASE version = Newer /\ backend = "fallback" /\ schema = CoreSchema
    BY <2>3
  <2> QED BY <2>1, <2>2, <2>3 DEF DatabaseInit
<1>2. \A c \in Conn : start[c].stage = "closed"
  BY DEF DatabaseInit, Closed
<1>3. \A c \in Conn : Reached("closed", choice[c], schema, backend)
  BY DEF Reached
<1> QED BY <1>1, <1>2, <1>3 DEF SchemaInv, StageReached

\* A step of the start of one connection, after which that connection has
\* reached its stage, leaves the others where they were.
LEMMA StartMoveKeepsSchema ==
  ASSUME DatabaseTypeOK, SchemaInv, NEW c \in Conn, NEW at, NEW chosen,
         start' = [start EXCEPT ![c] = at],
         choice' = [choice EXCEPT ![c] = chosen],
         schema \subseteq schema',
         \/ backend' = backend
         \/ backend = None /\ \A d \in Conn \ {c} : start[d].stage # "commit",
         Reached(at.stage, chosen, schema', backend'),
         SchemaGrows'
  PROVE  SchemaInv'
<1>t. /\ \A d \in Conn : start'[d] = IF d = c THEN at ELSE start[d]
      /\ \A d \in Conn : choice'[d] = IF d = c THEN chosen ELSE choice[d]
  BY DEF DatabaseTypeOK
<1>b. None \notin Backend
  BY BackendAssumption
<1>1. ASSUME NEW d \in Conn
      PROVE  Reached(start'[d].stage, choice'[d], schema', backend')
  <2>1. CASE d = c
    BY <1>t, <2>1
  <2>2. CASE d # c
    <3>1. Reached(start[d].stage, choice[d], schema, backend)
      BY DEF SchemaInv, StageReached
    <3>2. start'[d] = start[d] /\ choice'[d] = choice[d]
      BY <1>t, <2>2
    <3>3. CASE backend' = backend
      BY <3>1, <3>2, <3>3 DEF Reached
    <3>4. CASE backend = None /\ start[d].stage # "commit"
      <4>1. start[d].stage \notin {"commit", "version", "open"}
        BY <3>1, <3>4 DEF Reached
      <4> QED BY <3>1, <3>2, <4>1 DEF Reached
    <3> QED BY <2>2, <3>3, <3>4
  <2> QED BY <2>1, <2>2
<1> QED BY <1>1 DEF SchemaInv, StageReached


LEMMA SchemaUnchanged ==
  ASSUME SchemaInv, UNCHANGED <<fileVars, start, choice>>
  PROVE  SchemaInv'
<1>1. SchemaGrows'
  BY DEF SchemaInv, SchemaGrows, fileVars
<1>2. \A d \in Conn : Reached(start'[d].stage, choice'[d], schema', backend')
  BY DEF SchemaInv, StageReached, fileVars
<1> QED BY <1>1, <1>2 DEF SchemaInv, StageReached

\* A connection that is closed has reached nothing.
LEMMA ClosingKeepsSchema ==
  ASSUME DatabaseTypeOK, SchemaInv, NEW c \in Conn, UNCHANGED fileVars,
         start' = [start EXCEPT ![c] = Closed],
         choice' = [choice EXCEPT ![c] = None]
  PROVE  SchemaInv'
<1>1. SchemaGrows'
  BY DEF SchemaInv, SchemaGrows, fileVars
<1>2. Reached(Closed.stage, None, schema', backend')
  BY DEF Reached, Closed
<1> QED BY <1>1, <1>2, StartMoveKeepsSchema DEF fileVars

LEMMA SchemaStartStep ==
  ASSUME DatabaseTypeOK, TransactionInv, SchemaInv, NEW k \in Call, StartStep(k)
  PROVE  SchemaInv'
<1> DEFINE c == Home[k]
<1>h. c \in Conn
  BY HomeAssumption
<1>t. /\ start \in [Conn -> [stage: Starting \cup {"closed", "open"}, call: Call \cup {None}]]
      /\ choice \in [Conn -> Backend \cup {None}]
  BY DEF DatabaseTypeOK
<1>s. SchemaGrows /\ Reached(start[c].stage, choice[c], schema, backend)
  BY <1>h DEF SchemaInv, StageReached
<1>d. SCHEMA_VERSION = 2 /\ CoreSchema = {"plugin_metadata", "context_segments", "start_message_checksum"}
  BY DEF SCHEMA_VERSION, CoreSchema, SegmentColumns
<1>c. choice' = choice => choice' = [choice EXCEPT ![c] = choice[c]]
  BY <1>h, <1>t
<1>m. ASSUME NEW at, NEW chosen, NEW stage, at.stage = stage,
             start' = [start EXCEPT ![c] = at], choice' = [choice EXCEPT ![c] = chosen],
             schema \subseteq schema', backend' = backend,
             Reached(stage, chosen, schema', backend'), SchemaGrows'
      PROVE  SchemaInv'
  BY <1>h, <1>m, StartMoveKeepsSchema
<1>g. ASSUME NEW stage, NEW next, At(k, stage), Goes(k, next)
      PROVE  /\ start[c].stage = stage
             /\ start' = [start EXCEPT ![c] = [stage |-> next, call |-> k]]
  <2>1. start[c] = [stage |-> stage, call |-> k]
    BY <1>g DEF At
  <2>2. start' = [start EXCEPT ![c].stage = next]
    BY <1>g DEF Goes
  <2>3. /\ DOMAIN start' = Conn
        /\ start'[c] = [start[c] EXCEPT !.stage = next]
        /\ \A d \in Conn \ {c} : start'[d] = start[d]
        /\ start' = [d \in DOMAIN start' |-> start'[d]]
    BY <1>h, <1>t, <2>2
  <2>4. start'[c] = [stage |-> next, call |-> k]
    BY <2>1, <2>3
  <2>5. [start EXCEPT ![c] = [stage |-> next, call |-> k]]
           = [d \in Conn |-> IF d = c THEN [stage |-> next, call |-> k] ELSE start[d]]
    BY <1>t
  <2> QED BY <2>1, <2>3, <2>4, <2>5
<1>1. CASE OpenDatabase(k)
  <2>1. /\ start' = [start EXCEPT ![c] = [stage |-> "metadata", call |-> k]]
        /\ choice' = choice /\ UNCHANGED fileVars
    BY <1>1 DEF OpenDatabase
  <2>2. Reached("metadata", choice[c], schema', backend') /\ SchemaGrows'
    BY <1>s, <2>1 DEF Reached, SchemaGrows, fileVars
  <2> QED BY <1>c, <1>m, <2>1, <2>2 DEF fileVars
<1>2. CASE RefuseDatabase(k)
  <2>1. UNCHANGED <<fileVars, start, choice>>
    BY <1>2 DEF RefuseDatabase
  <2> QED BY <2>1, SchemaUnchanged
<1>3. CASE CreateMetadata(k)
  <2>1. /\ At(k, "metadata") /\ Goes(k, "segments")
        /\ choice' = choice /\ version' = version /\ backend' = backend
        /\ schema' = schema \cup {"plugin_metadata"}
    BY <1>3 DEF CreateMetadata, CreateIfMissing
  <2>2. Reached("segments", choice[c], schema', backend') /\ SchemaGrows'
    BY <1>s, <1>d, <2>1 DEF Reached, SchemaGrows
  <2> QED BY <1>c, <1>g, <1>m, <2>1, <2>2
<1>4. CASE CreateSegments(k)
  <2>1. /\ At(k, "segments") /\ Goes(k, "columns")
        /\ choice' = choice /\ version' = version /\ backend' = backend
        /\ \/ schema' = schema \cup SegmentColumns
           \/ SegmentColumns \cap schema # {} /\ schema' = schema
    BY <1>4 DEF CreateSegments, CreateIfMissing
  <2>2. /\ start[c].stage = "segments"
        /\ start' = [start EXCEPT ![c] = [stage |-> "columns", call |-> k]]
    BY <1>g, <2>1
  <2>3. /\ schema \subseteq schema'
        /\ "context_segments" \in schema'
        /\ "plugin_metadata" \in schema'
    BY <1>s, <2>1, <2>2 DEF Reached, SchemaGrows, SegmentColumns
  <2>4. Reached("columns", choice[c], schema', backend') /\ SchemaGrows'
    BY <1>s, <1>d, <2>1, <2>3 DEF Reached, SchemaGrows
  <2> QED BY <1>c, <1>m, <2>1, <2>2, <2>3, <2>4
<1>5. CASE ReadColumns(k)
  <2>1. PICK next \in {"backend", "alter"} :
           /\ At(k, "columns") /\ Goes(k, next)
           /\ choice' = choice /\ UNCHANGED fileVars
           /\ next = "backend" => "start_message_checksum" \in schema
    BY <1>5 DEF ReadColumns
  <2>2. /\ start[c].stage = "columns"
        /\ start' = [start EXCEPT ![c] = [stage |-> next, call |-> k]]
    BY <1>g, <2>1
  <2>3. Reached(next, choice[c], schema', backend') /\ SchemaGrows'
    BY <1>s, <1>d, <2>1, <2>2 DEF Reached, SchemaGrows, fileVars
  <2> QED BY <1>c, <1>m, <2>1, <2>2, <2>3 DEF fileVars
<1>6. CASE AddColumn(k)
  <2>1. /\ At(k, "alter") /\ Goes(k, "backend")
        /\ choice' = choice /\ version' = version /\ backend' = backend
        /\ schema' = schema \cup {"start_message_checksum"}
    BY <1>6 DEF AddColumn
  <2>2. /\ start[c].stage = "alter"
        /\ start' = [start EXCEPT ![c] = [stage |-> "backend", call |-> k]]
    BY <1>g, <2>1
  <2>3. Reached("backend", choice[c], schema', backend') /\ SchemaGrows'
    BY <1>s, <1>d, <2>1, <2>2 DEF Reached, SchemaGrows
  <2> QED BY <1>c, <1>m, <2>1, <2>2, <2>3
<1>7. CASE ReadBackend(k)
  <2>1. PICK next \in {"virtual", "version"} :
           /\ At(k, "backend") /\ Goes(k, next)
           /\ choice' = [choice EXCEPT ![c] = backend] /\ UNCHANGED fileVars
           /\ next = "version" => backend # None
    BY <1>7 DEF ReadBackend
  <2>2. /\ start[c].stage = "backend"
        /\ start' = [start EXCEPT ![c] = [stage |-> next, call |-> k]]
    BY <1>g, <2>1
  <2>3. Reached(next, backend, schema', backend') /\ SchemaGrows'
    BY <1>s, <1>d, <2>1, <2>2 DEF Reached, SchemaGrows, fileVars
  <2> QED BY <1>m, <2>1, <2>2, <2>3 DEF fileVars
<1>8. ASSUME NEW chosen \in Backend, At(k, "virtual"), Goes(k, "insert"),
             choice' = [choice EXCEPT ![c] = chosen],
             version' = version, backend' = backend,
             schema' = schema \/ schema' = schema \cup {"task_search_fts"},
             chosen = "fts5_trigram" => "task_search_fts" \in schema'
      PROVE  SchemaInv'
  <2>1. /\ start[c].stage = "virtual"
        /\ start' = [start EXCEPT ![c] = [stage |-> "insert", call |-> k]]
    BY <1>g, <1>8
  <2>2. schema \subseteq schema'
    BY <1>8
  <2>3. Reached("insert", chosen, schema', backend') /\ SchemaGrows'
    BY <1>s, <1>d, <1>8, <2>1, <2>2 DEF Reached, SchemaGrows
  <2> QED BY <1>m, <1>8, <2>1, <2>2, <2>3
<1>9. CASE CreateIndex(k)
  BY <1>8, <1>9 DEF CreateIndex, Backend
<1>10. CASE FallBack(k)
  BY <1>8, <1>10 DEF FallBack, fileVars, Backend
<1>11. CASE InsertBackend(k)
  <2>1. /\ At(k, "insert") /\ Goes(k, "commit")
        /\ choice' = choice /\ UNCHANGED fileVars /\ backend = None
    BY <1>11 DEF InsertBackend
  <2>2. /\ start[c].stage = "insert"
        /\ start' = [start EXCEPT ![c] = [stage |-> "commit", call |-> k]]
    BY <1>g, <2>1
  <2>3. Reached("commit", choice[c], schema', backend') /\ SchemaGrows'
    BY <1>s, <1>d, <2>1, <2>2 DEF Reached, SchemaGrows, fileVars
  <2> QED BY <1>c, <1>m, <2>1, <2>2, <2>3 DEF fileVars
<1>12. CASE CommitStart(k)
  <2>1. /\ start[c].stage = "commit"
        /\ start' = [start EXCEPT ![c] = [stage |-> "open", call |-> None]]
        /\ choice' = [choice EXCEPT ![c] = choice[c]]
        /\ schema' = schema /\ backend' = choice[c] /\ version' = SCHEMA_VERSION
    BY <1>12 DEF CommitStart, Opened, At
  <2>2. \A d \in Conn \ {c} : start[d].stage # "commit"
    <3>1. StartIsAlone /\ OneWriter
      BY DEF TransactionInv
    <3>2. \A d \in Conn : start[d].stage = "commit" => open[d]
      BY <3>1 DEF StartIsAlone
    <3> QED BY <1>h, <2>1, <3>1, <3>2 DEF OneWriter
  <2>3. /\ backend = None /\ CoreSchema \subseteq schema /\ choice[c] \in Backend
        /\ choice[c] = "fts5_trigram" => "task_search_fts" \in schema
    BY <1>s, <2>1 DEF Reached
  <2>4. choice[c] # None
    BY <2>3, BackendAssumption
  <2>5. Reached("open", choice[c], schema', backend') /\ SchemaGrows'
    BY <1>s, <2>1, <2>3, <2>4 DEF Reached, SchemaGrows
  <2> QED BY <1>h, <2>1, <2>2, <2>3, <2>5, StartMoveKeepsSchema
<1>13. CASE WriteVersion(k)
  <2>1. /\ start[c].stage = "version"
        /\ start' = [start EXCEPT ![c] = [stage |-> "open", call |-> None]]
        /\ choice' = [choice EXCEPT ![c] = backend]
        /\ schema' = schema /\ backend' = backend /\ version' = SCHEMA_VERSION
    BY <1>13 DEF WriteVersion, Opened, At
  <2>2. Reached("open", backend, schema', backend') /\ SchemaGrows'
    BY <1>s, <2>1 DEF Reached, SchemaGrows
  <2> QED BY <1>m, <2>1, <2>2
<1>14. CASE StartFails(k)
  BY <1>14, <1>h, ClosingKeepsSchema DEF StartFails, CloseAndRaise
<1> QED
  BY <1>1, <1>2, <1>3, <1>4, <1>5, <1>6, <1>7, <1>9, <1>10, <1>11, <1>12, <1>13, <1>14
  DEF StartStep

LEMMA SchemaStep ==
  ASSUME DatabaseTypeOK, TransactionInv, SchemaInv, [DatabaseNext]_databaseVars
  PROVE  SchemaInv'
<1>1. ASSUME NEW k \in Call, StartDies(k)
      PROVE  SchemaInv'
  BY <1>1, HomeAssumption, ClosingKeepsSchema DEF StartDies
<1>2. ASSUME NEW k \in Call, CallStepOpened(k)
      PROVE  SchemaInv'
  BY <1>2, SchemaUnchanged DEF CallStepOpened
<1>3. ASSUME NEW c \in Conn, Query(c) \/ RestartOpened(c)
      PROVE  SchemaInv'
  BY <1>3, SchemaUnchanged, ClosingKeepsSchema DEF Query, RestartOpened
<1>4. CASE UNCHANGED databaseVars
  BY <1>4, SchemaUnchanged DEF databaseVars
<1> QED BY <1>1, <1>2, <1>3, <1>4, SchemaStartStep DEF DatabaseNext

LEMMA SchemaInvHolds == DatabaseSpec => []SchemaInv
<1>1. DatabaseInit => SchemaInv
  BY SchemaInit
<1>2. DatabaseTypeOK /\ TransactionInv /\ SchemaInv /\ [DatabaseNext]_databaseVars => SchemaInv'
  BY SchemaStep
<1> QED BY <1>1, <1>2, DatabaseTypeCorrect, TransactionInvHolds, PTL DEF DatabaseSpec

\* However the starts of several processes interleave, fail or die, a
\* repository that is handed out can work: all tables exist, and every open
\* repository searches with the one backend that is recorded and whose index
\* exists.
THEOREM StartedIsUsableHolds == DatabaseSpec => []StartedIsUsable
<1>1. SchemaInv => StartedIsUsable
  <2> SUFFICES ASSUME SchemaInv,
                      version = SCHEMA_VERSION \/ \E c \in Conn : IsOpened(c)
               PROVE  /\ CoreSchema \subseteq schema
                      /\ backend \in Backend
                      /\ backend = "fts5_trigram" => "task_search_fts" \in schema
                      /\ \A c \in Conn : IsOpened(c) => choice[c] = backend
    BY DEF StartedIsUsable
  <2>1. \A c \in Conn : IsOpened(c) => /\ CoreSchema \subseteq schema
                                       /\ backend # None /\ choice[c] = backend
    BY DEF SchemaInv, StageReached, Reached, IsOpened
  <2>2. CoreSchema \subseteq schema /\ backend # None
    BY <2>1 DEF SchemaInv, SchemaGrows
  <2> QED BY <2>1, <2>2 DEF SchemaInv, SchemaGrows
<1> QED BY <1>1, SchemaInvHolds, PTL

=============================================================================
