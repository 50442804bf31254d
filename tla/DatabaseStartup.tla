-------------------------- MODULE DatabaseStartup --------------------------
(***************************************************************************)
(* How a connection comes to be used: the first call on it opens the       *)
(* database and runs initialize_database (migrations.py:146-194), one      *)
(* statement after the other, most of them in autocommit mode, while other *)
(* processes open the same new or old file or already work on it. A start  *)
(* that fails closes the connection and is the answer of the call that     *)
(* needed it; the next call tries again (task_tools.py:239-261).           *)
(***************************************************************************)
EXTENDS StoreTransaction

CONSTANTS
    HasTrigram,   \* whether SQLite has FTS5 with the trigram tokenizer
    MaxDeaths     \* bound: processes that die while they start

ASSUME StartAssumption == HasTrigram \in BOOLEAN /\ MaxDeaths \in Nat

VARIABLES
    schema,    \* tables, and the one added column, that exist
    version,   \* PRAGMA user_version
    backend,   \* search_backend of plugin_metadata, or None
    start,     \* per connection: how far its start is, and for which call
    choice,    \* per connection: the search backend it believes in
    deaths

fileVars == <<schema, version, backend>>
databaseVars == <<vars, fileVars, start, choice, deaths>>

SCHEMA_VERSION == 2
Newer == SCHEMA_VERSION + 1

SegmentColumns == {"context_segments", "start_message_checksum"}
CoreSchema == {"plugin_metadata"} \cup SegmentColumns
Backend == {"fts5_trigram", "fallback"}

ASSUME BackendAssumption == None \notin Backend

\* The statements of a start that may write, in order, and the reads between.
Writing == {"metadata", "segments", "alter", "virtual", "insert", "commit", "version"}
Starting == Writing \cup {"columns", "backend"}
Closed == [stage |-> "closed", call |-> None]

DatabaseInit ==
    /\ Init
    /\ \/ version = 0 /\ schema = {} /\ backend = None
       \/ /\ version = 1 /\ backend = "fts5_trigram"
          /\ schema = {"plugin_metadata", "context_segments", "task_search_fts"}
       \/ /\ version = Newer /\ backend = "fallback" /\ schema = CoreSchema
    /\ start = [c \in Conn |-> Closed]
    /\ choice = [c \in Conn |-> None]
    /\ deaths = 0

-----------------------------------------------------------------------------
(* One statement of a start. k is the call that needs the connection. *)

At(k, stage) == start[Home[k]] = [stage |-> stage, call |-> k]
Goes(k, stage) == start' = [start EXCEPT ![Home[k]].stage = stage]

\* A statement that commits by itself finds the database free to write.
CanWrite(c) == WriteLockFree(c) /\ ~OthersRead(c)

\* sqlite3.connect, PRAGMA user_version of a database this code may use.
OpenDatabase(k) ==
    /\ pc[k] = "waiting"
    /\ start[Home[k]] = Closed
    /\ version <= SCHEMA_VERSION
    /\ start' = [start EXCEPT ![Home[k]] = [stage |-> "metadata", call |-> k]]
    /\ UNCHANGED <<vars, fileVars, choice, deaths>>

\* "Database schema ... is newer than supported": nothing is touched. It is a
\* RuntimeError, which task_state_manage answers and the other tools let through.
RefuseDatabase(k) ==
    /\ pc[k] = "waiting"
    /\ start[Home[k]] = Closed
    /\ version > SCHEMA_VERSION
    /\ \E end \in Failed : pc' = [pc EXCEPT ![k] = end]
    /\ UNCHANGED <<owns, lock, open, pending, durable, fileVars, start, choice, deaths>>

\* CREATE TABLE IF NOT EXISTS writes only what is missing.
CreateIfMissing(k, stage, objects, next) ==
    /\ At(k, stage)
    /\ objects \cap schema # {} \/ CanWrite(Home[k])
    /\ schema' = IF objects \cap schema # {} THEN schema ELSE schema \cup objects
    /\ Goes(k, next)
    /\ UNCHANGED <<vars, version, backend, choice, deaths>>

\* executescript(_CORE_SCHEMA): each table on its own.
CreateMetadata(k) == CreateIfMissing(k, "metadata", {"plugin_metadata"}, "segments")
CreateSegments(k) == CreateIfMissing(k, "segments", SegmentColumns, "columns")

\* PRAGMA table_info(context_segments)
ReadColumns(k) ==
    /\ At(k, "columns")
    /\ Goes(k, IF "start_message_checksum" \in schema THEN "backend" ELSE "alter")
    /\ UNCHANGED <<vars, fileVars, choice, deaths>>

AddColumn(k) ==
    /\ At(k, "alter")
    /\ "start_message_checksum" \notin schema
    /\ CanWrite(Home[k])
    /\ schema' = schema \cup {"start_message_checksum"}
    /\ Goes(k, "backend")
    /\ UNCHANGED <<vars, version, backend, choice, deaths>>

\* SELECT value FROM plugin_metadata: another process may have chosen already.
ReadBackend(k) ==
    /\ At(k, "backend")
    /\ choice' = [choice EXCEPT ![Home[k]] = backend]
    /\ Goes(k, IF backend = None THEN "virtual" ELSE "version")
    /\ UNCHANGED <<vars, fileVars, deaths>>

\* Plausible bug: the index is created on its first use.
CreateIndexLater(k) ==
    /\ At(k, "virtual")
    /\ HasTrigram
    /\ choice' = [choice EXCEPT ![Home[k]] = "fts5_trigram"]
    /\ Goes(k, "insert")
    /\ UNCHANGED <<vars, fileVars, deaths>>

CreateIndex(k) ==
    /\ At(k, "virtual")
    /\ HasTrigram
    /\ "task_search_fts" \in schema \/ CanWrite(Home[k])
    /\ schema' = schema \cup {"task_search_fts"}
    /\ choice' = [choice EXCEPT ![Home[k]] = "fts5_trigram"]
    /\ Goes(k, "insert")
    /\ UNCHANGED <<vars, version, backend, deaths>>

\* OperationalError: the module is missing, or the database is locked.
FallBack(k) ==
    /\ At(k, "virtual")
    /\ ~HasTrigram \/ ~CanWrite(Home[k])
    /\ choice' = [choice EXCEPT ![Home[k]] = "fallback"]
    /\ Goes(k, "insert")
    /\ UNCHANGED <<vars, fileVars, deaths>>

\* INSERT INTO plugin_metadata begins a transaction, which PRAGMA user_version joins.
InsertBackend(k) ==
    /\ At(k, "insert")
    /\ WriteLockFree(Home[k])
    /\ backend = None
    /\ open' = [open EXCEPT ![Home[k]] = TRUE]
    /\ Goes(k, "commit")
    /\ UNCHANGED <<pc, owns, lock, pending, durable, fileVars, choice, deaths>>

\* Plausible bug: the version is counted up instead of set.
OpenedCounting(k, recorded) ==
    /\ start' = [start EXCEPT ![Home[k]] = [stage |-> "open", call |-> None]]
    /\ choice' = [choice EXCEPT ![Home[k]] = recorded]
    /\ version' = version + 1

\* TaskRepository(connection) reads search_backend once more.
Opened(k, recorded) ==
    /\ start' = [start EXCEPT ![Home[k]] = [stage |-> "open", call |-> None]]
    /\ choice' = [choice EXCEPT ![Home[k]] = recorded]
    /\ version' = SCHEMA_VERSION

CommitStart(k) ==
    /\ At(k, "commit")
    /\ ~OthersRead(Home[k])
    /\ open' = [open EXCEPT ![Home[k]] = FALSE]
    /\ backend' = choice[Home[k]]
    /\ Opened(k, choice[Home[k]])
    /\ UNCHANGED <<pc, owns, lock, pending, durable, schema, deaths>>

\* PRAGMA user_version, when a backend had been recorded before.
WriteVersion(k) ==
    /\ At(k, "version")
    /\ CanWrite(Home[k])
    /\ Opened(k, backend)
    /\ UNCHANGED <<vars, schema, backend, deaths>>

\* except Exception: connection.close(); raise. The call answers with an error.
CloseAndRaise(k) ==
    /\ start' = [start EXCEPT ![Home[k]] = Closed]
    /\ choice' = [choice EXCEPT ![Home[k]] = None]
    /\ open' = [open EXCEPT ![Home[k]] = FALSE]
    /\ pc' = [pc EXCEPT ![k] = "error"]

\* What can make a start fail: the database stays locked past busy_timeout
\* (while the virtual table is created that means fallback instead), or another
\* process was faster: duplicate column, row not unique.
StartFails(k) ==
    /\ \/ \E stage \in Writing \ {"virtual", "insert", "commit"} :
             At(k, stage) /\ ~CanWrite(Home[k])
       \/ At(k, "insert") /\ ~WriteLockFree(Home[k])
       \/ At(k, "commit") /\ OthersRead(Home[k])
       \/ At(k, "alter") /\ "start_message_checksum" \in schema
       \/ At(k, "insert") /\ backend # None
    /\ CloseAndRaise(k)
    /\ UNCHANGED <<owns, lock, pending, durable, fileVars, deaths>>

\* The process dies while it starts, and the call is made again.
StartDies(k) ==
    /\ deaths < MaxDeaths
    /\ \E stage \in Starting : At(k, stage)
    /\ deaths' = deaths + 1
    /\ start' = [start EXCEPT ![Home[k]] = Closed]
    /\ choice' = [choice EXCEPT ![Home[k]] = None]
    /\ open' = [open EXCEPT ![Home[k]] = FALSE]
    /\ UNCHANGED <<pc, owns, lock, pending, durable, fileVars>>

StartStep(k) ==
    \/ OpenDatabase(k) \/ RefuseDatabase(k) \/ CreateMetadata(k) \/ CreateSegments(k)
    \/ ReadColumns(k) \/ AddColumn(k) \/ ReadBackend(k) \/ CreateIndex(k) \/ FallBack(k)
    \/ InsertBackend(k) \/ CommitStart(k) \/ WriteVersion(k) \/ StartFails(k)

-----------------------------------------------------------------------------
(* The calls and the queries of StoreTransaction, on connections that are open *)

IsOpened(c) == start[c].stage = "open"

CallStepOpened(k) ==
    /\ IsOpened(Home[k])
    /\ CallStep(k)
    /\ UNCHANGED <<fileVars, start, choice, deaths>>

Query(c) ==
    /\ IsOpened(c)
    /\ BeginRead(c) \/ EndRead(c)
    /\ UNCHANGED <<fileVars, start, choice, deaths>>

\* The process that holds an open connection exits; its next call starts anew.
RestartOpened(c) ==
    /\ IsOpened(c)
    /\ Restart(c)
    /\ start' = [start EXCEPT ![c] = Closed]
    /\ choice' = [choice EXCEPT ![c] = None]
    /\ UNCHANGED <<fileVars, deaths>>

DatabaseNext ==
    \/ \E k \in Call : StartStep(k) \/ StartDies(k) \/ CallStepOpened(k)
    \/ \E c \in Conn : Query(c) \/ RestartOpened(c)

\* As in StoreTransaction; a start goes on, too.
DatabaseSpec ==
    /\ DatabaseInit /\ [][DatabaseNext]_databaseVars
    /\ \A k \in Call : SF_databaseVars(StartStep(k) \/ CallStepOpened(k))
    /\ \A c \in Conn : WF_databaseVars(IsOpened(c) /\ EndRead(c) /\ UNCHANGED <<fileVars, start, choice, deaths>>)

-----------------------------------------------------------------------------
(* Type invariant *)

DatabaseTypeOK ==
    /\ TypeOK
    /\ schema \subseteq CoreSchema \cup {"task_search_fts"}
    /\ version \in 0..Newer
    /\ backend \in Backend \cup {None}
    /\ start \in [Conn -> [stage: Starting \cup {"closed", "open"}, call: Call \cup {None}]]
    /\ choice \in [Conn -> Backend \cup {None}]
    /\ deaths \in 0..MaxDeaths

-----------------------------------------------------------------------------
(* Safety *)

\* However the starts of several processes interleave, fail or die: once a
\* repository is handed out (and from the moment user_version says 2) every
\* table and the added column exist, one search backend is recorded, its index
\* exists, and every open repository searches with that one, so that a write of
\* one process updates the index another process reads (store.py:667).
StartedIsUsable ==
    (version = SCHEMA_VERSION \/ \E c \in Conn : IsOpened(c)) =>
        /\ CoreSchema \subseteq schema
        /\ backend \in Backend
        /\ backend = "fts5_trigram" => "task_search_fts" \in schema
        /\ \A c \in Conn : IsOpened(c) => choice[c] = backend

=============================================================================
