-------------------------- MODULE StoreTransaction --------------------------
(***************************************************************************)
(* TaskRepository.transaction (store.py:92-106), the bracket every service *)
(* operation runs in, over SQLite connections that share one database.     *)
(* A process opens several connections (the task tools and each context    *)
(* engine have their own repository); the threads of one connection take   *)
(* its RLock. A body makes two writes, so that a half-done one can be told *)
(* from a complete one.                                                    *)
(*                                                                         *)
(* SQLite itself is external: at most one connection holds the write lock, *)
(* and with the rollback journal (migrations.py:135) a commit has to wait  *)
(* until no other connection reads, or fails with the transaction open.    *)
(***************************************************************************)
EXTENDS Naturals

CONSTANTS
    Call,         \* service calls made
    Conn,         \* connections (repositories)
    Home,         \* the connection each call uses
    None,
    Faults,       \* what may go wrong, see FaultAssumption
    Faulty        \* the connections it goes wrong on

ASSUME HomeAssumption == Home \in [Call -> Conn]
ASSUME CallAssumption == None \notin Call /\ "reader" \notin Call
\* "commit": a COMMIT gives up (busy). "interrupt": a BaseException, say a
\* KeyboardInterrupt, ends a body.
ASSUME FaultAssumption == Faults \subseteq {"commit", "interrupt"} /\ Faulty \subseteq Conn

VARIABLES
    pc,       \* where each call is; "ok" and "error" are its reply, "raised"
              \* is an exception that its tool handler lets through to the host
    owns,     \* owns_transaction of each call
    lock,     \* who holds the RLock of each connection
    open,     \* connection.in_transaction
    pending,  \* writes of the open transaction of each connection
    durable   \* committed writes

vars == <<pc, owns, lock, open, pending, durable>>

Write == Call \X {1, 2}
Replied == {"ok", "error"}
Failed == {"error", "raised"}
Ended == Replied \cup Failed
Stage == {"waiting", "entered", "first", "second", "done"} \cup Ended

WritesOf(k) == {k} \X {1, 2}

Init ==
    /\ pc = [k \in Call |-> "waiting"]
    /\ owns = [k \in Call |-> FALSE]
    /\ lock = [c \in Conn |-> None]
    /\ open = [c \in Conn |-> FALSE]
    /\ pending = [c \in Conn |-> {}]
    /\ durable = {}

\* What a query on connection c returns: the committed state and its own writes.
Visible(c) == durable \cup pending[c]

-----------------------------------------------------------------------------
(* SQLite, as the repository uses it *)

\* SQLite's write lock is free for c, or c has it already.
WriteLockFree(c) == \A d \in Conn \ {c} : ~open[d]

OthersRead(c) == \E d \in Conn \ {c} : lock[d] = "reader"

\* get_task, get_session_state, ... outside a transaction: a read under the RLock.
BeginRead(c) ==
    /\ lock[c] = None
    /\ lock' = [lock EXCEPT ![c] = "reader"]
    /\ UNCHANGED <<pc, owns, open, pending, durable>>

EndRead(c) ==
    /\ lock[c] = "reader"
    /\ lock' = [lock EXCEPT ![c] = None]
    /\ UNCHANGED <<pc, owns, open, pending, durable>>

\* The process that holds connection c exits: what it had not committed is gone.
Restart(c) ==
    /\ open[c] /\ lock[c] = None
    /\ open' = [open EXCEPT ![c] = FALSE]
    /\ pending' = [pending EXCEPT ![c] = {}]
    /\ UNCHANGED <<pc, owns, lock, durable>>

-----------------------------------------------------------------------------
(* transaction() *)

\* with self._lock
TakeLock(k) ==
    /\ pc[k] = "waiting"
    /\ lock[Home[k]] = None
    /\ lock' = [lock EXCEPT ![Home[k]] = k]
    /\ pc' = [pc EXCEPT ![k] = "entered"]
    /\ UNCHANGED <<owns, open, pending, durable>>

\* Plausible bug: a call thinks it owns a transaction it has only joined.
BeginAlwaysOwning(k) ==
    /\ pc[k] = "entered"
    /\ WriteLockFree(Home[k])
    /\ owns' = [owns EXCEPT ![k] = TRUE]
    /\ open' = [open EXCEPT ![Home[k]] = TRUE]
    /\ pc' = [pc EXCEPT ![k] = "first"]
    /\ UNCHANGED <<lock, pending, durable>>

\* owns_transaction = not in_transaction; BEGIN IMMEDIATE when it owns it.
Begin(k) ==
    /\ pc[k] = "entered"
    /\ WriteLockFree(Home[k])
    /\ owns' = [owns EXCEPT ![k] = ~open[Home[k]]]
    /\ open' = [open EXCEPT ![Home[k]] = TRUE]
    /\ pc' = [pc EXCEPT ![k] = "first"]
    /\ UNCHANGED <<lock, pending, durable>>

Leave(k, end) ==
    /\ lock' = [lock EXCEPT ![Home[k]] = None]
    /\ pc' = [pc EXCEPT ![k] = end]

Hits(fault, k) == fault \in Faults /\ Home[k] \in Faulty

\* Plausible bug: no busy_timeout, BEGIN waits as long as it takes.
BeginNeverTimesOut(k) == FALSE

\* BEGIN IMMEDIATE gives up after busy_timeout.
BeginTimesOut(k) ==
    /\ pc[k] = "entered"
    /\ ~WriteLockFree(Home[k])
    /\ Leave(k, "error")
    /\ UNCHANGED <<owns, open, pending, durable>>

\* Plausible bug: the body runs in autocommit mode.
AutocommitStep(k) ==
    \/ /\ pc[k] = "first"
       /\ pc' = [pc EXCEPT ![k] = "second"]
       /\ durable' = durable \cup {<<k, 1>>}
       /\ UNCHANGED <<owns, lock, open, pending>>
    \/ /\ pc[k] = "second"
       /\ pc' = [pc EXCEPT ![k] = "done"]
       /\ durable' = durable \cup {<<k, 2>>}
       /\ UNCHANGED <<owns, lock, open, pending>>

\* The body's statements.
WriteStep(k) ==
    \/ /\ pc[k] = "first"
       /\ pc' = [pc EXCEPT ![k] = "second"]
       /\ pending' = [pending EXCEPT ![Home[k]] = @ \cup {<<k, 1>>}]
       /\ UNCHANGED <<owns, lock, open, durable>>
    \/ /\ pc[k] = "second"
       /\ pc' = [pc EXCEPT ![k] = "done"]
       /\ pending' = [pending EXCEPT ![Home[k]] = @ \cup {<<k, 2>>}]
       /\ UNCHANGED <<owns, lock, open, durable>>

\* Plausible bug: no rollback.
UndoNothing(k) == UNCHANGED <<open, pending>>

\* What except does: roll back when the call owns the transaction.
Undo(k) ==
    /\ open' = [open EXCEPT ![Home[k]] = @ /\ ~owns[k]]
    /\ pending' = [pending EXCEPT ![Home[k]] = IF owns[k] THEN {} ELSE @]

\* except Exception: a check of the body failed.
Raise(k) ==
    /\ pc[k] \in {"first", "second"}
    /\ Undo(k)
    /\ Leave(k, "error")
    /\ UNCHANGED <<owns, durable>>

\* A BaseException passes the except clause and the else clause by, and the
\* handler's `except Exception' (task_tools.py:282): the host gets it, not a reply.
Interrupt(k) ==
    /\ Hits("interrupt", k)
    /\ pc[k] \in {"first", "second", "done"}
    /\ Leave(k, "raised")
    /\ UNCHANGED <<owns, open, pending, durable>>

\* else: commit when the call owns the transaction.
Commit(k) ==
    /\ pc[k] = "done"
    /\ owns[k]
    /\ ~OthersRead(Home[k])
    /\ durable' = durable \cup pending[Home[k]]
    /\ pending' = [pending EXCEPT ![Home[k]] = {}]
    /\ open' = [open EXCEPT ![Home[k]] = FALSE]
    /\ Leave(k, "ok")
    /\ UNCHANGED owns

\* else, in a transaction that another call left open: nothing to commit.
LeaveWithoutCommit(k) ==
    /\ pc[k] = "done"
    /\ ~owns[k]
    /\ Leave(k, "ok")
    /\ UNCHANGED <<owns, open, pending, durable>>

\* COMMIT raises in the else clause, where no except clause sees it.
CommitRaises(k) ==
    /\ Hits("commit", k)
    /\ pc[k] = "done"
    /\ owns[k]
    /\ OthersRead(Home[k])
    /\ Leave(k, "error")
    /\ UNCHANGED <<owns, open, pending, durable>>

-----------------------------------------------------------------------------

CallStep(k) ==
    \/ TakeLock(k) \/ Begin(k) \/ BeginTimesOut(k) \/ WriteStep(k)
    \/ Raise(k) \/ Interrupt(k) \/ Commit(k) \/ LeaveWithoutCommit(k) \/ CommitRaises(k)

Next ==
    \/ \E k \in Call : CallStep(k)
    \/ \E c \in Conn : BeginRead(c) \/ EndRead(c) \/ Restart(c)

\* A running call goes on, a query ends, and the RLock and the commit are not
\* denied for ever to a call that waits for them (queries come and go).
Fairness ==
    /\ \A k \in Call : SF_vars(CallStep(k))
    /\ \A c \in Conn : WF_vars(EndRead(c))

Spec == Init /\ [][Next]_vars /\ Fairness

-----------------------------------------------------------------------------
(* Type invariant *)

TypeOK ==
    /\ pc \in [Call -> Stage]
    /\ owns \in [Call -> BOOLEAN]
    /\ lock \in [Conn -> Call \cup {None, "reader"}]
    /\ open \in [Conn -> BOOLEAN]
    /\ pending \in [Conn -> SUBSET Write]
    /\ durable \subseteq Write

-----------------------------------------------------------------------------
(* Safety *)

\* Other connections never see half a body, and what is committed is a set of
\* whole calls: the database is always in a state between two operations.
WholeCallsDurable ==
    \A k \in Call : <<k, 1>> \in durable \/ <<k, 2>> \in durable => WritesOf(k) \subseteq durable

\* skills/context-handoff/references/task-state-rules.md:98: "A failed target
\* Task creation leaves the prior Task active because the transaction rolls
\* back." A call that answered with an error left nothing to be seen, in its
\* own connection or any other.
FailedLeavesNothing ==
    \A k \in Call : pc[k] = "error" => \A c \in Conn : Visible(c) \cap WritesOf(k) = {}

\* A connection that meets no fault keeps its word, whatever goes wrong on the
\* others: ok means on disk, a failure means not a trace.
HealthyIsAtomic ==
    \A k \in Call : Home[k] \notin Faulty =>
        /\ pc[k] = "ok" => WritesOf(k) \subseteq durable
        /\ pc[k] \in Failed => \A c \in Conn : Visible(c) \cap WritesOf(k) = {}

\* Even when COMMIT fails or a body is interrupted, no later call commits the
\* writes of a call that answered with an error or that an exception left.
ErrorIsNotDurable ==
    \A k \in Call : pc[k] \in Failed => durable \cap WritesOf(k) = {}

-----------------------------------------------------------------------------
(* Liveness *)

\* No call waits for ever, for the RLock, the write lock or readers: each ends,
\* with its reply or with an exception for the host.
EveryCallEnds == \A k \in Call : <>(pc[k] \in Ended)

\* A connection that meets no fault always gives the write lock back, whatever
\* is left open on others.
WriteLockReleased == \A c \in Conn \ Faulty : open[c] ~> ~open[c]

=============================================================================
