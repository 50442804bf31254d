------------------------------ MODULE TaskLease ------------------------------
(***************************************************************************)
(* What the services promise about tasks, with the tables taken away: a    *)
(* task is leased to at most one session, a session leases at most one     *)
(* task, a session gets a task only when nobody has it, gives back the one *)
(* it had in the same step, and a finished task is never leased again.     *)
(***************************************************************************)
CONSTANTS TaskId, SessionId

VARIABLE
    lease    \* per task: "absent", "free", "finished" or the session that has it

Holds(s, t) == lease[t] = s

Init == lease = [t \in TaskId |-> "absent"]

\* A new or a free task goes to s, which gives back whatever it held.
Acquire(s, t) ==
    /\ lease[t] \in {"absent", "free"}
    /\ lease' = [u \in TaskId |-> IF u = t THEN s
                                  ELSE IF Holds(s, u) THEN "free" ELSE lease[u]]

Release(s, t) ==
    /\ Holds(s, t)
    /\ lease' = [lease EXCEPT ![t] = "free"]

Finish(s, t) ==
    /\ Holds(s, t)
    /\ lease' = [lease EXCEPT ![t] = "finished"]

Next == \E s \in SessionId, t \in TaskId : Acquire(s, t) \/ Release(s, t) \/ Finish(s, t)

Spec == Init /\ [][Next]_lease

=============================================================================
