------------------------- MODULE TaskLeaseRefinement -------------------------
(* TaskLifecycle implements TaskLease: the lease of an active task is with  *)
(* the session whose pointer names it.                                      *)
EXTENDS TaskLifecycle

ASSUME HolderAssumption == SessionId \cap {"absent", "free", "finished"} = {}

LeaseOf(t) ==
    CASE tasks[t].status = "active"      -> CHOOSE s \in SessionId : sessions[s].task = t
      [] tasks[t].status \in Resumable   -> "free"
      [] tasks[t].status \in Finished    -> "finished"
      [] tasks[t].status = "absent"      -> "absent"

Lease == INSTANCE TaskLease WITH lease <- [t \in TaskId |-> LeaseOf(t)]

\* Every operation, with its switches, pauses and transitions, is one step of
\* the lease protocol or leaves the leases alone (rotate, update, events).
LeaseProtocol == Lease!Spec

=============================================================================
