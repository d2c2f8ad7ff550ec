------------------------------ MODULE TaskQueue ------------------------------
(***************************************************************************)
(* What docling-serve relies on of its orchestrator (docling_jobkit: a     *)
(* local, RQ or Ray engine): tasks with an owner, a status that other      *)
(* processes advance, and a removal after which a call that names the      *)
(* task raises TaskNotFoundError, or has nothing to return where it asks   *)
(* for a result.  External: modelled from how the handlers of              *)
(* docling_serve use it.                                                   *)
(***************************************************************************)
EXTENDS Naturals

CONSTANTS
    Tasks,        \* task identifiers
    Tenants,      \* tenants, of which one is "default" when none are used
    Endings,      \* the ways a task may end
    OwnerOf       \* OwnerOf[t]: metadata["tenant_id"] that t is enqueued with

ASSUME TaskAssumption ==
    /\ OwnerOf \in [Tasks -> Tenants]
    /\ Endings \subseteq {"success", "failure"}

VARIABLE
    status        \* status[t]: what task_status reports of t

Completed == {"success", "failure"}
Live == {"pending", "started"} \cup Completed
Statuses == Live \cup {"absent", "removed"}

\* task_status returns; otherwise it raises TaskNotFoundError.
Found(t) == status[t] \in Live

QueueType == status \in [Tasks -> Statuses]

QueueInit == status = [t \in Tasks |-> "absent"]

Advance(t, from, to) ==
    /\ status[t] \in from
    /\ status' = [status EXCEPT ![t] = to]

\* The identifier of a task is fresh.
Accept(t) == Advance(t, {"absent"}, "pending")

Start(t) == Advance(t, {"pending"}, "started")

\* A task that never starts is failed by the engine (reaper, lost worker).
Complete(t) ==
    \/ "success" \in Endings /\ Advance(t, {"started"}, "success")
    \/ "failure" \in Endings /\ Advance(t, {"pending", "started"}, "failure")

\* After the delay that follows a fetch, by clear_results or by a TTL.
Remove(t) == Advance(t, Completed, "removed")
=============================================================================
