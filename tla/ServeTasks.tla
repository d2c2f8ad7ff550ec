------------------------------ MODULE ServeTasks ------------------------------
(***************************************************************************)
(* The HTTP endpoints of docling-serve that create tasks and look at them: *)
(* the synchronous ones (enqueue, poll until completed or until            *)
(* max_sync_wait, fetch the result), the asynchronous ones (enqueue,       *)
(* answer with the identifier), /v1/status/poll, /v1/result and            *)
(* /v1/clear/results, with results that are removed some time after they   *)
(* were fetched (single_use_results).                                      *)
(*                                                                         *)
(* A request is one activation of a handler; a step is what it does from   *)
(* one await on the orchestrator to the next.                              *)
(*                                                                         *)
(* Abstractions.  Requests here have passed authentication and the checks  *)
(* of module ServePolicy.  Convert, batch and chunk endpoints differ only  *)
(* in those checks and in what they enqueue.  Time is the number of sleeps *)
(* between two looks.  The wait parameter of a poll is a task_status that  *)
(* returns late.  The tenant of a new task is the one of its request.      *)
(***************************************************************************)
EXTENDS TaskQueue

CONSTANTS
    Requests,
    MaxSleeps,    \* max_sync_wait in units of sync_poll_interval
    SingleUse     \* single_use_results

ASSUME RequestAssumption ==
    /\ MaxSleeps \in Nat
    /\ SingleUse \in BOOLEAN

VARIABLES
    kind,         \* kind[r]: the endpoint r calls
    tenant,       \* tenant[r]: its tenant header
    task,         \* task[r]: the task it names; once enqueued, its own
    at,           \* at[r]: where its handler is
    saw,          \* saw[r]: what task_status returned last
    slept,        \* slept[r]: sleeps since the wait began
    answer,       \* answer[r]: status code and what the body is about
    expiring      \* tasks whose on_result_fetched is running

request == <<kind, tenant, task>>
vars == <<status, request, at, saw, slept, answer, expiring>>

Submitting == {"sync", "async"}
Looking == {"poll", "result"}
Codes == {0, 200, 404, 500, 503, 504}
Bodies == {"nothing", "identifier", "status", "result", "failure"}
NoAnswer == [code |-> 0, body |-> "nothing"]

TypeOK ==
    /\ QueueType
    /\ kind \in [Requests -> Submitting \cup Looking]
    /\ tenant \in [Requests -> Tenants]
    /\ task \in [Requests -> Tasks]
    /\ at \in [Requests -> {"off", "look", "sleep", "fetch", "position", "done"}]
    /\ saw \in [Requests -> Statuses]
    /\ slept \in [Requests -> 0..(MaxSleeps + 1)]
    /\ answer \in [Requests -> [code : Codes, body : Bodies]]
    /\ \A r \in Requests : at[r] = "done" <=> answer[r].code # 0
    /\ expiring \subseteq Tasks

Init ==
    /\ QueueInit
    /\ kind \in [Requests -> Submitting \cup Looking]
    /\ tenant \in [Requests -> Tenants]
    /\ task \in [Requests -> Tasks]
    /\ at = [r \in Requests |-> "off"]
    /\ saw = [r \in Requests |-> "absent"]
    /\ slept = [r \in Requests |-> 0]
    /\ answer = [r \in Requests |-> NoAnswer]
    /\ expiring = {}

-----------------------------------------------------------------------------
Goto(r, from, to) ==
    /\ at[r] = from
    /\ at' = [at EXCEPT ![r] = to]

Reply(r, from, code, body) ==
    /\ Goto(r, from, "done")
    /\ answer' = [answer EXCEPT ![r] = [code |-> code, body |-> body]]

\* RedisBackpressureError or an unavailable dispatcher, at any call.
Busy(r) ==
    /\ \/ Reply(r, "look", 503, "nothing") \/ Reply(r, "position", 503, "nothing")
       \/ Reply(r, "fetch", 503, "nothing")
    /\ UNCHANGED <<status, request, saw, slept, expiring>>

\* The enqueue itself raises: nothing was created.
EnqueueFails(r) ==
    /\ kind[r] \in Submitting
    /\ Reply(r, "off", 503, "nothing")
    /\ UNCHANGED <<status, request, saw, slept, expiring>>

\* _enqueue_source, _enqueue_file: the tenant goes into the metadata before
\* the task exists.
Enqueue(r, t, next) ==
    /\ OwnerOf[t] = tenant[r]
    /\ Accept(t)
    /\ Goto(r, "off", next)
    /\ task' = [task EXCEPT ![r] = t]
    /\ UNCHANGED <<kind, tenant, saw, slept, answer, expiring>>

\* A synchronous endpoint waits for its task next.
EnqueueSync(r, t) == kind[r] = "sync" /\ Enqueue(r, t, "look")

\* An asynchronous one asks for the position of it.
EnqueueAsync(r, t) == kind[r] = "async" /\ Enqueue(r, t, "position")

-----------------------------------------------------------------------------
(* _wait_task_complete and what follows it in a synchronous endpoint. *)

\* Broken: whatever is no longer pending counts as completed.
LookHasty(r) ==
    /\ kind[r] = "sync"
    /\ Found(task[r])
    /\ saw' = [saw EXCEPT ![r] = status[task[r]]]
    /\ Goto(r, "look", IF status[task[r]] # "pending" THEN "fetch" ELSE "sleep")
    /\ UNCHANGED <<status, request, slept, answer, expiring>>

Look(r) ==
    /\ kind[r] = "sync"
    /\ Found(task[r])
    /\ saw' = [saw EXCEPT ![r] = status[task[r]]]
    /\ Goto(r, "look", IF status[task[r]] \in Completed THEN "fetch" ELSE "sleep")
    /\ UNCHANGED <<status, request, slept, answer, expiring>>

\* Nothing catches a TaskNotFoundError here.
LookFails(r) ==
    /\ kind[r] = "sync"
    /\ ~Found(task[r])
    /\ Reply(r, "look", 500, "nothing")
    /\ UNCHANGED <<status, request, saw, slept, expiring>>

\* Broken: no limit.
SleepAlways(r) ==
    /\ Goto(r, "sleep", "look")
    /\ UNCHANGED <<status, request, saw, slept, answer, expiring>>

\* The clock is read after the sleep, without another look.
Sleep(r) ==
    /\ slept' = [slept EXCEPT ![r] = @ + 1]
    /\ \/ slept[r] + 1 <= MaxSleeps /\ Goto(r, "sleep", "look") /\ UNCHANGED answer
       \/ slept[r] + 1 > MaxSleeps /\ Reply(r, "sleep", 504, "nothing")
    /\ UNCHANGED <<status, request, saw, expiring>>

\* Broken: only /v1/result schedules the removal.
RespondKeeps(r) ==
    /\ Reply(r, "fetch", 200, "result")
    /\ expiring' = IF kind[r] = "result" THEN expiring \cup {task[r]} ELSE expiring
    /\ UNCHANGED <<status, request, saw, slept>>

\* prepare_response: the removal runs after the response.
Respond(r) ==
    /\ Reply(r, "fetch", 200, "result")
    /\ expiring' = IF SingleUse THEN expiring \cup {task[r]} ELSE expiring
    /\ UNCHANGED <<status, request, saw, slept>>

\* task_result of a synchronous endpoint, task_outcome of /v1/result.
Fetch(r) == status[task[r]] = "success" /\ Respond(r)

\* A failure is reported by /v1/result; task_result has none to return.
FetchFailure(r) ==
    /\ kind[r] = "result" /\ status[task[r]] = "failure"
    /\ Reply(r, "fetch", 200, "failure")
    /\ UNCHANGED <<status, request, saw, slept, expiring>>

\* No result, or no task any more, which the two endpoints take alike.
FetchNothing(r) ==
    /\ status[task[r]] # "success"
    /\ ~(kind[r] = "result" /\ status[task[r]] = "failure")
    /\ Reply(r, "fetch", 404, "nothing")
    /\ UNCHANGED <<status, request, saw, slept, expiring>>

\* Nothing catches a TaskNotFoundError in a synchronous endpoint.
FetchFails(r) ==
    /\ kind[r] = "sync"
    /\ ~Found(task[r])
    /\ Reply(r, "fetch", 500, "nothing")
    /\ UNCHANGED <<status, request, saw, slept, expiring>>

-----------------------------------------------------------------------------
(* Looking at a task somebody enqueued. *)

\* Broken: any tenant may look at any task.
MayLookAnyone(r) == saw[r] \in Live

MayLook(r) == saw[r] \in Live /\ OwnerOf[task[r]] = tenant[r]

\* await task_status, possibly late; _assert_task_tenant follows.
Status(r) ==
    /\ kind[r] \in Looking
    /\ Goto(r, "off", "look")
    /\ saw' = [saw EXCEPT ![r] = status[task[r]]]
    /\ UNCHANGED <<status, request, slept, answer, expiring>>

Allow(r) ==
    /\ kind[r] \in Looking /\ MayLook(r)
    /\ Goto(r, "look", IF kind[r] = "poll" THEN "position" ELSE "fetch")
    /\ UNCHANGED <<status, request, saw, slept, answer, expiring>>

\* TaskNotFoundError, whether the task is unknown or another tenant's.
Deny(r) ==
    /\ kind[r] \in Looking /\ ~MayLook(r)
    /\ Reply(r, "look", 404, "nothing")
    /\ UNCHANGED <<status, request, saw, slept, expiring>>

\* The queue position is added to a status that was read before.
Position(r) ==
    /\ Reply(r, "position", 200, IF kind[r] = "poll" THEN "status" ELSE "identifier")
    /\ UNCHANGED <<status, request, saw, slept, expiring>>

PositionNotFound(r) ==
    /\ ~Found(task[r])
    /\ Reply(r, "position", IF kind[r] = "poll" THEN 404 ELSE 500, "nothing")
    /\ UNCHANGED <<status, request, saw, slept, expiring>>

Handler(r) ==
    \/ Look(r) \/ LookFails(r) \/ Sleep(r) \/ Fetch(r) \/ FetchFailure(r)
    \/ FetchNothing(r) \/ FetchFails(r) \/ Allow(r) \/ Deny(r) \/ Position(r) \/ PositionNotFound(r)

-----------------------------------------------------------------------------
(* The engine and the removal of tasks. *)

Work(t) ==
    /\ Start(t) \/ Complete(t)
    /\ UNCHANGED <<request, at, saw, slept, answer, expiring>>

\* on_result_fetched, after result_removal_delay.
Expire(t) ==
    /\ t \in expiring
    /\ expiring' = expiring \ {t}
    /\ status' = [status EXCEPT ![t] = IF @ \in Completed THEN "removed" ELSE @]
    /\ UNCHANGED <<request, at, saw, slept, answer>>

\* clear_results(older_than), whoever owns the tasks.
ClearResults ==
    /\ \E old \in SUBSET {t \in Tasks : status[t] \in Completed} :
          status' = [t \in Tasks |-> IF t \in old THEN "removed" ELSE status[t]]
    /\ UNCHANGED <<request, at, saw, slept, answer, expiring>>

-----------------------------------------------------------------------------
Next ==
    \/ \E r \in Requests : EnqueueFails(r) \/ Status(r) \/ Handler(r) \/ Busy(r)
    \/ \E r \in Requests, t \in Tasks : EnqueueSync(r, t) \/ EnqueueAsync(r, t)
    \/ \E t \in Tasks : Work(t) \/ Expire(t)
    \/ ClearResults

Spec == Init /\ [][Next]_vars

(***************************************************************************)
(* Fairness.  Calls on the orchestrator return, sleeps end, and a          *)
(* scheduled removal is run.  No task has to be worked on, and nobody is   *)
(* rescued by a call that raises Busy.                                     *)
(***************************************************************************)
Fairness ==
    /\ \A r \in Requests : WF_vars(Handler(r))
    /\ \A t \in Tasks : WF_vars(Expire(t))

FairSpec == Spec /\ Fairness

-----------------------------------------------------------------------------
(* Properties. *)

\* Whatever a request is told, by status, failure or result, is about a task
\* of its own tenant, also when the task was removed in between.
OwnerOnlyAnswers ==
    \A r \in Requests : answer[r].code = 200 => OwnerOf[task[r]] = tenant[r]

\* A synchronous request is told that there is no result, or that the server
\* failed, only when its conversion failed or its task was cleared under it: a
\* conversion that succeeded and is kept is answered with neither 404 nor 500.
NoResultIsTrue ==
    \A r \in Requests :
        (kind[r] = "sync" /\ answer[r].code \in {404, 500}) =>
            status[task[r]] \in {"failure", "removed"}

\* Every request is answered, also when its task is never worked on, or is
\* removed while the handler waits for it.
EveryRequestAnswered == \A r \in Requests : (at[r] # "off") ~> (at[r] = "done")

\* A result that was handed out does not stay: its task is removed, however
\* many requests fetched it and whatever clear_results does meanwhile.
FetchedIsReleased ==
    \A r \in Requests :
        (SingleUse /\ answer[r].body = "result") ~> (status[task[r]] = "removed")

=============================================================================
