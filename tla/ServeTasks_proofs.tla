-------------------------- MODULE ServeTasks_proofs --------------------------
(***************************************************************************)
(* Theorems about ServeTasks, for any number of requests, tasks, tenants   *)
(* and sleeps that satisfy TaskAssumption and RequestAssumption.           *)
(***************************************************************************)
EXTENDS ServeTasks, TLAPS

\* The clock of a waiting request has not run out.
InTime == \A r \in Requests : at[r] # "done" => slept[r] <= MaxSleeps

\* Where the handler of a request can still hand something out, the request
\* comes from the tenant that owns its task.
Entitled ==
    \A r \in Requests :
        \/ at[r] \in {"sleep", "fetch", "position"}
        \/ at[r] = "look" /\ kind[r] \in Submitting
        \/ answer[r].code = 200
        => OwnerOf[task[r]] = tenant[r]

\* A synchronous request that is about to fetch has seen its task completed.
FetchesCompleted ==
    \A r \in Requests :
        kind[r] = "sync" /\ at[r] = "fetch" => status[task[r]] \in Completed \cup {"removed"}

\* A synchronous request does not ask for a position, and the task it waits for
\* was created.
Waiting ==
    \A r \in Requests :
        kind[r] = "sync" =>
            /\ at[r] # "position"
            /\ at[r] \in {"look", "sleep", "fetch"} => status[task[r]] # "absent"

IInv == TypeOK /\ InTime /\ Entitled /\ FetchesCompleted /\ Waiting /\ NoResultIsTrue

-----------------------------------------------------------------------------
(* Initially.                                                              *)

\* Initially nothing was sent.
LEMMA InitInv == Init => IInv
<1> SUFFICES ASSUME Init PROVE IInv
  OBVIOUS
<1> USE DEF Init
<1>1. TypeOK
  BY RequestAssumption
  DEF TypeOK, QueueInit, QueueType, Statuses, NoAnswer, Codes, Bodies
<1>2. InTime
  BY RequestAssumption DEF InTime
<1>3. Entitled /\ FetchesCompleted /\ Waiting /\ NoResultIsTrue
  BY DEF Entitled, FetchesCompleted, Waiting, NoResultIsTrue, NoAnswer
<1> QED
  BY <1>1, <1>2, <1>3 DEF IInv

-----------------------------------------------------------------------------
(* Steps.                                                                  *)

\* What tasks do to each other's observers: a completed task stays completed
\* until it is removed, and for good then; and none vanishes.
Settled == \A t \in Tasks :
    /\ status[t] \in Completed \cup {"removed"} => status'[t] \in Completed \cup {"removed"}
    /\ status[t] \in {"failure", "removed"} => status'[t] \in {"failure", "removed"}
    /\ status[t] # "absent" => status'[t] # "absent"

\* A step of the tasks alone.
LEMMA TaskStepInv ==
    ASSUME IInv, QueueType', Settled, UNCHANGED <<request, at, saw, slept, answer>>,
           expiring' \subseteq Tasks
    PROVE  IInv'
<1> USE DEF IInv, request
<1>1. TypeOK'
  BY DEF TypeOK
<1>2. InTime' /\ Entitled'
  BY DEF InTime, Entitled
<1>3. FetchesCompleted' /\ Waiting' /\ NoResultIsTrue'
  BY DEF FetchesCompleted, Waiting, NoResultIsTrue, Settled, TypeOK
<1> QED
  BY <1>1, <1>2, <1>3

\* A step of the orchestrator.
LEMMA TaskInv ==
    ASSUME IInv, NEW t \in Tasks, Work(t) \/ Expire(t) \/ ClearResults
    PROVE  IInv'
<1> USE DEF Settled, QueueType, Statuses, Live, Completed, Advance, IInv, TypeOK
<1>1. CASE Work(t)
  <2>1. QueueType' /\ Settled
    BY <1>1 DEF Work, Start, Complete
  <2> QED
    BY <1>1, <2>1, TaskStepInv DEF Work
<1>2. CASE Expire(t)
  <2>1. QueueType' /\ Settled
    BY <1>2 DEF Expire
  <2> QED
    BY <1>2, <2>1, TaskStepInv DEF Expire
<1>3. CASE ClearResults
  <2>1. QueueType' /\ Settled
    BY <1>3 DEF ClearResults
  <2> QED
    BY <1>3, <2>1, TaskStepInv DEF ClearResults
<1> QED
  BY <1>1, <1>2, <1>3

\* A request that is answered: with code and body, at the end of a handler.
LEMMA ReplyInv ==
    ASSUME IInv, NEW r \in Requests, NEW from, NEW code \in Codes \ {0}, NEW body \in Bodies,
           Reply(r, from, code, body), UNCHANGED <<status, request, saw>>,
           expiring' \subseteq Tasks,
           slept' \in [Requests -> 0..(MaxSleeps + 1)],
           \A q \in Requests \ {r} : slept'[q] = slept[q],
           code = 200 => OwnerOf[task[r]] = tenant[r],
           code \in {404, 500} /\ kind[r] = "sync" => status[task[r]] \in {"failure", "removed"}
    PROVE  IInv'
<1> USE DEF IInv, request
<1>1. /\ at' = [at EXCEPT ![r] = "done"]
      /\ answer' = [answer EXCEPT ![r] = [code |-> code, body |-> body]]
  BY DEF Reply, Goto
<1>2. at \in [Requests -> {"off", "look", "sleep", "fetch", "position", "done"}]
      /\ answer \in [Requests -> [code : Codes, body : Bodies]]
  BY DEF TypeOK
<1>3. answer' \in [Requests -> [code : Codes, body : Bodies]]
  BY <1>1, <1>2
<1>4. answer'[r].code = code /\ at'[r] = "done"
  BY <1>1, <1>2
<1>5. \A q \in Requests \ {r} : answer'[q] = answer[q] /\ at'[q] = at[q]
  BY <1>1, <1>2
<1>6. \A q \in Requests : at'[q] = "done" <=> answer'[q].code # 0
  BY <1>4, <1>5 DEF TypeOK
<1>7. TypeOK'
  BY <1>1, <1>2, <1>3, <1>6 DEF TypeOK, QueueType
<1>8. InTime'
  BY <1>4, <1>5 DEF InTime
<1>9. Entitled'
  BY <1>4, <1>5 DEF Entitled
<1>10. FetchesCompleted' /\ Waiting' /\ NoResultIsTrue'
  BY <1>4, <1>5 DEF FetchesCompleted, Waiting, NoResultIsTrue
<1> QED
  BY <1>7, <1>8, <1>9, <1>10

\* A request that moves on within its handler.
LEMMA GotoInv ==
    ASSUME IInv, NEW r \in Requests, NEW from,
           NEW to \in {"look", "sleep", "fetch", "position"},
           from # "done", Goto(r, from, to),
           UNCHANGED <<kind, tenant, answer, expiring>>,
           QueueType', Settled, task' \in [Requests -> Tasks],
           \A q \in Requests \ {r} :
               task'[q] = task[q] /\ slept'[q] = slept[q],
           saw' \in [Requests -> Statuses], slept' \in [Requests -> 0..(MaxSleeps + 1)],
           slept'[r] <= MaxSleeps,
           (to = "look" /\ kind[r] \in Looking) \/ OwnerOf[task'[r]] = tenant[r],
           to = "fetch" /\ kind[r] = "sync"
               => status'[task'[r]] \in Completed \cup {"removed"},
           kind[r] = "sync" => to # "position" /\ status'[task'[r]] # "absent"
    PROVE  IInv'
<1> USE DEF IInv
<1>1. at[r] = from /\ at' = [at EXCEPT ![r] = to]
  BY DEF Goto
<1>2. at \in [Requests -> {"off", "look", "sleep", "fetch", "position", "done"}]
      /\ task \in [Requests -> Tasks]
  BY DEF TypeOK
<1>3. at'[r] = to /\ at'[r] # "done" /\ at[r] # "done" /\ answer[r].code = 0
  BY <1>1, <1>2 DEF TypeOK
<1>4. \A q \in Requests \ {r} : at'[q] = at[q]
  BY <1>1, <1>2
<1>5. TypeOK'
  BY <1>1, <1>2, <1>3, <1>4 DEF TypeOK
<1>6. InTime'
  BY <1>3, <1>4 DEF InTime
<1>7. Entitled'
  BY <1>3, <1>4 DEF Entitled, Looking, Submitting
<1>8. FetchesCompleted'
  BY <1>2, <1>3, <1>4 DEF FetchesCompleted, Settled
<1>9. NoResultIsTrue'
  BY <1>2, <1>3, <1>4 DEF NoResultIsTrue, Settled
<1>10. Waiting'
  BY <1>2, <1>3, <1>4 DEF Waiting, Settled
<1> QED
  BY <1>5, <1>6, <1>7, <1>8, <1>9, <1>10

\* Steps that leave the tasks alone are such steps.
LEMMA SameTasks ==
    ASSUME QueueType, UNCHANGED status
    PROVE  QueueType' /\ Settled
BY DEF QueueType, Settled

-----------------------------------------------------------------------------
(* The steps of a request.                                                 *)

\* A submission that is accepted, whatever becomes of its task.
LEMMA EnqueueInv ==
    ASSUME IInv, NEW r \in Requests, NEW t \in Tasks, EnqueueSync(r, t) \/ EnqueueAsync(r, t)
    PROVE  IInv'
<1> PICK next \in {"look", "position"} :
      Enqueue(r, t, next) /\ (kind[r] = "sync" => next = "look")
  BY DEF EnqueueSync, EnqueueAsync
<1>1. QueueType' /\ Settled
  BY DEF Enqueue, Accept, Advance, IInv, TypeOK, QueueType, Settled, Statuses, Live, Completed
<1>2. task' = [task EXCEPT ![r] = t] /\ OwnerOf[t] = tenant[r] /\ Goto(r, "off", next)
      /\ UNCHANGED <<kind, tenant, saw, slept, answer, expiring>>
  BY DEF Enqueue
<1>3. task' \in [Requests -> Tasks] /\ task'[r] = t
      /\ \A q \in Requests \ {r} : task'[q] = task[q]
  BY <1>2 DEF IInv, TypeOK
<1>4. slept[r] <= MaxSleeps /\ slept' = slept
  BY <1>2 DEF IInv, InTime, Goto
<1>5. saw' \in [Requests -> Statuses] /\ slept' \in [Requests -> 0..(MaxSleeps + 1)]
  BY <1>2 DEF IInv, TypeOK
<1>6. next \in {"look", "sleep", "fetch", "position"} /\ next # "fetch" /\ "off" # "done"
  OBVIOUS
<1>7. status'[task'[r]] # "absent"
  BY <1>3 DEF Enqueue, Accept, Advance, IInv, TypeOK, QueueType
<1> QED
  BY <1>1, <1>2, <1>3, <1>4, <1>5, <1>6, <1>7, GotoInv

\* The answers that say nothing about a task.
LEMMA SilentInv ==
    ASSUME IInv, NEW r \in Requests,
           \/ EnqueueFails(r) \/ Busy(r) \/ LookFails(r) \/ FetchFails(r) \/ Deny(r)
           \/ PositionNotFound(r)
    PROVE  IInv'
<1>1. PICK from \in {"off", "look", "fetch", "position"}, code \in {404, 500, 503} :
        /\ Reply(r, from, code, "nothing")
        /\ UNCHANGED <<status, request, saw, slept, expiring>>
        /\ code = 404 => kind[r] # "sync"
        /\ code = 500 /\ kind[r] = "sync" => from \in {"look", "fetch"} /\ ~Found(task[r])
  <2>1. CASE EnqueueFails(r) \/ Busy(r)
    BY <2>1 DEF EnqueueFails, Busy
  <2>2. CASE LookFails(r) \/ FetchFails(r)
    BY <2>2 DEF LookFails, FetchFails
  <2>3. CASE Deny(r)
    BY <2>3 DEF Deny, Looking
  <2>4. CASE PositionNotFound(r)
    <3>1. at[r] = "position"
      BY <2>4 DEF PositionNotFound, Reply, Goto
    <3>2. kind[r] # "sync"
      BY <3>1 DEF IInv, Waiting
    <3> QED
      BY <2>4, <3>2 DEF PositionNotFound
  <2> QED
    BY <2>1, <2>2, <2>3, <2>4
<1>2. code \in Codes \ {0} /\ "nothing" \in Bodies /\ code # 200
  BY DEF Codes, Bodies
<1>4. code \in {404, 500} /\ kind[r] = "sync" => status[task[r]] \in {"failure", "removed"}
  <2>1. at[r] = from
    BY <1>1 DEF Reply, Goto
  <2>2. code = 500 /\ kind[r] = "sync" => status[task[r]] \in Statuses \ (Live \cup {"absent"})
    BY <1>1, <2>1 DEF IInv, TypeOK, QueueType, Waiting, Found
  <2> QED
    BY <1>1, <2>2 DEF Statuses
<1>3. /\ slept' \in [Requests -> 0..(MaxSleeps + 1)] /\ slept' = slept
      /\ expiring' \subseteq Tasks
      /\ UNCHANGED <<status, request, saw>>
  BY <1>1 DEF IInv, TypeOK
<1> QED
  BY <1>1, <1>2, <1>3, <1>4, ReplyInv

\* Looking at the status of the task.
LEMMA LookInv ==
    ASSUME IInv, NEW r \in Requests, Look(r) \/ Status(r) \/ Allow(r)
    PROVE  IInv'
<1>1. PICK from \in {"off", "look"}, to \in {"look", "sleep", "fetch", "position"} :
        /\ Goto(r, from, to)
        /\ UNCHANGED <<status, request, slept, answer, expiring>>
        /\ saw' \in [Requests -> Statuses]
        /\ (to = "look" /\ kind[r] \in Looking) \/ OwnerOf[task[r]] = tenant[r]
        /\ to = "fetch" /\ kind[r] = "sync" => status[task[r]] \in Completed \cup {"removed"}
        /\ kind[r] = "sync" => to # "position" /\ status[task[r]] # "absent"
  <2>1. saw \in [Requests -> Statuses] /\ status[task[r]] \in Statuses
    BY DEF IInv, TypeOK, QueueType
  <2>2. CASE Look(r)
    <3>1. OwnerOf[task[r]] = tenant[r]
      BY <2>2 DEF Look, Goto, IInv, Entitled, Submitting
    <3> QED
      BY <2>1, <2>2, <3>1 DEF Look, Found, Live, Completed
  <2>3. CASE Status(r)
    BY <2>1, <2>3 DEF Status, Looking
  <2>4. CASE Allow(r)
    BY <2>1, <2>4 DEF Allow, MayLook, Looking
  <2> QED
    BY <2>2, <2>3, <2>4
<1>2. slept[r] <= MaxSleeps
  BY <1>1 DEF Goto, IInv, InTime
<1>3. QueueType' /\ Settled
  BY <1>1, SameTasks DEF IInv, TypeOK
<1> QED
  BY <1>1, <1>2, <1>3, GotoInv DEF IInv, TypeOK, request

\* Sleeping between two looks, or giving up with 504.
LEMMA SleepInv ==
    ASSUME IInv, NEW r \in Requests, Sleep(r)
    PROVE  IInv'
<1>1. /\ slept' = [slept EXCEPT ![r] = @ + 1]
      /\ at[r] = "sleep"
      /\ UNCHANGED <<status, request, saw, expiring>>
  BY DEF Sleep, Goto, Reply
<1>2. slept \in [Requests -> 0..(MaxSleeps + 1)] /\ slept[r] <= MaxSleeps
  BY <1>1 DEF IInv, TypeOK, InTime
<1>3. /\ slept' \in [Requests -> 0..(MaxSleeps + 1)]
      /\ \A q \in Requests \ {r} : slept'[q] = slept[q]
      /\ slept'[r] = slept[r] + 1
  BY <1>1, <1>2, RequestAssumption
<1>4. OwnerOf[task[r]] = tenant[r]
  BY <1>1 DEF IInv, Entitled
<1>5. CASE slept[r] + 1 <= MaxSleeps /\ Goto(r, "sleep", "look") /\ UNCHANGED answer
  <2>1. QueueType' /\ Settled
    BY <1>1, SameTasks DEF IInv, TypeOK
  <2>2. kind[r] = "sync" => status[task[r]] # "absent"
    BY <1>1 DEF IInv, Waiting
  <2> QED
    BY <1>1, <1>3, <1>4, <1>5, <2>1, <2>2, GotoInv DEF IInv, TypeOK, request
<1>6. CASE Reply(r, "sleep", 504, "nothing")
  <2>1. 504 \in Codes \ {0} /\ "nothing" \in Bodies
    BY DEF Codes, Bodies
  <2>2. expiring' \subseteq Tasks /\ UNCHANGED <<status, request, saw>>
    BY <1>1 DEF IInv, TypeOK
  <2> QED
    BY <1>3, <1>6, <2>1, <2>2, ReplyInv
<1> QED
  BY <1>5, <1>6 DEF Sleep

\* Fetching the result, or the queue position.
LEMMA FetchInv ==
    ASSUME IInv, NEW r \in Requests,
           Fetch(r) \/ FetchFailure(r) \/ FetchNothing(r) \/ Position(r)
    PROVE  IInv'
<1>1. PICK from \in {"fetch", "position"}, code \in {200, 404}, body \in Bodies :
        /\ Reply(r, from, code, body)
        /\ UNCHANGED <<status, request, saw, slept>>
        /\ expiring' \subseteq Tasks
        /\ code = 404 => from = "fetch" /\ status[task[r]] # "success"
  <2>1. expiring \subseteq Tasks /\ task[r] \in Tasks
    BY DEF IInv, TypeOK
  <2> QED
    BY <2>1 DEF Fetch, Respond, FetchFailure, FetchNothing, Position, Bodies
<1>2. at[r] = from
  BY <1>1 DEF Reply, Goto
<1>3. OwnerOf[task[r]] = tenant[r]
  BY <1>1, <1>2 DEF IInv, Entitled
<1>4. code \in {404, 500} /\ kind[r] = "sync" => status[task[r]] \in {"failure", "removed"}
  BY <1>1, <1>2 DEF IInv, FetchesCompleted, Completed
<1>5. code \in Codes \ {0}
  BY DEF Codes
<1> QED
  BY <1>1, <1>3, <1>4, <1>5, ReplyInv DEF IInv, TypeOK

-----------------------------------------------------------------------------
(* The theorems.                                                           *)

\* Every step keeps the invariant.
LEMMA StepInv == IInv /\ [Next]_vars => IInv'
<1> SUFFICES ASSUME IInv, [Next]_vars PROVE IInv'
  OBVIOUS
<1>1. CASE UNCHANGED vars
  BY <1>1 DEF vars, request, IInv, TypeOK, QueueType, InTime, Entitled, FetchesCompleted,
              Waiting, NoResultIsTrue
<1>2. ASSUME NEW r \in Requests, EnqueueFails(r) \/ Status(r) \/ Handler(r) \/ Busy(r)
      PROVE  IInv'
  BY <1>2, SilentInv, LookInv, SleepInv, FetchInv DEF Handler
<1>3. ASSUME NEW r \in Requests, NEW t \in Tasks, EnqueueSync(r, t) \/ EnqueueAsync(r, t)
      PROVE  IInv'
  BY <1>3, EnqueueInv
<1>4. ASSUME NEW t \in Tasks, Work(t) \/ Expire(t)
      PROVE  IInv'
  BY <1>4, TaskInv
<1>5. CASE ClearResults
  <2>1. CASE Tasks = {}
    BY <1>5, <2>1, TaskStepInv
    DEF ClearResults, IInv, TypeOK, QueueType, Settled
  <2>2. CASE Tasks # {}
    BY <1>5, <2>2, TaskInv
  <2> QED
    BY <2>1, <2>2
<1> QED
  BY <1>1, <1>2, <1>3, <1>4, <1>5 DEF Next

\* The inductive invariant.
THEOREM Invariance == Spec => []IInv
BY InitInv, StepInv, PTL DEF Spec

\* Every variable of the task API keeps its type, for any number of requests
\* and tasks; in particular a request is answered exactly when it is done.
THEOREM TypeCorrect == Spec => []TypeOK
<1>1. IInv => TypeOK
  BY DEF IInv
<1> QED
  BY <1>1, Invariance, PTL

\* Whatever a request is told is about a task of its own tenant.
THEOREM AnswersStayWithTheirOwner == Spec => []OwnerOnlyAnswers
<1>1. IInv => OwnerOnlyAnswers
  BY DEF IInv, Entitled, OwnerOnlyAnswers
<1> QED
  BY <1>1, Invariance, PTL

\* A synchronous request is told that there is no result, or that the server
\* failed, only when its conversion failed or its task was removed.
THEOREM NoResultIsNeverWrong == Spec => []NoResultIsTrue
<1>1. IInv => NoResultIsTrue
  BY DEF IInv
<1> QED
  BY <1>1, Invariance, PTL

=============================================================================
