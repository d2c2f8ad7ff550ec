------------------------------ MODULE ServeWatch ------------------------------
(***************************************************************************)
(* Watching a task over a websocket: the handler of /v1/status/ws, the     *)
(* WebsocketNotifier that pushes updates to its subscribers, the listener  *)
(* of the orchestrator that drives the notifier, and the supervision that  *)
(* has the pod restarted when the listener dies.                           *)
(*                                                                         *)
(* All of it runs on one event loop, so a step here is what happens from   *)
(* one await to the next.  A status that an await returned is kept (seen,  *)
(* news) and used in a later step, when the task may have moved on.        *)
(*                                                                         *)
(* Abstractions.  A message is the status it carries; the queue position   *)
(* is a call that may raise.  TaskNotFoundError and RedisBackpressureError *)
(* end a handler in the same way up to the text of a last message.  The    *)
(* listener is one loop (RQ, Ray).  The keys visited by                    *)
(* notify_queue_positions are those present when each is visited, and the  *)
(* status it reads is the one notify_task_subscribers reads again; updates *)
(* of a task that wait together are taken as one, which changes nothing as *)
(* the notifier reads the status itself.                                   *)
(***************************************************************************)
EXTENDS TaskQueue

CONSTANTS
    Sockets,      \* websocket connections, one handler activation each
    Chatty,       \* those whose client keeps sending messages
    Nobody        \* no task

ASSUME SocketAssumption ==
    /\ Chatty \subseteq Sockets
    /\ Nobody \notin Tasks

VARIABLES
    at,           \* at[s]: where the handler of s is
    conn,         \* conn[s]: the connection; closed by either end or lost
    about,        \* about[s]: the task its client names in the URL
    tenant,       \* tenant[s]: the tenant it names in the query
    seen,         \* seen[s]: what task_status returned, until it is sent
    listed,       \* keys of WebsocketNotifier.task_subscribers
    subscribers,  \* subscribers[t]: its value, {} for a task not listed
    dropping,     \* dropping[t]: sockets a remove_task has yet to close
    forgotten,    \* history: sockets a remove_task raised before closing
    listener,     \* where the listener loop is
    topic,        \* the task it is notifying about
    news,         \* the status it has read
    targets,      \* sockets it has yet to send to
    round,        \* tasks notify_queue_positions has yet to look at
    events,       \* tasks with an update published and not yet taken
    failed,       \* _queue_processor_failed
    missed        \* history: an update that was not pushed

handlers == <<at, conn, about, tenant, seen>>
notifier == <<listed, subscribers, dropping, forgotten>>
loop == <<listener, topic, news, targets, round>>
health == <<failed, missed>>
vars == <<status, handlers, notifier, loop, events, health>>

HandlerPc == {"off", "subscribe", "hello", "refresh", "update", "wait",
              "done"}
LoopPc == {"idle", "position", "push", "round", "stopped"}
Subscribing == {"hello", "refresh", "update", "wait"}

TypeOK ==
    /\ QueueType
    /\ at \in [Sockets -> HandlerPc]
    /\ conn \in [Sockets -> {"none", "open", "closed"}]
    /\ about \in [Sockets -> Tasks]
    /\ tenant \in [Sockets -> Tenants]
    /\ seen \in [Sockets -> Statuses]
    /\ listed \subseteq Tasks
    /\ subscribers \in [Tasks -> SUBSET Sockets]
    /\ dropping \in [Tasks -> SUBSET Sockets]
    /\ forgotten \subseteq Sockets
    /\ listener \in LoopPc
    /\ topic \in IF listener \in {"position", "push"} THEN Tasks ELSE {Nobody}
    /\ news \in Statuses
    /\ targets \in IF listener = "push" THEN SUBSET Sockets ELSE {{}}
    /\ round \subseteq Tasks
    /\ events \subseteq Tasks
    /\ failed \in BOOLEAN
    /\ missed \in BOOLEAN

Init ==
    /\ QueueInit
    /\ at = [s \in Sockets |-> "off"]
    /\ conn = [s \in Sockets |-> "none"]
    /\ about \in [Sockets -> Tasks]
    /\ tenant \in [Sockets -> Tenants]
    /\ seen = [s \in Sockets |-> "absent"]
    /\ listed = {}
    /\ subscribers = [t \in Tasks |-> {}]
    /\ dropping = [t \in Tasks |-> {}]
    /\ forgotten = {}
    /\ listener = "idle"
    /\ topic = Nobody
    /\ news = "absent"
    /\ targets = {}
    /\ round = {}
    /\ events = {}
    /\ failed = FALSE
    /\ missed = FALSE

-----------------------------------------------------------------------------
(* The handler of a websocket. *)

Goto(s, from, to) ==
    /\ at[s] \in from
    /\ at' = [at EXCEPT ![s] = to]

\* websocket.close(); on a connection that is not open it changes nothing
\* (and raises).
Shut(s) == conn' = [conn EXCEPT ![s] = "closed"]

\* The handler's locals end with it.
Forget(s) == seen' = [seen EXCEPT ![s] = "absent"]

\* Broken: no finally clause.
FinishLeaving(s) ==
    /\ Shut(s)
    /\ Forget(s)
    /\ UNCHANGED <<subscribers, listed, dropping, forgotten>>

\* The connection is closed and the finally clause discards the socket from
\* its set; the key stays.
Finish(s) ==
    /\ Shut(s)
    /\ Forget(s)
    /\ subscribers' = [subscribers EXCEPT ![about[s]] = @ \ {s}]
    /\ UNCHANGED <<listed, dropping, forgotten>>

\* The key is checked, the websocket accepted, and await task_status returns
\* the task or raises (absent).
Connect(s) ==
    /\ Goto(s, {"off"}, "subscribe")
    /\ conn' = [conn EXCEPT ![s] = "open"]
    /\ \E r \in {status[about[s]], "absent"} : seen' = [seen EXCEPT ![s] = r]
    /\ UNCHANGED <<status, about, tenant, notifier, loop, events, health>>

\* Broken: any tenant may watch any task.
AdmittedAnyone(s) == seen[s] \in Live

\* Not found and a tenant that does not own the task are the same answer.
Admitted(s) == seen[s] \in Live /\ OwnerOf[about[s]] = tenant[s]

\* setdefault(task_id, set()).add(websocket), with no await since the status.
Subscribe(s) ==
    /\ Admitted(s)
    /\ Goto(s, {"subscribe"}, "hello")
    /\ listed' = listed \cup {about[s]}
    /\ subscribers' = [subscribers EXCEPT ![about[s]] = @ \cup {s}]
    /\ UNCHANGED <<status, conn, about, tenant, seen, dropping,
                   forgotten, loop, events, health>>

Refuse(s) ==
    /\ ~Admitted(s)
    /\ Goto(s, {"subscribe"}, "done")
    /\ Shut(s)
    /\ Forget(s)
    /\ UNCHANGED <<status, about, tenant, notifier, loop, events, health>>

\* The CONNECTION message, then each UPDATE message: a send on a connection
\* that is gone raises and ends the handler.
Send(s, from, to) ==
    /\ conn[s] = "open"
    /\ Goto(s, {from}, to)
    /\ seen' = [seen EXCEPT ![s] = "absent"]
    /\ UNCHANGED <<status, conn, about, tenant, notifier, loop, events, health>>

\* Broken: the status is not read again after the subscription.
HelloOnly(s) == Send(s, "hello", "wait")

Hello(s) == Send(s, "hello", "refresh")

Refresh(s) ==
    /\ at[s] = "refresh" /\ Found(about[s])
    /\ Goto(s, {"refresh"}, "update")
    /\ seen' = [seen EXCEPT ![s] = status[about[s]]]
    /\ UNCHANGED <<status, conn, about, tenant, notifier, loop, events, health>>

Update(s) ==
    /\ seen[s] \notin Completed
    /\ Send(s, "update", "wait")

\* Broken: the handler leaves closing to the push.
FinalUpdateStays(s) ==
    /\ seen[s] \in Completed
    /\ Send(s, "update", "wait")

FinalUpdate(s) ==
    /\ seen[s] \in Completed
    /\ conn[s] = "open"
    /\ Goto(s, {"update"}, "done")
    /\ Finish(s)
    /\ UNCHANGED <<status, about, tenant, loop, events, health>>

SendFails(s) ==
    /\ conn[s] # "open"
    /\ Goto(s, {"hello", "update"}, "done")
    /\ Finish(s)
    /\ UNCHANGED <<status, about, tenant, loop, events, health>>

\* task_status or get_queue_position raises.
CallRaises(s) ==
    /\ Goto(s, {"hello", "refresh", "update"}, "done")
    /\ Finish(s)
    /\ UNCHANGED <<status, about, tenant, loop, events, health>>

TaskGone(s) == ~Found(about[s]) /\ CallRaises(s)

\* RedisBackpressureError, at any time.
Busy(s) == CallRaises(s)

\* receive_text returns: any message asks for an update.
Ask(s) ==
    /\ conn[s] = "open"
    /\ Goto(s, {"wait"}, "refresh")
    /\ UNCHANGED <<status, conn, about, tenant, seen, notifier, loop, events, health>>

\* receive_text raises: the connection was closed by the notifier or lost.
Disconnected(s) ==
    /\ conn[s] # "open"
    /\ Goto(s, {"wait"}, "done")
    /\ Finish(s)
    /\ UNCHANGED <<status, about, tenant, loop, events, health>>

Leave(s) ==
    /\ conn[s] = "open"
    /\ Shut(s)
    /\ UNCHANGED <<status, at, about, tenant, seen, notifier, loop, events, health>>

Handler(s) ==
    \/ Subscribe(s) \/ Refuse(s) \/ Hello(s) \/ Refresh(s)
    \/ Update(s) \/ FinalUpdate(s) \/ SendFails(s) \/ TaskGone(s) \/ Disconnected(s)

-----------------------------------------------------------------------------
(* The notifier, called by the listener loop for each published update. *)

LoopGoto(from, to) ==
    /\ listener = from
    /\ listener' = to

\* notify_task_subscribers reads the status of a task that has an entry.
Notify(t) ==
    /\ t \in listed
    /\ listener' = "position"
    /\ topic' = t
    /\ news' = status[t]

\* Broken: a notification that ends early leaves its locals behind.
EndNotifyKeeps ==
    /\ listener' = "round"
    /\ UNCHANGED <<topic, news>>

EndNotify ==
    /\ listener' = "round"
    /\ topic' = Nobody
    /\ news' = "absent"

\* The update of a task is taken.  A call that raises is logged and nobody
\* is notified; a task without an entry is skipped.
Take(t) ==
    /\ listener = "idle"
    /\ t \in events
    /\ events' = events \ {t}
    /\ round' = Tasks
    /\ \/ Found(t) /\ Notify(t) /\ UNCHANGED missed
       \/ t \in listed /\ EndNotify /\ missed' = TRUE
       \/ t \notin listed /\ EndNotify /\ UNCHANGED missed
    /\ UNCHANGED <<status, handlers, notifier, targets, failed>>

\* get_queue_position returned: the payload is built and the subscribers of
\* this moment are listed.
Prepare ==
    /\ LoopGoto("position", "push")
    /\ targets' = subscribers[topic]
    /\ UNCHANGED <<status, handlers, notifier, topic, news, round, events, health>>

PositionFails ==
    /\ listener = "position"
    /\ EndNotify
    /\ missed' = TRUE
    /\ UNCHANGED <<status, handlers, notifier, targets, round, events, failed>>

\* A final update is followed by a close.
Push(s) ==
    /\ listener = "push"
    /\ s \in targets /\ conn[s] = "open"
    /\ targets' = targets \ {s}
    /\ \/ /\ news \in Completed
          /\ Shut(s)
       \/ /\ news \notin Completed
          /\ UNCHANGED conn
    /\ UNCHANGED <<status, at, about, tenant, seen, notifier, listener, topic, news, round,
                   events, health>>

\* A send that raises: the socket is discarded.
PushFails(s) ==
    /\ listener = "push"
    /\ s \in targets /\ conn[s] # "open"
    /\ targets' = targets \ {s}
    /\ subscribers' = [subscribers EXCEPT ![topic] = @ \ {s}]
    /\ UNCHANGED <<status, handlers, listed, dropping, forgotten, listener, topic,
                   news, round, events, health>>

PushDone ==
    /\ listener = "push"
    /\ targets = {}
    /\ EndNotify
    /\ UNCHANGED <<status, handlers, notifier, targets, round, events, health>>

\* notify_queue_positions: a subscribed task that is still pending is
\* notified; a call that raises is logged.
VisitKey(t) ==
    /\ listener = "round"
    /\ t \in round
    /\ round' = round \ {t}
    /\ \/ status[t] = "pending" /\ Notify(t)
       \/ UNCHANGED <<listener, topic, news>>
    /\ UNCHANGED <<status, handlers, notifier, targets, events, health>>

RoundDone ==
    /\ LoopGoto("round", "idle")
    /\ round = {}
    /\ UNCHANGED <<status, handlers, notifier, topic, news, targets, round, events,
                   health>>

Listener ==
    \/ \E t \in Tasks : Take(t) \/ VisitKey(t)
    \/ \E s \in Sockets : Push(s) \/ PushFails(s)
    \/ Prepare \/ PositionFails \/ PushDone \/ RoundDone

-----------------------------------------------------------------------------
(* Tasks: other processes advance them and publish each change. *)

Untouched == UNCHANGED <<handlers, loop, health>>

\* Enqueued by this replica (add_task) or by another one.
Enqueue(t) ==
    /\ Accept(t)
    /\ \/ /\ listed' = listed \cup {t}
          /\ subscribers' = [subscribers EXCEPT ![t] = {}]
       \/ UNCHANGED <<listed, subscribers>>
    /\ UNCHANGED <<dropping, forgotten, events>>
    /\ Untouched

Progress(t) ==
    /\ Start(t) \/ Complete(t)
    /\ events' = events \cup {t}
    /\ UNCHANGED notifier
    /\ Untouched

\* Broken: the entry is popped and its sockets left as they are.
TaskRemovedOnly(t) ==
    /\ Remove(t)
    /\ listed' = listed \ {t}
    /\ subscribers' = [subscribers EXCEPT ![t] = {}]
    /\ UNCHANGED <<dropping, forgotten, events>>
    /\ Untouched

\* The orchestrator deletes the task and calls remove_task, which pops the
\* entry; its sockets are then closed one by one.
TaskRemoved(t) ==
    /\ Remove(t)
    /\ listed' = listed \ {t}
    /\ dropping' = [dropping EXCEPT ![t] = subscribers[t]]
    /\ subscribers' = [subscribers EXCEPT ![t] = {}]
    /\ UNCHANGED <<forgotten, events>>
    /\ Untouched

DropSocket(t, s) ==
    /\ s \in dropping[t] /\ conn[s] = "open"
    /\ Shut(s)
    /\ dropping' = [dropping EXCEPT ![t] = @ \ {s}]
    /\ UNCHANGED <<status, at, about, tenant, seen, listed, subscribers,
                   forgotten, loop, events, health>>

\* A close that raises ends remove_task: the others are left as they are.
DropRaises(t, s) ==
    /\ s \in dropping[t] /\ conn[s] # "open"
    /\ forgotten' = forgotten \cup (dropping[t] \ {s})
    /\ dropping' = [dropping EXCEPT ![t] = {}]
    /\ UNCHANGED <<status, listed, subscribers, events>>
    /\ Untouched

Dropping(t) == \E s \in Sockets : DropSocket(t, s) \/ DropRaises(t, s)

-----------------------------------------------------------------------------
(* Supervision.  The loop ends with an exception, which the done callback  *)
(* records, or returns; liveness fails only in the first case.             *)

LoopEnds(raised) ==
    /\ listener # "stopped"
    /\ listener' = "stopped"
    /\ failed' = (failed \/ raised)
    /\ missed' = TRUE
    /\ topic' = Nobody
    /\ news' = "absent"
    /\ targets' = {}
    /\ round' = {}
    /\ UNCHANGED <<status, handlers, notifier, events>>

Livez == IF failed THEN 503 ELSE 200

\* The platform restarts a pod that is not live: connections and everything
\* in memory are lost, tasks are not.
RestartPod ==
    /\ Livez # 200
    /\ at' = [s \in Sockets |-> IF at[s] = "off" THEN "off" ELSE "done"]
    /\ conn' = [s \in Sockets |-> IF conn[s] = "open" THEN "closed" ELSE conn[s]]
    /\ seen' = [s \in Sockets |-> "absent"]
    /\ listed' = {}
    /\ subscribers' = [t \in Tasks |-> {}]
    /\ dropping' = [t \in Tasks |-> {}]
    /\ forgotten' = {}
    /\ listener' = "idle"
    /\ events' = {}
    /\ failed' = FALSE
    /\ UNCHANGED <<status, about, tenant, topic, news, targets, round, missed>>

-----------------------------------------------------------------------------
Next ==
    \/ \E s \in Sockets : Connect(s) \/ Handler(s) \/ Busy(s) \/ Ask(s) \/ Leave(s)
    \/ Listener
    \/ \E t \in Tasks : Enqueue(t) \/ Progress(t) \/ TaskRemoved(t) \/ Dropping(t)
    \/ \E raised \in BOOLEAN : LoopEnds(raised)
    \/ RestartPod

Spec == Init /\ [][Next]_vars

(***************************************************************************)
(* Fairness.  The event loop runs what is ready, calls on the orchestrator *)
(* return, and clients in Chatty send now and then; nobody is rescued by a *)
(* call that raises Busy.                                                  *)
(* Nobody is required to connect, to leave, to enqueue, to finish a task   *)
(* or to remove one, nor the platform to restart a pod.                    *)
(***************************************************************************)
Fairness ==
    /\ \A s \in Sockets : WF_vars(Handler(s))
    /\ \A s \in Chatty : WF_vars(Ask(s))
    /\ WF_vars(Listener)
    /\ \A t \in Tasks : WF_vars(Dropping(t))

FairSpec == Spec /\ Fairness

-----------------------------------------------------------------------------
(* Properties. *)

\* Only a socket of the tenant that owns a task is told anything of it,
\* whether by its own handler or by a push (_assert_task_tenant runs once,
\* before the subscription, on a status that may be out of date).
OwnerOnly ==
    \A s \in Sockets :
        /\ at[s] \in Subscribing => tenant[s] = OwnerOf[about[s]]
        /\ s \in targets => tenant[s] = OwnerOf[topic]
        /\ \A t \in Tasks : s \in subscribers[t] => tenant[s] = OwnerOf[t]

\* A handler that has nothing left to read but a client message can be
\* reached: the notifier knows its socket under the task it is about, or a
\* remove_task has it in hand, unless that one raised on another socket.
WaitingIsReachable ==
    \A s \in Sockets :
        (at[s] = "wait" /\ conn[s] = "open") =>
            \/ s \in subscribers[about[s]] /\ about[s] \in listed
            \/ s \in dropping[about[s]]
            \/ s \in forgotten

\* The finally clause holds on every path: no handler that has ended is left
\* among the subscribers, whoever replaced or removed the entry meanwhile.
NoDeadSubscriber ==
    \A s \in Sockets, t \in Tasks : s \in subscribers[t] => at[s] \in Subscribing

Over(s) == status[about[s]] \in Completed \cup {"removed"}

\* "... so the client always sees current state - and the socket is closed on
\* completion - even if the real-time pub/sub push was missed": a client
\* that keeps sending is closed once its task is over, also when the listener
\* is dead, updates are lost or the task is removed under the handler.
AskersAreClosed ==
    \A s \in Chatty : (conn[s] = "open" /\ Over(s)) ~> (conn[s] # "open")

\* A client that only listens is closed too, as long as no update is lost:
\* the second read of the status, after the subscription, catches a
\* completion that was published before it.
ListenersAreClosed ==
    \A s \in Sockets \ Chatty :
        (conn[s] = "open" /\ Over(s)) ~> (conn[s] # "open" \/ missed \/ s \in forgotten)

=============================================================================
