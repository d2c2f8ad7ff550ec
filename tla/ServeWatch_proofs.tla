-------------------------- MODULE ServeWatch_proofs --------------------------
(***************************************************************************)
(* Theorems about ServeWatch, for any number of sockets, tasks and tenants *)
(* that satisfy TaskAssumption and SocketAssumption.                       *)
(***************************************************************************)
EXTENDS ServeWatch, TLAPS

\* A status that was read is the status of a task that exists or existed, and
\* so is the task of a handler that has subscribed; its tenant owns it.
Read(s) ==
    /\ seen[s] \in Live => status[about[s]] # "absent"
    /\ at[s] \in Subscribing =>
         status[about[s]] # "absent" /\ tenant[s] = OwnerOf[about[s]]

\* The sockets a push is for.
Pushed(s) == s \in targets => tenant[s] = OwnerOf[topic]

\* A subscriber is listed under the task it is about, while its handler runs.
Listed(s) == \A t \in Tasks : s \in subscribers[t] => about[s] = t /\ at[s] \in Subscribing

\* An open socket whose handler has subscribed can be reached.
Reached(s) ==
    at[s] \in Subscribing /\ conn[s] = "open" =>
        \/ s \in subscribers[about[s]]
        \/ s \in dropping[about[s]]
        \/ s \in forgotten

Socket(s) == Read(s) /\ Pushed(s) /\ Listed(s) /\ Reached(s)

\* The entries: a key for every subscriber; sockets to be closed only for a
\* task that was removed, which happens once.
Entry(t) ==
    /\ subscribers[t] # {} => t \in listed
    /\ dropping[t] # {} => status[t] = "removed"

IInv ==
    /\ TypeOK
    /\ \A s \in Sockets : Socket(s)
    /\ \A t \in Tasks : Entry(t)

\* The pod is restarted only when its listener is dead.
Dead == failed => listener = "stopped"

-----------------------------------------------------------------------------
(* Initially.                                                              *)

\* Initially nobody is connected.
LEMMA InitInv == Init => IInv
<1> SUFFICES ASSUME Init PROVE IInv
  OBVIOUS
<1> USE DEF Init
<1>1. TypeOK
  BY DEF TypeOK, QueueInit, QueueType, Statuses, HandlerPc, LoopPc
<1>2. ASSUME NEW s \in Sockets PROVE Socket(s)
  BY DEF Socket, Read, Pushed, Listed, Reached, Subscribing, Live, Completed
<1>3. ASSUME NEW t \in Tasks PROVE Entry(t)
  BY DEF Entry
<1> QED
  BY <1>1, <1>2, <1>3 DEF IInv

-----------------------------------------------------------------------------
(* Handlers.                                                               *)

\* A handler that moves on, reading a status at most.
LEMMA MoveInv ==
    ASSUME IInv, NEW s \in Sockets, NEW to \in HandlerPc,
           at' = [at EXCEPT ![s] = to],
           conn' = conn \/ (to \notin Subscribing /\ conn' = [conn EXCEPT ![s] = "open"]),
           seen' \in [Sockets -> Statuses],
           \A q \in Sockets \ {s} : seen'[q] = seen[q],
           seen'[s] \in Live => status[about[s]] # "absent",
           at[s] \in Subscribing <=> to \in Subscribing,
           UNCHANGED <<status, about, tenant, notifier, loop, events, health>>
    PROVE  IInv'
<1> USE DEF notifier, loop, health
<1>1. at \in [Sockets -> HandlerPc] /\ conn \in [Sockets -> {"none", "open", "closed"}]
  BY DEF IInv, TypeOK
<1>2. TypeOK'
  BY <1>1 DEF IInv, TypeOK, QueueType
<1>3. at'[s] = to /\ \A q \in Sockets \ {s} : at'[q] = at[q] /\ conn'[q] = conn[q]
  BY <1>1
<1>4. to \in Subscribing => conn'[s] = conn[s]
  BY <1>1
<1>5. ASSUME NEW q \in Sockets PROVE Socket(q)'
  <2>1. Read(q) /\ Pushed(q) /\ Listed(q) /\ Reached(q)
    BY DEF IInv, Socket
  <2>2. Read(q)'
    BY <1>3, <2>1 DEF Read
  <2>3. Pushed(q)' /\ Listed(q)'
    BY <1>3, <2>1 DEF Pushed, Listed
  <2>4. Reached(q)'
    BY <1>3, <1>4, <2>1 DEF Reached
  <2> QED
    BY <2>2, <2>3, <2>4 DEF Socket
<1>6. ASSUME NEW t \in Tasks PROVE Entry(t)'
  BY DEF IInv, Entry
<1> QED
  BY <1>2, <1>5, <1>6 DEF IInv

\* A handler that ends: the connection is closed, the socket discarded.
LEMMA FinishInv ==
    ASSUME IInv, NEW s \in Sockets,
           at' = [at EXCEPT ![s] = "done"], Shut(s), Forget(s),
           subscribers' = [subscribers EXCEPT ![about[s]] = @ \ {s}]
             \/ (at[s] \notin Subscribing /\ subscribers' = subscribers),
           UNCHANGED <<status, about, tenant, listed, dropping, forgotten, loop, events, health>>
    PROVE  IInv'
<1> USE DEF loop, health, Shut, Forget
<1>1. /\ at \in [Sockets -> HandlerPc] /\ conn \in [Sockets -> {"none", "open", "closed"}]
      /\ seen \in [Sockets -> Statuses] /\ subscribers \in [Tasks -> SUBSET Sockets]
      /\ about \in [Sockets -> Tasks]
  BY DEF IInv, TypeOK
<1>2. "absent" \in Statuses /\ "absent" \notin Live /\ "done" \in HandlerPc \ Subscribing
  BY DEF Statuses, Live, Completed, HandlerPc, Subscribing
<1>3. subscribers' \in [Tasks -> SUBSET Sockets]
  BY <1>1
<1>4. TypeOK'
  BY <1>1, <1>2, <1>3 DEF IInv, TypeOK, QueueType
<1>5. /\ at'[s] = "done" /\ seen'[s] = "absent" /\ conn'[s] = "closed"
      /\ \A q \in Sockets \ {s} : at'[q] = at[q] /\ conn'[q] = conn[q] /\ seen'[q] = seen[q]
  BY <1>1
<1>6. ASSUME NEW t \in Tasks
      PROVE  /\ subscribers'[t] \subseteq subscribers[t]
             /\ subscribers[t] \ {s} \subseteq subscribers'[t]
             /\ s \notin subscribers'[t]
  <2>1. s \in subscribers[t] => about[s] = t /\ at[s] \in Subscribing
    BY DEF IInv, Socket, Listed
  <2> QED
    BY <1>1, <2>1
<1>7. ASSUME NEW q \in Sockets PROVE Socket(q)'
  <2>1. Read(q) /\ Pushed(q) /\ Listed(q) /\ Reached(q)
    BY DEF IInv, Socket
  <2>2. Read(q)'
    BY <1>2, <1>5, <2>1 DEF Read
  <2>3. Pushed(q)' /\ Listed(q)'
    BY <1>5, <1>6, <2>1 DEF Pushed, Listed
  <2>4. Reached(q)'
    BY <1>1, <1>2, <1>5, <1>6, <2>1 DEF Reached
  <2> QED
    BY <2>2, <2>3, <2>4 DEF Socket
<1>8. ASSUME NEW t \in Tasks PROVE Entry(t)'
  BY <1>6 DEF IInv, Entry
<1> QED
  BY <1>4, <1>7, <1>8 DEF IInv

\* Subscribing.
LEMMA SubscribeInv ==
    ASSUME IInv, NEW s \in Sockets, Subscribe(s)
    PROVE  IInv'
<1> USE DEF loop, health
<1>1. /\ at \in [Sockets -> HandlerPc] /\ subscribers \in [Tasks -> SUBSET Sockets]
      /\ about \in [Sockets -> Tasks]
  BY DEF IInv, TypeOK
<1>2. /\ at' = [at EXCEPT ![s] = "hello"]
      /\ subscribers' = [subscribers EXCEPT ![about[s]] = @ \cup {s}]
      /\ listed' = listed \cup {about[s]}
      /\ UNCHANGED <<status, conn, about, tenant, seen, dropping, forgotten, loop, events, health>>
      /\ seen[s] \in Live /\ OwnerOf[about[s]] = tenant[s]
  BY DEF Subscribe, Goto, Admitted
<1>3. "hello" \in HandlerPc \cap Subscribing
  BY DEF HandlerPc, Subscribing
<1>4. TypeOK'
  BY <1>1, <1>2, <1>3 DEF IInv, TypeOK, QueueType
<1>5. /\ at'[s] = "hello"
      /\ \A q \in Sockets \ {s} : at'[q] = at[q]
      /\ \A t \in Tasks : subscribers'[t] = IF t = about[s] THEN subscribers[t] \cup {s}
                                            ELSE subscribers[t]
  BY <1>1, <1>2
<1>6. ASSUME NEW q \in Sockets PROVE Socket(q)'
  <2>1. Read(q) /\ Pushed(q) /\ Listed(q) /\ Reached(q)
    BY DEF IInv, Socket
  <2>2. Read(q)'
    BY <1>2, <1>5, <2>1 DEF Read
  <2>3. Pushed(q)'
    BY <1>2, <2>1 DEF Pushed
  <2>4. Listed(q)'
    BY <1>2, <1>3, <1>5, <2>1 DEF Listed
  <2>5. Reached(q)'
    BY <1>1, <1>2, <1>5, <2>1 DEF Reached
  <2> QED
    BY <2>2, <2>3, <2>4, <2>5 DEF Socket
<1>7. ASSUME NEW t \in Tasks PROVE Entry(t)'
  BY <1>2, <1>5 DEF IInv, Entry
<1> QED
  BY <1>4, <1>6, <1>7 DEF IInv

\* Every step of a handler, and of its client.
LEMMA SocketInv ==
    ASSUME IInv, NEW s \in Sockets, Connect(s) \/ Handler(s) \/ Busy(s) \/ Ask(s)
    PROVE  IInv'
<1>1. /\ QueueType /\ seen \in [Sockets -> Statuses] /\ about \in [Sockets -> Tasks]
      /\ Read(s)
  BY DEF IInv, TypeOK, Socket
<1>2. /\ "absent" \in Statuses /\ "absent" \notin Live
      /\ {"subscribe", "hello", "refresh", "update", "wait"} \subseteq HandlerPc
      /\ {"hello", "refresh", "update", "wait"} = Subscribing
  BY DEF Statuses, Live, Completed, HandlerPc, Subscribing
<1>3. CASE Connect(s)
  <2>1. PICK r \in {status[about[s]], "absent"} : seen' = [seen EXCEPT ![s] = r]
    BY <1>3 DEF Connect
  <2>2. r \in Statuses /\ (r \in Live => status[about[s]] # "absent")
    BY <1>1, <1>2, <2>1 DEF QueueType
  <2>3. /\ seen' \in [Sockets -> Statuses] /\ seen'[s] = r
        /\ \A q \in Sockets \ {s} : seen'[q] = seen[q]
    BY <1>1, <2>1, <2>2
  <2>4. "subscribe" \in HandlerPc \ Subscribing /\ at[s] \notin Subscribing
    BY <1>2, <1>3 DEF Connect, Goto
  <2> QED
    BY <1>3, <2>2, <2>3, <2>4, MoveInv DEF Connect, Goto
<1>4. CASE Hello(s) \/ Update(s)
  <2>1. PICK from \in Subscribing, to \in Subscribing : Send(s, from, to)
    BY <1>2, <1>4 DEF Hello, Update
  <2>2. /\ seen' \in [Sockets -> Statuses] /\ seen'[s] = "absent"
        /\ \A q \in Sockets \ {s} : seen'[q] = seen[q]
    BY <1>1, <1>2, <2>1 DEF Send
  <2> QED
    BY <1>2, <2>1, <2>2, MoveInv DEF Send, Goto
<1>5. CASE Refresh(s)
  <2>1. /\ seen' \in [Sockets -> Statuses] /\ seen'[s] = status[about[s]]
        /\ \A q \in Sockets \ {s} : seen'[q] = seen[q]
    BY <1>1, <1>5 DEF Refresh, QueueType
  <2> QED
    BY <1>2, <1>5, <2>1, MoveInv DEF Refresh, Goto
<1>6. CASE Ask(s)
  BY <1>1, <1>2, <1>6, MoveInv DEF Ask, Goto, Read
<1>7. CASE Subscribe(s)
  BY <1>7, SubscribeInv
<1>8. CASE Refuse(s)
  BY <1>2, <1>8, FinishInv DEF Refuse, Goto, notifier
<1>9. CASE FinalUpdate(s) \/ SendFails(s) \/ CallRaises(s) \/ Disconnected(s)
  BY <1>9, FinishInv DEF FinalUpdate, SendFails, CallRaises, Disconnected, Goto, Finish
<1> QED
  BY <1>3, <1>4, <1>5, <1>6, <1>7, <1>8, <1>9 DEF Handler, Busy, TaskGone

\* A connection that is closed by its client or by the notifier.
LEMMA ShutInv ==
    ASSUME IInv, TypeOK', NEW s \in Sockets, Shut(s),
           UNCHANGED <<status, at, about, tenant, seen, listed, subscribers, topic, forgotten>>,
           targets' \subseteq targets,
           \A t \in Tasks : dropping'[t] \subseteq dropping[t] /\ dropping[t] \ {s} \subseteq dropping'[t]
    PROVE  IInv'
<1>1. \A q \in Sockets : conn'[q] = "open" => q # s /\ conn[q] = "open"
  BY DEF Shut, IInv, TypeOK
<1>2. ASSUME NEW q \in Sockets PROVE Socket(q)'
  <2>1. Read(q) /\ Pushed(q) /\ Listed(q) /\ Reached(q) /\ about[q] \in Tasks
    BY DEF IInv, TypeOK, Socket
  <2>2. Read(q)' /\ Pushed(q)' /\ Listed(q)'
    BY <2>1 DEF Read, Pushed, Listed
  <2>3. Reached(q)'
    BY <1>1, <2>1 DEF Reached
  <2> QED
    BY <2>2, <2>3 DEF Socket
<1>3. ASSUME NEW t \in Tasks PROVE Entry(t)'
  BY DEF IInv, Entry
<1> QED
  BY <1>2, <1>3 DEF IInv

\* A client that leaves.
LEMMA LeaveInv ==
    ASSUME IInv, NEW s \in Sockets, Leave(s)
    PROVE  IInv'
<1>1. UNCHANGED <<status, at, about, tenant, seen, notifier, loop, events, health>> /\ Shut(s)
  BY DEF Leave
<1>2. TypeOK'
  BY <1>1 DEF IInv, TypeOK, QueueType, Shut, notifier, loop, health
<1> QED
  BY <1>1, <1>2, ShutInv DEF notifier, loop

-----------------------------------------------------------------------------
(* The listener.                                                           *)

\* A step that moves the listener alone, to sockets that may be told.
LEMMA ListenInv ==
    ASSUME IInv, TypeOK', UNCHANGED <<status, handlers, notifier>>,
           \A s \in targets' : tenant[s] = OwnerOf[topic']
    PROVE  IInv'
<1> USE DEF handlers, notifier
<1>1. ASSUME NEW q \in Sockets PROVE Socket(q)'
  <2>1. Read(q) /\ Pushed(q) /\ Listed(q) /\ Reached(q)
    BY DEF IInv, Socket
  <2>2. Read(q)' /\ Pushed(q)' /\ Listed(q)' /\ Reached(q)'
    BY <2>1 DEF Read, Pushed, Listed, Reached
  <2> QED
    BY <2>2 DEF Socket
<1>2. ASSUME NEW t \in Tasks PROVE Entry(t)'
  BY DEF IInv, Entry
<1> QED
  BY <1>1, <1>2 DEF IInv

\* Taking an update and looking at a key: nobody is to be told yet.
LEMMA NotifyInv ==
    ASSUME IInv, NEW t \in Tasks, Take(t) \/ VisitKey(t)
    PROVE  IInv'
<1> USE DEF handlers, notifier, Notify, EndNotify
<1>1. UNCHANGED <<status, handlers, notifier, targets, failed>>
  BY DEF Take, VisitKey, health
<1>2. listener \in {"idle", "round"} /\ targets = {}
  BY DEF Take, VisitKey, IInv, TypeOK
<1>3. status[t] \in Statuses /\ "absent" \in Statuses
  BY DEF IInv, TypeOK, QueueType, Statuses
<1>4. \/ listener' = "position" /\ topic' = t /\ news' = status[t]
      \/ listener' = "round" /\ topic' = Nobody /\ news' = "absent"
      \/ listener' = "round" /\ listener = "round" /\ topic' = topic /\ news' = news
  BY DEF Take, VisitKey
<1>5. events' \subseteq Tasks /\ round' \subseteq Tasks /\ missed' \in BOOLEAN
  BY DEF Take, VisitKey, IInv, TypeOK, health
<1>6. TypeOK'
  BY <1>1, <1>2, <1>3, <1>4, <1>5 DEF IInv, TypeOK, QueueType, LoopPc
<1> QED
  BY <1>1, <1>2, <1>6, ListenInv

\* Listing the sockets to be told: the subscribers of the task.
LEMMA PrepareInv ==
    ASSUME IInv, Prepare
    PROVE  IInv'
<1>1. /\ listener = "position" /\ listener' = "push" /\ targets' = subscribers[topic]
      /\ UNCHANGED <<status, handlers, notifier, topic, news, round, events, health>>
  BY DEF Prepare, LoopGoto
<1>2. topic \in Tasks
  BY <1>1 DEF IInv, TypeOK
<1>3. subscribers[topic] \subseteq Sockets
  BY <1>2 DEF IInv, TypeOK
<1>4. \A s \in targets' : tenant[s] = OwnerOf[topic']
  BY <1>1, <1>2, <1>3 DEF IInv, Socket, Listed, Read
<1>5. TypeOK'
  BY <1>1, <1>2, <1>3 DEF IInv, TypeOK, QueueType, LoopPc, handlers, notifier, health
<1> QED
  BY <1>1, <1>4, <1>5, ListenInv

\* The end of a notification and of a round.
LEMMA DoneInv ==
    ASSUME IInv, PositionFails \/ PushDone \/ RoundDone
    PROVE  IInv'
<1> USE DEF handlers, notifier
<1>1. /\ UNCHANGED <<status, handlers, notifier, targets, round, events, failed>>
      /\ missed' \in {missed, TRUE}
      /\ targets = {}
      /\ \/ listener' = "round" /\ topic' = Nobody /\ news' = "absent"
         \/ listener = "round" /\ listener' = "idle" /\ UNCHANGED <<topic, news>>
  BY DEF PositionFails, PushDone, RoundDone, EndNotify, LoopGoto, health, IInv, TypeOK
<1>2. "absent" \in Statuses
  BY DEF Statuses
<1>3. TypeOK'
  BY <1>1, <1>2 DEF IInv, TypeOK, QueueType, LoopPc
<1> QED
  BY <1>1, <1>3, ListenInv

\* A message to one socket, which a completed task closes and an error
\* discards.
LEMMA PushInv ==
    ASSUME IInv, NEW s \in Sockets, Push(s) \/ PushFails(s)
    PROVE  IInv'
<1> USE DEF handlers, notifier, health
<1>1. CASE Push(s)
  <2>1. /\ listener = "push" /\ targets' = targets \ {s}
        /\ UNCHANGED <<status, at, about, tenant, seen, notifier, listener, topic, news, round,
                       events, health>>
        /\ Shut(s) \/ UNCHANGED conn
    BY <1>1 DEF Push
  <2>2. TypeOK'
    BY <2>1 DEF IInv, TypeOK, QueueType, Shut
  <2>3. CASE Shut(s)
    BY <2>1, <2>2, <2>3, ShutInv
  <2>4. CASE UNCHANGED conn
    <3>1. targets \subseteq Sockets
      BY <2>1 DEF IInv, TypeOK
    <3>2. \A q \in targets' : tenant[q] = OwnerOf[topic']
      BY <2>1, <3>1 DEF IInv, Socket, Pushed
    <3> QED
      BY <2>1, <2>2, <2>4, <3>2, ListenInv
  <2> QED
    BY <2>1, <2>3, <2>4
<1>2. CASE PushFails(s)
  <2>1. /\ listener = "push" /\ targets' = targets \ {s} /\ conn[s] # "open"
        /\ subscribers' = [subscribers EXCEPT ![topic] = @ \ {s}]
        /\ UNCHANGED <<status, handlers, listed, dropping, forgotten, listener, topic,
                       news, round, events, health>>
    BY <1>2 DEF PushFails
  <2>2. subscribers \in [Tasks -> SUBSET Sockets]
    BY DEF IInv, TypeOK
  <2>3. \A t \in Tasks : /\ subscribers'[t] \subseteq subscribers[t]
                         /\ subscribers[t] \ {s} \subseteq subscribers'[t]
    BY <2>1, <2>2
  <2>4. TypeOK'
    BY <2>1, <2>2 DEF IInv, TypeOK, QueueType
  <2>5. ASSUME NEW q \in Sockets PROVE Socket(q)'
    <3>1. Read(q) /\ Pushed(q) /\ Listed(q) /\ Reached(q) /\ about[q] \in Tasks
      BY DEF IInv, TypeOK, Socket
    <3>2. Read(q)' /\ Pushed(q)'
      BY <2>1, <3>1 DEF Read, Pushed
    <3>3. Listed(q)'
      BY <2>1, <2>3, <3>1 DEF Listed
    <3>4. Reached(q)'
      BY <2>1, <2>3, <3>1 DEF Reached
    <3> QED
      BY <3>2, <3>3, <3>4 DEF Socket
  <2>6. ASSUME NEW t \in Tasks PROVE Entry(t)'
    BY <2>1, <2>3 DEF IInv, Entry
  <2> QED
    BY <2>4, <2>5, <2>6 DEF IInv
<1> QED
  BY <1>1, <1>2

-----------------------------------------------------------------------------
(* Tasks.                                                                  *)

\* A task that is enqueued has no subscriber that its new entry could lose.
LEMMA EnqueueInv ==
    ASSUME IInv, NEW t \in Tasks, Enqueue(t)
    PROVE  IInv'
<1> USE DEF handlers, loop, health
<1>1. /\ status[t] = "absent" /\ status' = [status EXCEPT ![t] = "pending"]
      /\ listed \subseteq listed' /\ listed' \subseteq listed \cup {t}
      /\ subscribers' = subscribers \/ subscribers' = [subscribers EXCEPT ![t] = {}]
      /\ UNCHANGED <<handlers, dropping, forgotten, loop, events, health>>
  <2>1. \/ /\ listed' = listed \cup {t}
           /\ subscribers' = [subscribers EXCEPT ![t] = {}]
        \/ UNCHANGED <<listed, subscribers>>
    BY DEF Enqueue
  <2>2. status[t] = "absent" /\ status' = [status EXCEPT ![t] = "pending"]
    BY DEF Enqueue, Accept, Advance
  <2> QED
    BY <2>1, <2>2 DEF Enqueue, Untouched
<1>2. subscribers[t] = {}
  <2>1. \A s \in Sockets : s \notin subscribers[t]
    BY <1>1 DEF IInv, Socket, Listed, Read
  <2> QED
    BY <2>1 DEF IInv, TypeOK
<1>3. subscribers' = subscribers
  <2>1. subscribers \in [Tasks -> SUBSET Sockets]
    BY DEF IInv, TypeOK
  <2>2. CASE subscribers' = [subscribers EXCEPT ![t] = {}]
    <3>1. subscribers' \in [Tasks -> SUBSET Sockets]
      BY <2>1, <2>2
    <3>2. \A u \in Tasks : subscribers'[u] = subscribers[u]
      BY <1>2, <2>1, <2>2
    <3> QED
      BY <2>1, <3>1, <3>2
  <2> QED
    BY <1>1, <2>2
<1>4. status' \in [Tasks -> Statuses] /\ \A u \in Tasks : status[u] # "absent" => status'[u] = status[u]
  BY <1>1 DEF IInv, TypeOK, QueueType, Statuses, Live
<1>5. TypeOK'
  BY <1>1, <1>3, <1>4 DEF IInv, TypeOK, QueueType
<1>6. ASSUME NEW q \in Sockets PROVE Socket(q)'
  <2>1. Read(q) /\ Pushed(q) /\ Listed(q) /\ Reached(q) /\ about[q] \in Tasks
    BY DEF IInv, TypeOK, Socket
  <2>2. Read(q)' /\ Pushed(q)' /\ Listed(q)' /\ Reached(q)'
    BY <1>1, <1>3, <1>4, <2>1 DEF Read, Pushed, Listed, Reached
  <2> QED
    BY <2>2 DEF Socket
<1>7. ASSUME NEW u \in Tasks PROVE Entry(u)'
  BY <1>1, <1>3, <1>4 DEF IInv, Entry
<1> QED
  BY <1>5, <1>6, <1>7 DEF IInv

\* A task that is started or completed.
LEMMA ProgressInv ==
    ASSUME IInv, NEW t \in Tasks, Progress(t)
    PROVE  IInv'
<1> USE DEF handlers, notifier, loop, health
<1>1. /\ UNCHANGED <<handlers, notifier, loop, health>>
      /\ events' = events \cup {t}
      /\ status' \in [Tasks -> Statuses]
      /\ \A u \in Tasks : /\ status[u] # "absent" => status'[u] # "absent"
                          /\ status[u] = "removed" => status'[u] = "removed"
  BY DEF Progress, Untouched, Start, Complete, Advance, IInv, TypeOK, QueueType, Statuses, Live,
         Completed
<1>2. TypeOK'
  BY <1>1 DEF IInv, TypeOK, QueueType
<1>3. ASSUME NEW q \in Sockets PROVE Socket(q)'
  <2>1. Read(q) /\ Pushed(q) /\ Listed(q) /\ Reached(q) /\ about[q] \in Tasks
    BY DEF IInv, TypeOK, Socket
  <2>2. Read(q)' /\ Pushed(q)' /\ Listed(q)' /\ Reached(q)'
    BY <1>1, <2>1 DEF Read, Pushed, Listed, Reached
  <2> QED
    BY <2>2 DEF Socket
<1>4. ASSUME NEW u \in Tasks PROVE Entry(u)'
  BY <1>1 DEF IInv, Entry
<1> QED
  BY <1>2, <1>3, <1>4 DEF IInv

\* A task that is removed hands its subscribers to remove_task.
LEMMA RemovedInv ==
    ASSUME IInv, NEW t \in Tasks, TaskRemoved(t)
    PROVE  IInv'
<1> USE DEF handlers, loop, health
<1>1. /\ status[t] \in Completed /\ status' = [status EXCEPT ![t] = "removed"]
      /\ listed' = listed \ {t}
      /\ dropping' = [dropping EXCEPT ![t] = subscribers[t]]
      /\ subscribers' = [subscribers EXCEPT ![t] = {}]
      /\ UNCHANGED <<handlers, loop, health, forgotten, events>>
  BY DEF TaskRemoved, Untouched, Remove, Advance
<1>2. /\ status' \in [Tasks -> Statuses]
      /\ \A u \in Tasks : /\ status[u] # "absent" => status'[u] # "absent"
                          /\ status[u] = "removed" => status'[u] = "removed"
                          /\ u # t => status'[u] = status[u]
      /\ status'[t] = "removed"
  BY <1>1 DEF IInv, TypeOK, QueueType, Statuses, Live
<1>3. dropping[t] = {}
  BY <1>1 DEF IInv, Entry, Completed
<1>4. /\ subscribers \in [Tasks -> SUBSET Sockets]
      /\ dropping \in [Tasks -> SUBSET Sockets]
  BY DEF IInv, TypeOK
<1>5. /\ subscribers'[t] = {} /\ dropping'[t] = subscribers[t]
      /\ \A u \in Tasks \ {t} : subscribers'[u] = subscribers[u] /\ dropping'[u] = dropping[u]
  BY <1>1, <1>4
<1>6. TypeOK'
  BY <1>1, <1>2, <1>4 DEF IInv, TypeOK, QueueType
<1>7. ASSUME NEW q \in Sockets PROVE Socket(q)'
  <2>1. Read(q) /\ Pushed(q) /\ Listed(q) /\ Reached(q) /\ about[q] \in Tasks
    BY DEF IInv, TypeOK, Socket
  <2>2. Read(q)' /\ Pushed(q)'
    BY <1>1, <1>2, <2>1 DEF Read, Pushed
  <2>3. Listed(q)'
    BY <1>1, <1>5, <2>1 DEF Listed
  <2>4. Reached(q)'
    BY <1>1, <1>3, <1>5, <2>1 DEF Reached
  <2> QED
    BY <2>2, <2>3, <2>4 DEF Socket
<1>8. ASSUME NEW u \in Tasks PROVE Entry(u)'
  BY <1>1, <1>2, <1>5 DEF IInv, Entry
<1> QED
  BY <1>6, <1>7, <1>8 DEF IInv

\* A socket that remove_task closes, or at which it stops.
LEMMA DropInv ==
    ASSUME IInv, NEW t \in Tasks, Dropping(t)
    PROVE  IInv'
<1> USE DEF loop, health
<1>1. PICK s \in Sockets : DropSocket(t, s) \/ DropRaises(t, s)
  BY DEF Dropping
<1>2. dropping \in [Tasks -> SUBSET Sockets]
  BY DEF IInv, TypeOK
<1>3. CASE DropSocket(t, s)
  <2>1. /\ Shut(s) /\ dropping' = [dropping EXCEPT ![t] = @ \ {s}]
        /\ UNCHANGED <<status, at, about, tenant, seen, listed, subscribers, forgotten, loop,
                       events, health>>
    BY <1>3 DEF DropSocket
  <2>2. TypeOK'
    BY <1>2, <2>1 DEF IInv, TypeOK, QueueType, Shut
  <2>3. \A u \in Tasks : dropping'[u] \subseteq dropping[u] /\ dropping[u] \ {s} \subseteq dropping'[u]
    BY <1>2, <2>1
  <2> QED
    BY <2>1, <2>2, <2>3, ShutInv
<1>4. CASE DropRaises(t, s)
  <2>1. /\ conn[s] # "open"
        /\ forgotten' = forgotten \cup (dropping[t] \ {s})
        /\ dropping' = [dropping EXCEPT ![t] = {}]
        /\ UNCHANGED <<status, listed, subscribers, events, handlers, loop, health>>
    BY <1>4 DEF DropRaises, Untouched
  <2>2. TypeOK'
    BY <1>2, <2>1 DEF IInv, TypeOK, QueueType, handlers
  <2>3. dropping'[t] = {} /\ \A u \in Tasks \ {t} : dropping'[u] = dropping[u]
    BY <1>2, <2>1
  <2>4. ASSUME NEW q \in Sockets PROVE Socket(q)'
    <3>1. Read(q) /\ Pushed(q) /\ Listed(q) /\ Reached(q) /\ about[q] \in Tasks
      BY DEF IInv, TypeOK, Socket
    <3>2. Read(q)' /\ Pushed(q)' /\ Listed(q)'
      BY <2>1, <3>1 DEF Read, Pushed, Listed, handlers
    <3>3. Reached(q)'
      BY <2>1, <2>3, <3>1 DEF Reached, handlers
    <3> QED
      BY <3>2, <3>3 DEF Socket
  <2>5. ASSUME NEW u \in Tasks PROVE Entry(u)'
    BY <2>1, <2>3 DEF IInv, Entry
  <2> QED
    BY <2>2, <2>4, <2>5 DEF IInv
<1> QED
  BY <1>1, <1>3, <1>4

-----------------------------------------------------------------------------
(* Supervision.                                                            *)

\* The listener that ends tells nobody.
LEMMA EndsInv ==
    ASSUME IInv, NEW raised \in BOOLEAN, LoopEnds(raised)
    PROVE  IInv'
<1>1. "absent" \in Statuses
  BY DEF Statuses
<1>2. failed' \in BOOLEAN /\ missed' \in BOOLEAN
  BY DEF LoopEnds, IInv, TypeOK
<1>3. TypeOK'
  BY <1>1, <1>2 DEF LoopEnds, IInv, TypeOK, QueueType, LoopPc, handlers, notifier
<1> QED
  BY <1>3, ListenInv DEF LoopEnds

\* The listener is dead when the pod is restarted, and so is every handler
\* after it.
LEMMA RestartInv ==
    ASSUME IInv, Dead, RestartPod
    PROVE  IInv' /\ Dead'
<1> USE DEF RestartPod
<1>0. topic = Nobody /\ targets = {}
  BY DEF Dead, Livez, IInv, TypeOK
<1>1. {"off", "done"} \subseteq HandlerPc \ Subscribing /\ "absent" \in Statuses
      /\ "absent" \notin Live
  BY DEF HandlerPc, Subscribing, Statuses, Live, Completed
<1>2. TypeOK'
  BY <1>0, <1>1 DEF IInv, TypeOK, QueueType, LoopPc
<1>3. ASSUME NEW q \in Sockets PROVE Socket(q)'
  BY <1>0, <1>1 DEF Socket, Read, Pushed, Listed, Reached
<1>4. ASSUME NEW u \in Tasks PROVE Entry(u)'
  BY DEF Entry
<1> QED
  BY <1>2, <1>3, <1>4 DEF IInv, Dead

\* No other step revives the listener or declares it dead.
LEMMA DeadStays ==
    ASSUME Dead, [Next]_vars, ~RestartPod
    PROVE  Dead'
<1>1. CASE UNCHANGED <<listener, failed>>
  BY <1>1 DEF Dead
<1>2. CASE listener # "stopped" /\ failed' = failed
  BY <1>2 DEF Dead
<1>3. CASE \E raised \in BOOLEAN : LoopEnds(raised)
  BY <1>3 DEF Dead, LoopEnds
<1>4. ASSUME NEW s \in Sockets, Connect(s) \/ Handler(s) \/ Busy(s) \/ Ask(s) \/ Leave(s)
      PROVE  UNCHANGED <<listener, failed>>
  BY <1>4 DEF loop, health, Connect, Handler, Busy, Ask, Leave, Subscribe, Refuse, Hello, Refresh,
              Update, Send, FinalUpdate, SendFails, TaskGone, CallRaises, Disconnected
<1>5. CASE Listener
  <2>1. listener # "stopped" /\ failed' = failed
    BY <1>5 DEF Listener, Take, VisitKey, Push, PushFails, Prepare, PositionFails, PushDone,
                RoundDone, LoopGoto, health
  <2> QED
    BY <1>2, <2>1
<1>6. ASSUME NEW t \in Tasks, Enqueue(t) \/ Progress(t) \/ TaskRemoved(t) \/ Dropping(t)
      PROVE  UNCHANGED <<listener, failed>>
  BY <1>6 DEF Enqueue, Progress, TaskRemoved, Dropping, DropSocket, DropRaises, Untouched, loop,
              health
<1>7. CASE UNCHANGED vars
  BY <1>1, <1>7 DEF vars, loop, health
<1> QED
  BY <1>1, <1>3, <1>4, <1>5, <1>6, <1>7 DEF Next

-----------------------------------------------------------------------------
(* The theorems.                                                           *)

\* Every step keeps the invariant.
LEMMA StepInv == IInv /\ Dead /\ [Next]_vars => IInv' /\ Dead'
<1> SUFFICES ASSUME IInv, Dead, [Next]_vars PROVE IInv' /\ Dead'
  OBVIOUS
<1>1. CASE UNCHANGED vars
  <2>1. /\ UNCHANGED <<status, handlers, notifier>> /\ topic' = topic /\ targets' = targets
        /\ TypeOK'
    <3>1. UNCHANGED <<status, handlers, notifier>> /\ topic' = topic /\ targets' = targets
      BY <1>1 DEF vars, loop
    <3> QED
      BY <1>1, <3>1 DEF vars, handlers, notifier, loop, health, IInv, TypeOK, QueueType
  <2>2. \A s \in targets' : tenant[s] = OwnerOf[topic']
    BY <2>1 DEF IInv, TypeOK, Socket, Pushed
  <2>3. ~RestartPod
    BY <1>1 DEF RestartPod, Livez, vars, health
  <2> QED
    BY <2>1, <2>2, <2>3, ListenInv, DeadStays
<1>2. CASE RestartPod
  BY <1>2, RestartInv
<1>3. CASE ~RestartPod
  <2>1. Dead'
    BY <1>3, DeadStays
  <2>2. ASSUME NEW s \in Sockets, Connect(s) \/ Handler(s) \/ Busy(s) \/ Ask(s) \/ Leave(s)
        PROVE  IInv'
    BY <2>2, SocketInv, LeaveInv
  <2>3. CASE Listener
    <3>1. \/ \E t \in Tasks : Take(t) \/ VisitKey(t)
          \/ \E s \in Sockets : Push(s) \/ PushFails(s)
          \/ Prepare
          \/ PositionFails \/ PushDone \/ RoundDone
      BY <2>3 DEF Listener
    <3>2. ASSUME NEW t \in Tasks, Take(t) \/ VisitKey(t) PROVE IInv'
      BY <3>2, NotifyInv
    <3>3. ASSUME NEW s \in Sockets, Push(s) \/ PushFails(s) PROVE IInv'
      BY <3>3, PushInv
    <3>4. CASE Prepare
      BY <2>1, <3>4, PrepareInv
    <3>5. CASE PositionFails \/ PushDone \/ RoundDone
      BY <2>1, <3>5, DoneInv
    <3> QED
      BY <2>1, <3>1, <3>2, <3>3, <3>4, <3>5
  <2>4. ASSUME NEW t \in Tasks, Enqueue(t) \/ Progress(t) \/ TaskRemoved(t) \/ Dropping(t)
        PROVE  IInv'
    BY <2>4, EnqueueInv, ProgressInv, RemovedInv, DropInv
  <2>5. ASSUME NEW raised \in BOOLEAN, LoopEnds(raised)
        PROVE  IInv'
    BY <2>5, EndsInv
  <2> QED
    BY <1>1, <1>3, <2>1, <2>2, <2>3, <2>4, <2>5 DEF Next
<1> QED
  BY <1>2, <1>3

\* The inductive invariant: who is subscribed, listed, about to be closed or
\* about to be told, and that a pod is restarted only with a dead listener.
THEOREM Invariance == Spec => [](IInv /\ Dead)
<1>1. Init => IInv /\ Dead
  BY InitInv DEF Init, Dead
<1> QED
  BY <1>1, StepInv, PTL DEF Spec

\* Every variable of the websocket notifications keeps its type.
THEOREM TypeCorrect == Spec => []TypeOK
<1>1. IInv /\ Dead => TypeOK
  BY DEF IInv
<1> QED
  BY <1>1, Invariance, PTL

\* Nobody is told of a task of another tenant, by a handler or by a push.
THEOREM OwnersOnly == Spec => []OwnerOnly
<1>1. IInv /\ Dead => OwnerOnly
  BY DEF IInv, Socket, Read, Pushed, Listed, OwnerOnly
<1> QED
  BY <1>1, Invariance, PTL

\* No handler that has ended is left among the subscribers.
THEOREM NoDeadLeft == Spec => []NoDeadSubscriber
<1>1. IInv /\ Dead => NoDeadSubscriber
  BY DEF IInv, Socket, Listed, NoDeadSubscriber
<1> QED
  BY <1>1, Invariance, PTL

\* A handler that waits for its client can be reached by an update or by the
\* removal of its task, unless a close of another socket raised.
THEOREM WaitingReached == Spec => []WaitingIsReachable
<1>1. IInv /\ Dead => WaitingIsReachable
  <2> SUFFICES ASSUME IInv, NEW s \in Sockets, at[s] = "wait", conn[s] = "open"
               PROVE  \/ s \in subscribers[about[s]] /\ about[s] \in listed
                      \/ s \in dropping[about[s]]
                      \/ s \in forgotten
    BY DEF WaitingIsReachable
  <2>1. about[s] \in Tasks
    BY DEF IInv, TypeOK
  <2>2. s \in subscribers[about[s]] => about[s] \in listed
    BY <2>1 DEF IInv, Entry
  <2> QED
    BY <2>2 DEF IInv, Socket, Reached, Subscribing
<1> QED
  BY <1>1, Invariance, PTL

=============================================================================
