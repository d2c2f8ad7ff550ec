-------------------------- MODULE ServePage_proofs --------------------------
(***************************************************************************)
(* Theorems about ServePage, for any number of pages, runs, tasks and      *)
(* attempts that satisfy TaskAssumption and PageAssumption.                *)
(***************************************************************************)
EXTENDS ServePage, TLAPS

Sending == {"off", "clear", "send", "reply"}
Early == Sending \cup {"show"}
Window == {"send", "reply", "show"}
Asked == {"queue", "poll", "fetch", "end"}

\* What a run may find on its page: the task of an answer the page got since
\* the run had cleared it, and its own if nobody else used the page.
Holds(c, x) ==
    /\ x \in {sent[d] : d \in answered[c]} \cup {NoTask}
    /\ answered[c] \cup cleared[c] \subseteq {c} =>
           x = IF c \in answered[c] THEN sent[c] ELSE NoTask

\* A run has no task before it asks for the one of its page, ...
Fresh == \A c \in Runs : at[c] \in Early => id[c] = NoTask

\* ... and the one of its page is one it may find there.
OwnPage == \A c \in Runs : at[c] \in Window => Holds(c, box[PageOf[c]])

\* A submission is answered once.
AnsweredOnce == \A c \in Runs : \A d \in answered[c] : at[d] \notin Sending

\* Tasks that were sent have come about, so a task that is missing is gone
\* for good.
Born == \A c \in Runs : sent[c] \in Tasks => status[sent[c]] # "absent"

\* An attempt at fetching that broke is an attempt.
Counted ==
    \A c \in Runs :
        /\ at[c] # "end" => broken[c] <= retries[c]
        /\ at[c] \notin {"fetch", "end"} => retries[c] = 0

\* As long as the result is there, all attempts at fetching it broke.
Tried ==
    \A c \in Runs :
        at[c] = "fetch" => Missing(c) \/ (Succeeded(c) /\ broken[c] = retries[c])

GaveUp ==
    \A c \in Runs :
        message[c] = "result" => at[c] = "end" /\ (Missing(c) \/ broken[c] = MaxFetches)

IInv ==
    /\ TypeOK
    /\ Fresh
    /\ OwnPage
    /\ WaitsForItsOwn
    /\ AnsweredOnce
    /\ Born
    /\ Counted
    /\ Tried
    /\ GaveUp

-----------------------------------------------------------------------------
(* Initially.                                                              *)

\* Initially nothing was pressed.
LEMMA InitInv == Init => IInv
<1> SUFFICES ASSUME Init PROVE IInv
  OBVIOUS
<1> USE DEF Init
<1>1. TypeOK
  <2>1. QueueType
    BY DEF QueueInit, QueueType, Statuses
  <2>2. 0 \in 0 .. MaxFetches - 1 /\ 0 \in 0 .. MaxFetches
    <3>1. MaxFetches \in Nat /\ MaxFetches # 0
      BY PageAssumption
    <3>2. MaxFetches >= 1
      BY <3>1
    <3> QED
      BY <3>1, <3>2
  <2>3. Waiting = {}
    BY DEF Waiting
  <2> QED
    BY <2>1, <2>2, <2>3 DEF TypeOK, MaybeTasks
<1>2. Fresh /\ OwnPage /\ WaitsForItsOwn /\ AnsweredOnce /\ Born
  BY PageAssumption DEF Fresh, OwnPage, WaitsForItsOwn, AnsweredOnce, Born, Window
<1>3. Counted
  BY DEF Counted
<1>4. Tried /\ GaveUp
  BY DEF Tried, GaveUp
<1> QED
  BY <1>1, <1>2, <1>3, <1>4 DEF IInv

-----------------------------------------------------------------------------
(* The server.                                                             *)

\* A step of the server: tasks come about, and what is gone stays so.
Lasting == \A t \in Tasks :
    /\ status[t] # "absent" => status'[t] # "absent"
    /\ status[t] \notin Live \cup {"absent"} => status'[t] \notin Live
    /\ status[t] = "success" => status'[t] \in {"success", "removed"}

\* Steps that change nothing are such steps.
LEMMA LastingStays ==
    ASSUME QueueType, UNCHANGED status
    PROVE  QueueType' /\ Lasting
BY DEF QueueType, Lasting

\* Every move of a task is such a step.
LEMMA ServerLasting ==
    ASSUME QueueType, NEW t \in Tasks, Accept(t) \/ Work(t) \/ Expire(t) \/ Clean(t)
    PROVE  QueueType' /\ Lasting
<1> USE DEF QueueType, Lasting, Statuses, Live, Completed, Advance
<1>1. CASE Accept(t)
  BY <1>1 DEF Accept
<1>2. CASE Work(t)
  BY <1>2 DEF Work, Start, Complete
<1>3. CASE Expire(t)
  BY <1>3 DEF Expire
<1>4. CASE Clean(t)
  BY <1>4 DEF Clean, Remove
<1> QED
  BY <1>1, <1>2, <1>3, <1>4

\* A run waits for no task that has not come about.
LEMMA IdBorn ==
    ASSUME IInv, NEW c \in Runs, id[c] # NoTask
    PROVE  id[c] \in Tasks /\ status[id[c]] # "absent"
<1>1. at[c] \in Asked /\ id[c] \in MaybeTasks
  BY DEF IInv, TypeOK, Fresh, Early, Sending, Asked
<1>2. PICK d \in answered[c] : id[c] = sent[d]
  BY <1>1 DEF IInv, WaitsForItsOwn, Asked
<1>3. d \in Runs
  BY DEF IInv, TypeOK
<1> QED
  BY <1>1, <1>2, <1>3 DEF IInv, Born, MaybeTasks

\* What a run that keeps its task finds of it later.
LEMMA IdLasting ==
    ASSUME IInv, NEW c \in Runs, Lasting, id'[c] = id[c]
    PROVE  /\ Missing(c) => Missing(c)'
           /\ Succeeded(c) => Missing(c)' \/ Succeeded(c)'
<1>2. CASE id[c] = NoTask
  <2>1. Missing(c) /\ Missing(c)' /\ ~Succeeded(c)
    BY <1>2, PageAssumption DEF Missing, Succeeded
  <2> QED
    BY <2>1
<1>3. CASE id[c] # NoTask
  <2>1. id[c] \in Tasks /\ status[id[c]] # "absent"
    BY <1>3, IdBorn
  <2>2. /\ status[id[c]] \notin Live => status'[id[c]] \notin Live
        /\ status[id[c]] = "success" => status'[id[c]] \in {"success", "removed"}
    BY <2>1 DEF Lasting
  <2>3. Missing(c) <=> status[id[c]] \notin Live
    BY <2>1 DEF Missing, Found
  <2>4. Missing(c)' <=> status'[id[c]] \notin Live
    BY <2>1 DEF Missing, Found
  <2> QED
    BY <2>2, <2>3, <2>4 DEF Succeeded, Live, Completed
<1> QED
  BY <1>2, <1>3

-----------------------------------------------------------------------------
(* The callbacks.                                                          *)

\* The part of the invariant about one run.
Run(c) ==
    /\ at[c] \in Early => id[c] = NoTask
    /\ at[c] \in Window => Holds(c, box[PageOf[c]])
    /\ at[c] \in Asked => Holds(c, id[c])
    /\ \A d \in answered[c] : at[d] \notin Sending
    /\ sent[c] \in Tasks => status[sent[c]] # "absent"
    /\ at[c] # "end" => broken[c] <= retries[c]
    /\ at[c] \notin {"fetch", "end"} => retries[c] = 0
    /\ at[c] = "fetch" => Missing(c) \/ (Succeeded(c) /\ broken[c] = retries[c])
    /\ message[c] = "result" =>
         at[c] = "end" /\ (Missing(c) \/ broken[c] = MaxFetches)

\* The invariant, run by run.
LEMMA RunByRun ==
    /\ IInv => TypeOK /\ \A c \in Runs : Run(c)
    /\ TypeOK' /\ (\A c \in Runs : Run(c)') => IInv'
<1>1. IInv => \A c \in Runs : Run(c)
  BY DEF IInv, Run, Fresh, OwnPage, WaitsForItsOwn, Holds, Asked, AnsweredOnce, Born, Counted,
         Tried, GaveUp
<1>2. (\A c \in Runs : Run(c)') => Fresh' /\ OwnPage' /\ WaitsForItsOwn' /\ AnsweredOnce' /\ Born'
  BY DEF Run, Fresh, OwnPage, WaitsForItsOwn, Holds, Asked, AnsweredOnce, Born
<1>3. (\A c \in Runs : Run(c)') => Counted' /\ Tried' /\ GaveUp'
  BY DEF Run, Counted, Tried, GaveUp
<1> QED
  BY <1>1, <1>2, <1>3 DEF IInv

\* A run that a step does not move, and what the step leaves of its page.
Beyond(d) ==
    /\ at'[d] = at[d] /\ id'[d] = id[d] /\ retries'[d] = retries[d]
    /\ broken'[d] = broken[d] /\ message'[d] = message[d] /\ sent'[d] = sent[d]
    /\ at[d] \in Window => Holds(d, box[PageOf[d]])'
    /\ at[d] \in Asked => /\ answered'[d] = answered[d] /\ cleared'[d] = cleared[d]
                          /\ \A e \in answered[d] : sent'[e] = sent[e]
    /\ \A e \in answered'[d] : at'[e] \notin Sending

\* Such a run keeps its part of the invariant.
LEMMA OthersInv ==
    ASSUME IInv, NEW c \in Runs, Lasting, Beyond(c)
    PROVE  Run(c)'
<1>0. Run(c)
  BY RunByRun
<1>1. /\ Missing(c) => Missing(c)'
      /\ Succeeded(c) => Missing(c)' \/ Succeeded(c)'
  BY IdLasting DEF Beyond
<1>2. at'[c] \in Early => id'[c] = NoTask
  BY <1>0 DEF Run, Beyond
<1>3. at'[c] \in Window => Holds(c, box[PageOf[c]])'
  BY DEF Beyond
<1>4. at'[c] \in Asked => Holds(c, id[c])'
  <2> SUFFICES ASSUME at'[c] \in Asked PROVE Holds(c, id[c])'
    OBVIOUS
  <2>1. /\ answered'[c] = answered[c] /\ cleared'[c] = cleared[c] /\ sent'[c] = sent[c]
        /\ \A e \in answered[c] : sent'[e] = sent[e]
        /\ id'[c] = id[c] /\ Holds(c, id[c])
    BY <1>0 DEF Run, Beyond
  <2>2. {sent'[d] : d \in answered'[c]} = {sent[d] : d \in answered[c]}
    BY <2>1
  <2> QED
    BY <2>1, <2>2 DEF Holds
<1>5. \A d \in answered'[c] : at'[d] \notin Sending
  BY DEF Beyond
<1>6. sent'[c] \in Tasks => status'[sent'[c]] # "absent"
  BY <1>0 DEF Run, Beyond, Lasting
<1>7. /\ at'[c] # "end" => broken'[c] <= retries'[c]
      /\ at'[c] \notin {"fetch", "end"} => retries'[c] = 0
  BY <1>0 DEF Run, Beyond
<1>8. at'[c] = "fetch" => Missing(c)' \/ (Succeeded(c)' /\ broken'[c] = retries'[c])
  BY <1>0, <1>1 DEF Run, Beyond
<1>9. message'[c] = "result" =>
        at'[c] = "end" /\ (Missing(c)' \/ broken'[c] = MaxFetches)
  BY <1>0, <1>1 DEF Run, Beyond
<1> QED
  BY <1>2, <1>3, <1>4, <1>5, <1>6, <1>7, <1>8, <1>9 DEF Run

\* A step of the server, or of the reset button, moves no run.
LEMMA ServerInv ==
    ASSUME IInv, QueueType', Lasting,
           UNCHANGED <<at, box, wait, message, sent, since>>,
           shown' \in [Pages -> MaybeTasks], expiring' \subseteq Tasks
    PROVE  IInv'
<1> USE DEF wait, since
<1>1. TypeOK'
  BY DEF IInv, TypeOK, Waiting, MaybeTasks
<1>2. ASSUME NEW c \in Runs PROVE Beyond(c)
  BY RunByRun DEF Beyond, Run, Holds
<1> QED
  BY <1>1, <1>2, OthersInv, RunByRun

\* A callback keeps the invariant if it keeps it for its own run.
LEMMA CallbackInv ==
    ASSUME IInv, NEW c \in Runs, TypeOK', Lasting, \A d \in Runs \ {c} : Beyond(d), Run(c)'
    PROVE  IInv'
<1>1. ASSUME NEW d \in Runs \ {c} PROVE Run(d)'
  BY OthersInv
<1> QED
  BY <1>1, RunByRun

\* A callback that leaves the page's task as it is.
Quiet(c) ==
    /\ UNCHANGED <<box, sent, since>>
    /\ at[c] \notin Sending => at'[c] \notin Sending
    /\ \A d \in Runs \ {c} :
          /\ at'[d] = at[d] /\ id'[d] = id[d] /\ retries'[d] = retries[d]
          /\ broken'[d] = broken[d] /\ message'[d] = message[d]

\* Such a callback moves no other run, and keeps what its own may find.
LEMMA QuietBeyond ==
    ASSUME IInv, NEW c \in Runs, Quiet(c)
    PROVE  /\ \A d \in Runs \ {c} : Beyond(d)
           /\ \A e \in answered'[c] : at'[e] \notin Sending
           /\ \A x : Holds(c, x) => Holds(c, x)'
<1>1. \A d \in Runs : \A e \in answered'[d] : at'[e] \notin Sending
  BY DEF Quiet, since, IInv, AnsweredOnce, TypeOK
<1> QED
  BY <1>1, RunByRun DEF Quiet, since, Beyond, Run, Holds

\* A callback that moves a run within the parts of it that share no page.
LEMMA GotoType ==
    ASSUME TypeOK, NEW c \in Runs, NEW from,
           NEW to \in {"clear", "send", "reply", "show", "queue", "poll", "fetch", "end"},
           Goto(c, from, to),
           to \in {"poll", "fetch"} => Waiting \subseteq {c}
    PROVE  /\ at' \in [Runs -> {"off", "clear", "send", "reply", "show", "queue", "poll", "fetch", "end"}]
           /\ at[c] = from /\ at'[c] = to
           /\ \A d \in Runs \ {c} : at'[d] = at[d]
           /\ \A d, e \in Waiting' : d = e
<1>1. at \in [Runs -> {"off", "clear", "send", "reply", "show", "queue", "poll", "fetch", "end"}]
  BY DEF TypeOK
<1>2. /\ at' \in [Runs -> {"off", "clear", "send", "reply", "show", "queue", "poll", "fetch", "end"}]
      /\ at[c] = from /\ at'[c] = to
      /\ \A d \in Runs \ {c} : at'[d] = at[d]
  BY <1>1 DEF Goto
<1>3. \A d, e \in Waiting' : d = e
  <2>1. Waiting' \subseteq Waiting \cup {c}
    BY <1>2 DEF Waiting
  <2>2. to \notin {"poll", "fetch"} => Waiting' \subseteq Waiting
    BY <1>2 DEF Waiting
  <2> QED
    BY <2>1, <2>2 DEF TypeOK
<1> QED
  BY <1>2, <1>3

\* Pressing, clearing and asking.
LEMMA PageInv ==
    ASSUME IInv, NEW c \in Runs, Press(c) \/ Clear(c) \/ Ask(c)
    PROVE  IInv'
<1>0. TypeOK /\ Run(c) /\ QueueType' /\ Lasting /\ status' = status
  BY RunByRun, LastingStays DEF TypeOK, Press, Clear, Ask
<1>1. CASE Press(c)
  <2>1. Quiet(c)
    BY <1>1, <1>0, GotoType DEF Press, Quiet, Sending, page, wait
  <2>2. TypeOK'
    BY <1>1, <1>0, GotoType DEF Press, TypeOK, page, wait, since
  <2>3. at'[c] = "clear" /\ at[c] = "off"
    BY <1>1, <1>0, GotoType DEF Press
  <2>4. Run(c)'
    BY <1>1, <1>0, <2>3, <2>1, QuietBeyond
    DEF Press, Run, Early, Sending, Window, Asked, page, wait, since
  <2> QED
    BY <1>0, <2>1, <2>2, <2>4, QuietBeyond, CallbackInv
<1>2. CASE Clear(c)
  <2>0. /\ box' = [box EXCEPT ![PageOf[c]] = NoTask]
        /\ shown' = [shown EXCEPT ![PageOf[c]] = NoTask]
        /\ Cleared(c)
        /\ UNCHANGED <<id, retries, broken, message, expiring, sent>>
        /\ Goto(c, "clear", "send")
    BY <1>2 DEF Clear, wait
  <2>1. /\ at'[c] = "send" /\ at[c] = "clear"
        /\ \A d \in Runs \ {c} : at'[d] = at[d]
    BY <1>0, <2>0, GotoType
  <2>2. /\ answered' \in [Runs -> SUBSET Runs] /\ cleared' \in [Runs -> SUBSET Runs]
        /\ answered'[c] = {} /\ cleared'[c] = {}
        /\ \A d \in Runs \ {c} :
              /\ answered'[d] = answered[d]
              /\ d \in Beside(c) => c \in cleared'[d]
              /\ d \notin Beside(c) => cleared'[d] = cleared[d]
    BY <1>0, <2>0 DEF Cleared, TypeOK
  <2>3. /\ box'[PageOf[c]] = NoTask
        /\ \A d \in Runs : PageOf[d] # PageOf[c] => box'[PageOf[d]] = box[PageOf[d]]
        /\ \A d \in Runs : box'[PageOf[d]] \in {box[PageOf[d]], NoTask}
    BY <1>0, <2>0, PageAssumption DEF TypeOK
  <2>4. ASSUME NEW d \in Runs \ {c} PROVE Beyond(d)
    <3>1. Run(d)
      BY RunByRun
    <3>2. \A e \in answered'[d] : at'[e] \notin Sending
      <4>1. answered[d] \subseteq Runs /\ c \notin answered[d]
        BY <1>0, <2>1, <3>1 DEF Run, TypeOK, Sending
      <4> QED
        BY <2>1, <2>2, <3>1, <4>1 DEF Run
    <3>3. ASSUME at[d] \in Window PROVE Holds(d, box[PageOf[d]])'
      <4>1. CASE PageOf[d] = PageOf[c]
        <5>1. d \in Beside(c)
          BY <3>3, <4>1 DEF Beside, Window
        <5> QED
          BY <2>0, <2>2, <2>3, <4>1, <5>1 DEF Holds
      <4>2. CASE PageOf[d] # PageOf[c]
        <5>1. d \notin Beside(c) /\ box'[PageOf[d]] = box[PageOf[d]]
          BY <2>3, <4>2 DEF Beside
        <5> QED
          BY <2>0, <2>2, <3>1, <3>3, <5>1 DEF Holds, Run
      <4> QED
        BY <4>1, <4>2
    <3>4. at[d] \in Asked => d \notin Beside(c)
      BY DEF Asked, Beside
    <3> QED
      BY <2>0, <2>1, <2>2, <3>2, <3>3, <3>4 DEF Beyond
  <2>5. TypeOK'
    BY <1>0, <2>0, <2>2, GotoType DEF TypeOK, MaybeTasks
  <2>6. Holds(c, box[PageOf[c]])'
    BY <2>2, <2>3 DEF Holds
  <2>7. Run(c)'
    BY <1>0, <2>0, <2>1, <2>2, <2>6 DEF Run, Early, Sending, Window, Asked
  <2> QED
    BY <1>0, <2>4, <2>5, <2>7, CallbackInv
<1>3. CASE Ask(c)
  <2>0. /\ id' = [id EXCEPT ![c] = box[PageOf[c]]]
        /\ UNCHANGED <<box, shown, retries, broken, message, expiring, sent, since>>
        /\ Goto(c, "show", "queue")
    BY <1>3 DEF Ask, page
  <2>1. Quiet(c)
    BY <1>0, <2>0, GotoType DEF Quiet, Sending, TypeOK
  <2>2. TypeOK'
    <3>1. id' \in [Runs -> MaybeTasks]
      BY <1>0, <2>0, PageAssumption DEF TypeOK
    <3> QED
      BY <1>0, <2>0, <3>1, GotoType DEF TypeOK, since
  <2>3. id'[c] = box[PageOf[c]] /\ at[c] = "show" /\ at'[c] = "queue"
    BY <1>0, <2>0, GotoType DEF TypeOK
  <2>4. Holds(c, id[c])'
    BY <1>0, <2>0, <2>3 DEF Run, Window, Holds, since
  <2>5. Run(c)'
    BY <1>0, <2>0, <2>1, <2>3, <2>4, QuietBeyond DEF Run, Early, Sending, Window, Asked
  <2> QED
    BY <1>0, <2>1, <2>2, <2>5, QuietBeyond, CallbackInv
<1> QED
  BY <1>1, <1>2, <1>3

\* The server takes a submission.
LEMMA PostInv ==
    ASSUME IInv, NEW c \in Runs, NEW t \in Tasks, Post(c, t)
    PROVE  IInv'
<1>0. /\ TypeOK /\ Run(c) /\ Goto(c, "send", "reply") /\ Accept(t)
      /\ sent' = [sent EXCEPT ![c] = t]
      /\ UNCHANGED <<box, shown, id, retries, broken, message, expiring, answered, cleared>>
  BY RunByRun DEF Post, page, wait, since
<1>1. QueueType' /\ Lasting /\ status'[t] = "pending"
  BY <1>0, ServerLasting DEF Accept, Advance, TypeOK, QueueType
<1>2. /\ at[c] = "send" /\ at'[c] = "reply" /\ sent'[c] = t
      /\ \A d \in Runs \ {c} : at'[d] = at[d] /\ sent'[d] = sent[d]
      /\ sent' \in [Runs -> MaybeTasks]
  BY <1>0, GotoType DEF TypeOK, MaybeTasks
<1>3. \A d \in Runs : c \notin answered[d] /\ answered[d] \subseteq Runs
  BY <1>0, <1>2, RunByRun DEF Run, Sending, TypeOK
<1>4. ASSUME NEW d \in Runs
      PROVE  /\ \A e \in answered[d] : sent'[e] = sent[e] /\ at'[e] \notin Sending
             /\ \A x : Holds(d, x) => Holds(d, x)'
  <2>1. Run(d)
    BY RunByRun
  <2>2. \A e \in answered[d] : sent'[e] = sent[e] /\ at'[e] \notin Sending
    BY <1>2, <1>3, <2>1 DEF Run
  <2>3. {sent'[e] : e \in answered[d]} = {sent[e] : e \in answered[d]}
    BY <2>2
  <2>4. d \in answered[d] => sent'[d] = sent[d]
    BY <2>2
  <2>5. answered'[d] = answered[d] /\ cleared'[d] = cleared[d]
    BY <1>0
  <2>6. \A x : Holds(d, x) => Holds(d, x)'
    BY <2>3, <2>4, <2>5 DEF Holds
  <2> QED
    BY <2>2, <2>6
<1>5. ASSUME NEW d \in Runs \ {c} PROVE Beyond(d)
  <2>1. Run(d)
    BY RunByRun
  <2>2. at[d] \in Window => Holds(d, box[PageOf[d]])'
    BY <1>0, <1>4, <2>1 DEF Run, Holds
  <2> QED
    BY <1>0, <1>2, <1>4, <2>2 DEF Beyond
<1>6. TypeOK'
  BY <1>0, <1>1, <1>2, GotoType DEF TypeOK
<1>7. Holds(c, box[PageOf[c]])'
  BY <1>0, <1>2, <1>4 DEF Run, Window, Holds
<1>8. Run(c)'
  BY <1>0, <1>1, <1>2, <1>4, <1>7 DEF Run, Early, Sending, Asked
<1> QED
  BY <1>1, <1>5, <1>6, <1>8, CallbackInv

\* The page gets the answer.
LEMMA ReceiveInv ==
    ASSUME IInv, NEW c \in Runs, Receive(c)
    PROVE  IInv'
<1>0. /\ TypeOK /\ Run(c) /\ Goto(c, "reply", "show")
      /\ box' = [box EXCEPT ![PageOf[c]] = sent[c]]
      /\ answered' = [d \in Runs |-> IF d \in Beside(c) THEN answered[d] \cup {c} ELSE answered[d]]
      /\ UNCHANGED <<status, shown, id, retries, broken, message, expiring, sent, cleared>>
  BY RunByRun DEF Receive, wait
<1>1. QueueType' /\ Lasting
  BY <1>0, LastingStays DEF TypeOK
<1>2. /\ at[c] = "reply" /\ at'[c] = "show"
      /\ \A d \in Runs \ {c} : at'[d] = at[d]
  BY <1>0, GotoType
<1>3. /\ answered' \in [Runs -> SUBSET Runs]
      /\ \A d \in Runs : /\ answered'[d] \subseteq answered[d] \cup {c}
                         /\ d \in Beside(c) => c \in answered'[d]
                         /\ d \notin Beside(c) => answered'[d] = answered[d]
  BY <1>0 DEF TypeOK
<1>4. /\ box' \in [Pages -> MaybeTasks]
      /\ \A d \in Runs : PageOf[d] = PageOf[c] => box'[PageOf[d]] = sent[c]
      /\ \A d \in Runs : PageOf[d] # PageOf[c] => box'[PageOf[d]] = box[PageOf[d]]
  BY <1>0, PageAssumption DEF TypeOK
<1>5. c \in Beside(c)
  BY <1>2 DEF Beside
<1>6. \A d \in Runs : \A e \in answered'[d] : at'[e] \notin Sending
  <2> SUFFICES ASSUME NEW d \in Runs, NEW e \in answered'[d] PROVE at'[e] \notin Sending
    OBVIOUS
  <2>1. e = c \/ (e \in answered[d] /\ e \in Runs)
    BY <1>0, <1>3 DEF TypeOK
  <2> QED
    BY <1>2, <2>1, RunByRun DEF Run, Sending
<1>7. \A d \in Runs : d \in Beside(c) => Holds(d, box[PageOf[d]])'
  <2> SUFFICES ASSUME NEW d \in Runs, d \in Beside(c) PROVE Holds(d, box[PageOf[d]])'
    OBVIOUS
  <2>1. box'[PageOf[d]] = sent'[c] /\ c \in answered'[d]
    BY <1>0, <1>3, <1>4 DEF Beside
  <2> QED
    BY <2>1 DEF Holds
<1>8. ASSUME NEW d \in Runs \ {c} PROVE Beyond(d)
  <2>1. Run(d)
    BY RunByRun
  <2>2. at[d] \in Window => Holds(d, box[PageOf[d]])'
    <3>1. CASE d \in Beside(c)
      BY <1>7, <3>1
    <3>2. CASE at[d] \in Window /\ d \notin Beside(c)
      <4>1. box'[PageOf[d]] = box[PageOf[d]]
        BY <1>4, <3>2 DEF Beside, Window
      <4> QED
        BY <1>0, <1>3, <2>1, <3>2, <4>1 DEF Run, Holds
    <3> QED
      BY <3>1, <3>2
  <2>3. at[d] \in Asked => d \notin Beside(c)
    BY DEF Asked, Beside
  <2> QED
    BY <1>0, <1>2, <1>3, <1>6, <2>2, <2>3 DEF Beyond
<1>9. TypeOK'
  BY <1>0, <1>1, <1>3, <1>4, GotoType DEF TypeOK
<1>10. Run(c)'
  BY <1>0, <1>2, <1>5, <1>6, <1>7 DEF Run, Early, Sending, Asked
<1> QED
  BY <1>1, <1>8, <1>9, <1>10, CallbackInv

\* Moving on without touching the page, or giving up before the result.
LEMMA MoveInv ==
    ASSUME IInv, NEW c \in Runs,
           SendLost(c) \/ SendFails(c) \/ Enter(c) \/ PollOver(c) \/ PollFailure(c) \/ PollFails(c)
    PROVE  IInv'
<1>1. PICK from \in {"send", "reply", "queue", "poll"}, to \in {"show", "poll", "fetch", "end"} :
        /\ Goto(c, from, to)
        /\ from \in {"send", "reply"} <=> to = "show"
        /\ to \in {"poll", "fetch"} => Waiting \subseteq {c}
        /\ to = "fetch" => Missing(c) \/ Succeeded(c)
        /\ UNCHANGED <<status, page, wait, expiring, sent, since>>
        /\ message' = message \/ (message' \in {[message EXCEPT ![c] = "send"],
                                                [message EXCEPT ![c] = "task"]})
  <2>1. CASE SendLost(c) \/ SendFails(c)
    BY <2>1 DEF SendLost, SendFails, Raise
  <2>2. CASE Enter(c)
    BY <2>2 DEF Enter
  <2>3. CASE PollOver(c)
    <3>1. at[c] = "poll"
      BY <2>3 DEF PollOver, Goto
    <3>2. Waiting \subseteq {c}
      BY <3>1 DEF Waiting, IInv, TypeOK
    <3> QED
      BY <2>3, <3>2 DEF PollOver
  <2>4. CASE PollFailure(c) \/ PollFails(c)
    BY <2>4 DEF PollFailure, PollFails, Raise
  <2> QED
    BY <2>1, <2>2, <2>3, <2>4
<1>2. TypeOK /\ Run(c) /\ QueueType' /\ Lasting
  BY <1>1, RunByRun, LastingStays DEF TypeOK
<1>3. UNCHANGED <<status, box, shown, id, retries, broken, expiring, sent, since>>
  BY <1>1 DEF page, wait
<1>4. /\ at[c] = from /\ at'[c] = to
      /\ \A d \in Runs \ {c} : at'[d] = at[d] /\ message'[d] = message[d]
      /\ message'[c] \in {message[c], "send", "task"}
  BY <1>1, <1>2, GotoType DEF TypeOK
<1>5. Quiet(c)
  BY <1>1, <1>3, <1>4 DEF Quiet, Sending
<1>6. TypeOK'
  BY <1>1, <1>2, <1>3, GotoType DEF TypeOK, since
<1>7. message'[c] # "result"
  BY <1>2, <1>4 DEF Run
<1>8. Missing(c)' = Missing(c) /\ Succeeded(c)' = Succeeded(c)
  BY <1>3 DEF Missing, Succeeded, Found
<1>9. broken[c] <= retries[c] /\ retries[c] = 0 /\ broken[c] \in Nat
  BY <1>2, <1>4, PageAssumption DEF Run, TypeOK
<1>10. broken'[c] = retries'[c] /\ retries'[c] = 0
  BY <1>3, <1>9
<1>11. /\ \A e \in answered'[c] : at'[e] \notin Sending
       /\ at'[c] \in Window => Holds(c, box[PageOf[c]])'
       /\ at'[c] \in Asked => Holds(c, id[c])'
  BY <1>1, <1>2, <1>3, <1>4, <1>5, QuietBeyond DEF Run, Window, Asked, Holds
<1>12. Run(c)'
  BY <1>1, <1>2, <1>3, <1>4, <1>7, <1>8, <1>10, <1>11 DEF Run, Early, Sending
<1> QED
  BY <1>2, <1>5, <1>6, <1>12, QuietBeyond, CallbackInv

\* Showing the result.
LEMMA ShowInv ==
    ASSUME IInv, NEW c \in Runs, FetchShows(c)
    PROVE  IInv'
<1>1. /\ Goto(c, "fetch", "end")
      /\ shown' = [shown EXCEPT ![PageOf[c]] = id[c]]
      /\ UNCHANGED <<status, box, id, retries, broken, message, sent, since>>
  BY DEF FetchShows, wait
<1>2. TypeOK /\ Run(c) /\ QueueType' /\ Lasting
  BY <1>1, RunByRun, LastingStays DEF TypeOK
<1>3. id[c] \in MaybeTasks /\ (Succeeded(c) => id[c] \in Tasks)
  BY <1>2 DEF TypeOK, Succeeded, Missing
<1>4. expiring' \subseteq Tasks
  BY <1>2, <1>3 DEF FetchShows, Fetched, TypeOK
<1>5. Quiet(c)
  BY <1>1, <1>2, GotoType DEF Quiet, Sending
<1>6. TypeOK'
  BY <1>1, <1>2, <1>3, <1>4, GotoType DEF TypeOK, since
<1>7. at[c] = "fetch" /\ at'[c] = "end"
  BY <1>1, <1>2, GotoType
<1>8. Holds(c, id[c])'
  BY <1>1, <1>2, <1>7 DEF Run, Asked, Holds, since
<1>9. Run(c)'
  BY <1>1, <1>2, <1>5, <1>7, <1>8, QuietBeyond
  DEF Run, Early, Sending, Window, Missing, Succeeded, Found
<1> QED
  BY <1>2, <1>5, <1>6, <1>9, QuietBeyond, CallbackInv

\* Trying again, or giving up on the result.
LEMMA RetryInv ==
    ASSUME IInv, NEW c \in Runs, FetchMissing(c) \/ FetchBreaks(c)
    PROVE  IInv'
<1>1. /\ Retry(c)
      /\ UNCHANGED <<status, box, shown, id, sent, since>>
      /\ \/ ~Succeeded(c) /\ broken' = broken
         \/ broken' = [broken EXCEPT ![c] = @ + 1]
  BY DEF FetchMissing, FetchBreaks, page
<1>2. TypeOK /\ Run(c) /\ QueueType' /\ Lasting
  BY <1>1, RunByRun, LastingStays DEF TypeOK
<1>3. expiring' \subseteq Tasks
  BY <1>2 DEF FetchMissing, FetchBreaks, Fetched, TypeOK, Succeeded, Missing
<1>4. /\ retries[c] \in 0 .. MaxFetches - 1 /\ broken[c] \in 0 .. MaxFetches
      /\ MaxFetches \in Nat \ {0}
  BY <1>2, PageAssumption DEF TypeOK
<1>5. at[c] = "fetch"
  BY <1>1 DEF Retry, Goto
<1>6. /\ broken[c] <= retries[c]
      /\ Missing(c) \/ (Succeeded(c) /\ broken[c] = retries[c])
      /\ message[c] # "result"
  BY <1>2, <1>5 DEF Run
<1>7. Missing(c)' = Missing(c) /\ Succeeded(c)' = Succeeded(c)
  BY <1>1 DEF Missing, Succeeded, Found
<1>8. /\ broken' \in [Runs -> 0 .. MaxFetches]
      /\ \A d \in Runs \ {c} : broken'[d] = broken[d]
      /\ \/ ~Succeeded(c) /\ broken'[c] = broken[c]
         \/ broken'[c] = broken[c] + 1
  BY <1>1, <1>2, <1>4, <1>6 DEF TypeOK
<1>9. CASE /\ retries[c] + 1 < MaxFetches
           /\ Goto(c, "fetch", "fetch")
           /\ retries' = [retries EXCEPT ![c] = @ + 1]
           /\ UNCHANGED message
  <2>1. Waiting \subseteq {c}
    BY <1>2, <1>5 DEF TypeOK, Waiting
  <2>2. /\ retries' \in [Runs -> 0 .. MaxFetches - 1]
        /\ retries'[c] = retries[c] + 1
        /\ \A d \in Runs \ {c} : retries'[d] = retries[d]
    BY <1>2, <1>4, <1>9 DEF TypeOK
  <2>3. /\ at' \in [Runs -> {"off", "clear", "send", "reply", "show", "queue", "poll", "fetch", "end"}]
        /\ at'[c] = "fetch"
        /\ \A d \in Runs \ {c} : at'[d] = at[d]
        /\ \A d, e \in Waiting' : d = e
    BY <1>2, <1>9, <2>1, GotoType
  <2>4. Quiet(c)
    BY <1>1, <1>5, <1>8, <1>9, <2>2, <2>3 DEF Quiet, Sending
  <2>5. TypeOK'
    BY <1>1, <1>2, <1>3, <1>8, <1>9, <2>2, <2>3 DEF TypeOK, since
  <2>6. broken'[c] <= retries'[c] /\ (Missing(c) \/ broken'[c] = retries'[c])
    BY <1>4, <1>6, <1>8, <2>2 DEF Succeeded
  <2>7. Run(c)'
    <3>1. Holds(c, id[c])'
      BY <1>1, <1>2, <1>5 DEF Run, Asked, Holds, since
    <3> QED
      BY <1>1, <1>2, <1>6, <1>7, <1>9, <2>3, <2>4, <2>6, <3>1, QuietBeyond
      DEF Run, Early, Sending, Window
  <2> QED
    BY <1>2, <2>4, <2>5, <2>7, QuietBeyond, CallbackInv
<1>10. CASE /\ retries[c] + 1 >= MaxFetches
            /\ Goto(c, "fetch", "end")
            /\ Raise(c, "result")
            /\ UNCHANGED retries
  <2>1. /\ at' \in [Runs -> {"off", "clear", "send", "reply", "show", "queue", "poll", "fetch", "end"}]
        /\ at'[c] = "end"
        /\ \A d \in Runs \ {c} : at'[d] = at[d]
        /\ \A d, e \in Waiting' : d = e
    BY <1>2, <1>10, GotoType
  <2>2. /\ message' \in [Runs -> {"none", "send", "task", "result"}]
        /\ \A d \in Runs \ {c} : message'[d] = message[d]
    BY <1>2, <1>10 DEF Raise, TypeOK
  <2>3. Quiet(c)
    BY <1>1, <1>5, <1>8, <1>10, <2>1, <2>2 DEF Quiet, Sending
  <2>4. TypeOK'
    BY <1>1, <1>2, <1>3, <1>8, <1>10, <2>1, <2>2 DEF TypeOK, since
  <2>5. Missing(c) \/ broken'[c] = MaxFetches
    <3>1. CASE Missing(c)
      BY <3>1
    <3>2. CASE Succeeded(c) /\ broken[c] = retries[c]
      BY <1>4, <1>8, <1>10, <3>2
    <3> QED
      BY <1>6, <3>1, <3>2
  <2>6. Run(c)'
    <3>1. Holds(c, id[c])'
      BY <1>1, <1>2, <1>5 DEF Run, Asked, Holds, since
    <3> QED
      BY <1>1, <1>2, <1>7, <2>1, <2>3, <2>5, <3>1, QuietBeyond DEF Run, Early, Sending, Window
  <2> QED
    BY <1>2, <2>3, <2>4, <2>6, QuietBeyond, CallbackInv
<1> QED
  BY <1>1, <1>9, <1>10 DEF Retry

-----------------------------------------------------------------------------
(* The theorems.                                                           *)

\* Every step keeps the invariant.
LEMMA StepInv == IInv /\ [Next]_vars => IInv'
<1> SUFFICES ASSUME IInv, [Next]_vars PROVE IInv'
  OBVIOUS
<1>0. TypeOK /\ QueueType
  BY DEF IInv, TypeOK
<1>1. CASE UNCHANGED vars
  <2>1. QueueType' /\ Lasting
    BY <1>0, <1>1, LastingStays DEF vars
  <2> QED
    BY <1>0, <1>1, <2>1, ServerInv DEF vars, page, TypeOK
<1>2. ASSUME NEW c \in Runs, Press(c) \/ Callback(c) PROVE IInv'
  BY <1>2, PageInv, PostInv, ReceiveInv, MoveInv, ShowInv, RetryInv DEF Callback
<1>3. ASSUME NEW p \in Pages, Reset(p) PROVE IInv'
  <2>1. /\ QueueType' /\ Lasting
    BY <1>0, <1>3, LastingStays DEF Reset
  <2>2. shown' \in [Pages -> MaybeTasks]
    BY <1>0, <1>3 DEF Reset, TypeOK, MaybeTasks
  <2>3. UNCHANGED <<at, box, wait, message, sent, since>> /\ expiring' \subseteq Tasks
    BY <1>0, <1>3 DEF Reset, TypeOK
  <2> QED
    BY <2>1, <2>2, <2>3, ServerInv
<1>4. ASSUME NEW t \in Tasks, Late(t) \/ Work(t) \/ Expire(t) \/ Clean(t) PROVE IInv'
  <2>1. QueueType' /\ Lasting
    BY <1>0, <1>4, ServerLasting DEF Late
  <2>2. /\ UNCHANGED <<at, box, shown, wait, message, sent, since>>
        /\ expiring' \subseteq Tasks
    BY <1>0, <1>4 DEF Late, Work, Expire, Clean, page, TypeOK
  <2> QED
    BY <1>0, <2>1, <2>2, ServerInv DEF TypeOK
<1> QED
  BY <1>1, <1>2, <1>3, <1>4 DEF Next

\* The inductive invariant: what a run knows of the page and of the task.
THEOREM Invariance == Spec => []IInv
BY InitInv, StepInv, PTL DEF Spec

\* Every variable of the page keeps its type, and never more than one run of
\* any page is inside wait_task_finish, for any number of pages and presses.
THEOREM TypeCorrect == Spec => []TypeOK
<1>1. IInv => TypeOK
  BY DEF IInv
<1> QED
  BY <1>1, Invariance, PTL

\* A run waits for nothing or for a task whose submission was answered to its
\* page after it had cleared it; and for its own, if no other run has cleared
\* the page or been answered in between.
THEOREM OwnTaskOnly == Spec => []WaitsForItsOwn
<1>1. IInv => WaitsForItsOwn
  BY DEF IInv
<1> QED
  BY <1>1, Invariance, PTL

\* A run gives up on a result that the server still has only after every one
\* of its attempts broke.
THEOREM NoHastyEnd == Spec => []GivesUpForAReason
<1>1. IInv => GivesUpForAReason
  BY DEF IInv, GaveUp, GivesUpForAReason
<1> QED
  BY <1>1, Invariance, PTL

=============================================================================
