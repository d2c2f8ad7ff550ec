------------------------ MODULE GatewayReload_proofs ------------------------
(***************************************************************************)
(* Theorems about GatewayReload, for every set of configurations, proxies, *)
(* clients and requests.  IInv is proved inductive conjunct by conjunct;   *)
(* the properties of the reload follow from it.                            *)
(***************************************************************************)
EXTENDS GatewayReload, TLAPS

USE ConfigAssumption, IdAssumption

-----------------------------------------------------------------------------
(* The records of the model: what the updates of one field preserve.       *)

\* A client keeps its type when its status changes.
LEMMA ClientUpdate ==
    ASSUME NEW s \in {"unborn", "reserved", "open", "closed"}, NEW x \in ClientType
    PROVE  [x EXCEPT !.status = s] \in ClientType
  BY DEF ClientType

\* The local variables of a reload keep their types when one is assigned.
LEMMA JobUpdate ==
    ASSUME NEW x \in JobType, NEW c \in Configs, NEW p \in EnvValue, NEW i \in ClientIds
    PROVE  /\ [x EXCEPT !.cfg = c] \in JobType
           /\ [x EXCEPT !.proxy = p] \in JobType
           /\ [x EXCEPT !.prev = i] \in JobType
           /\ [x EXCEPT !.new = i] \in JobType
  BY DEF JobType

\* A request keeps its type when its image count or its outcome changes.
LEMMA ReqUpdate ==
    ASSUME NEW x \in ReqType, NEW n \in 0..MaxImages,
           NEW o \in {"none", "ok", "failed", "closed"}
    PROVE  /\ [x EXCEPT !.left = n] \in ReqType
           /\ [x EXCEPT !.outcome = o] \in ReqType
  BY DEF ReqType

\* The state object a reload builds has the type of app.state.gateway.
LEMMA GatewayRecord ==
    ASSUME NEW c \in Configs, NEW i \in ClientIds
    PROVE  [cfg |-> c, client |-> i] \in [cfg : Configs, client : ClientIds]
  OBVIOUS

-----------------------------------------------------------------------------
(* Every action keeps the variables in their types.                        *)

\* Start-up, whatever the container's environment is, gives every variable its type.
LEMMA InitType == Init => TypeOK
  <1> SUFFICES ASSUME NEW c \in Configs, Boot(c, WithFallback(c, ContainerEnv)) PROVE TypeOK
    BY DEF Init
  <1> DEFINE e == WithFallback(c, ContainerEnv)
  <1>1. e \in EnvValue
    BY DEF WithFallback, EnvValue
  <1> HIDE DEF e
  <1>2. Boot(c, e)
    BY DEF e
  <1>3. \A i \in ClientIds :
          Client(IF i = BootClient THEN "open" ELSE "unborn", c, e) \in ClientType
    BY <1>1 DEF Client, ClientType
  <1>4. clients \in [ClientIds -> ClientType]
    BY <1>2, <1>3 DEF Boot
  <1>5. job \in [Reloaders -> JobType]
    BY <1>1, <1>2 DEF Boot, JobType
  <1>6. req \in [Requests -> ReqType]
    BY <1>2 DEF Boot, ReqType
  <1>7. pc \in [Reloaders -> JobPc] /\ at \in [Requests -> ReqPc]
    BY <1>2 DEF Boot, JobPc, ReqPc
  <1>8. gateway \in [cfg : Configs, client : ClientIds]
    BY <1>2, GatewayRecord DEF Boot
  <1>9. disk \in Configs /\ env \in EnvValue /\ raised \in BOOLEAN
        /\ loop \in {"free", "stopped", "endpoint"} \cup Requests
    BY <1>1, <1>2 DEF Boot
  <1> QED BY <1>4, <1>5, <1>6, <1>7, <1>8, <1>9 DEF TypeOK

\* Moving a reloader to another step keeps the type of pc.
LEMMA AdvanceType ==
    ASSUME TypeOK, NEW r \in Reloaders, NEW from, NEW to \in JobPc, Advance(r, from, to)
    PROVE  pc' \in [Reloaders -> JobPc]
  BY DEF TypeOK, Advance

\* The owner of the loop after a reload ends is an owner the loop may have.
LEMMA ReleaseType ==
    ASSUME TypeOK, NEW r
    PROVE  Release(r) \in {"free", "stopped", "endpoint"} \cup Requests
  BY DEF TypeOK, Release

\* Answering a request keeps every variable in its type.
LEMMA FinishType ==
    ASSUME TypeOK, NEW q \in Requests, NEW o \in {"ok", "failed", "closed"}, Finish(q, o)
    PROVE  TypeOK'
  <1>1. req' \in [Requests -> ReqType]
    <2>1. 0 \in 0..MaxImages
      OBVIOUS
    <2>2. req \in [Requests -> ReqType] /\ req' = [req EXCEPT ![q].outcome = o]
      BY DEF TypeOK, Finish
    <2>3. [req[q] EXCEPT !.outcome = o] \in ReqType
      BY <2>1, <2>2, ReqUpdate
    <2> QED BY <2>2, <2>3
  <1>2. at' \in [Requests -> ReqPc]
    BY DEF Finish, TypeOK, ReqPc
  <1> QED BY <1>1, <1>2 DEF Finish, TypeOK

\* So does every step of reload_gateway_state ...
LEMMA ReloadStepType ==
    ASSUME TypeOK, NEW r \in Reloaders, ReloadStep(r)
    PROVE  TypeOK'
  <1>0. job \in [Reloaders -> JobType] /\ clients \in [ClientIds -> ClientType]
    BY DEF TypeOK
  <1>a. job[r] \in JobType /\ job[r].cfg \in Configs /\ job[r].proxy \in EnvValue
        /\ job[r].prev \in ClientIds /\ job[r].new \in ClientIds
    BY <1>0 DEF JobType
  <1>b. {"idle", "save", "read", "fallback", "env", "merge", "close", "build", "install"}
          \subseteq JobPc
    BY DEF JobPc
  <1>1. CASE SaveRuntimeConfig(r)
    <2>1. pc' \in [Reloaders -> JobPc]
      BY <1>1, <1>b, AdvanceType DEF SaveRuntimeConfig
    <2> QED BY <1>1, <1>a, <2>1 DEF SaveRuntimeConfig, TypeOK
  <1>2. CASE ReadConfig(r)
    <2>1. pc' \in [Reloaders -> JobPc]
      BY <1>2, <1>b, AdvanceType DEF ReadConfig
    <2>2. [job[r] EXCEPT !.cfg = disk] \in JobType
      BY <1>a, JobUpdate DEF TypeOK
    <2>3. job' \in [Reloaders -> JobType]
      BY <1>2, <1>0, <2>2 DEF ReadConfig
    <2> QED BY <1>2, <2>1, <2>3 DEF ReadConfig, TypeOK
  <1>3. CASE FillFromEnv(r)
    <2>1. pc' \in [Reloaders -> JobPc]
      BY <1>3, <1>b, AdvanceType DEF FillFromEnv
    <2>2. WithFallback(job[r].cfg, env) \in EnvValue
      BY <1>a DEF WithFallback, TypeOK, EnvValue
    <2>3. [job[r] EXCEPT !.proxy = WithFallback(job[r].cfg, env)] \in JobType
      BY <1>a, <2>2, JobUpdate
    <2>4. job' \in [Reloaders -> JobType]
      BY <1>3, <1>0, <2>3 DEF FillFromEnv
    <2> QED BY <1>3, <2>1, <2>4 DEF FillFromEnv, TypeOK
  <1>4. CASE ApplyProxyEnv(r)
    <2>1. pc' \in [Reloaders -> JobPc]
      BY <1>4, <1>b, AdvanceType DEF ApplyProxyEnv
    <2> QED BY <1>4, <1>a, <2>1 DEF ApplyProxyEnv, TypeOK
  <1>5. CASE MergeFails(r)
    <2>1. pc' \in [Reloaders -> JobPc]
      BY <1>5, <1>b, AdvanceType DEF MergeFails
    <2> QED BY <1>5, <2>1, ReleaseType DEF MergeFails, TypeOK
  <1>6. CASE MergeRouting(r)
    <2>1. pc' \in [Reloaders -> JobPc]
      BY <1>6, <1>b, AdvanceType DEF MergeRouting
    <2>2. gateway.client \in ClientIds
      BY DEF TypeOK
    <2>3. [job[r] EXCEPT !.prev = gateway.client] \in JobType
      BY <1>a, <2>2, JobUpdate
    <2>4. job' \in [Reloaders -> JobType]
      BY <1>6, <1>0, <2>3 DEF MergeRouting
    <2> QED BY <1>6, <2>1, <2>4 DEF MergeRouting, TypeOK
  <1>7. CASE ClosePrevious(r)
    <2>1. pc' \in [Reloaders -> JobPc]
      BY <1>7, <1>b, AdvanceType DEF ClosePrevious
    <2>2. [clients[job[r].prev] EXCEPT !.status = "closed"] \in ClientType
      BY <1>0, <1>a, ClientUpdate
    <2>3. clients' \in [ClientIds -> ClientType]
      BY <1>7, <1>0, <1>a, <2>2 DEF ClosePrevious
    <2> QED BY <1>7, <2>1, <2>3 DEF ClosePrevious, TypeOK
  <1>8. CASE BuildFails(r)
    <2>1. pc' \in [Reloaders -> JobPc]
      BY <1>8, <1>b, AdvanceType DEF BuildFails
    <2> QED BY <1>8, <2>1, ReleaseType DEF BuildFails, TypeOK
  <1>9. CASE BuildClient(r)
    <2>1. pc' \in [Reloaders -> JobPc]
      BY <1>9, <1>b, AdvanceType DEF BuildClient
    <2>2. Client("open", job[r].cfg, env) \in ClientType
      BY <1>a DEF Client, ClientType, TypeOK
    <2>3. clients' \in [ClientIds -> ClientType]
      BY <1>9, <1>0, <1>a, <2>2 DEF BuildClient
    <2> QED BY <1>9, <2>1, <2>3 DEF BuildClient, TypeOK
  <1>10. CASE InstallState(r)
    <2>1. pc' \in [Reloaders -> JobPc]
      BY <1>10, <1>b, AdvanceType DEF InstallState
    <2>2. gateway' \in [cfg : Configs, client : ClientIds]
      BY <1>10, <1>a, GatewayRecord DEF InstallState
    <2> QED BY <1>10, <2>1, <2>2, ReleaseType DEF InstallState, TypeOK
  <1> QED
    BY <1>1, <1>2, <1>3, <1>4, <1>5, <1>6, <1>7, <1>8, <1>9, <1>10 DEF ReloadStep

\* ... the start of a reload ...
LEMMA StartType ==
    ASSUME TypeOK, NEW r \in Reloaders, NEW id \in ClientIds, NEW first \in JobPc,
           Start(r, id, first)
    PROVE  pc' \in [Reloaders -> JobPc] /\ clients' \in [ClientIds -> ClientType]
  <1>0. clients \in [ClientIds -> ClientType]
    BY DEF TypeOK
  <1>1. [clients[id] EXCEPT !.status = "reserved"] \in ClientType
    BY <1>0, ClientUpdate
  <1>2. clients' \in [ClientIds -> ClientType]
    BY <1>0, <1>1 DEF Start
  <1> QED BY <1>2, AdvanceType DEF Start

\* ... and every step of the synchronous part of a request handler.
LEMMA RequestStepType ==
    ASSUME TypeOK, NEW q \in Requests, RequestStep(q)
    PROVE  TypeOK'
  <1>0. at \in [Requests -> ReqPc] /\ req \in [Requests -> ReqType]
    BY DEF TypeOK
  <1>1. CASE PostUpstream(q)
    <2>1. at' \in [Requests -> ReqPc]
      BY <1>1, <1>0 DEF PostUpstream, ReqPc
    <2> QED BY <1>1, <2>1 DEF PostUpstream, TypeOK
  <1>2. CASE PostOnClosedClient(q)
    BY <1>2, FinishType DEF PostOnClosedClient
  <1>3. CASE NextImage(q)
    <2>1. at' \in [Requests -> ReqPc]
      BY <1>3, <1>0 DEF NextImage, ReqPc
    <2>2. req[q] \in ReqType /\ req[q].left \in 0..MaxImages /\ req[q].left > 1
      BY <1>3, <1>0 DEF NextImage, ReqType
    <2>3. req[q].left - 1 \in 0..MaxImages
      BY <2>2
    <2>4. [req[q] EXCEPT !.left = req[q].left - 1] \in ReqType
      BY <2>2, <2>3, ReqUpdate
    <2>5. req' \in [Requests -> ReqType]
      BY <1>3, <1>0, <2>4 DEF NextImage
    <2> QED BY <1>3, <2>1, <2>5 DEF NextImage, TypeOK
  <1>4. CASE LastImage(q)
    BY <1>4, FinishType DEF LastImage
  <1>5. CASE CallFails(q)
    BY <1>5, FinishType DEF CallFails
  <1> QED BY <1>1, <1>2, <1>3, <1>4, <1>5 DEF RequestStep

\* Type correctness is inductive on its own.
LEMMA StepType == TypeOK /\ [Next]_vars => TypeOK'
  <1> SUFFICES ASSUME TypeOK, [Next]_vars PROVE TypeOK'
    OBVIOUS
  <1>0. /\ job \in [Reloaders -> JobType] /\ clients \in [ClientIds -> ClientType]
        /\ at \in [Requests -> ReqPc] /\ req \in [Requests -> ReqType]
    BY DEF TypeOK
  <1>1. ASSUME NEW id \in ClientIds, AdminReload(id) PROVE TypeOK'
    <2>1. "endpoint" \in Reloaders /\ "read" \in JobPc
      BY <1>1 DEF AdminReload, JobPc
    <2>2. pc' \in [Reloaders -> JobPc] /\ clients' \in [ClientIds -> ClientType]
      BY <1>1, <2>1, StartType DEF AdminReload
    <2>a. job["endpoint"] \in JobType /\ disk \in Configs /\ env \in EnvValue
      BY <1>0, <2>1 DEF TypeOK
    <2>3. [job["endpoint"] EXCEPT !.new = id] \in JobType
      BY <2>a, JobUpdate
    <2>4. job' \in [Reloaders -> JobType]
      BY <1>1, <1>0, <2>1, <2>3 DEF AdminReload
    <2> QED BY <1>1, <2>2, <2>4 DEF AdminReload, TypeOK
  <1>2. ASSUME NEW id \in ClientIds, NEW c \in Configs, SaveClicked(c, id) PROVE TypeOK'
    <2>1. "ui" \in Reloaders /\ "save" \in JobPc
      BY <1>2 DEF SaveClicked, JobPc
    <2>2. pc' \in [Reloaders -> JobPc] /\ clients' \in [ClientIds -> ClientType]
      BY <1>2, <2>1, StartType DEF SaveClicked
    <2>3. [cfg |-> c, proxy |-> job["ui"].proxy, prev |-> job["ui"].prev, new |-> id] \in JobType
      BY <1>0, <2>1 DEF JobType
    <2>4. job' \in [Reloaders -> JobType]
      BY <1>2, <1>0, <2>1, <2>3 DEF SaveClicked
    <2> QED BY <1>2, <2>2, <2>4 DEF SaveClicked, TypeOK
  <1>3. ASSUME NEW r \in Reloaders, ReloadStep(r) PROVE TypeOK'
    BY <1>3, ReloadStepType
  <1>4. ASSUME NEW q \in Requests, Arrive(q) PROVE TypeOK'
    <2>1. at' \in [Requests -> ReqPc]
      BY <1>4, <1>0 DEF Arrive, ReqPc
    <2>2. [cfg |-> gateway.cfg, client |-> gateway.client, left |-> 0, outcome |-> "none"]
            \in ReqType
      BY DEF ReqType, TypeOK
    <2>3. req' \in [Requests -> ReqType]
      BY <1>4, <1>0, <2>2 DEF Arrive
    <2> QED BY <1>4, <2>1, <2>3 DEF Arrive, TypeOK
  <1>5. ASSUME NEW q \in Requests, NEW n \in 1..MaxImages, BodyReceived(q, n) PROVE TypeOK'
    <2>1. at' \in [Requests -> ReqPc]
      BY <1>5, <1>0 DEF BodyReceived, ReqPc
    <2>2. n \in 0..MaxImages
      OBVIOUS
    <2>3. [req[q] EXCEPT !.left = n] \in ReqType
      BY <1>0, <2>2, ReqUpdate
    <2>4. req' \in [Requests -> ReqType]
      BY <1>5, <1>0, <2>3 DEF BodyReceived
    <2> QED BY <1>5, <2>1, <2>4 DEF BodyReceived, TypeOK
  <1>6. ASSUME NEW q \in Requests, BodyRejected(q) PROVE TypeOK'
    BY <1>6, FinishType DEF BodyRejected
  <1>7. ASSUME NEW q \in Requests, RequestStep(q) PROVE TypeOK'
    BY <1>7, RequestStepType
  <1>8. CASE Shutdown
    <2>1. [clients[BootClient] EXCEPT !.status = "closed"] \in ClientType
      BY <1>0, ClientUpdate
    <2>2. clients' \in [ClientIds -> ClientType]
      BY <1>8, <1>0, <2>1 DEF Shutdown
    <2> QED BY <1>8, <2>2 DEF Shutdown, TypeOK
  <1>9. CASE UNCHANGED vars
    BY <1>9 DEF vars, TypeOK
  <1> QED
    BY <1>1, <1>2, <1>3, <1>4, <1>5, <1>6, <1>7, <1>8, <1>9 DEF Next

-----------------------------------------------------------------------------
(* What the updates of one field of one record do to the others.           *)

\* Changing one client's status changes nothing else of any client.
LEMMA StatusEffect ==
    ASSUME NEW f \in [ClientIds -> ClientType], NEW j \in ClientIds,
           NEW s, NEW g, g = [f EXCEPT ![j].status = s]
    PROVE  \A i \in ClientIds : /\ g[i].cfg = f[i].cfg
                                /\ g[i].status = IF i = j THEN s ELSE f[i].status
  BY DEF ClientType

\* Assigning the configuration or the proxy of one reload changes no client of any.
LEMMA JobEffect ==
    ASSUME NEW f \in [Reloaders -> JobType], NEW r \in Reloaders, NEW v, NEW g,
           \/ g = [f EXCEPT ![r].cfg = v]
           \/ g = [f EXCEPT ![r].proxy = v]
    PROVE  \A s \in Reloaders : /\ g[s].new = f[s].new
                                /\ g[s].prev = f[s].prev
                                /\ s # r => g[s].cfg = f[s].cfg
  BY DEF JobType

\* Reading `previous` in one reload changes nothing else of any.
LEMMA PrevEffect ==
    ASSUME NEW f \in [Reloaders -> JobType], NEW r \in Reloaders, NEW v, NEW g,
           g = [f EXCEPT ![r].prev = v]
    PROVE  \A s \in Reloaders : /\ g[s].new = f[s].new
                                /\ g[s].prev = IF s = r THEN v ELSE f[s].prev
                                /\ g[s].cfg = f[s].cfg
  BY DEF JobType

\* Giving one reload its client identity changes nothing else of any.
LEMMA NewEffect ==
    ASSUME NEW f \in [Reloaders -> JobType], NEW r \in Reloaders, NEW v, NEW g,
           g = [f EXCEPT ![r].new = v]
    PROVE  \A s \in Reloaders : /\ g[s].new = IF s = r THEN v ELSE f[s].new
                                /\ g[s].prev = f[s].prev
                                /\ g[s].cfg = f[s].cfg
  BY DEF JobType

\* Only the reloader that steps changes its place.
LEMMA AdvanceEffect ==
    ASSUME TypeOK, NEW r \in Reloaders, NEW from, NEW to, Advance(r, from, to)
    PROVE  /\ pc[r] = from
           /\ \A s \in Reloaders : pc'[s] = IF s = r THEN to ELSE pc[s]
  BY DEF TypeOK, Advance

-----------------------------------------------------------------------------
(* The inductive invariant.                                                *)

\* The state build_gateway_state leaves satisfies the inductive invariant.
LEMMA InitInv == Init => IInv
  <1> SUFFICES ASSUME Init PROVE IInv
    OBVIOUS
  <1>0. TypeOK
    BY InitType
  <1>1. PICK c \in Configs : Boot(c, WithFallback(c, ContainerEnv))
    BY DEF Init
  <1>2. /\ gateway = [cfg |-> c, client |-> BootClient]
        /\ clients[BootClient].status = "open"
        /\ clients[BootClient].cfg = c
    BY <1>1 DEF Boot, Client
  <1>3. /\ \A r \in Reloaders : pc[r] = "idle"
        /\ \A q \in Requests : at[q] = "idle"
    BY <1>1 DEF Boot
  <1>4. JobInv /\ NewInv /\ LoopInv
    BY <1>3 DEF JobInv, NewInv, LoopInv, Active
  <1>5. BornInv /\ OneGeneration /\ ClosedOnlyInWindow
    BY <1>2, <1>3 DEF BornInv, Born, OneGeneration, ClosedOnlyInWindow, Handling
  <1> QED BY <1>0, <1>4, <1>5 DEF IInv

\* The steps of a reload that neither touch a client nor the state object.
LEMMA LocalStepInv ==
    ASSUME IInv, NEW r \in Reloaders, TypeOK',
           NEW from \in {"save", "read", "fallback", "env"},
           NEW to \in {"read", "fallback", "env", "merge"},
           Advance(r, from, to),
           \A s \in Reloaders : /\ job'[s].new = job[s].new
                                /\ job'[s].prev = job[s].prev
                                /\ s # r => job'[s].cfg = job[s].cfg,
           UNCHANGED <<gateway, clients, at, req, loop, raised>>
    PROVE  IInv'
  <1>1. /\ pc[r] = from
        /\ \A s \in Reloaders : pc'[s] = IF s = r THEN to ELSE pc[s]
    BY AdvanceEffect DEF IInv
  <1>2. JobInv'
    BY <1>1 DEF IInv, JobInv, Active, Born
  <1>3. NewInv'
    BY <1>1 DEF IInv, NewInv, Active
  <1>4. BornInv'
    BY DEF IInv, BornInv, Born, Handling
  <1>5. LoopInv'
    BY <1>1 DEF IInv, LoopInv, Active
  <1>6. OneGeneration'
    BY DEF IInv, OneGeneration, Handling
  <1>7. ClosedOnlyInWindow'
    BY <1>1 DEF IInv, ClosedOnlyInWindow
  <1> QED BY <1>2, <1>3, <1>4, <1>5, <1>6, <1>7 DEF IInv

\* A reload that starts: its client is one nobody knows yet.
LEMMA StartInv ==
    ASSUME IInv, TypeOK', NEW r \in Reloaders, NEW id \in ClientIds,
           NEW first \in {"save", "read"}, Start(r, id, first),
           \A s \in Reloaders : /\ job'[s].new = IF s = r THEN id ELSE job[s].new
                                /\ job'[s].prev = job[s].prev
                                /\ s # r => job'[s].cfg = job[s].cfg,
           r = "endpoint" => loop' = "endpoint",
           r # "endpoint" => loop' = loop,
           UNCHANGED <<gateway, at, req, raised>>
    PROVE  IInv'
  <1>1. /\ pc[r] = "idle"
        /\ \A s \in Reloaders : pc'[s] = IF s = r THEN first ELSE pc[s]
    BY AdvanceEffect DEF IInv, Start
  <1>2. /\ \A i \in ClientIds :
              /\ clients'[i].cfg = clients[i].cfg
              /\ clients'[i].status = IF i = id THEN "reserved" ELSE clients[i].status
        /\ clients[id].status = "unborn"
        /\ loop = "free"
    BY StatusEffect DEF IInv, TypeOK, Start
  <1>3. /\ gateway.client \in ClientIds
        /\ \A s \in Reloaders : job[s].new \in ClientIds /\ job[s].prev \in ClientIds
        /\ \A q \in Requests : req[q].client \in ClientIds
    BY DEF IInv, TypeOK, JobType, ReqType
  <1>4. JobInv'
    BY <1>1, <1>2, <1>3 DEF IInv, JobInv, Active, Born
  <1>5. NewInv'
    BY <1>1, <1>2, <1>3 DEF IInv, JobInv, NewInv, BornInv, Active, Born
  <1>6. BornInv'
    BY <1>2, <1>3 DEF IInv, BornInv, Born, Handling
  <1>7. LoopInv'
    BY <1>1, <1>2 DEF IInv, LoopInv, Active
  <1>8. OneGeneration'
    BY <1>2, <1>3 DEF IInv, OneGeneration, Handling
  <1>9. ClosedOnlyInWindow'
    BY <1>1, <1>2, <1>3 DEF IInv, ClosedOnlyInWindow
  <1> QED BY <1>4, <1>5, <1>6, <1>7, <1>8, <1>9 DEF IInv

\* A reload that raises leaves every client as it is.
LEMMA RaisingStepInv ==
    ASSUME IInv, TypeOK', NEW r \in Reloaders, MergeFails(r) \/ BuildFails(r)
    PROVE  IInv'
  <1>1. /\ pc[r] \in {"merge", "build"}
        /\ pc[r] = "build" => raised'
        /\ pc[r] = "merge" => raised' = raised
        /\ \A s \in Reloaders : pc'[s] = IF s = r THEN "idle" ELSE pc[s]
    BY AdvanceEffect DEF IInv, MergeFails, BuildFails
  <1>2. UNCHANGED <<gateway, clients, job, at, req>> /\ loop' = Release(r)
    BY DEF MergeFails, BuildFails
  <1>3. r = "endpoint" => loop = "endpoint"
    BY <1>1 DEF IInv, LoopInv, Active
  <1>4. JobInv'
    BY <1>1, <1>2 DEF IInv, JobInv, Active, Born
  <1>5. NewInv'
    BY <1>1, <1>2 DEF IInv, NewInv, Active
  <1>6. BornInv'
    BY <1>2 DEF IInv, BornInv, Born, Handling
  <1>7. LoopInv'
    BY <1>1, <1>2, <1>3 DEF IInv, LoopInv, Active, Release
  <1>8. OneGeneration'
    BY <1>2 DEF IInv, OneGeneration, Handling
  <1>9. ClosedOnlyInWindow'
    <2>1. loop = "stopped" => loop' = "stopped"
      BY <1>2, <1>3 DEF Release
    <2>2. CASE pc[r] = "build"
      BY <1>1, <2>2 DEF ClosedOnlyInWindow
    <2>3. CASE pc[r] = "merge"
      BY <1>1, <1>2, <2>1, <2>3 DEF IInv, ClosedOnlyInWindow
    <2> QED BY <1>1, <2>2, <2>3
  <1> QED BY <1>4, <1>5, <1>6, <1>7, <1>8, <1>9 DEF IInv

\* The reload reads `previous`: a client that is installed, hence known.
LEMMA MergeRoutingInv ==
    ASSUME IInv, TypeOK', NEW r \in Reloaders, MergeRouting(r)
    PROVE  IInv'
  <1>1. /\ pc[r] = "merge"
        /\ \A s \in Reloaders : pc'[s] = IF s = r THEN "close" ELSE pc[s]
    BY AdvanceEffect DEF IInv, MergeRouting
  <1>2. \A s \in Reloaders :
            /\ job'[s].new = job[s].new
            /\ job'[s].prev = IF s = r THEN gateway.client ELSE job[s].prev
            /\ job'[s].cfg = job[s].cfg
    BY PrevEffect DEF IInv, TypeOK, MergeRouting
  <1>3. UNCHANGED <<gateway, clients, at, req, loop, raised>>
    BY DEF MergeRouting
  <1>4. JobInv'
    BY <1>1, <1>2, <1>3 DEF IInv, JobInv, BornInv, Active, Born
  <1>5. NewInv'
    BY <1>1, <1>2, <1>3 DEF IInv, NewInv, Active
  <1>6. BornInv'
    BY <1>3 DEF IInv, BornInv, Born, Handling
  <1>7. LoopInv'
    BY <1>1, <1>3 DEF IInv, LoopInv, Active
  <1>8. OneGeneration'
    BY <1>3 DEF IInv, OneGeneration, Handling
  <1>9. ClosedOnlyInWindow'
    BY <1>1, <1>2, <1>3 DEF IInv, ClosedOnlyInWindow
  <1> QED BY <1>4, <1>5, <1>6, <1>7, <1>8, <1>9 DEF IInv

\* The client that is closed is known, hence nobody's next client; if it is
\* the current one, the window of ClosedOnlyInWindow opens.
LEMMA ClosePreviousInv ==
    ASSUME IInv, TypeOK', NEW r \in Reloaders, ClosePrevious(r)
    PROVE  IInv'
  <1>1. /\ pc[r] = "close"
        /\ \A s \in Reloaders : pc'[s] = IF s = r THEN "build" ELSE pc[s]
    BY AdvanceEffect DEF IInv, ClosePrevious
  <1>2. /\ gateway.client \in ClientIds
        /\ \A s \in Reloaders : job[s].new \in ClientIds /\ job[s].prev \in ClientIds
        /\ \A q \in Requests : req[q].client \in ClientIds
    BY DEF IInv, TypeOK, JobType, ReqType
  <1>3. \A i \in ClientIds :
            /\ clients'[i].cfg = clients[i].cfg
            /\ clients'[i].status = IF i = job[r].prev THEN "closed" ELSE clients[i].status
    BY <1>2, StatusEffect DEF IInv, TypeOK, ClosePrevious
  <1>4. UNCHANGED <<gateway, job, at, req, loop, raised>>
    BY DEF ClosePrevious
  <1>5. JobInv'
    BY <1>1, <1>2, <1>3, <1>4 DEF IInv, JobInv, NewInv, Active, Born
  <1>6. NewInv'
    BY <1>1, <1>4 DEF IInv, NewInv, Active
  <1>7. BornInv'
    BY <1>2, <1>3, <1>4 DEF IInv, BornInv, Born, Handling
  <1>8. LoopInv'
    BY <1>1, <1>4 DEF IInv, LoopInv, Active
  <1>9. OneGeneration'
    BY <1>2, <1>3, <1>4 DEF IInv, OneGeneration, Handling
  <1>10. ClosedOnlyInWindow'
    BY <1>1, <1>2, <1>3, <1>4 DEF IInv, ClosedOnlyInWindow
  <1> QED BY <1>5, <1>6, <1>7, <1>8, <1>9, <1>10 DEF IInv

\* The new client is not yet the current one, nor held by any request.
LEMMA BuildClientInv ==
    ASSUME IInv, TypeOK', NEW r \in Reloaders, BuildClient(r)
    PROVE  IInv'
  <1>1. /\ pc[r] = "build"
        /\ \A s \in Reloaders : pc'[s] = IF s = r THEN "install" ELSE pc[s]
    BY AdvanceEffect DEF IInv, BuildClient
  <1>2. /\ gateway.client \in ClientIds
        /\ \A s \in Reloaders : job[s].new \in ClientIds /\ job[s].prev \in ClientIds
        /\ \A q \in Requests : req[q].client \in ClientIds
    BY DEF IInv, TypeOK, JobType, ReqType
  <1>a. clients \in [ClientIds -> ClientType]
    BY DEF IInv, TypeOK
  <1>b. clients' = [clients EXCEPT ![job[r].new] = Client("open", job[r].cfg, env)]
    BY DEF BuildClient
  <1>c. /\ clients'[job[r].new] = Client("open", job[r].cfg, env)
        /\ \A i \in ClientIds : i # job[r].new => clients'[i] = clients[i]
    BY <1>2, <1>a, <1>b
  <1>3. /\ clients'[job[r].new].status = "open"
        /\ clients'[job[r].new].cfg = job[r].cfg
        /\ \A i \in ClientIds : i # job[r].new => clients'[i] = clients[i]
    BY <1>c DEF Client
  <1>4. UNCHANGED <<gateway, job, at, req, loop, raised>>
    BY DEF BuildClient
  <1>5. clients[job[r].new].status = "reserved"
    BY <1>1 DEF IInv, JobInv, Active
  <1>6. JobInv'
    BY <1>1, <1>2, <1>3, <1>4 DEF IInv, JobInv, NewInv, Active, Born
  <1>7. NewInv'
    BY <1>1, <1>4 DEF IInv, NewInv, Active
  <1>8. BornInv'
    BY <1>2, <1>3, <1>4, <1>5 DEF IInv, BornInv, Born, Handling
  <1>9. LoopInv'
    BY <1>1, <1>4 DEF IInv, LoopInv, Active
  <1>10. OneGeneration'
    BY <1>1, <1>2, <1>3, <1>4, <1>5 DEF IInv, OneGeneration, BornInv, Born, Handling
  <1>11. ClosedOnlyInWindow'
    BY <1>1, <1>2, <1>3, <1>4, <1>5 DEF IInv, ClosedOnlyInWindow, BornInv, Born
  <1> QED BY <1>6, <1>7, <1>8, <1>9, <1>10, <1>11 DEF IInv

\* app.state.gateway is replaced: the new client is open and was nobody else's.
LEMMA InstallStateInv ==
    ASSUME IInv, TypeOK', NEW r \in Reloaders, InstallState(r)
    PROVE  IInv'
  <1>1. /\ pc[r] = "install"
        /\ \A s \in Reloaders : pc'[s] = IF s = r THEN "idle" ELSE pc[s]
    BY AdvanceEffect DEF IInv, InstallState
  <1>2. /\ gateway'.client = job[r].new
        /\ gateway'.cfg = job[r].cfg
        /\ UNCHANGED <<clients, job, at, req>>
        /\ loop' = Release(r)
    BY DEF InstallState
  <1>3. /\ r = "endpoint" => loop = "endpoint"
        /\ clients[job[r].new].status = "open"
        /\ clients[job[r].new].cfg = job[r].cfg
    BY <1>1 DEF IInv, JobInv, LoopInv, Active
  <1>4. JobInv'
    BY <1>1, <1>2 DEF IInv, JobInv, Active, Born
  <1>5. NewInv'
    BY <1>1, <1>2 DEF IInv, NewInv, Active
  <1>6. BornInv'
    BY <1>2, <1>3 DEF IInv, BornInv, Born, Handling
  <1>7. LoopInv'
    BY <1>1, <1>2, <1>3 DEF IInv, LoopInv, Active, Release
  <1>8. OneGeneration'
    BY <1>2, <1>3 DEF IInv, OneGeneration, Handling
  <1>9. ClosedOnlyInWindow'
    BY <1>2, <1>3 DEF ClosedOnlyInWindow
  <1> QED BY <1>4, <1>5, <1>6, <1>7, <1>8, <1>9 DEF IInv

\* Every step of a reload, whoever runs it, preserves the inductive invariant.
LEMMA ReloadStepInv ==
    ASSUME IInv, TypeOK', NEW r \in Reloaders, ReloadStep(r)
    PROVE  IInv'
  <1>0. job \in [Reloaders -> JobType]
    BY DEF IInv, TypeOK
  <1>1. CASE SaveRuntimeConfig(r)
    BY <1>1, LocalStepInv DEF SaveRuntimeConfig
  <1>2. CASE ReadConfig(r)
    <2>1. \A s \in Reloaders : /\ job'[s].new = job[s].new
                               /\ job'[s].prev = job[s].prev
                               /\ s # r => job'[s].cfg = job[s].cfg
      BY <1>0, <1>2, JobEffect DEF ReadConfig
    <2> QED BY <1>2, <2>1, LocalStepInv DEF ReadConfig
  <1>3. CASE FillFromEnv(r)
    <2>1. \A s \in Reloaders : /\ job'[s].new = job[s].new
                               /\ job'[s].prev = job[s].prev
                               /\ s # r => job'[s].cfg = job[s].cfg
      BY <1>0, <1>3, JobEffect DEF FillFromEnv
    <2> QED BY <1>3, <2>1, LocalStepInv DEF FillFromEnv
  <1>4. CASE ApplyProxyEnv(r)
    BY <1>4, LocalStepInv DEF ApplyProxyEnv
  <1>5. CASE MergeFails(r) \/ BuildFails(r)
    BY <1>5, RaisingStepInv
  <1>6. CASE MergeRouting(r)
    BY <1>6, MergeRoutingInv
  <1>7. CASE ClosePrevious(r)
    BY <1>7, ClosePreviousInv
  <1>8. CASE BuildClient(r)
    BY <1>8, BuildClientInv
  <1>9. CASE InstallState(r)
    BY <1>9, InstallStateInv
  <1> QED
    BY <1>1, <1>2, <1>3, <1>4, <1>5, <1>6, <1>7, <1>8, <1>9 DEF ReloadStep

-----------------------------------------------------------------------------
(* The request side.                                                       *)

\* A step of one request that touches no client and no reload.
LEMMA RequestInv ==
    ASSUME IInv, TypeOK', NEW q \in Requests,
           UNCHANGED <<gateway, clients, pc, job, raised>>,
           \A p \in Requests \ {q} : at'[p] = at[p] /\ req'[p] = req[p],
           req'[q].client = req[q].client /\ req'[q].cfg = req[q].cfg,
           Handling(q),
           at'[q] \in {"body", "done"} \/ loop' = q,
           loop = "free" \/ loop = q,
           loop' = q \/ loop' = "free"
    PROVE  IInv'
  <1>1. JobInv'
    BY DEF IInv, JobInv, Active, Born
  <1>2. NewInv'
    BY DEF IInv, NewInv, Active
  <1>3. BornInv'
    BY DEF IInv, BornInv, Born, Handling
  <1>4. loop \notin {"stopped", "endpoint"}
    OBVIOUS
  <1>5. LoopInv'
    BY <1>4 DEF IInv, LoopInv, Active
  <1>6. OneGeneration'
    BY DEF IInv, OneGeneration, Handling
  <1>7. ClosedOnlyInWindow'
    BY <1>4 DEF IInv, ClosedOnlyInWindow
  <1> QED BY <1>1, <1>2, <1>3, <1>5, <1>6, <1>7 DEF IInv

\* What a handler writes of its own request.
LEMMA ReqEffect ==
    ASSUME TypeOK, NEW q \in Requests, NEW v, NEW w,
           at' = [at EXCEPT ![q] = v],
           \/ req' = req
           \/ req' = [req EXCEPT ![q].left = w]
           \/ req' = [req EXCEPT ![q].outcome = w]
    PROVE  /\ at'[q] = v
           /\ \A p \in Requests \ {q} : at'[p] = at[p] /\ req'[p] = req[p]
           /\ req'[q].client = req[q].client /\ req'[q].cfg = req[q].cfg
  BY DEF TypeOK, ReqType

\* Answering a request frees the loop, which that request had or nobody had.
LEMMA FinishInv ==
    ASSUME IInv, TypeOK', NEW q \in Requests, NEW o, Finish(q, o), Handling(q),
           loop = "free" \/ loop = q
    PROVE  IInv'
  <1>1. /\ at'[q] = "done"
        /\ \A p \in Requests \ {q} : at'[p] = at[p] /\ req'[p] = req[p]
        /\ req'[q].client = req[q].client /\ req'[q].cfg = req[q].cfg
    BY ReqEffect DEF IInv, Finish
  <1>2. UNCHANGED <<gateway, clients, pc, job, raised>> /\ loop' = "free"
    BY DEF Finish
  <1> QED BY <1>1, <1>2, RequestInv

\* So does every step of a request handler.
LEMMA RequestStepInv ==
    ASSUME IInv, TypeOK', NEW q \in Requests, RequestStep(q)
    PROVE  IInv'
  <1>1. /\ at[q] \in {"ready", "flight"}
        /\ at'[q] \in {"ready", "flight", "done"}
        /\ \A p \in Requests \ {q} : at'[p] = at[p]
    BY DEF RequestStep, PostUpstream, PostOnClosedClient, NextImage, LastImage,
           CallFails, Finish, IInv, TypeOK
  <1>2. Handling(q) /\ loop = q
    BY <1>1 DEF Handling, IInv, LoopInv
  <1>3. CASE PostUpstream(q)
    <2>1. /\ \A p \in Requests \ {q} : at'[p] = at[p] /\ req'[p] = req[p]
          /\ req'[q].client = req[q].client /\ req'[q].cfg = req[q].cfg
      BY <1>1, <1>3 DEF PostUpstream
    <2> QED BY <1>2, <1>3, <2>1, RequestInv DEF PostUpstream
  <1>4. CASE PostOnClosedClient(q)
    BY <1>2, <1>4, FinishInv DEF PostOnClosedClient
  <1>5. CASE NextImage(q)
    <2>1. /\ \A p \in Requests \ {q} : at'[p] = at[p] /\ req'[p] = req[p]
          /\ req'[q].client = req[q].client /\ req'[q].cfg = req[q].cfg
      BY <1>5, ReqEffect DEF NextImage, IInv
    <2> QED BY <1>2, <1>5, <2>1, RequestInv DEF NextImage
  <1>6. CASE LastImage(q)
    BY <1>2, <1>6, FinishInv DEF LastImage
  <1>7. CASE CallFails(q)
    BY <1>2, <1>7, FinishInv DEF CallFails
  <1> QED BY <1>3, <1>4, <1>5, <1>6, <1>7 DEF RequestStep

\* The state object is read at once: table and client of one configuration.
LEMMA ArriveInv ==
    ASSUME IInv, TypeOK', NEW q \in Requests, Arrive(q)
    PROVE  IInv'
  <1>1. /\ at'[q] = "body"
        /\ req'[q].client = gateway.client
        /\ req'[q].cfg = gateway.cfg
        /\ \A p \in Requests \ {q} : at'[p] = at[p] /\ req'[p] = req[p]
    BY DEF Arrive, IInv, TypeOK
  <1>2. UNCHANGED <<gateway, clients, pc, job, loop, raised>> /\ loop = "free"
    BY DEF Arrive
  <1>3. JobInv' /\ NewInv'
    BY <1>2 DEF IInv, JobInv, NewInv, Active, Born
  <1>4. BornInv'
    BY <1>1, <1>2 DEF IInv, BornInv, Born, Handling
  <1>5. LoopInv'
    BY <1>1, <1>2 DEF IInv, LoopInv, Active
  <1>6. OneGeneration'
    BY <1>1, <1>2 DEF IInv, OneGeneration, Handling
  <1>7. ClosedOnlyInWindow'
    BY <1>2 DEF IInv, ClosedOnlyInWindow
  <1> QED BY <1>3, <1>4, <1>5, <1>6, <1>7 DEF IInv

\* The end of the lifespan closes a client that is no running reload's next one.
LEMMA ShutdownInv ==
    ASSUME IInv, TypeOK', Shutdown
    PROVE  IInv'
  <1>1. /\ gateway.client \in ClientIds
        /\ \A s \in Reloaders : job[s].new \in ClientIds /\ job[s].prev \in ClientIds
        /\ \A q \in Requests : req[q].client \in ClientIds
    BY DEF IInv, TypeOK, JobType, ReqType
  <1>2. \A i \in ClientIds :
            /\ clients'[i].cfg = clients[i].cfg
            /\ clients'[i].status = IF i = BootClient THEN "closed" ELSE clients[i].status
    BY StatusEffect DEF IInv, TypeOK, Shutdown
  <1>3. /\ UNCHANGED <<gateway, pc, job, at, req, raised>>
        /\ loop = "free" /\ loop' = "stopped"
        /\ \A q \in Requests : at[q] \in {"idle", "done"}
    BY DEF Shutdown
  <1>4. JobInv'
    BY <1>1, <1>2, <1>3 DEF IInv, JobInv, NewInv, Active, Born
  <1>5. NewInv'
    BY <1>3 DEF IInv, NewInv, Active
  <1>6. BornInv'
    BY <1>1, <1>2, <1>3 DEF IInv, BornInv, Born, Handling
  <1>7. LoopInv'
    BY <1>3 DEF IInv, LoopInv, Active
  <1>8. OneGeneration'
    BY <1>1, <1>2, <1>3 DEF IInv, OneGeneration, Handling
  <1>9. ClosedOnlyInWindow'
    BY <1>3 DEF ClosedOnlyInWindow
  <1> QED BY <1>4, <1>5, <1>6, <1>7, <1>8, <1>9 DEF IInv

\* The inductive invariant is preserved by every step of the gateway.
LEMMA StepInv == IInv /\ [Next]_vars => IInv'
  <1> SUFFICES ASSUME IInv, [Next]_vars PROVE IInv'
    OBVIOUS
  <1>0. TypeOK'
    BY StepType DEF IInv
  <1>1. ASSUME NEW id \in ClientIds, AdminReload(id) PROVE IInv'
    <2>1. \A s \in Reloaders :
              /\ job'[s].new = IF s = "endpoint" THEN id ELSE job[s].new
              /\ job'[s].prev = job[s].prev
              /\ s # "endpoint" => job'[s].cfg = job[s].cfg
      BY <1>1, NewEffect DEF AdminReload, IInv, TypeOK
    <2>2. "endpoint" \in Reloaders /\ loop' = "endpoint" /\ Start("endpoint", id, "read")
          /\ UNCHANGED <<gateway, at, req, raised>>
      BY <1>1 DEF AdminReload
    <2> QED BY <1>0, <2>1, <2>2, StartInv
  <1>2. ASSUME NEW id \in ClientIds, NEW c \in Configs, SaveClicked(c, id) PROVE IInv'
    <2>1. \A s \in Reloaders :
              /\ job'[s].new = IF s = "ui" THEN id ELSE job[s].new
              /\ job'[s].prev = job[s].prev
              /\ s # "ui" => job'[s].cfg = job[s].cfg
      BY <1>2 DEF SaveClicked, IInv, TypeOK, JobType
    <2>2. "ui" \in Reloaders /\ loop' = loop /\ Start("ui", id, "save")
          /\ UNCHANGED <<gateway, at, req, raised>>
      BY <1>2 DEF SaveClicked
    <2> QED BY <1>0, <2>1, <2>2, StartInv
  <1>3. ASSUME NEW r \in Reloaders, ReloadStep(r) PROVE IInv'
    BY <1>0, <1>3, ReloadStepInv
  <1>4. ASSUME NEW q \in Requests, Arrive(q) PROVE IInv'
    BY <1>0, <1>4, ArriveInv
  <1>5. ASSUME NEW q \in Requests, NEW n \in 1..MaxImages, BodyReceived(q, n) PROVE IInv'
    <2>1. /\ at'[q] = "ready"
          /\ \A p \in Requests \ {q} : at'[p] = at[p] /\ req'[p] = req[p]
          /\ req'[q].client = req[q].client /\ req'[q].cfg = req[q].cfg
      BY <1>5, ReqEffect DEF BodyReceived, IInv
    <2> QED BY <1>0, <1>5, <2>1, RequestInv DEF BodyReceived, Handling
  <1>6. ASSUME NEW q \in Requests, BodyRejected(q) PROVE IInv'
    BY <1>0, <1>6, FinishInv DEF BodyRejected, Handling
  <1>7. ASSUME NEW q \in Requests, RequestStep(q) PROVE IInv'
    BY <1>0, <1>7, RequestStepInv
  <1>8. CASE Shutdown
    BY <1>0, <1>8, ShutdownInv
  <1>9. CASE UNCHANGED vars
    <2>1. UNCHANGED <<gateway, clients, pc, job, at, req, loop, raised>>
      BY <1>9 DEF vars
    <2>2. JobInv' /\ NewInv' /\ BornInv' /\ LoopInv'
      BY <2>1 DEF IInv, JobInv, NewInv, BornInv, LoopInv, Active, Born, Handling
    <2>3. OneGeneration' /\ ClosedOnlyInWindow'
      BY <2>1 DEF IInv, OneGeneration, ClosedOnlyInWindow, Handling
    <2> QED BY <1>0, <2>2, <2>3 DEF IInv
  <1> QED
    BY <1>1, <1>2, <1>3, <1>4, <1>5, <1>6, <1>7, <1>8, <1>9 DEF Next

-----------------------------------------------------------------------------
(* The theorems.                                                           *)

\* Every variable of the gateway process keeps its type in every execution.
THEOREM TypeCorrect == Spec => []TypeOK
  BY InitType, StepType, PTL DEF Spec

\* The inductive invariant: who may hold which client, and who has the loop.
THEOREM Invariance == Spec => []IInv
  BY InitInv, StepInv, PTL DEF Spec

\* However many reloads overlap with however many requests, nobody combines
\* the routing table of one saved configuration with the client of another.
THEOREM NoMixedGeneration == Spec => []OneGeneration
  <1>1. IInv => OneGeneration
    BY DEF IInv
  <1> QED BY Invariance, <1>1, PTL

\* However reloads overlap, none installs a client another has closed.
THEOREM NoClosedInstall == Spec => []ClosedOnlyInWindow
  <1>1. IInv => ClosedOnlyInWindow
    BY DEF IInv
  <1> QED BY Invariance, <1>1, PTL

\* The formula inside NoSilentLeak.
DropsClosed ==
    \/ gateway'.client = gateway.client
    \/ clients[gateway.client].status = "closed"
    \/ \E r \in Reloaders : /\ pc[r] = "install"
                            /\ job[r].new = gateway'.client
                            /\ job[r].prev # gateway.client

\* app.state.gateway changes in one place, the last step of a reload.
LEMMA OnlyInstallSwitches ==
    ASSUME [Next]_vars
    PROVE  gateway' = gateway \/ \E r \in Reloaders : InstallState(r)
  BY DEF Next, AdminReload, SaveClicked, ReloadStep, SaveRuntimeConfig, ReadConfig,
         FillFromEnv, ApplyProxyEnv, MergeFails, MergeRouting, ClosePrevious,
         BuildFails, BuildClient, Arrive, BodyReceived, BodyRejected, RequestStep,
         PostUpstream, PostOnClosedClient, NextImage, LastImage, CallFails, Finish,
         Shutdown, vars

\* A client is dropped open only by a reload that was overtaken.
THEOREM OnlyOvertakenLeak == Spec => NoSilentLeak
  <1>1. IInv /\ [Next]_vars => [DropsClosed]_vars
    <2> SUFFICES ASSUME IInv, [Next]_vars PROVE DropsClosed
      OBVIOUS
    <2>1. CASE gateway' = gateway
      BY <2>1 DEF DropsClosed
    <2>2. ASSUME NEW r \in Reloaders, InstallState(r) PROVE DropsClosed
      <3>1. pc[r] = "install" /\ gateway'.client = job[r].new
        BY <2>2 DEF InstallState, Advance
      <3>2. clients[job[r].prev].status = "closed"
        BY <3>1 DEF IInv, JobInv
      <3> QED BY <3>1, <3>2 DEF DropsClosed
    <2> QED BY <2>1, <2>2, OnlyInstallSwitches
  <1> QED BY Invariance, <1>1, PTL DEF Spec, NoSilentLeak, DropsClosed

-----------------------------------------------------------------------------
(* The gateway implements ConfigSwitch.                                    *)

\* No step rewrites the settings of a client that exists.
LEMMA SettingsStay ==
    ASSUME IInv, [Next]_vars, NEW i \in ClientIds, Born(i)
    PROVE  clients'[i].cfg = clients[i].cfg
  <1>0. clients \in [ClientIds -> ClientType] /\ job \in [Reloaders -> JobType]
    BY DEF IInv, TypeOK
  <1>1. ASSUME NEW r \in Reloaders, NEW id \in ClientIds, NEW first, Start(r, id, first)
        PROVE  clients'[i].cfg = clients[i].cfg
    BY <1>0, <1>1, StatusEffect DEF Start
  <1>2. ASSUME NEW r \in Reloaders, ClosePrevious(r) PROVE clients'[i].cfg = clients[i].cfg
    <2>1. job[r].prev \in ClientIds
      BY <1>0 DEF JobType
    <2> QED BY <1>0, <1>2, <2>1, StatusEffect DEF ClosePrevious
  <1>3. ASSUME NEW r \in Reloaders, BuildClient(r) PROVE clients'[i].cfg = clients[i].cfg
    <2>1. clients[job[r].new].status = "reserved"
      BY <1>3 DEF BuildClient, Advance, IInv, JobInv, Active
    <2>2. i # job[r].new
      BY <2>1 DEF Born
    <2>3. clients' = [clients EXCEPT ![job[r].new] = Client("open", job[r].cfg, env)]
      BY <1>3 DEF BuildClient
    <2> QED BY <1>0, <2>2, <2>3
  <1>4. CASE Shutdown
    BY <1>0, <1>4, StatusEffect DEF Shutdown
  <1>5. CASE UNCHANGED clients
    BY <1>5
  <1>6. \/ UNCHANGED clients
        \/ \E r \in Reloaders, id \in ClientIds : \E first \in JobPc : Start(r, id, first)
        \/ \E r \in Reloaders : ClosePrevious(r) \/ BuildClient(r)
        \/ Shutdown
    BY DEF Next, AdminReload, SaveClicked, JobPc, ReloadStep, SaveRuntimeConfig, ReadConfig,
           FillFromEnv, ApplyProxyEnv, MergeFails, MergeRouting, BuildFails,
           InstallState, Arrive, BodyReceived, BodyRejected, RequestStep,
           PostUpstream, PostOnClosedClient, NextImage, LastImage, CallFails, Finish, vars
  <1> QED BY <1>1, <1>2, <1>3, <1>4, <1>5, <1>6

\* A step that neither starts nor ends the handling of a request keeps what
\* every request is pinned to.
LEMMA PinnedStay ==
    ASSUME IInv, [Next]_vars,
           \A q \in Requests :
               /\ Handling(q)' <=> Handling(q)
               /\ Handling(q) => req'[q].client = req[q].client /\ req'[q].cfg = req[q].cfg
    PROVE  pinned' = pinned
  <1>1. \A q \in Requests : Handling(q) => req[q].client \in ClientIds /\ Born(req[q].client)
    BY DEF IInv, TypeOK, ReqType, BornInv
  <1>2. \A q \in Requests :
            Handling(q) => clients'[req[q].client].cfg = clients[req[q].client].cfg
    BY <1>1, SettingsStay
  <1> QED BY <1>2 DEF pinned

\* The mapping tells a request that is being handled from one that is not.
LEMMA NothingPinned ==
    ASSUME IInv, NEW q \in Requests
    PROVE  pinned[q] = Nothing <=> ~Handling(q)
  <1>1. req[q].cfg \in Configs /\ clients[req[q].client].cfg \in Configs
    BY DEF IInv, TypeOK, ReqType, ClientType
  <1> QED BY <1>1 DEF pinned

\* A handler that returns, with whatever outcome, is an Answer.
LEMMA AnswerRefines ==
    ASSUME IInv, [Next]_vars, NEW q \in Requests, NEW o, Finish(q, o), Handling(q)
    PROVE  Switching!Answer(q)
  <1>1. /\ at'[q] = "done"
        /\ \A p \in Requests \ {q} : at'[p] = at[p] /\ req'[p] = req[p]
    BY ReqEffect DEF Finish, IInv
  <1>2. UNCHANGED <<gateway, clients>>
    BY DEF Finish
  <1>a. ~Handling(q)'
    BY <1>1 DEF Handling
  <1>b. \A p \in Requests \ {q} : pinned'[p] = pinned[p]
    BY <1>1, <1>2 DEF pinned, Handling
  <1>c. pinned'[q] = Nothing
    BY <1>a DEF pinned
  <1>3. pinned' = [pinned EXCEPT ![q] = Nothing]
    BY <1>b, <1>c DEF pinned
  <1> QED BY <1>2, <1>3, NothingPinned DEF Switching!Answer

\* Reading app.state.gateway at arrival is an Accept under the active configuration.
LEMMA ArriveRefines ==
    ASSUME IInv, NEW q \in Requests, Arrive(q)
    PROVE  Switching!Accept(q)
  <1>1. /\ at'[q] = "body"
        /\ req'[q].client = gateway.client
        /\ req'[q].cfg = gateway.cfg
        /\ \A p \in Requests \ {q} : at'[p] = at[p] /\ req'[p] = req[p]
    BY DEF Arrive, IInv, TypeOK
  <1>2. UNCHANGED <<gateway, clients>> /\ ~Handling(q)
    BY DEF Arrive, Handling
  <1>3. clients[gateway.client].cfg = gateway.cfg
    BY DEF IInv, OneGeneration
  <1>a. Handling(q)'
    BY <1>1 DEF Handling
  <1>b. \A p \in Requests \ {q} : pinned'[p] = pinned[p]
    BY <1>1, <1>2 DEF pinned, Handling
  <1>c. pinned'[q] = [table |-> gateway.cfg, client |-> gateway.cfg]
    BY <1>1, <1>2, <1>3, <1>a DEF pinned
  <1>4. pinned' = [pinned EXCEPT ![q] = [table |-> gateway.cfg, client |-> gateway.cfg]]
    BY <1>b, <1>c DEF pinned
  <1> QED BY <1>2, <1>4, NothingPinned DEF Switching!Accept, Switching!Pin

\* A reload step switches the active configuration or changes nothing of it.
LEMMA ReloadRefines ==
    ASSUME IInv, [Next]_vars, UNCHANGED <<at, req>>
    PROVE  [Switching!Next]_<<gateway.cfg, pinned>>
  <1>1. pinned' = pinned
    BY PinnedStay DEF Handling
  <1>2. CASE gateway' = gateway
    BY <1>1, <1>2
  <1>3. ASSUME NEW r \in Reloaders, InstallState(r)
        PROVE  [Switching!Next]_<<gateway.cfg, pinned>>
    <2>1. job[r].cfg \in Configs /\ gateway'.cfg = job[r].cfg
      BY <1>3 DEF InstallState, IInv, TypeOK, JobType
    <2>2. Switching!Switch(job[r].cfg)
      BY <1>1, <2>1 DEF Switching!Switch
    <2> QED BY <2>1, <2>2 DEF Switching!Next
  <1> QED BY <1>2, <1>3, OnlyInstallSwitches

\* The synchronous part of a handler changes nothing of it until its answer.
LEMMA RequestRefines ==
    ASSUME IInv, [Next]_vars, NEW q \in Requests, RequestStep(q)
    PROVE  [Switching!Next]_<<gateway.cfg, pinned>>
  <1>1. Handling(q)
    BY DEF RequestStep, PostUpstream, PostOnClosedClient, NextImage, LastImage, CallFails,
           Handling
  <1>2. ASSUME NEW o, Finish(q, o) PROVE [Switching!Next]_<<gateway.cfg, pinned>>
    BY <1>1, <1>2, AnswerRefines DEF Switching!Next
  <1>3. CASE PostUpstream(q) \/ NextImage(q)
    <2>1. gateway' = gateway /\ at[q] \in {"ready", "flight"} /\ at'[q] \in {"ready", "flight"}
      BY <1>3 DEF PostUpstream, NextImage, IInv, TypeOK
    <2>2. /\ \A p \in Requests \ {q} : at'[p] = at[p] /\ req'[p] = req[p]
          /\ req'[q].client = req[q].client /\ req'[q].cfg = req[q].cfg
      BY <1>3, ReqEffect DEF PostUpstream, NextImage, IInv
    <2>3. pinned' = pinned
      BY <2>1, <2>2, PinnedStay DEF Handling
    <2> QED BY <2>1, <2>3
  <1> QED
    BY <1>2, <1>3 DEF RequestStep, PostOnClosedClient, LastImage, CallFails

\* Every step of the gateway is a step of ConfigSwitch or a stutter.
LEMMA StepRefines == IInv /\ [Next]_vars => [Switching!Next]_<<gateway.cfg, pinned>>
  <1> SUFFICES ASSUME IInv, [Next]_vars PROVE [Switching!Next]_<<gateway.cfg, pinned>>
    OBVIOUS
  <1>1. CASE UNCHANGED <<at, req>>
    BY <1>1, ReloadRefines
  <1>2. ASSUME NEW q \in Requests, Arrive(q)
        PROVE  [Switching!Next]_<<gateway.cfg, pinned>>
    BY <1>2, ArriveRefines DEF Switching!Next
  <1>3. ASSUME NEW q \in Requests, NEW n \in 1..MaxImages, BodyReceived(q, n)
        PROVE  [Switching!Next]_<<gateway.cfg, pinned>>
    <2>1. gateway' = gateway /\ at[q] = "body" /\ at'[q] = "ready"
      BY <1>3 DEF BodyReceived, IInv, TypeOK
    <2>2. /\ \A p \in Requests \ {q} : at'[p] = at[p] /\ req'[p] = req[p]
          /\ req'[q].client = req[q].client /\ req'[q].cfg = req[q].cfg
      BY <1>3, ReqEffect DEF BodyReceived, IInv
    <2>3. pinned' = pinned
      BY <2>1, <2>2, PinnedStay DEF Handling
    <2> QED BY <2>1, <2>3
  <1>4. ASSUME NEW q \in Requests, BodyRejected(q)
        PROVE  [Switching!Next]_<<gateway.cfg, pinned>>
    BY <1>4, AnswerRefines DEF BodyRejected, Handling, Switching!Next
  <1>5. ASSUME NEW q \in Requests, RequestStep(q)
        PROVE  [Switching!Next]_<<gateway.cfg, pinned>>
    BY <1>5, RequestRefines
  <1>6. \/ UNCHANGED <<at, req>>
        \/ \E q \in Requests : Arrive(q)
        \/ \E q \in Requests : \E n \in 1..MaxImages : BodyReceived(q, n)
        \/ \E q \in Requests : BodyRejected(q)
        \/ \E q \in Requests : RequestStep(q)
    BY DEF Next, AdminReload, SaveClicked, ReloadStep, SaveRuntimeConfig, ReadConfig,
           FillFromEnv, ApplyProxyEnv, MergeFails, MergeRouting, ClosePrevious,
           BuildFails, BuildClient, InstallState, Shutdown, vars
  <1> QED BY <1>1, <1>2, <1>3, <1>4, <1>5, <1>6

\* A request keeps, until it is answered, the table and the client settings
\* that were active when it arrived: the gateway implements ConfigSwitch.
THEOREM Refinement == Spec => PinnedRequests
  <1>1. Init => Switching!Init
    <2> SUFFICES ASSUME Init PROVE Switching!Init
      OBVIOUS
    <2>1. PICK c \in Configs : Boot(c, WithFallback(c, ContainerEnv))
      BY DEF Init
    <2>2. gateway.cfg = c /\ \A q \in Requests : ~Handling(q)
      BY <2>1 DEF Boot, Handling
    <2> QED BY <2>2 DEF Switching!Init, pinned
  <1> QED
    BY <1>1, Invariance, StepRefines, PTL DEF Spec, PinnedRequests, Switching!Spec, Switching!vars
-----------------------------------------------------------------------------
(* One reloader: what a reload reads, it still finds when it ends.         *)

Alone == \A r, s \in Reloaders : r = s

\* A reload past its read of the volume works on what the volume holds.
Current ==
    \A r \in Reloaders :
        pc[r] \in {"fallback", "env", "merge", "close", "build", "install"} =>
            job[r].cfg = disk

\* A proxy that its configuration names is on the way into the new client:
\* in the local variable, then in the environment, then in the client.
Named(c, p) == ProxyOf[c] # NoProxy => p = ProxyOf[c]

Carried ==
    \A r \in Reloaders :
        /\ pc[r] = "env" => Named(job[r].cfg, job[r].proxy)
        /\ pc[r] \in {"merge", "close", "build"} => Named(job[r].cfg, env)
        /\ pc[r] = "install" => Named(job[r].cfg, clients[job[r].new].proxy)

AloneInv == Current /\ Carried /\ ServesWhatWasSaved /\ NamedProxyUsed

\* A gateway that has started serves the volume, through the proxy it names.
LEMMA AloneInit == Init => AloneInv
  <1> SUFFICES ASSUME NEW c \in Configs, Boot(c, WithFallback(c, ContainerEnv))
               PROVE  AloneInv
    BY DEF Init
  <1> DEFINE e == WithFallback(c, ContainerEnv)
  <1>1. Named(c, e)
    BY DEF Named, WithFallback
  <1> HIDE DEF e
  <1>2. Boot(c, e)
    BY DEF e
  <1>3. /\ gateway = [cfg |-> c, client |-> BootClient]
        /\ clients[BootClient].proxy = e
        /\ disk = c
        /\ \A r \in Reloaders : pc[r] = "idle"
    BY <1>2 DEF Boot, Client
  <1> QED
    BY <1>1, <1>3 DEF AloneInv, Current, Carried, ServesWhatWasSaved, NamedProxyUsed, Named

\* Changing a client's status changes no proxy.
LEMMA ProxyStays ==
    ASSUME NEW f \in [ClientIds -> ClientType], NEW j \in ClientIds,
           NEW s, NEW g, g = [f EXCEPT ![j].status = s]
    PROVE  \A i \in ClientIds : g[i].proxy = f[i].proxy
  BY DEF ClientType

\* What happens outside the reload concerns none of it.
LEMMA AloneElsewhere ==
    ASSUME IInv, AloneInv, UNCHANGED <<disk, env, gateway, pc, job, raised>>,
           \A i \in ClientIds : clients'[i].proxy = clients[i].proxy
    PROVE  AloneInv'
  <1>1. /\ gateway.client \in ClientIds
        /\ \A r \in Reloaders : job[r].new \in ClientIds
    BY DEF IInv, TypeOK, JobType
  <1>2. Current' /\ Carried'
    BY <1>1 DEF AloneInv, Current, Carried, Named
  <1> QED
    BY <1>1, <1>2 DEF AloneInv, ServesWhatWasSaved, NamedProxyUsed, Quiet

\* A reload that starts has read nothing yet.
LEMMA AloneStart ==
    ASSUME Alone, IInv, AloneInv, NEW r \in Reloaders, NEW id \in ClientIds,
           NEW first \in {"save", "read"}, Start(r, id, first),
           UNCHANGED <<disk, env, gateway, raised>>
    PROVE  AloneInv'
  <1>1. \A s \in Reloaders : s = r /\ pc'[s] = first
    BY AdvanceEffect DEF Alone, IInv, Start
  <1>2. gateway.client \in ClientIds /\ clients'[gateway.client].proxy = clients[gateway.client].proxy
    BY ProxyStays DEF IInv, TypeOK, Start
  <1>3. Current' /\ Carried' /\ ServesWhatWasSaved'
    BY <1>1 DEF Current, Carried, ServesWhatWasSaved, Quiet
  <1> QED
    BY <1>2, <1>3 DEF AloneInv, NamedProxyUsed

\* A reload hands on what it has read, or ends without having changed
\* anything but a configuration that cannot be merged, or raises.
LEMMA AloneReload ==
    ASSUME Alone, IInv, AloneInv, NEW r \in Reloaders, ReloadStep(r)
    PROVE  AloneInv'
  <1>0. /\ \A s \in Reloaders : s = r
        /\ job \in [Reloaders -> JobType] /\ job[r] \in JobType
        /\ clients \in [ClientIds -> ClientType]
        /\ gateway.client \in ClientIds
        /\ job[r].new \in ClientIds /\ job[r].prev \in ClientIds
    BY DEF Alone, IInv, TypeOK, JobType
  <1>1. \A from, to : Advance(r, from, to) => pc[r] = from /\ pc'[r] = to
    BY DEF Advance, IInv, TypeOK
  <1>2. NamedProxyUsed /\ ServesWhatWasSaved
    BY DEF AloneInv
  <1>3. CASE SaveRuntimeConfig(r)
    BY <1>0, <1>1, <1>2, <1>3
       DEF SaveRuntimeConfig, AloneInv, Current, Carried, ServesWhatWasSaved, NamedProxyUsed, Quiet
  <1>4. CASE ReadConfig(r)
    <2>1. pc'[r] = "fallback" /\ job'[r].cfg = disk
      BY <1>0, <1>1, <1>4 DEF ReadConfig, JobType
    <2> QED
      BY <1>0, <1>2, <1>4, <2>1
         DEF ReadConfig, AloneInv, Current, Carried, ServesWhatWasSaved, NamedProxyUsed, Quiet
  <1>5. CASE FillFromEnv(r)
    <2>1. /\ pc'[r] = "env" /\ job'[r].cfg = job[r].cfg /\ job[r].cfg = disk
          /\ job'[r].proxy = WithFallback(job[r].cfg, env)
      BY <1>0, <1>1, <1>5 DEF FillFromEnv, JobType, AloneInv, Current
    <2>2. Named(job[r].cfg, WithFallback(job[r].cfg, env))
      BY DEF Named, WithFallback
    <2> QED
      BY <1>0, <1>2, <1>5, <2>1, <2>2
         DEF FillFromEnv, AloneInv, Current, Carried, ServesWhatWasSaved, NamedProxyUsed, Quiet
  <1>6. CASE ApplyProxyEnv(r)
    <2>1. /\ pc'[r] = "merge" /\ env' = job[r].proxy /\ job[r].cfg = disk
          /\ Named(job[r].cfg, job[r].proxy)
      BY <1>0, <1>1, <1>6 DEF ApplyProxyEnv, AloneInv, Current, Carried
    <2> QED
      BY <1>0, <1>2, <1>6, <2>1
         DEF ApplyProxyEnv, AloneInv, Current, Carried, ServesWhatWasSaved, NamedProxyUsed, Quiet, Named
  <1>7. CASE MergeFails(r)
    <2>1. pc'[r] = "idle" /\ disk \in Unmergeable
      BY <1>0, <1>1, <1>7 DEF MergeFails, AloneInv, Current
    <2> QED
      BY <1>0, <1>2, <1>7, <2>1
         DEF MergeFails, AloneInv, Current, Carried, ServesWhatWasSaved, NamedProxyUsed
  <1>8. CASE MergeRouting(r)
    <2>1. /\ pc[r] = "merge" /\ pc'[r] = "close" /\ job'[r].cfg = job[r].cfg
          /\ job[r].cfg = disk /\ Named(job[r].cfg, env)
      BY <1>0, <1>1, <1>8, PrevEffect DEF MergeRouting, AloneInv, Current, Carried
    <2> QED
      BY <1>0, <1>2, <1>8, <2>1
         DEF MergeRouting, AloneInv, Current, Carried, ServesWhatWasSaved, NamedProxyUsed, Quiet
  <1>9. CASE ClosePrevious(r)
    <2>1. /\ pc[r] = "close" /\ pc'[r] = "build" /\ job[r].cfg = disk /\ Named(job[r].cfg, env)
      BY <1>0, <1>1, <1>9 DEF ClosePrevious, AloneInv, Current, Carried
    <2>2. \A i \in ClientIds : clients'[i].proxy = clients[i].proxy
      BY <1>0, <1>9, ProxyStays DEF ClosePrevious
    <2> QED
      BY <1>0, <1>2, <1>9, <2>1, <2>2
         DEF ClosePrevious, AloneInv, Current, Carried, ServesWhatWasSaved, NamedProxyUsed, Quiet
  <1>10. CASE BuildFails(r)
    <2>1. pc'[r] = "idle" /\ raised'
      BY <1>1, <1>10 DEF BuildFails
    <2> QED
      BY <1>0, <1>2, <1>10, <2>1
         DEF BuildFails, AloneInv, Current, Carried, ServesWhatWasSaved, NamedProxyUsed
  <1>11. CASE BuildClient(r)
    <2>1. /\ pc[r] = "build" /\ pc'[r] = "install" /\ job[r].cfg = disk
          /\ Named(job[r].cfg, env)
      BY <1>0, <1>1, <1>11 DEF BuildClient, AloneInv, Current, Carried
    <2>2. clients'[job[r].new].proxy = env
      BY <1>0, <1>11 DEF BuildClient, Client
    <2>3. clients'[gateway.client] = clients[gateway.client]
      BY <1>0, <1>11, <2>1 DEF BuildClient, IInv, NewInv, Active
    <2> QED
      BY <1>0, <1>2, <1>11, <2>1, <2>2, <2>3
         DEF BuildClient, AloneInv, Current, Carried, ServesWhatWasSaved, NamedProxyUsed, Quiet
  <1>12. CASE InstallState(r)
    <2>1. /\ pc'[r] = "idle" /\ job[r].cfg = disk
          /\ Named(job[r].cfg, clients[job[r].new].proxy)
      BY <1>0, <1>1, <1>12 DEF InstallState, AloneInv, Current, Carried
    <2>2. gateway'.cfg = disk /\ gateway'.client = job[r].new
      BY <1>12, <2>1 DEF InstallState
    <2> QED
      BY <1>0, <1>12, <2>1, <2>2
         DEF InstallState, AloneInv, Current, Carried, ServesWhatWasSaved, NamedProxyUsed, Named
  <1> QED
    BY <1>3, <1>4, <1>5, <1>6, <1>7, <1>8, <1>9, <1>10, <1>11, <1>12 DEF ReloadStep

\* Every step of a gateway with one reloader.
LEMMA AloneStep == ASSUME Alone PROVE IInv /\ AloneInv /\ [Next]_vars => AloneInv'
  <1> SUFFICES ASSUME IInv, AloneInv, [Next]_vars PROVE AloneInv'
    OBVIOUS
  <1>1. ASSUME NEW id \in ClientIds, AdminReload(id) PROVE AloneInv'
    BY <1>1, AloneStart DEF AdminReload
  <1>2. ASSUME NEW id \in ClientIds, NEW c \in Configs, SaveClicked(c, id) PROVE AloneInv'
    BY <1>2, AloneStart DEF SaveClicked
  <1>3. ASSUME NEW r \in Reloaders, ReloadStep(r) PROVE AloneInv'
    BY <1>3, AloneReload
  <1>4. ASSUME NEW q \in Requests,
               \/ Arrive(q) \/ BodyRejected(q) \/ RequestStep(q)
               \/ \E n \in 1..MaxImages : BodyReceived(q, n)
        PROVE  AloneInv'
    <2>1. UNCHANGED <<disk, env, gateway, clients, pc, job, raised>>
      BY <1>4 DEF Arrive, BodyRejected, BodyReceived, RequestStep, PostUpstream,
                  PostOnClosedClient, NextImage, LastImage, CallFails, Finish
    <2> QED
      BY <2>1, AloneElsewhere
  <1>5. CASE Shutdown
    <2>1. \A i \in ClientIds : clients'[i].proxy = clients[i].proxy
      BY <1>5, ProxyStays DEF Shutdown, IInv, TypeOK
    <2> QED
      BY <1>5, <2>1, AloneElsewhere DEF Shutdown
  <1>6. CASE UNCHANGED vars
    BY <1>6, AloneElsewhere DEF vars
  <1> QED
    BY <1>1, <1>2, <1>3, <1>4, <1>5, <1>6 DEF Next

\* With one way to reload, a gateway whose last reload did not raise serves
\* what the volume holds, whatever was saved, refused or unmergeable before.
THEOREM SavedIsServed == ASSUME Alone PROVE Spec => []ServesWhatWasSaved
  <1>1. AloneInv => ServesWhatWasSaved
    BY DEF AloneInv
  <1>2. IInv /\ AloneInv /\ [Next]_vars => AloneInv'
    BY AloneStep
  <1> QED BY AloneInit, Invariance, <1>1, <1>2, PTL DEF Spec

\* With one way to reload, a configuration that names a proxy is served
\* through that proxy, although the environment changes before the client.
THEOREM NamedProxyServes == ASSUME Alone PROVE Spec => []NamedProxyUsed
  <1>1. AloneInv => NamedProxyUsed
    BY DEF AloneInv
  <1>2. IInv /\ AloneInv /\ [Next]_vars => AloneInv'
    BY AloneStep
  <1> QED BY AloneInit, Invariance, <1>1, <1>2, PTL DEF Spec

=============================================================================
