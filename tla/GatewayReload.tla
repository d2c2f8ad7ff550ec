---------------------------- MODULE GatewayReload ----------------------------
(***************************************************************************)
(* The running gateway process: the state object that request handlers     *)
(* read (app.state.gateway), the HTTP clients behind it, the process       *)
(* environment, and the two activities that replace the state object while *)
(* requests are being handled:                                             *)
(*                                                                         *)
(*   "endpoint"  POST /admin/reload, a coroutine without an await: it      *)
(*               occupies the event loop from its first to its last step;  *)
(*   "ui"        the Save button of the admin page, which Gradio runs in a *)
(*               worker thread: its steps interleave with the event loop.  *)
(*                                                                         *)
(* Both run reload_gateway_state (admin/reload.py), modelled one shared    *)
(* read or write per step.  A request handler reads app.state.gateway      *)
(* once, awaits the body (the loop may do anything meanwhile) and then     *)
(* handles the request synchronously, which occupies the loop until the    *)
(* last upstream call has returned.                                        *)
(*                                                                         *)
(* Abstractions.  A configuration is an element of Configs of which only   *)
(* its proxy and whether its routing can be merged matter; HTTP_PROXY,     *)
(* HTTPS_PROXY and NO_PROXY are one variable; what an upstream call costs  *)
(* and how it is retried is module KServeInfer; the files written by Save  *)
(* before the reload, and a crash among them, are module AdminConfig.      *)
(***************************************************************************)
EXTENDS Naturals

CONSTANTS
    Configs,      \* contents gateway-runtime.yaml may have
    Proxies,      \* proxy URLs
    NoProxy,      \* an empty proxy field, an unset variable
    ProxyOf,      \* ProxyOf[c]: the proxy field of configuration c
    ContainerEnv, \* the proxy variable the container is started with
    BadProxies,   \* proxies that httpx.Client refuses to be built with
    Unmergeable,  \* configurations load_merged_routing_table raises on
    ClientIds,    \* identities of HTTP clients (bounds the reloads of a run)
    BootClient,   \* the client build_gateway_state creates at start-up
    Requests,     \* identities of concurrent inference requests
    Reloaders,    \* which of "ui" and "endpoint" may reload
    MaxImages,    \* bound: images, hence upstream calls, of one request
    Nothing       \* no request

ASSUME ConfigAssumption ==
    /\ ProxyOf \in [Configs -> Proxies \cup {NoProxy}]
    /\ NoProxy \notin Proxies
    /\ ContainerEnv \in Proxies \cup {NoProxy}
    /\ BadProxies \subseteq Proxies
    /\ Unmergeable \subseteq Configs
ASSUME IdAssumption ==
    /\ BootClient \in ClientIds
    /\ Reloaders \subseteq {"ui", "endpoint"}
    /\ {"free", "stopped", "endpoint"} \cap Requests = {}
    /\ MaxImages \in Nat \ {0}
    /\ Nothing \notin [table : Configs, client : Configs]

VARIABLES
    disk,     \* what gateway-runtime.yaml on the volume holds
    env,      \* the proxy variable of the process environment
    gateway,  \* app.state.gateway: settings and table of cfg, client
    clients,  \* every HTTP client: its status, settings and proxy
    pc,       \* pc[r]: where reloader r is in reload_gateway_state
    job,      \* job[r]: its local variables
    at,       \* at[q]: where request q is in its handler
    req,      \* req[q]: its local variables and how it ended
    loop,     \* who occupies the event loop
    raised    \* history: the last client construction raised

vars == <<disk, env, gateway, clients, pc, job, at, req, loop, raised>>

JobPc == {"idle", "save", "read", "fallback", "env", "merge", "close", "build", "install"}
ReqPc == {"idle", "body", "ready", "flight", "done"}
EnvValue == Proxies \cup {NoProxy}

ClientType == [status : {"unborn", "reserved", "open", "closed"},
               cfg : Configs, proxy : EnvValue]
JobType == [cfg : Configs, proxy : EnvValue, prev : ClientIds, new : ClientIds]
ReqType == [cfg : Configs, client : ClientIds, left : 0..MaxImages,
            outcome : {"none", "ok", "failed", "closed"}]

TypeOK ==
    /\ disk \in Configs
    /\ env \in EnvValue
    /\ gateway \in [cfg : Configs, client : ClientIds]
    /\ clients \in [ClientIds -> ClientType]
    /\ pc \in [Reloaders -> JobPc]
    /\ job \in [Reloaders -> JobType]
    /\ at \in [Requests -> ReqPc]
    /\ req \in [Requests -> ReqType]
    /\ loop \in {"free", "stopped", "endpoint"} \cup Requests
    /\ raised \in BOOLEAN

-----------------------------------------------------------------------------
(* Start-up: build_gateway_state.  A start-up that raises never gets here. *)

\* The order of apply_env_fallback reversed: the environment wins.
EnvironmentFirst(c, e) == IF e # NoProxy THEN e ELSE ProxyOf[c]

\* apply_env_fallback: an empty proxy field takes the process environment's
\* value, which an earlier apply_proxy_env may have put there.
WithFallback(c, e) == IF ProxyOf[c] # NoProxy THEN ProxyOf[c] ELSE e

Client(s, c, p) == [status |-> s, cfg |-> c, proxy |-> p]

Boot(c, e) ==
    /\ c \notin Unmergeable
    /\ e \notin BadProxies
    /\ disk = c
    /\ env = e
    /\ gateway = [cfg |-> c, client |-> BootClient]
    /\ clients = [i \in ClientIds |->
                    Client(IF i = BootClient THEN "open" ELSE "unborn", c, e)]
    /\ pc = [r \in Reloaders |-> "idle"]
    /\ job = [r \in Reloaders |-> [cfg |-> c, proxy |-> e,
                                   prev |-> BootClient, new |-> BootClient]]
    /\ at = [q \in Requests |-> "idle"]
    /\ req = [q \in Requests |-> [cfg |-> c, client |-> BootClient,
                                  left |-> 0, outcome |-> "none"]]
    /\ loop = "free"
    /\ raised = FALSE

Init == \E c \in Configs : Boot(c, WithFallback(c, ContainerEnv))

-----------------------------------------------------------------------------
(* reload_gateway_state.                                                   *)

KeepLoop(r) == loop
Release(r) == IF r = "endpoint" THEN "free" ELSE loop

Advance(r, from, to) ==
    /\ pc[r] = from
    /\ pc' = [pc EXCEPT ![r] = to]

\* A reload starts; id is the identity its client will have if it gets to
\* build one.  Running out of identities is the bound on reloads.
Start(r, id, first) ==
    /\ Advance(r, "idle", first)
    /\ loop = "free"
    /\ clients[id].status = "unborn"
    /\ clients' = [clients EXCEPT ![id].status = "reserved"]

\* POST /admin/reload: the coroutine has the loop until it returns.
AdminReload(id) ==
    /\ "endpoint" \in Reloaders
    /\ Start("endpoint", id, "read")
    /\ job' = [job EXCEPT !["endpoint"].new = id]
    /\ loop' = "endpoint"
    /\ UNCHANGED <<disk, env, gateway, at, req, raised>>

\* Save in the admin page: the loop hands the form, configuration c, to a
\* worker thread and is free again.
SaveClicked(c, id) ==
    /\ "ui" \in Reloaders
    /\ Start("ui", id, "save")
    /\ job' = [job EXCEPT !["ui"] = [cfg |-> c, proxy |-> @.proxy, prev |-> @.prev, new |-> id]]
    /\ UNCHANGED <<disk, env, gateway, at, req, loop, raised>>

\* save_runtime_config: one atomic replacement of the file.
SaveRuntimeConfig(r) ==
    /\ Advance(r, "save", "read")
    /\ disk' = job[r].cfg
    /\ UNCHANGED <<env, gateway, clients, job, at, req, loop, raised>>

\* A cached load: the reload sees the configuration it already runs.
ReadConfigCached(r) ==
    /\ Advance(r, "read", "fallback")
    /\ job' = [job EXCEPT ![r].cfg = gateway.cfg]
    /\ UNCHANGED <<disk, env, gateway, clients, at, req, loop, raised>>

\* load_runtime_config reads the file ...
ReadConfig(r) ==
    /\ Advance(r, "read", "fallback")
    /\ job' = [job EXCEPT ![r].cfg = disk]
    /\ UNCHANGED <<disk, env, gateway, clients, at, req, loop, raised>>

\* ... and fills its empty fields from the process environment.
FillFromEnv(r) ==
    /\ Advance(r, "fallback", "env")
    /\ job' = [job EXCEPT ![r].proxy = WithFallback(job[r].cfg, env)]
    /\ UNCHANGED <<disk, env, gateway, clients, at, req, loop, raised>>

ApplyProxyEnv(r) ==
    /\ Advance(r, "env", "merge")
    /\ env' = job[r].proxy
    /\ UNCHANGED <<disk, gateway, clients, job, at, req, loop, raised>>

\* load_merged_routing_table raises: nothing is rolled back.
MergeFails(r) ==
    /\ job[r].cfg \in Unmergeable
    /\ Advance(r, "merge", "idle")
    /\ loop' = Release(r)
    /\ UNCHANGED <<disk, env, gateway, clients, job, at, req, raised>>

\* The merge succeeds; previous = app.state.gateway.
MergeRouting(r) ==
    /\ job[r].cfg \notin Unmergeable
    /\ Advance(r, "merge", "close")
    /\ job' = [job EXCEPT ![r].prev = gateway.client]
    /\ UNCHANGED <<disk, env, gateway, clients, at, req, loop, raised>>

\* The replaced client is forgotten instead of closed.
NeverClosePrevious(r) ==
    /\ Advance(r, "close", "build")
    /\ UNCHANGED <<disk, env, gateway, clients, job, at, req, loop, raised>>

ClosePrevious(r) ==
    /\ Advance(r, "close", "build")
    /\ clients' = [clients EXCEPT ![job[r].prev].status = "closed"]
    /\ UNCHANGED <<disk, env, gateway, job, at, req, loop, raised>>

\* ExternalApiClient(effective_settings): httpx reads the proxies of the
\* environment as it is now (trust_env) and refuses an unknown scheme.
BuildFails(r) ==
    /\ env \in BadProxies
    /\ Advance(r, "build", "idle")
    /\ loop' = Release(r)
    /\ raised' = TRUE
    /\ UNCHANGED <<disk, env, gateway, clients, job, at, req>>

BuildClient(r) ==
    /\ env \notin BadProxies
    /\ Advance(r, "build", "install")
    /\ clients' = [clients EXCEPT ![job[r].new] = Client("open", job[r].cfg, env)]
    /\ UNCHANGED <<disk, env, gateway, job, at, req, loop, raised>>

\* The client is put into the old state object.
InstallClientOnly(r) ==
    /\ Advance(r, "install", "idle")
    /\ gateway' = [gateway EXCEPT !.client = job[r].new]
    /\ loop' = Release(r)
    /\ raised' = FALSE
    /\ UNCHANGED <<disk, env, clients, job, at, req>>

\* The new state is returned but not stored.
InstallNothing(r) ==
    /\ Advance(r, "install", "idle")
    /\ loop' = Release(r)
    /\ raised' = FALSE
    /\ UNCHANGED <<disk, env, gateway, clients, job, at, req>>

\* app.state.gateway = new_state: table, settings and client in one store.
InstallState(r) ==
    /\ Advance(r, "install", "idle")
    /\ gateway' = [cfg |-> job[r].cfg, client |-> job[r].new]
    /\ loop' = Release(r)
    /\ raised' = FALSE
    /\ UNCHANGED <<disk, env, clients, job, at, req>>

ReloadStep(r) ==
    \/ SaveRuntimeConfig(r)
    \/ ReadConfig(r)
    \/ FillFromEnv(r)
    \/ ApplyProxyEnv(r)
    \/ MergeFails(r)
    \/ MergeRouting(r)
    \/ ClosePrevious(r)
    \/ BuildFails(r)
    \/ BuildClient(r)
    \/ InstallState(r)

-----------------------------------------------------------------------------
(* A request: kserve_infer or openai_chat_completions.                     *)

\* state = app.state.gateway, then the await of the body.
Arrive(q) ==
    /\ loop = "free"
    /\ at[q] \in {"idle", "done"}
    /\ at' = [at EXCEPT ![q] = "body"]
    /\ req' = [req EXCEPT ![q] = [cfg |-> gateway.cfg, client |-> gateway.client,
                                  left |-> 0, outcome |-> "none"]]
    /\ UNCHANGED <<disk, env, gateway, clients, pc, job, loop, raised>>

\* The handler looks app.state.gateway.client up again after the await.
BodyReceivedRereadsClient(q, n) ==
    /\ loop = "free"
    /\ at[q] = "body"
    /\ at' = [at EXCEPT ![q] = "ready"]
    /\ req' = [req EXCEPT ![q].left = n, ![q].client = gateway.client]
    /\ loop' = q
    /\ UNCHANGED <<disk, env, gateway, clients, pc, job, raised>>

\* The body is complete: the handler routes by state.routing_table and keeps
\* the loop.  A layout request makes one upstream call per image.
BodyReceived(q, n) ==
    /\ loop = "free"
    /\ at[q] = "body"
    /\ at' = [at EXCEPT ![q] = "ready"]
    /\ req' = [req EXCEPT ![q].left = n]
    /\ loop' = q
    /\ UNCHANGED <<disk, env, gateway, clients, pc, job, raised>>

Finish(q, outcome) ==
    /\ at' = [at EXCEPT ![q] = "done"]
    /\ req' = [req EXCEPT ![q].outcome = outcome]
    /\ loop' = "free"
    /\ UNCHANGED <<disk, env, gateway, clients, pc, job, raised>>

\* The peer goes away, or the body is malformed, before anything is sent.
BodyRejected(q) ==
    /\ loop = "free"
    /\ at[q] = "body"
    /\ Finish(q, "failed")

PostUpstream(q) ==
    /\ at[q] = "ready"
    /\ clients[req[q].client].status = "open"
    /\ at' = [at EXCEPT ![q] = "flight"]
    /\ UNCHANGED <<disk, env, gateway, clients, pc, job, req, loop, raised>>

\* httpx: RuntimeError, the client has been closed.
PostOnClosedClient(q) ==
    /\ at[q] = "ready"
    /\ clients[req[q].client].status = "closed"
    /\ Finish(q, "closed")

NextImageUnbounded(q) ==
    /\ at[q] = "flight"
    /\ at' = [at EXCEPT ![q] = "ready"]
    /\ req' = [req EXCEPT ![q].left = @ - 1]
    /\ UNCHANGED <<disk, env, gateway, clients, pc, job, loop, raised>>

NextImage(q) ==
    /\ at[q] = "flight"
    /\ req[q].left > 1
    /\ at' = [at EXCEPT ![q] = "ready"]
    /\ req' = [req EXCEPT ![q].left = @ - 1]
    /\ UNCHANGED <<disk, env, gateway, clients, pc, job, loop, raised>>

LastImage(q) ==
    /\ at[q] = "flight"
    /\ req[q].left = 1
    /\ Finish(q, "ok")

\* Transport failure or an error status; closing a client also closes the
\* connections its calls are using, and a retry then finds it closed.
CallFails(q) ==
    /\ at[q] = "flight"
    /\ \/ Finish(q, "failed")
       \/ /\ clients[req[q].client].status = "closed"
          /\ Finish(q, "closed")

RequestStep(q) ==
    \/ PostUpstream(q)
    \/ PostOnClosedClient(q)
    \/ NextImage(q)
    \/ LastImage(q)
    \/ CallFails(q)

-----------------------------------------------------------------------------
\* End of the lifespan: the server has drained its requests; the client of
\* start-up is closed, whichever client is current.
Shutdown ==
    /\ loop = "free"
    /\ \A q \in Requests : at[q] \in {"idle", "done"}
    /\ loop' = "stopped"
    /\ clients' = [clients EXCEPT ![BootClient].status = "closed"]
    /\ UNCHANGED <<disk, env, gateway, pc, job, at, req, raised>>

Next ==
    \/ \E id \in ClientIds : AdminReload(id)
    \/ \E id \in ClientIds, c \in Configs : SaveClicked(c, id)
    \/ \E r \in Reloaders : ReloadStep(r)
    \/ \E q \in Requests : Arrive(q)
    \/ \E q \in Requests : \E n \in 1..MaxImages : BodyReceived(q, n)
    \/ \E q \in Requests : BodyRejected(q)
    \/ \E q \in Requests : RequestStep(q)
    \/ Shutdown

Spec == Init /\ [][Next]_vars

(***************************************************************************)
(* Fairness.  A started reload runs on: a thread is scheduled, and the     *)
(* loop runs the coroutine it is in.  An upstream call returns: every      *)
(* httpx operation has a timeout.  Bodies arrive or their connections      *)
(* break, and the loop takes ready callbacks in FIFO order, so a body      *)
(* that is ready is not overtaken for ever: strong fairness, since the     *)
(* loop is free only now and then.  Nobody has to save, reload or ask.     *)
(***************************************************************************)
Fairness ==
    /\ \A r \in Reloaders : WF_vars(ReloadStep(r))
    /\ \A q \in Requests : WF_vars(RequestStep(q))
    /\ \A q \in Requests :
         SF_vars(BodyRejected(q) \/ \E n \in 1..MaxImages : BodyReceived(q, n))

FairSpec == Spec /\ Fairness

-----------------------------------------------------------------------------
(* Properties.                                                             *)

Quiet == \A r \in Reloaders : pc[r] = "idle"
Handling(q) == at[q] \in {"body", "ready", "flight"}

\* A request that is being handled sends to the backends of the same saved
\* configuration whose timeout and retries its client carries, and so would
\* a request that arrived now: no interleaving of the two reloads mixes the
\* table of one configuration with the client of another (admin/reload.py
\* 70-71 stores both at once; app.py 123 and 188 read both at once).
OneGeneration ==
    /\ clients[gateway.client].cfg = gateway.cfg
    /\ \A q \in Requests : Handling(q) => clients[req[q].client].cfg = req[q].cfg

\* The client new requests are given is closed only in the window between
\* previous.client.close() and the store of the new state, or because the
\* construction in that window raised, or after shutdown: overlapping
\* reloads cannot install a client that another one has already closed.
ClosedOnlyInWindow ==
    clients[gateway.client].status = "closed" =>
        \/ loop = "stopped"
        \/ raised
        \/ \E r \in Reloaders : /\ pc[r] \in {"build", "install"}
                                /\ job[r].prev = gateway.client

\* A client is dropped while still open only by a reload that another one
\* overtook after it had read `previous` (admin/reload.py 68): a reload
\* that runs alone always closes what it replaces.
NoSilentLeak ==
    [][ \/ gateway'.client = gateway.client
        \/ clients[gateway.client].status = "closed"
        \/ \E r \in Reloaders : /\ pc[r] = "install"
                                /\ job[r].new = gateway'.client
                                /\ job[r].prev # gateway.client ]_vars

\* When no reload is running and the last one did not raise, requests are
\* served under what the volume holds (plans/GatewayAdminUI.md 2.4 step 5).
ServesWhatWasSaved ==
    Quiet /\ ~raised /\ disk \notin Unmergeable => gateway.cfg = disk

\* A configuration that names a proxy is served through that proxy.
NamedProxyUsed ==
    ProxyOf[gateway.cfg] # NoProxy => clients[gateway.client].proxy = ProxyOf[gateway.cfg]

\* Between reloads the client that requests are given is usable (2.4 step 5:
\* infer endpoints use the new backends without a restart).
UsableBetweenReloads ==
    Quiet /\ loop # "stopped" => clients[gateway.client].status = "open"

\* Every request whose handling began is answered, whatever is reloaded or
\* closed under it, unless the fairness above fails.
RequestsAnswered == \A q \in Requests : Handling(q) ~> at[q] = "done"

\* If proxies are well formed, a closed current client is replaced.
ClientReopens ==
    clients[gateway.client].status = "closed"
        ~> (clients[gateway.client].status = "open" \/ loop = "stopped")

-----------------------------------------------------------------------------
(* The gateway implements ConfigSwitch: the active configuration is the    *)
(* one of app.state.gateway, and a request is pinned to the configuration  *)
(* of the table and of the client it holds.                                *)

pinned == [q \in Requests |->
              IF Handling(q)
              THEN [table |-> req[q].cfg, client |-> clients[req[q].client].cfg]
              ELSE Nothing]

Switching == INSTANCE ConfigSwitch WITH active <- gateway.cfg

\* No reload, however it interleaves, changes what a request in progress is
\* handled under: app.py reads the state object once per request.
PinnedRequests == Switching!Spec

-----------------------------------------------------------------------------
(* The inductive invariant behind OneGeneration, ClosedOnlyInWindow and    *)
(* NoSilentLeak: who may hold which client, and who has the loop.          *)

Active(r) == pc[r] # "idle"
Born(i) == clients[i].status \in {"open", "closed"}

\* A reload in progress owns the client it is going to install, and has
\* closed the one it read as `previous` once it is past that step.
JobInv ==
    \A r \in Reloaders :
        /\ Active(r) /\ pc[r] # "install" => clients[job[r].new].status = "reserved"
        /\ pc[r] = "install" => /\ clients[job[r].new].status = "open"
                                   /\ clients[job[r].new].cfg = job[r].cfg
        /\ pc[r] \in {"close", "build", "install"} => Born(job[r].prev)
        /\ pc[r] \in {"build", "install"} => clients[job[r].prev].status = "closed"

\* Nobody else knows that client before it is installed.
NewInv ==
    \A r \in Reloaders : Active(r) =>
        /\ job[r].new # gateway.client
        /\ job[r].new # BootClient
        /\ \A s \in Reloaders : Active(s) /\ s # r => job[s].new # job[r].new
        /\ \A s \in Reloaders :
              pc[s] \in {"close", "build", "install"} => job[s].prev # job[r].new

BornInv ==
    /\ Born(BootClient)
    /\ Born(gateway.client)
    /\ \A q \in Requests : Handling(q) => Born(req[q].client)

LoopInv ==
    /\ "endpoint" \in Reloaders => (Active("endpoint") => loop = "endpoint")
    /\ \A q \in Requests : at[q] \in {"ready", "flight"} => loop = q

IInv ==
    /\ TypeOK
    /\ JobInv
    /\ NewInv
    /\ BornInv
    /\ LoopInv
    /\ OneGeneration
    /\ ClosedOnlyInWindow
=============================================================================
