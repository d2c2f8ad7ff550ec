------------------------------- MODULE Routing -------------------------------
(***************************************************************************)
(* Where a request goes and with what: the way from the container's        *)
(* environment, the defaults, the admin page's form and the runtime file   *)
(* to the URL, the key and the model of each upstream call, for the        *)
(* connection test and for inference; and which stage the gateway takes an *)
(* OpenAI request of docling-serve for.                                    *)
(*                                                                         *)
(* Abstractions.  The values of a field are model values or Empty; a URL   *)
(* names a server, of which a call uses the chat path or the KServe infer  *)
(* path of one model.  Every stage is in gateway-models.template.yaml, so  *)
(* of a template entry only what no override replaces would matter (path,  *)
(* parser, prompt), which no property is about.  Of two model names none   *)
(* is part of the other, and none contains "minimax".  A reload is one step*)
(* (its own are in GatewayReload), and configurations it raises on are     *)
(* left to AdminConfig.  Hand-edited runtime files are not modelled.       *)
(***************************************************************************)
CONSTANTS
    Stages,          \* the stages of the pipeline
    KServeName,      \* the stages of KSERVE_MODEL_TO_STAGE, with their model
                     \* names; the others are reached by the OpenAI proxy
    Backends,        \* "vision" and "text": filled from the environment
    Native,          \* "kserve_native": there only if its URL is given
    Text,            \* the backend "text"
    Urls, Keys, Models,
    RemoteVision,    \* the placeholder that docling-serve sends as a model
    Vlm, CodeFormula, \* the stages select_openai_route decides between
    Empty,           \* an empty field, an unset variable
    DefaultEndpoint, \* DEFAULT_STAGE_ENDPOINTS
    DefaultMode,     \* DEFAULT_STAGE_MODES
    Defaults,        \* gateway-runtime.defaults.yaml
    Environs,        \* what the container may be started with
    Forms,           \* what form_to_runtime may return
    Absent           \* no file, no form

Endpoints == Backends \cup {Native}
Modes == {"openai_vision", "openai_proxy", "openai_text", "kserve_relay"}
KServeStages == DOMAIN KServeName

Backend == [url : Urls \cup {Empty}, key : Keys \cup {Empty}, model : Models \cup {Empty}]
StageOverride == [endpoint : Endpoints, mode : Modes, model : Models \cup {Empty},
                  relay : Models \cup {Empty}]

\* A runtime configuration that names every stage.
Runtime == [backend : [Endpoints -> Backend], stages : [Stages -> StageOverride]]

\* validate_stage_routing.
RelayComplete(f) ==
    \A s \in Stages : f.stages[s].mode = "kserve_relay" =>
        /\ f.stages[s].endpoint = Native
        /\ f.stages[s].relay # Empty
        /\ f.backend[Native].url # Empty

ASSUME FieldAssumption ==
    /\ Native \notin Backends
    /\ Text \in Backends
    /\ Empty \notin Urls \cup Keys \cup Models
    /\ RemoteVision \notin Models \cup {Empty}
    /\ Vlm \in Stages /\ CodeFormula \in Stages /\ Vlm # CodeFormula
    /\ Stages \subseteq Models
    /\ KServeStages \subseteq Stages
    /\ \A s \in KServeStages : KServeName[s] \in Models
    /\ DefaultEndpoint \in [Stages -> Backends]
    /\ DefaultMode \in [Stages -> Modes \ {"kserve_relay"}]
ASSUME InputAssumption ==
    /\ Defaults.backend \in [Endpoints -> Backend]
    /\ Defaults.stages = <<>>
    /\ Environs \subseteq [Endpoints -> Backend]
    \* GatewaySettings has defaults for the URLs of the backends.
    /\ \A e \in Environs, n \in Backends : e[n].url # Empty
    /\ Forms \subseteq Runtime
    /\ \A f \in Forms : RelayComplete(f)
    /\ Absent \notin Runtime

-----------------------------------------------------------------------------
(* Loading: apply_env_fallback and with_default_stages.                    *)

\* Python's `v or w`.
OrElse(v, w) == IF v # Empty THEN v ELSE w

FillBackend(b, e) ==
    [url |-> OrElse(b.url, e.url), key |-> OrElse(b.key, e.key), model |-> OrElse(b.model, e.model)]

Filled(r, e) == [n \in Endpoints |-> IF n = Native THEN r.backend[n] ELSE FillBackend(r.backend[n], e[n])]

DefaultStage(s, backend) ==
    [endpoint |-> DefaultEndpoint[s], mode |-> DefaultMode[s],
     model |-> backend[DefaultEndpoint[s]].model, relay |-> Empty]

Load(r, e) ==
    [backend |-> Filled(r, e),
     stages  |-> [s \in Stages |-> IF s \in DOMAIN r.stages
                                   THEN r.stages[s]
                                   ELSE DefaultStage(s, Filled(r, e))]]

-----------------------------------------------------------------------------
(* The routing table: load_merged_routing_table.                           *)

MergedEndpoints(r) ==
    [n \in {m \in Endpoints : m = Native => r.backend[m].url # Empty} |->
        [url |-> r.backend[n].url, model |-> r.backend[n].model]]

\* Only mode and endpoint are overridden, the template's model stays.
MergedStagesKeepModel(r) ==
    [s \in Stages |-> [r.stages[s] EXCEPT !.model = r.backend[DefaultEndpoint[s]].model]]

\* apply_stage_overrides.
MergedStages(r) ==
    [s \in Stages |->
        IF r.stages[s].mode = "kserve_relay"
        THEN [r.stages[s] EXCEPT !.model = OrElse(@, s)]
        ELSE [r.stages[s] EXCEPT !.relay = Empty]]

Table(r) == [endpoints |-> MergedEndpoints(r), stages |-> MergedStages(r)]

\* runtime_to_settings, as far as a route depends on it.
Settings(r) ==
    [key |-> [n \in Endpoints |-> r.backend[n].key], textModel |-> r.backend[Text].model]

-----------------------------------------------------------------------------
(* resolve_stage_route.                                                    *)

\* The stage's endpoint is in the table; otherwise KeyError.
Resolves(t, s) == t.stages[s].endpoint \in DOMAIN t.endpoints

\* GatewaySettings.resolve_api_key: os.environ comes first.
ResolveApiKey(st, e, n) == OrElse(e[n].key, st.key[n])

Route(t, st, e, s) ==
    LET c == t.stages[s]
        p == t.endpoints[c.endpoint]
        model == OrElse(c.model, p.model)
        relayed == c.mode = "kserve_relay"
    IN  [mode |-> c.mode, url |-> p.url, key |-> ResolveApiKey(st, e, c.endpoint),
         relay |-> c.relay,
         model |-> IF relayed THEN OrElse(c.relay, OrElse(model, s)) ELSE model,
         path  |-> IF relayed THEN "infer" ELSE "chat"]

\* select_openai_route for the model that an OpenAI request names, when its
\* prompt does not ask to describe a picture: Python's
\* `settings.text_model.lower() in model` is TRUE of an empty text model.
SelectStage(model, st) == IF st.textModel \in {model, Empty} THEN CodeFormula ELSE Vlm

\* relay_model is ignored.
CallByName(r, s) ==
    IF s \in KServeStages /\ r.mode = "kserve_relay"
    THEN [url |-> r.url, key |-> r.key, path |-> "infer", body |-> "tensors",
          model |-> KServeName[s]]
    ELSE [url |-> r.url, key |-> r.key, path |-> r.path, body |-> "messages", model |-> r.model]

\* The upstream call of inference on route r: kserve_relay_infer with the URL
\* of build_relay_upstream_url, vision_inference, or handle_openai_proxy,
\* which posts chat messages to the route's URL whatever its mode is.
Call(r, s) ==
    IF s \in KServeStages /\ r.mode = "kserve_relay"
    THEN [url |-> r.url, key |-> r.key, path |-> "infer", body |-> "tensors",
          model |-> OrElse(r.relay, KServeName[s])]
    ELSE [url |-> r.url, key |-> r.key, path |-> r.path, body |-> "messages", model |-> r.model]

\* The connection test of stage s: whether the relayed model is ready, or a
\* chat message.
Probe(r) ==
    [url |-> r.url, key |-> r.key, path |-> r.path, model |-> r.model,
     body |-> IF r.mode = "kserve_relay" THEN "tensors" ELSE "messages"]

-----------------------------------------------------------------------------
VARIABLES
    environ,   \* what the container was started with
    file,      \* gateway-runtime.yaml: the configuration, last_test_ok
    table,     \* app.state.gateway.routing_table
    settings,  \* app.state.gateway.settings
    tested,    \* the form of the session's last test, and test_ok_state
    rendered,  \* the model of code_formula in docling-serve.yaml
    docling    \* ... and in the docling-serve that runs

vars == <<environ, file, table, settings, tested, rendered, docling>>

EndpointConfig == [url : Urls \cup {Empty}, model : Models \cup {Empty}]

TypeOK ==
    /\ environ \in Environs
    /\ file \in [runtime : Runtime, marked : BOOLEAN]
    /\ \E D \in SUBSET Endpoints : table.endpoints \in [D -> EndpointConfig]
    /\ table.stages \in [Stages -> StageOverride]
    /\ settings \in [key : [Endpoints -> Keys \cup {Empty}], textModel : Models \cup {Empty}]
    /\ tested \in [form : Forms \cup {Absent}, ok : BOOLEAN]
    /\ {rendered, docling} \subseteq Models \cup {Empty}

\* build_gateway_state and reload_gateway_state from configuration r.
Install(r, e) ==
    /\ table' = Table(Load(r, e))
    /\ settings' = Settings(Load(r, e))

\* First start: the defaults, filled from the environment, are written, and
\* docling-serve.yaml is rendered from them.
Init ==
    /\ environ \in Environs
    /\ file = [runtime |-> Load(Defaults, environ), marked |-> FALSE]
    /\ table = Table(Load(file.runtime, environ))
    /\ settings = Settings(Load(file.runtime, environ))
    /\ tested = [form |-> Absent, ok |-> FALSE]
    /\ rendered = file.runtime.backend[Text].model
    /\ docling = rendered

\* deploy/.env is edited and the container started again.
Restart(e) ==
    /\ environ' = e
    /\ Install(file.runtime, e)
    /\ tested' = [form |-> Absent, ok |-> file.marked]
    /\ UNCHANGED <<file, rendered, docling>>

\* The operator restarts docling-serve, as the admin page says after a Save.
DoclingRestart ==
    /\ docling' = rendered
    /\ UNCHANGED <<environ, file, table, settings, tested, rendered>>

AdminReload ==
    /\ Install(file.runtime, environ)
    /\ UNCHANGED <<environ, file, tested, rendered, docling>>

\* A stage that does not resolve is skipped.
TestSkipping(f, ok) ==
    /\ tested' = [form |-> f, ok |-> ok]
    /\ UNCHANGED <<environ, file, table, settings, rendered, docling>>

\* run_all_connection_tests: a stage that does not resolve raises, and the
\* outputs of the previous test stay; a probe of an empty URL fails.
Test(f, ok) ==
    /\ \A s \in Stages : Resolves(Table(f), s)
    /\ ok => \A n \in Backends : f.backend[n].url # Empty
    /\ tested' = [form |-> f, ok |-> ok]
    /\ UNCHANGED <<environ, file, table, settings, rendered, docling>>

\* docling-serve.yaml is rendered from what the gateway ran before.
SaveRendersOld(f) ==
    /\ tested.ok
    /\ file' = [runtime |-> f, marked |-> TRUE]
    /\ Install(f, environ)
    /\ rendered' = settings.textModel
    /\ UNCHANGED <<environ, tested, docling>>

\* handle_save_config: the form is written as it is, docling-serve.yaml is
\* rendered from it as it is, and the gateway loads and installs it.
Save(f) ==
    /\ tested.ok
    /\ file' = [runtime |-> f, marked |-> TRUE]
    /\ Install(f, environ)
    /\ rendered' = f.backend[Text].model
    /\ UNCHANGED <<environ, tested, docling>>

Next ==
    \/ \E e \in Environs : Restart(e)
    \/ DoclingRestart
    \/ AdminReload
    \/ \E f \in Forms, ok \in BOOLEAN : Test(f, ok)
    \/ \E f \in Forms : Save(f)

Spec == Init /\ [][Next]_vars

-----------------------------------------------------------------------------
(* Properties.                                                             *)

\* The upstream call that a request of stage s makes now.
Sends(s) == Call(Route(table, settings, environ, s), s)

\* What the connection test of form f sends for stage s.
Probes(f, s) == Probe(Route(Table(f), Settings(f), environ, s))

TestedIsSaved == tested.ok /\ tested.form = file.runtime

\* The form says itself which model the stage uses.
NamesModel(f, s) ==
    LET c == f.stages[s] IN
    c.endpoint = Native \/ c.model # Empty \/ f.backend[c.endpoint].model # Empty

\* After a Save of the form that was tested, inference makes the calls that
\* the test probed: same server, key, path and model, although the test
\* routes by the form and inference by the file filled from the environment.
\* Excepted are stages whose model the environment fills, and stages of the
\* OpenAI proxy in relay mode, which the test takes for KServe models.
ProbedIsSent ==
    TestedIsSaved =>
        \A s \in Stages :
            /\ Resolves(table, s)
            /\ NamesModel(file.runtime, s)
            /\ file.runtime.stages[s].mode = "kserve_relay" => s \in KServeStages
            => Sends(s) = Probes(tested.form, s)

\* After a Save of the form that was tested every stage has a route, and to a
\* server: an endpoint without a URL never gets into the table.
TestedResolves ==
    TestedIsSaved => \A s \in Stages : Resolves(table, s) /\ Sends(s).url # Empty

\* Server and model that the file names are used, whatever the container is
\* started with: the environment fills only what is empty
\* (plans/GatewayAdminUI.md section 3).
SavedRouteUsed ==
    \A s \in Stages :
        LET c == file.runtime.stages[s]
            b == file.runtime.backend[c.endpoint]
        IN  Resolves(table, s) =>
                /\ b.url # Empty => Sends(s).url = b.url
                /\ c.mode # "kserve_relay" /\ c.model # Empty => Sends(s).model = c.model

\* Once docling-serve has been restarted after the last Save, the formulas it
\* sends are recognised by their model, and nothing else is, if the file
\* names a text model.
FormulasReachStage ==
    docling = rendered /\ file.runtime.backend[Text].model # Empty =>
        /\ SelectStage(docling, settings) = CodeFormula
        /\ SelectStage(RemoteVision, settings) = Vlm

\* A reload or restart that finds the same file and environment changes no
\* route: the gateway does not depend on what it ran before.
Reproducible ==
    [][file' = file /\ environ' = environ => UNCHANGED <<table, settings>>]_vars

=============================================================================
