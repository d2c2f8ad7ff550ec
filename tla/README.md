# doclingllm: TLA+ specifications

The repository runs docling without local models. **docling-serve** (vendored in
`docling-serve/`, with the overlay of `deploy/docling-serve/`) converts documents and sends
each model call to a **gateway** (`src/doclingllm/gateway/`), which speaks KServe v2 and OpenAI
to docling and OpenAI chat completions (or native KServe) to external model servers. The gateway
is configured at run time through a Gradio page mounted into the same process, which writes two
YAML files on a docker volume and reloads the gateway in place.

This directory holds specifications of the parts whose correctness depends on order, overlap and
failure, the TLC configurations that check them on small instances, and TLAPS proofs for every
instance. Line numbers below are those of the commit the modules were translated from;
`PROJECT.json` maps every definition to its lines.

## Inventory

| Component | State | Operations | Interacts with |
|---|---|---|---|
| Gateway process (`app.py`, `admin/reload.py`) | `app.state.gateway` = settings + routing table + HTTP client; process environment | `kserve_infer`, `openai_chat_completions`, `/admin/reload`, lifespan | client, routing, admin page (calls `reload_gateway_state` from a worker thread) |
| Configuration volume (`admin/config_store.py`, `admin/docling_generator.py`) | `gateway-runtime.yaml`, `docling-serve.yaml` | seed, load with environment fallback, atomic save, generate | read by the gateway at start and reload, by docling-serve at start |
| Admin page (`admin/gradio_ui.py`, `admin/gradio_handlers.py`) | per session: form fields, `test_ok_state`, `runtime_state` | Test, Save, Sync models, Refresh | volume, connection tester, reload |
| Connection tester (`admin/connection_tester.py`) | none | probes of backends and stages | upstream servers, routing |
| Upstream client (`client.py`) | an `httpx.Client` (open or closed), settings | post with retry, relay, proxy | upstream servers |
| Routing (`routing.py`, `admin/routing_merge.py`, `config.py`) | routing table (immutable) | merge of template, runtime file and environment; resolve a stage | settings |
| KServe adapter (`kserve.py`, `kserve_binary.py`, `parsers/`) | none | decode tensors, one upstream call per image, parse, encode | client |
| Relay and proxy (`kserve_relay.py`, `openai_proxy.py`) | none | pass a request through | client, routing |
| docling-serve API (`docling_serve/app.py`, `response_preparation.py`) | tasks (in the orchestrator of docling-jobkit), results | synchronous and asynchronous conversion and chunking, poll, fetch a result, clear results | orchestrator (external), policy |
| Websocket notifications (`app.py`, `websocket_notifier.py`) | `task_subscribers`, the handlers, the listener, `_queue_processor_failed` | subscribe, push an update, push queue positions, remove a task, liveness probe | orchestrator, API |
| docling-serve policy (`policy.py`, `settings.py`, `auth.py`) | none: a policy built once from the settings | normalise and validate a request, check the key | API |
| Demo page (`docling_serve/gradio_ui.py`) | per page: the task id, the outputs; Gradio's queue | clear, send, wait and fetch, reset | API, over HTTP |
| Logging, metrics, option parsing, deployment scripts | none that others depend on | | |

What is hard in this code:

* **Concurrency.** The gateway is one event loop, but Gradio runs Save in a worker thread. Both
  replace `app.state.gateway`, close the client they replace and write `os.environ`, while
  request handlers hold the state object across an `await`. There is no lock.
* **Order of effects.** A reload changes the environment, then merges (may raise), then closes
  the old client, then builds the new one (may raise), then stores it.
* **Crashes and partial failure.** A Save writes two files and memory; the bootstrap of the next
  start repairs only what is missing. The listener of docling-serve may die while the server answers on.
* **Stale values.** The test result that admits a Save, the values the page shows, a task's status
  read before an `await` and sent after it, and the task id of the demo page are all older than the moment
  they are used.
* **Timeouts and retries.** A handler is synchronous inside a coroutine, and each image has its own retries; a synchronous
  conversion is given up at `max_sync_wait` and its task runs on; the page retries a fetch of a result that can be fetched once.
* **Data that changes shape.** Tensors come binary, inline or mixed, with running offsets; boxes are
  found in whatever a language model wrote and must stay with their page.

`PROJECT.json` lists each hazard at its line, with the properties that cover it.

## Modules

| Module | Models |
|---|---|
| `ConfigSwitch` | Abstract: what a reload promises to a request. One configuration is active; a request is handled, table and client alike, under the one that was active when it was accepted. |
| `GatewayReload` | The running gateway: both reloaders step by step, request handlers around their `await`, the clients, the environment, the event loop, shutdown. Implements `ConfigSwitch`. |
| `AdminConfig` | The volume and all that writes it: bootstrap, Test, Save, crash, restart, failed writes, browser sessions. |
| `Routing` | From environment, defaults, form and runtime file to the server, key and model of each call, for the connection test and for inference; recognition of docling-serve's formula requests. |
| `KServeTensors` | Operators: the body of an infer request to its tensors. |
| `KServeEncode` | Operators: a model's reply to the tensors docling reads. Extends `KServeTensors`. |
| `KServeInfer` | One request from arrival to answer: adapter, relay and OpenAI proxy, the attempts of each upstream call, the status each outcome becomes. Extends `KServeEncode`. |
| `ReplyJson` | How the JSON in a model's reply is found and repaired. |
| `TaskQueue` | External: what docling-serve relies on of its orchestrator. Extended by the next three. |
| `ServeTasks` | The endpoints that create tasks and look at them; results removed after they were fetched. |
| `ServeWatch` | `/v1/status/ws`, the notifier, the listener, its death and the restart of the pod. |
| `ServePage` | The demo page: two chains of callbacks over the asynchronous endpoints. |
| `ServePolicy` | Admission: what each endpoint lets through to the queue. |
| `X_proofs` | Theorems about `X`: for `GatewayReload`, `AdminConfig`, `Routing`, `KServeInfer`, `ServeTasks`, `ServeWatch`, `ServePage`, `ServePolicy`. |
| `MCX` | Values of the constants of `X` for TLC. |

### GatewayReload

`gateway` is `app.state.gateway`: the configuration its table and settings were merged from, and
the identity of its client. `clients` gives each `ExternalApiClient` its status, the configuration
its timeout and retries come from, and the proxy httpx read from the environment when it was
built. `pc`/`job` are the position and the local variables of the two activations of
`reload_gateway_state` (`admin/reload.py:59-75`): one action per shared read or write, in the order
of the code (`ReadConfig`, `FillFromEnv`, `ApplyProxyEnv`, `MergeRouting`/`MergeFails`,
`ClosePrevious`, `BuildClient`/`BuildFails`, `InstallState`), preceded for Save by
`SaveRuntimeConfig`. `at`/`req` are the position and locals of a request handler: `Arrive` reads the
state object (`app.py:123`, `188`), `BodyReceived` is the end of the `await`, and from there the
handler has the loop until `Finish`, making one upstream call per image. `loop` says who occupies
the event loop: the endpoint's reload excludes requests, the Save thread does not. The GIL makes
one read or write of a Python attribute or of `os.environ` atomic, which is the grain of the
actions; HTTP_PROXY, HTTPS_PROXY and NO_PROXY are written and read as one.

Closing an `httpx.Client` makes its next request raise `RuntimeError` and breaks the connections in
use: a request in flight may then end normally, fail, or find the client closed at a retry, all of
which `NextImage`, `LastImage` and `CallFails` allow.

### AdminConfig

`runtime`, `marked` and `docling` are the two files; a content is an element of a set of forms, and `docling-serve.yaml` is represented by
the content it was rendered from. `memory` is what `app.state.gateway` was built from. Bootstrap (`Seed`, `SeedWrites`, `SeedReplaces`,
`Generate`, `FillAtBoot`, `Construct`, `Mount`) and Save (`SaveCreates`, `SaveWrites`, `ReplaceRuntime`, `TruncateDocling`, `FillDocling`,
`Reload`, `SaveReturns`) are one step per effect on the volume or on memory; `Crash` may come between any two, `WriteFails` at any write of
Save. Both write the runtime file through `save_runtime_config`: `tmp` is its temporary file, created empty (`CreateTmp`), filled
(`FillTmp`) and moved over the target (`Publish`), which moves whatever the file holds by then; a write that raises passes the `finally`
clause, which removes it. A file that is not whole is refused when it is loaded (`Seed`, `Loadable`). A Test and a Save may be running at
the same time, in one session or in two, and their outputs are applied in either order. `unfinished` is a history variable: which copies an
interrupted Save left behind, so that the properties say exactly when the copies agree.

### Routing

The state is what survives between operations: `environ` (what the container was started with),
`file` (the runtime file), `table` and `settings` (`app.state.gateway`), `tested` (the session's last test),
`rendered` and `docling` (the text model that docling-serve.yaml and the running docling-serve name). Between them
are pure operators, one per function: `Load` (`apply_env_fallback`, `with_default_stages`), `Table`
(`load_merged_routing_table`), `Settings` (`runtime_to_settings`), `Route` (`resolve_stage_route`,
`resolve_api_key`), `Call` and `Probe` (the upstream call of inference and of the connection test), `SelectStage`
(`select_openai_route`). `Save` writes and renders the form as it is and installs what loading makes of the file;
`Restart` and `AdminReload` only load; `Test` routes by the form itself, is not finished when a stage does
not resolve, and cannot succeed with an empty URL. Saves are atomic here because their steps are in
`AdminConfig` and `GatewayReload`.

### KServeTensors, KServeEncode, KServeInfer

`KServeTensors` has an operator per function of `kserve_binary.py` and of the decoding half of `kserve.py`: the framing with its running
offset, length-prefixed BYTES, shapes against data (with the one size `reshape` may be left to find), the image in a tensor. A number is its
bytes, whatever its datatype, so a float is small or large by its bits. A string is bytes on the wire and characters once it has been read:
UTF-8 where it can be, Latin-1 otherwise; `Utf8` gives the text of the sequences beyond ASCII that are used. `Base64` is what `b64decode`
accepts (groups of four letters, other characters passed over), `Image` the ways `_tensor_to_png_bytes` takes an array by its dimensions:
four of them are read as rows first, and a batch whose last size is not 1, 3 or 4 is refused. The loops over inputs and over strings are
recursive functions of the position, so that they can be reasoned about. `Sendable` and `BuildBinary` are the client: what may be put into
an input, and how it is packed. `KServeEncode` has the parsers' reading of a reply (`parsers/`) and the encoders: labels, scores, boxes
clamped to the page, of which those below the smallest side the next stage can take are left out, padding of a batch to its longest row,
synthetic lines for texts without a box. A loop that passes over some of the items is a selection: the item that comes out at place k is the
one whose `Rank` among those kept is k. An operator that can raise returns `Bad` (`ValueError`, `TypeError`) or `Crash` (any other
exception), which `StatusOf` turns into 400 and 500 as the handler's `except` clauses do.

`KServeInfer` runs them: `Parse`, `Decode`, then for each image `TimeOut`, `TransportFails`, `ModelErrs` or `ModelReplies` (`client.py`:
only a timeout is tried again), then `Encode`; a batch of no pages goes to `Encode` at once. `Relay` makes its one call whatever comes of it
(`kserve_relay.py`); `ReceiveOpenAI` and `ModelRepliesOpenAI` are the proxy, which also goes through the client's retries. `log` is a
history variable: every POST and how it ended.

### ReplyJson

`extract_json_from_text` and the functions it calls (`parsers/base.py`) on sequences of tokens: the fenced block, else what is between the
first bracket and the last; then the first that parses of the candidate, the candidate without garbage at its end, its balanced prefix, and
that without garbage. `json.loads` is a set of accepted sequences, of which `Grammar` says what the properties rely on: in an object or a
list the brackets outside strings balance at its end and not before. `BrokenListGivesItsHead` is about lists of objects, which the parsers
of regions and boxes take, and lists without any: of `[1, {"a": 2}, ...` the code reads the object, since it is the first bracket with a
closing one.

### ServeTasks, ServeWatch, ServePage over TaskQueue

`TaskQueue` has a task's owner, its status (`absent`, `pending`, `started`, `success`, `failure`, `removed`) and how other
processes advance it. It is external: docling-jobkit is not in the repository.

`ServeTasks`: a request is an activation of a handler, a step what it does between two calls of the orchestrator. `EnqueueSync`,
`Look`, `Sleep`, `Fetch` are the synchronous endpoints (`_wait_task_complete`), `EnqueueAsync` and `Position` the asynchronous ones,
`Status`, `Allow`/`Deny` and `Position` or `Fetch` are `/v1/status/poll` and `/v1/result`. A synchronous fetch of a task that was removed meanwhile
is a 404 (`FetchNothing`) or a 500 (`FetchFails`), as the orchestrator returns nothing or raises an error nobody catches there. `Expire` is
`on_result_fetched` after its delay, `ClearResults` is `/v1/clear/results`. `saw` is what a look returned, which the next step relies on.

`ServeWatch`: the handler reads the status, checks the tenant, subscribes, sends, reads the status again, sends, and waits for client
messages; every way out passes the `finally` clause (`Finish`). The listener takes an update, reads the status, may add the
queue position, sends to a *copy* of the subscribers one `await` at a time, and closes them when the task is completed
(`websocket_notifier.py`). `dropping` are the sockets a `remove_task` has popped and not yet closed, `forgotten` and `missed` are
history variables: sockets left behind by a `remove_task` that raised, and updates that were published and never pushed.

`ServePage`: `at` is the callback of a run that comes next. Gradio's `.then` goes on after a callback that raised, all runs of a page share
its task id (`box`), and `wait_task_finish` runs one at a time over all pages. A submission is two steps, `Post` (the server takes it) and
`Receive` (the page is told of the task) or `SendLost`; another run may clear the page, be told of its own task or press on in between, and
the late answer is put into `box` all the same. `answered`, `cleared` and `broken` are history variables: which runs the page was told
about, and which cleared it, between a run's own clearing and its wait, and fetches that got no readable answer. `WaitsForItsOwn` says what
follows: a run waits for nothing or for a task the page was told of since the run cleared it, which need not be one that was sent since; and
for its own task if nobody else used the page in between.

### ServePolicy

`settings` is a deployment, chosen at the start. `Policy` is `build_service_policy`, `Normalised` and the `Valid…` operators are the
functions of `policy.py`, `AdmitSource` … `AdmitChunkFile` the calls an endpoint makes, in their order (each endpoint makes
others). The properties are stated over the raw settings, not over the policy derived from them.

## Runs

| Run | Properties | Shows |
|---|---|---|
| `reload_overlap` | `TypeOK` `OneGeneration` `ClosedOnlyInWindow` `NoSilentLeak` `RequestsAnswered` `ClientReopens` `PinnedRequests` | both reloaders against two requests, safety, refinement and liveness |
| `reload_serial` | `ServesWhatWasSaved` `NamedProxyUsed` | three Saves in a row, every kind of configuration |
| `admin_safe` | `RuntimeWhole` `DoclingFollows` `MemoryFollows` `SavedMarkedTested` `GatewayRestarts` | volume and temporary file under crashes and failed writes, restart |
| `routing_tested` | `ProbedIsSent` `TestedResolves` `SavedRouteUsed` `FormulasReachStage` | inference goes where the test went and where the file says |
| `kserve_answers` | `UnreachableIs502` `NoReplyIsLost` `TensorsAsSent` `DetectionsStayWithTheirPage` `TextsKeepTheirPlace` | every request with every way its calls may end |
| `reply_extracts` | `WrappedValueIsRead` `BrokenListGivesItsHead` | a wrapped value is read whole, a broken list of objects as its first item or not at all |
| `tasks_answered` | `OwnerOnlyAnswers` `NoResultIsTrue` `EveryRequestAnswered` `FetchedIsReleased` | any two requests against removals at any point; neither 404 nor 500 for a result that is there |
| `watch_told` | `TypeOK` `OwnerOnly` `NoDeadSubscriber` `WaitingIsReachable` `ListenersAreClosed` `AskersAreClosed` | two sockets on a task, with lost updates, failing sends and a dying listener |
| `page_shows` | `WaitsForItsOwn` `GivesUpForAReason` `RunsEnd` | two presses on one page, submissions in flight, every call lost or failing |
| `policy_admits` | `AcceptedIsServable` `OmittedTargetServed` | every endpoint against every allowlist |
| `reload_raised` (violated) | `UsableBetweenReloads` | a reload closes the old client before it builds the new one: a proxy httpx refuses leaves a gateway that can call nobody, where `plans/GatewayAdminUI.md` has the infer endpoints go on without a restart of the container |
| `kserve_classified` (violated) | `ClassifierAsksTheModel` | `tensors.get("pixel_values") or …` asks an array for its truth value, so `pixel_values`, which `docs/gateway_api_contract.md` and the model's metadata name, is refused for any image |

The properties of `reload_raised` and `kserve_classified` say what a document says; `findings` in `PROJECT.json` quotes it. Other departures
noticed on the way have no run: a proxy field that is cleared leaves the old proxy in force; of two overlapping reloads the older
configuration may stay; a form that was edited between its test and Save is saved; a page shows the values of its opening; the key in the
file loses to the one of the environment; formula requests go to the wrong stage if the text model is empty; the batch endpoint does not
compare its target with the allowlist; a test that raises leaves an earlier successful one in force; a picture sent as `images` is taken for
rows first, channels last (`kserve.py:277`), so one in the layout of the metadata is refused or misread; on a page used twice at once a run
may show a task that was sent before it cleared the page; the status shown over a websocket may go back; a 503 after the enqueue leaves a
task nobody knows of.

**Bounds.** A reload takes a fresh client identity, so `ClientIds` bounds the reloads of a run: two
in `reload_overlap`, enough for both reloaders to be active at once, for each order of any two of their steps, and for
a reload of a reload; three in `reload_serial`, enough to set, clear and replace a proxy after a failure.
`MaxImages = 2` lets a reload happen before the first, between and after upstream calls. Two
requests let one wait in its `await` while the other has the loop. Two configurations with
different proxies make every swap visible; `reload_serial` adds an empty proxy field, a proxy that
httpx refuses and a base URL with an unresolved placeholder. `MaxCrashes = 2` allows a crash during
the recovery from a crash; four contents are the defaults and one of each kind of form (good, malformed, not
loadable). One tab suffices for `admin_safe` because its properties are about the volume, and Test and Save of one tab overlap.
`MCRouting` has one stage of each way a request takes (KServe adapter, OpenAI proxy, formulas), all three backends, and two
environments that agree and disagree with what is saved. Fields and stages vary one group at a time, since a stage reads
only its own entry and its own backend; the theorems need no such bound.

`MCKServeInfer` has requests of every model and encoding (binary and inline inputs in every order, short, garbled, wrongly shaped), batches
of up to two pages and an empty one, strings with characters beyond ASCII and base64 with line feeds, images of each number of dimensions,
known and unknown page sizes, replies of every form with up to four items, and two retries: one that succeeds, one that is the last. `Unit =
6` steps per pixel make half pixels and the smallest sides distinct. `MCReplyJson` has values nested up to three deep, with brackets and
escaped quotes in strings, wrapped and cut off at every token. `tasks_answered`: two requests of any endpoint and tenant on a task of each
tenant; one sleep is a look after a look, and the limit. `watch_told`: one task, since subscribers of different tasks meet only in the round
of queue positions; one socket whose client keeps asking and one that only listens. `page_shows`: two runs of one page share everything two
runs can share; three attempts have a first, a middle and a last. `policy_admits`: every form of an allowlist (unset, comma-separated, list,
empty, with a name nobody knows) for targets, with and without storage, and one deployment or two for each other setting.

**Deadlock** is checked in `routing_tested` and `policy_admits`, where there is always a next request. Elsewhere the system may stop: a gateway
is shut down, a request has been answered, nobody need click or connect.

**Fairness.** `GatewayReload`: weak fairness of a started reload (a thread is scheduled; the loop runs the
coroutine it is in) and of the synchronous part of a handler (each httpx operation has a timeout); strong fairness for a body that has arrived
or whose connection broke, because asyncio takes ready callbacks in FIFO order while the loop is free only now and
then. Nobody is required to save, reload or send. `AdminConfig`: the container runtime restarts the
gateway (`restart: unless-stopped`), a start runs on, worker threads are scheduled and probes time out. Clicks are not fair.
`ServeTasks`: handlers run on and scheduled removals run; no task need ever be worked on. `ServeWatch`: handlers, the listener while it
lives and removals run on, and the clients in `Chatty` keep asking; no client need connect, no task end, no pod restart. `ServePage`: the callbacks of an open
page follow each other; no failure is relied on, and that tasks end is a hypothesis of `RunsEnd`.

## Proofs

Each theorem holds for all values of the constants under the module's named `ASSUME`s (types of the constants and
that markers such as `Absent` are no values), which TLC evaluates in the runs. Each proof module states
an inductive invariant `IInv`, has a lemma per action or group of actions that it is kept, and derives the properties.

`GatewayReload_proofs` (`ConfigAssumption`, `IdAssumption`): `TypeCorrect`, `Invariance`, `NoMixedGeneration`
(`OneGeneration`), `NoClosedInstall` (`ClosedOnlyInWindow`), `OnlyOvertakenLeak` (`NoSilentLeak`), and `Refinement`:
`Spec => PinnedRequests`, i.e. the gateway implements `ConfigSwitch`.
`OneGeneration` and `ClosedOnlyInWindow` are not inductive: that the two reloads cannot harm each other rests on who
knows which client. `IInv` adds: a running reload's new client is *reserved* until it is built and *open with that
reload's configuration* until it is installed (`JobInv`); no request, no other reload and not
`app.state.gateway` refers to it before (`NewInv`); every client referred to has been built (`BornInv`); a reload past its close step
has closed the client it read; and the endpoint's reload and a request past its body have the loop
(`LoopInv`). The refinement maps `active` to the configuration of `app.state.gateway` and `pinned` to the
configurations of the table and of the client a request holds; only `InstallState` is a `Switch`, `Arrive`
an `Accept`, every way to `Finish` an `Answer`, and all other steps stutter because no step rewrites
the settings of a client that has been built (`SettingsStay`).
Under the further hypothesis `Alone` (at most one of the two ways to reload), `SavedIsServed` (`ServesWhatWasSaved`) and `NamedProxyServes`
(`NamedProxyUsed`): what a reload read from the volume is still there at each of its steps (`Current`), and a named proxy is in its
local variable, then in the environment, then in the new client (`Carried`). With both reloaders neither holds, since they share the file and the environment.

`AdminConfig_proofs` (`ContentAssumption`, `MarkerAssumption`): `RuntimeStaysWhole`, `FilesAgree`, `ServesTheVolume`, `OnlyTestedIsSaved`,
for any number of sessions and crashes. `RuntimeWhole` rests on what the temporary file holds when it is moved (`OnTheWay`), which is why it
is created, filled and moved in separate steps; a `finally` that moved it as well would break it. `SavedMarkedTested` needs to know that the
flag that admits a Save and the meta section it writes never part, in any session or in a running Save (`Tested`); the agreement of the
copies needs where a Save stands (`Written`) and what an interrupted one left (`DoclingCopy`, `MemoryCopy`).

`Routing_proofs` (`FieldAssumption`, `InputAssumption`): `SavedIsUsed`, `FormulasReach`, `TestedHasRoutes`, `ProbedAndSent`, and
`ReloadsReproduce` (no reload or restart changes a route while file and environment stay). The inductive
invariant says that `table` and `settings` are what `Load` makes of the present file and environment,
that `rendered` is the file's text model, and that a successful test of a form found a route for each
stage and a URL for each backend; the rest are lemmas about `Load` and `Table` (`LoadedBackend`,
`TableEntry`). `ProbedAndSent` is the argument that two different ways through the code arrive at the same call:
the environment can change neither a URL that the test required, nor a model that is named, nor the key,
which is taken from the environment first on both ways.

`KServeInfer_proofs` is about the calls and about the data, for all requests, replies and numbers of retries.
The calls (`RetryAssumption`): `UnreachableAnswered` (`UnreachableIs502`) and `RepliesAreKept` (`NoReplyIsLost`), which counts POSTs in the log; `IInv` ties
the log to the attempt counter (`Bounded`) and the images to the replies so far (`Behind`, `InOrder`).

The data: `SentIsRead` (`TensorsAsSent`), `DetectionsStay` (`DetectionsStayWithTheirPage`) and `TextsKeep` (`TextsKeepTheirPlace`). They
assume that replies are what a parser can be given (`ReplyAssumption`), page sizes numbers (`PageAssumption`), a pixel at least one step
(`UnitAssumption`), that `sent` and `short` say truly how a request was packed (`SentAssumption`: its body is `BuildBinary` of what was
sent, or the JSON of it, or `BuildBinary` with its end cut off), that no mark is a value (`MarkAssumption`), and that what `Utf8` gives a
text to is bytes beyond ASCII (`Utf8Assumption`). `SentIsRead` is a round trip over bytes: `FlattenSeq` lays its parts one after the other
(`Laid`), a number that fits is read from its bytes (`NumberOfBytes`), numbers stand at the multiples of their width (`NumbersRead`), a
string is found behind its length however many are before it (`StringsRead`), and `Take` leaves the offset where the next input's share
starts (`WholeRead`). For a payload that was cut it is enough to know where the offset would be: while the reader has not failed the offset
is inside the payload (`Taking`), and the last one would be behind its end (`CutRefused`). The other two need `DataInv`, which says of each
step what `inputs`, `sizes` and `replies` can be: the answer is encoded from variables that were filled several steps before, by other
handlers, and the encoders index each by the other. The rest are lemmas about boxes (`Finalized`), about the division of a page into lines
that do not overlap (`LinesInOrder`) and about selections (`Selected`: the items kept appear in their order, each at its rank). Induction
over numbers is used in two first-order forms, a least element (`LeastOf`) and a set closed under successor (`UpTo`), and the recursive
functions of the model are shown to exist before they are used (`Joined`, `InputsRead`, `ScanSteps`).

`ServeTasks_proofs` (`TaskAssumption`, `RequestAssumption`): `AnswersStayWithTheirOwner` (`OwnerOnlyAnswers`) and `NoResultIsNeverWrong`
(`NoResultIsTrue`). The tenant is checked once and the task may change after it (the second is about 404 and 500 alike): `Entitled` says of
which positions the check has been made, `FetchesCompleted` that what was seen completed can only have been removed since.

`ServeWatch_proofs` (`TaskAssumption`, `SocketAssumption`): `TypeCorrect`, `OwnersOnly` (`OwnerOnly`), `NoDeadLeft` (`NoDeadSubscriber`),
`WaitingReached` (`WaitingIsReachable`). A socket that has subscribed stays under its own task until its handler ends (`Listed`), or a
`remove_task` holds it or dropped it (`Reached`), and whom a push is for has been admitted (`Pushed`), although the push works on a copy of
the set.

`ServePage_proofs` (`TaskAssumption`, `PageAssumption`): `OwnTaskOnly` (`WaitsForItsOwn`) and `NoHastyEnd` (`GivesUpForAReason`), for any
number of pages and presses. What a page holds is, for each of its runs that has cleared it and does not wait yet, a task of a run in its
`answered`, whichever run that is (`OwnPage`); a submission is answered once (`AnsweredOnce`), so a late answer cannot change whose task it
is.

`ServePolicy_proofs` (`DeploymentAssumption`, `RequestAssumption`, `NullAssumption`): `OnlyServableIsQueued` (`AcceptedIsServable`) and `OmittedIsServed`
(`OmittedTargetServed`), for every deployment and request; the first leaves out what the code compares with no list, the target of a batch and the sources of the
endpoints that take files. Nearly all of it is lemmas about what each check of each endpoint
establishes in terms of the raw allowlists (`NarrowedBlocks`).

`KServeInfer_proofs` also has the theorems about `ReplyJson` (`GrammarAssumption`), which is how the parsers of these calls find the JSON:
`WrappedRead` (`WrappedValueIsRead`) and `HeadRead` (`BrokenListGivesItsHead`), for any set of values whose brackets balance. The scan of a
text agrees with that of a value as far as the two do (`SameScan`); so no object or list is the beginning of another value (`OnlyItself`),
`Balanced` ends where the value does (`SlicedOut`) or nowhere in one that breaks off (`NeverClosed`), and taking garbage off the end spares
every closing bracket (`StripKeeps`). Hence whichever attempt parses first is the value itself (`ReadFromHead`), is none (`BrokenUnread`),
or is the beginning of what starts with a bracket (`ReadIsHead`).

Model-checked only: the liveness properties (`RequestsAnswered`, `ClientReopens`, `GatewayRestarts`, `EveryRequestAnswered`,
`FetchedIsReleased`, `ListenersAreClosed`, `AskersAreClosed`, `RunsEnd`), which this prover does not handle. Every other property of a
passing run has its theorem.

## Not modelled

Left out, with the reason: request logging and tracing, the RQ and Ray instrumentation, option parsing, packaging and deployment scripts
(formatting and glue, no state that other parts depend on); the Sync models and Refresh buttons (they change form fields or read files
only); prompts, paths and request parameters of the template; the `/models` and health probes; `clear_converters`, memory and version
endpoints (no task or subscriber is touched); layout and rendering of both pages; the pixels of a picture and PNG; docling-jobkit and the
models behind the external APIs, of which only what the code relies on is stated.
