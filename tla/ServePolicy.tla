----------------------------- MODULE ServePolicy -----------------------------
(***************************************************************************)
(* What docling-serve lets through to its task queue: the allowlists of    *)
(* the settings, the policy create_app builds from them once, and the      *)
(* checks each endpoint makes before it enqueues a task.                   *)
(*                                                                         *)
(* One deployment is chosen in the initial state and never changes.  Calls *)
(* come one after the other: admission reads nothing but the request and   *)
(* the policy, so calls in flight at once do not affect each other.        *)
(***************************************************************************)
EXTENDS Integers, Sequences, FiniteSets, SequencesExt

CONSTANTS
    Deployments,    \* settings a server is started with
    Options,        \* conversion options a client may send
    SourceLists,    \* sequences of source kinds a client may send
    Headers,        \* values of X-Api-Key, NoKey when the header is missing
    PresetsKnown,   \* OCR presets the installed plugins register
    Modes,          \* image export modes
    Null,           \* None
    NoKey           \* no API key: "" in the settings, a missing header

ASSUME DeploymentAssumption ==
    \A d \in Deployments :
        /\ d.max_document_timeout \in Int
        /\ \A raw \in {d.allowed_source_types, d.allowed_target_types,
                      d.allowed_ocr_presets, d.allowed_image_export_modes} :
              raw.form \in {"unset", "csv", "list"} /\ raw.items # Null
ASSUME RequestAssumption ==
    /\ Options \subseteq [timeout : Int \cup {Null}, scale : Int, preset : STRING,
                          mode : STRING, vlm : BOOLEAN, images : BOOLEAN, pages : BOOLEAN]
    /\ \A h \in Headers \ {NoKey} : h = [word |-> h.word, padded |-> h.padded]
    /\ Null \notin Int

VARIABLES
    settings,       \* the deployment
    call,           \* the request being answered, Null between two calls
    answer,         \* "none", "401", "422" or "accepted"
    task            \* what the accepted request put on the queue, or Null

vars == <<settings, call, answer, task>>

-----------------------------------------------------------------------------
(* Kinds                                                                    *)

Expandable == {"s3", "azure_blob", "google_cloud_storage", "google_drive"}
StorageTargets == {"s3", "azure_blob", "google_cloud_storage", "google_drive"}
AllTargets == StorageTargets \cup {"inbody", "zip", "put", "presigned_url"}

\* What the request models of docling accept, and the form's target names.
SourceItems == {"file", "http", "s3"}
BatchItems == {"http"} \cup Expandable
BatchTargets == StorageTargets \cup {"presigned_url"}
TargetNames == {"inbody", "zip", "presigned_url"}

AllSources == SourceItems \cup BatchItems

ASSUME NullAssumption == Null \notin AllTargets

-----------------------------------------------------------------------------
(* Settings and policy                                                      *)

\* An allowlist of the environment: unset or "", a list, or a string with
\* commas.  A string without items means the same as no allowlist at all,
\* a list without items allows nothing.
ParseList(raw) ==
    IF raw.form = "unset" \/ (raw.form = "csv" /\ raw.items = {})
    THEN Null
    ELSE raw.items

\* Names nobody knows are dropped, so a misspelt allowlist allows less.
Narrowed(raw, known) ==
    IF ParseList(raw) = Null THEN known ELSE ParseList(raw) \cap known

Policy ==
    [timeout   |-> settings.max_document_timeout,
     scale     |-> settings.max_images_scale,
     presets   |-> Narrowed(settings.allowed_ocr_presets, PresetsKnown),
     sources   |-> Narrowed(settings.allowed_source_types, AllSources),
     targets   |-> Narrowed(settings.allowed_target_types, AllTargets),
     modes     |-> Narrowed(settings.allowed_image_export_modes, Modes),
     callbacks |-> TRUE,
     vlm       |-> settings.allow_custom_vlm_config,
     artifacts |-> settings.artifact_storage_enabled,
     count     |-> settings.max_sources_per_request]

\* Broken: artifact storage is not consulted.
DefaultTargetAny ==
    IF "presigned_url" \in Policy.targets THEN "presigned_url" ELSE "inbody"

\* The target of a request that names none, decided when the app is created.
DefaultTarget ==
    IF "presigned_url" \in Policy.targets /\ Policy.artifacts
    THEN "presigned_url"
    ELSE "inbody"

\* The header is stripped, the configured key is not.
Strip(header) == [header EXCEPT !.padded = FALSE]

Authorised(header) ==
    settings.api_key = NoKey \/ (header # NoKey /\ Strip(header) = settings.api_key)

-----------------------------------------------------------------------------
(* Options                                                                  *)

\* A missing timeout becomes the largest one; an export mode that throws
\* the images away turns off making them.
Normalised(options) ==
    [options EXCEPT
        !.timeout = IF @ = Null THEN Policy.timeout ELSE @,
        !.images  = @ /\ options.mode # "placeholder",
        !.pages   = @ /\ options.mode # "placeholder"]

ValidOptions(options) ==
    /\ options.timeout # Null =>
         options.timeout > 0 /\ options.timeout <= Policy.timeout
    /\ options.scale <= Policy.scale
    /\ options.preset \in Policy.presets
    /\ options.mode \in Policy.modes
    /\ options.vlm => Policy.vlm

ValidSources(sources) == ToSet(sources) \subseteq Policy.sources

ValidTarget(target) == target \in Policy.targets

\* Broken: only the first source is seen.
ValidPairingFirst(sources, target) ==
    sources # <<>> /\ Head(sources) \in Expandable => target \in StorageTargets

\* A source that may stand for many documents needs a target that takes
\* them one by one.
ValidPairing(sources, target) ==
    ToSet(sources) \cap Expandable # {} => target \in StorageTargets

ValidPresigned(target) == target = "presigned_url" => Policy.artifacts

ValidCount(sources) == Len(sources) <= Policy.count

ValidCallbacks(callbacks) == callbacks => Policy.callbacks

-----------------------------------------------------------------------------
(* Requests                                                                 *)

Targets(names) == names \cup {Null}

Named(target, default) == IF target = Null THEN default ELSE target

\* /v1/convert/source and its asynchronous twin.
AdmitSource(c) ==
    LET target == Named(c.target, DefaultTarget)
    IN  /\ ValidOptions(Normalised(c.options))
        /\ ValidSources(c.sources)
        /\ ValidTarget(target)
        /\ ValidCallbacks(c.callbacks)
        /\ ValidCount(c.sources)
        /\ ValidPresigned(target)
        /\ ValidPairing(c.sources, target)

\* /v1/convert/source/batch does not look the target up in the allowlist.
AdmitBatch(c) ==
    /\ ValidOptions(Normalised(c.options))
    /\ ValidSources(c.sources)
    /\ ValidCallbacks(c.callbacks)
    /\ ValidCount(c.sources)
    /\ ValidPresigned(c.target)
    /\ ValidPairing(c.sources, c.target)

\* /v1/convert/file: an upload has no source kind to check.
AdmitFile(c) ==
    LET target == Named(c.target, DefaultTarget)
    IN  /\ ValidCount(c.sources)
        /\ ValidPresigned(target)
        /\ ValidOptions(Normalised(c.options))
        /\ ValidTarget(target)

\* /v1/chunk/*/source: no limit on the number of sources.
AdmitChunkSource(c) ==
    LET target == Named(c.target, "inbody")
    IN  /\ ValidOptions(Normalised(c.options))
        /\ ValidSources(c.sources)
        /\ ValidTarget(target)
        /\ ValidCallbacks(c.callbacks)
        /\ target # "presigned_url"
        /\ ValidPairing(c.sources, target)

AdmitChunkFile(c) ==
    LET target == Named(c.target, "inbody")
    IN  /\ target # "presigned_url"
        /\ ValidOptions(Normalised(c.options))
        /\ ValidTarget(target)

\* The target a form's name becomes, for a conversion and for chunking.
FileTarget(name) == IF name \in {"presigned_url", "zip"} THEN name ELSE "inbody"

ChunkTarget(name) == IF name = "inbody" THEN "inbody" ELSE "zip"

-----------------------------------------------------------------------------
(* Endpoints                                                                *)

Init ==
    /\ settings \in Deployments
    /\ call = Null
    /\ answer = "none"
    /\ task = Null

\* The dependency on the API key comes first, then the checks, then the queue.
Respond(c, admitted, target) ==
    /\ call' = c
    /\ answer' = IF ~Authorised(c.header) THEN "401"
                 ELSE IF admitted THEN "accepted" ELSE "422"
    /\ task' = IF Authorised(c.header) /\ admitted
               THEN [sources |-> c.sources, target |-> target,
                     options |-> Normalised(c.options)]
               ELSE Null
    /\ UNCHANGED settings

Sent(endpoint, kinds, targets, callbacks) ==
    [endpoint : {endpoint},
     sources : {s \in SourceLists : ToSet(s) \subseteq kinds},
     target : targets, options : Options, header : Headers,
     callbacks : callbacks]

ConvertSource ==
    /\ call = Null
    /\ \E c \in Sent("source", SourceItems, Targets(AllTargets), BOOLEAN) :
           Respond(c, AdmitSource(c), Named(c.target, DefaultTarget))

ConvertBatch ==
    /\ call = Null
    /\ \E c \in Sent("batch", BatchItems, BatchTargets, BOOLEAN) :
           Respond(c, AdmitBatch(c), c.target)

ConvertFile ==
    /\ call = Null
    /\ \E c \in Sent("file", {"file"}, Targets(TargetNames), {FALSE}) :
           Respond(c, AdmitFile(c), FileTarget(Named(c.target, DefaultTarget)))

ChunkSource ==
    /\ call = Null
    /\ \E c \in Sent("chunk_source", SourceItems, Targets(AllTargets), BOOLEAN) :
           Respond(c, AdmitChunkSource(c), Named(c.target, "inbody"))

ChunkFile ==
    /\ call = Null
    /\ \E c \in Sent("chunk_file", {"file"}, Targets(TargetNames), {FALSE}) :
           Respond(c, AdmitChunkFile(c), ChunkTarget(Named(c.target, "inbody")))

\* The next client.
Answered ==
    /\ call # Null
    /\ call' = Null
    /\ answer' = "none"
    /\ task' = Null
    /\ UNCHANGED settings

Next ==
    \/ ConvertSource
    \/ ConvertBatch
    \/ ConvertFile
    \/ ChunkSource
    \/ ChunkFile
    \/ Answered

Spec == Init /\ [][Next]_vars

-----------------------------------------------------------------------------
(* Properties                                                               *)

\* The allowlists as an operator of a server reads them, without the code's
\* way of getting there: a kind is blocked when a list was given without it.
Blocked(raw, kind) ==
    /\ raw.form = "list" \/ raw.items # {}
    /\ raw.form # "unset"
    /\ kind \notin raw.items

\* No endpoint puts work on the queue that the deployment forbids: a source or
\* target kind its allowlists leave out (batch targets and uploads excepted,
\* which the code does not compare), a document without a time limit or above
\* the largest one, a presigned result without storage or for chunks, or a
\* bucket whose documents would have to come back in one answer; and none that
\* does not carry the key, where one is configured.
AcceptedIsServable ==
    task # Null =>
        LET o == task.options
        IN  /\ settings.api_key # NoKey =>
                 call.header # NoKey /\ call.header.word = settings.api_key.word
            /\ call.endpoint \notin {"file", "chunk_file"} =>
                 \A i \in DOMAIN task.sources :
                     ~Blocked(settings.allowed_source_types, task.sources[i])
            /\ call.endpoint # "batch" =>
                 ~Blocked(settings.allowed_target_types, task.target)
            /\ o.timeout # Null /\ o.timeout \in 1 .. settings.max_document_timeout
            /\ ~Blocked(settings.allowed_ocr_presets, o.preset)
            /\ ~Blocked(settings.allowed_image_export_modes, o.mode)
            /\ o.mode = "placeholder" => ~o.images /\ ~o.pages
            /\ task.target = "presigned_url" =>
                 /\ settings.artifact_storage_enabled
                 /\ call.endpoint \in {"source", "batch", "file"}
            /\ (\E i \in DOMAIN task.sources : task.sources[i] \in Expandable) =>
                 task.target \in StorageTargets

\* A client that leaves the target out is never refused for it: where inbody is
\* allowed, a request refused without a target would be refused with the target
\* inbody as well (what resolve_default_target was written for).
OmittedTargetServed ==
    answer = "422" /\ call.target = Null
        /\ ~Blocked(settings.allowed_target_types, "inbody") =>
        LET named == [call EXCEPT !.target = "inbody"]
        IN  /\ call.endpoint = "source"       => ~AdmitSource(named)
            /\ call.endpoint = "file"         => ~AdmitFile(named)
            /\ call.endpoint = "chunk_source" => ~AdmitChunkSource(named)
            /\ call.endpoint = "chunk_file"   => ~AdmitChunkFile(named)

=============================================================================
