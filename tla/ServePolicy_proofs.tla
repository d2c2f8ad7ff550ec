-------------------------- MODULE ServePolicy_proofs --------------------------
(***************************************************************************)
(* Theorems about ServePolicy, for every deployment and every request that *)
(* satisfy DeploymentAssumption, RequestAssumption and NullAssumption.     *)
(***************************************************************************)
EXTENDS ServePolicy, TLAPS

\* Where a deployment's settings end up.
LEMMA PolicyFields ==
    /\ Policy.timeout = settings.max_document_timeout
    /\ Policy.presets = Narrowed(settings.allowed_ocr_presets, PresetsKnown)
    /\ Policy.sources = Narrowed(settings.allowed_source_types, AllSources)
    /\ Policy.targets = Narrowed(settings.allowed_target_types, AllTargets)
    /\ Policy.modes = Narrowed(settings.allowed_image_export_modes, Modes)
    /\ Policy.artifacts = settings.artifact_storage_enabled
BY DEF Policy

\* What an allowlist lets through is not blocked, and what is known and not
\* blocked is let through.
LEMMA NarrowedBlocks ==
    ASSUME NEW raw, raw.form \in {"unset", "csv", "list"}, raw.items # Null,
           NEW known, NEW kind
    PROVE  /\ kind \in Narrowed(raw, known) => ~Blocked(raw, kind) /\ kind \in known
           /\ kind \in known /\ ~Blocked(raw, kind) => kind \in Narrowed(raw, known)
BY DEF Narrowed, ParseList, Blocked

\* The lists of a deployment are lists.
LEMMA Lists ==
    ASSUME settings \in Deployments
    PROVE  \A raw \in {settings.allowed_source_types, settings.allowed_target_types,
                       settings.allowed_ocr_presets, settings.allowed_image_export_modes} :
              raw.form \in {"unset", "csv", "list"} /\ raw.items # Null
BY DeploymentAssumption

-----------------------------------------------------------------------------
(* What the checks of an endpoint ensure.                                  *)

\* Options that pass the checks.
LEMMA OptionsServe ==
    ASSUME settings \in Deployments, NEW options \in Options, ValidOptions(Normalised(options))
    PROVE  LET o == Normalised(options)
           IN  /\ o.timeout # Null /\ o.timeout \in 1 .. settings.max_document_timeout
               /\ ~Blocked(settings.allowed_ocr_presets, o.preset)
               /\ ~Blocked(settings.allowed_image_export_modes, o.mode)
               /\ o.mode = "placeholder" => ~o.images /\ ~o.pages
<1> DEFINE o == Normalised(options)
<1>1. /\ o.timeout = IF options.timeout = Null THEN settings.max_document_timeout
                     ELSE options.timeout
      /\ o.preset = options.preset /\ o.mode = options.mode
      /\ o.images = (options.images /\ options.mode # "placeholder")
      /\ o.pages = (options.pages /\ options.mode # "placeholder")
      /\ options.timeout \in Int \cup {Null}
  BY RequestAssumption, PolicyFields DEF Normalised
<1>2. /\ o.timeout # Null => o.timeout > 0 /\ o.timeout <= settings.max_document_timeout
      /\ o.preset \in Narrowed(settings.allowed_ocr_presets, PresetsKnown)
      /\ o.mode \in Narrowed(settings.allowed_image_export_modes, Modes)
  BY PolicyFields DEF ValidOptions
<1>3. settings.max_document_timeout \in Int /\ Null \notin Int
  BY DeploymentAssumption, RequestAssumption
<1> HIDE DEF o
<1>4. o.timeout # Null /\ o.timeout \in 1 .. settings.max_document_timeout
  BY <1>1, <1>2, <1>3
<1>5. /\ ~Blocked(settings.allowed_ocr_presets, o.preset)
      /\ ~Blocked(settings.allowed_image_export_modes, o.mode)
  BY <1>2, Lists, NarrowedBlocks
<1>6. o.mode = "placeholder" => ~o.images /\ ~o.pages
  BY <1>1
<1> QED
  BY <1>4, <1>5, <1>6 DEF o

\* A header that is admitted carries the key.
LEMMA KeyServes ==
    ASSUME NEW header \in Headers, Authorised(header), settings.api_key # NoKey
    PROVE  header # NoKey /\ header.word = settings.api_key.word
<1>1. header # NoKey /\ Strip(header) = settings.api_key
  BY DEF Authorised
<1>2. PICK w, p : header = [word |-> w, padded |-> p]
  BY <1>1, RequestAssumption
<1>3. Strip(header).word = w
  BY <1>2 DEF Strip
<1>4. settings.api_key.word = w /\ header.word = w
  BY <1>1, <1>2, <1>3
<1> QED
  BY <1>1, <1>4

\* What a task must satisfy to be servable, for the request c and its target.
Servable(c, target) ==
    LET o == Normalised(c.options)
    IN  /\ settings.api_key # NoKey =>
             c.header # NoKey /\ c.header.word = settings.api_key.word
        /\ c.endpoint \notin {"file", "chunk_file"} =>
             \A i \in DOMAIN c.sources :
                 ~Blocked(settings.allowed_source_types, c.sources[i])
        /\ c.endpoint # "batch" => ~Blocked(settings.allowed_target_types, target)
        /\ o.timeout # Null /\ o.timeout \in 1 .. settings.max_document_timeout
        /\ ~Blocked(settings.allowed_ocr_presets, o.preset)
        /\ ~Blocked(settings.allowed_image_export_modes, o.mode)
        /\ o.mode = "placeholder" => ~o.images /\ ~o.pages
        /\ target = "presigned_url" =>
             settings.artifact_storage_enabled /\ c.endpoint \in {"source", "batch", "file"}
        /\ (\E i \in DOMAIN c.sources : c.sources[i] \in Expandable) => target \in StorageTargets

\* The parts of an admission, from which Servable follows.
LEMMA PartsServe ==
    ASSUME settings \in Deployments, NEW c, NEW target,
           c.options \in Options, c.header \in Headers, Authorised(c.header),
           ValidOptions(Normalised(c.options)),
           c.endpoint \notin {"file", "chunk_file"} => ValidSources(c.sources),
           c.endpoint # "batch" => ValidTarget(target),
           target = "presigned_url" =>
               ValidPresigned(target) /\ c.endpoint \in {"source", "batch", "file"},
           ValidPairing(c.sources, target)
    PROVE  Servable(c, target)
<1>1. settings.api_key # NoKey => c.header # NoKey /\ c.header.word = settings.api_key.word
  BY KeyServes
<1>2. c.endpoint \notin {"file", "chunk_file"} =>
        \A i \in DOMAIN c.sources : ~Blocked(settings.allowed_source_types, c.sources[i])
  <2> SUFFICES ASSUME c.endpoint \notin {"file", "chunk_file"}, NEW i \in DOMAIN c.sources
               PROVE  ~Blocked(settings.allowed_source_types, c.sources[i])
    OBVIOUS
  <2>1. c.sources[i] \in Narrowed(settings.allowed_source_types, AllSources)
    BY PolicyFields DEF ValidSources, ToSet
  <2> QED
    BY <2>1, Lists, NarrowedBlocks
<1>3. c.endpoint # "batch" => ~Blocked(settings.allowed_target_types, target)
  BY PolicyFields, Lists, NarrowedBlocks DEF ValidTarget
<1>4. (\E i \in DOMAIN c.sources : c.sources[i] \in Expandable) => target \in StorageTargets
  BY DEF ValidPairing, ToSet
<1>5. target = "presigned_url" =>
        settings.artifact_storage_enabled /\ c.endpoint \in {"source", "batch", "file"}
  BY PolicyFields DEF ValidPresigned
<1> QED
  BY <1>1, <1>2, <1>3, <1>4, <1>5, OptionsServe DEF Servable

\* An upload stands for one document, so any target takes it.
LEMMA FilesPair ==
    ASSUME NEW sources, ToSet(sources) \subseteq {"file"}, NEW target
    PROVE  ValidPairing(sources, target)
BY DEF ValidPairing, Expandable

-----------------------------------------------------------------------------
(* Endpoints.                                                              *)

\* Leaving the target out refuses nothing that inbody would not be refused.
Omitted(c) ==
    c.target = Null /\ ~Blocked(settings.allowed_target_types, "inbody") =>
        LET named == [c EXCEPT !.target = "inbody"]
        IN  /\ c.endpoint = "source"       => ~AdmitSource(named)
            /\ c.endpoint = "file"         => ~AdmitFile(named)
            /\ c.endpoint = "chunk_source" => ~AdmitChunkSource(named)
            /\ c.endpoint = "chunk_file"   => ~AdmitChunkFile(named)

IInv == settings \in Deployments /\ AcceptedIsServable /\ OmittedTargetServed

\* Where inbody is not blocked, it passes the allowlist.
LEMMA InbodyPasses ==
    ASSUME settings \in Deployments, ~Blocked(settings.allowed_target_types, "inbody")
    PROVE  ValidTarget("inbody") /\ ValidPresigned("inbody")
<1>1. "inbody" \in AllTargets
  BY DEF AllTargets
<1>2. "inbody" \in Narrowed(settings.allowed_target_types, AllTargets)
  BY <1>1, Lists, NarrowedBlocks
<1> QED
  BY <1>2, PolicyFields DEF ValidTarget, ValidPresigned

\* The target that stands for an omitted one passes what inbody passes.
LEMMA DefaultPasses ==
    ASSUME settings \in Deployments, ~Blocked(settings.allowed_target_types, "inbody"), NEW sources
    PROVE  /\ ValidTarget(DefaultTarget) /\ ValidPresigned(DefaultTarget)
           /\ ValidPairing(sources, "inbody") => ValidPairing(sources, DefaultTarget)
<1>1. CASE DefaultTarget = "inbody"
  BY <1>1, InbodyPasses
<1>2. CASE DefaultTarget # "inbody"
  <2>1. DefaultTarget = "presigned_url" /\ "presigned_url" \in Policy.targets /\ Policy.artifacts
    BY <1>2 DEF DefaultTarget
  <2>2. ValidPairing(sources, "inbody") => ToSet(sources) \cap Expandable = {}
    BY DEF ValidPairing, StorageTargets
  <2> QED
    BY <2>1, <2>2 DEF ValidTarget, ValidPresigned, ValidPairing
<1> QED
  BY <1>1, <1>2

\* What is known of a request once it is sent.
LEMMA SentParts ==
    ASSUME NEW endpoint, NEW kinds, NEW targets, NEW callbacks,
           NEW c \in Sent(endpoint, kinds, targets, callbacks)
    PROVE  /\ c.endpoint = endpoint /\ c.options \in Options /\ c.header \in Headers
           /\ c.target \in targets /\ ToSet(c.sources) \subseteq kinds
           /\ LET named == [c EXCEPT !.target = "inbody"]
              IN  /\ named.endpoint = c.endpoint /\ named.options = c.options
                  /\ named.sources = c.sources /\ named.callbacks = c.callbacks
                  /\ named.target = "inbody"
BY DEF Sent

\* The checks read nothing but the settings and the request.
LEMMA SameAdmission ==
    ASSUME settings' = settings, NEW c
    PROVE  Omitted(c) => Omitted(c)'
<1>1. Policy' = Policy
  BY DEF Policy, Narrowed, ParseList
<1>2. ASSUME NEW o PROVE Normalised(o)' = Normalised(o)
  BY <1>1 DEF Normalised
<1>3. DefaultTarget' = DefaultTarget
  BY <1>1 DEF DefaultTarget
<1>4. ASSUME NEW n
      PROVE  /\ AdmitSource(n)' = AdmitSource(n) /\ AdmitFile(n)' = AdmitFile(n)
             /\ AdmitChunkSource(n)' = AdmitChunkSource(n)
             /\ AdmitChunkFile(n)' = AdmitChunkFile(n)
  BY <1>1, <1>2, <1>3 DEF AdmitSource, AdmitFile, AdmitChunkSource, AdmitChunkFile, ValidOptions,
     ValidSources, ValidTarget, ValidCallbacks, ValidCount, ValidPresigned, Named
<1> QED
  BY <1>4 DEF Omitted

\* An answer keeps the invariant if what it admits is servable, and it refuses
\* nothing for a target left out.
LEMMA RespondInv ==
    ASSUME IInv, NEW c, NEW admitted \in BOOLEAN, NEW target, Respond(c, admitted, target),
           admitted /\ Authorised(c.header) => Servable(c, target),
           ~admitted => Omitted(c)
    PROVE  IInv'
<1>1. /\ call' = c /\ settings' = settings
      /\ answer' = IF ~Authorised(c.header) THEN "401" ELSE IF admitted THEN "accepted" ELSE "422"
      /\ task' = IF Authorised(c.header) /\ admitted
                 THEN [sources |-> c.sources, target |-> target, options |-> Normalised(c.options)]
                 ELSE Null
  BY DEF Respond
<1>2. settings' \in Deployments
  BY <1>1 DEF IInv
<1>3. AcceptedIsServable'
  <2> SUFFICES ASSUME task' # Null PROVE AcceptedIsServable'
    BY DEF AcceptedIsServable
  <2>1. Servable(c, target) /\ task'.sources = c.sources /\ task'.target = target
        /\ task'.options = Normalised(c.options)
    BY <1>1
  <2> QED
    BY <1>1, <2>1 DEF Servable, AcceptedIsServable
<1>4. OmittedTargetServed'
  <2>1. CASE answer' # "422"
    BY <2>1 DEF OmittedTargetServed
  <2>2. CASE answer' = "422"
    <3>1. Omitted(c)'
      BY <1>1, <2>2, SameAdmission
    <3> QED
      BY <1>1, <3>1 DEF Omitted, OmittedTargetServed
  <2> QED
    BY <2>1, <2>2
<1> QED
  BY <1>2, <1>3, <1>4 DEF IInv

\* Conversion of sources.
LEMMA ConvertSourceInv == IInv /\ ConvertSource => IInv'
<1> SUFFICES ASSUME IInv, ConvertSource PROVE IInv'
  OBVIOUS
<1>1. settings \in Deployments
  BY DEF IInv
<1>2. PICK c \in Sent("source", SourceItems, Targets(AllTargets), BOOLEAN) :
         Respond(c, AdmitSource(c), Named(c.target, DefaultTarget))
  BY DEF ConvertSource
<1>3. c.endpoint = "source" /\ c.options \in Options /\ c.header \in Headers
  BY SentParts
<1>4. PICK admitted \in BOOLEAN : admitted = AdmitSource(c)
  BY DEF AdmitSource
<1>5. PICK target : target = Named(c.target, DefaultTarget)
  OBVIOUS
<1>6. Respond(c, admitted, target)
  BY <1>2, <1>4, <1>5
<1>7. admitted /\ Authorised(c.header) => Servable(c, target)
  BY <1>1, <1>3, <1>4, <1>5, PartsServe DEF AdmitSource
<1>8. ~admitted => Omitted(c)
  <2> SUFFICES ASSUME c.target = Null, ~Blocked(settings.allowed_target_types, "inbody"),
                      AdmitSource([c EXCEPT !.target = "inbody"])
               PROVE  AdmitSource(c)
    BY <1>3, <1>4 DEF Omitted
  <2> DEFINE named == [c EXCEPT !.target = "inbody"]
  <2>1. /\ named.options = c.options /\ named.sources = c.sources
        /\ named.callbacks = c.callbacks /\ named.target = "inbody"
    BY SentParts
  <2>2. AdmitSource(named)
    OBVIOUS
  <2> HIDE DEF named
  <2>3. /\ ValidOptions(Normalised(c.options)) /\ ValidSources(c.sources)
        /\ ValidCallbacks(c.callbacks) /\ ValidCount(c.sources)
        /\ ValidPairing(c.sources, "inbody")
    BY <2>1, <2>2, NullAssumption DEF AdmitSource, Named, AllTargets
  <2> QED
    BY <1>1, <2>3, DefaultPasses DEF AdmitSource, Named
<1> QED
  BY <1>6, <1>7, <1>8, RespondInv

\* A batch, whose target is always named and never looked up.
LEMMA ConvertBatchInv == IInv /\ ConvertBatch => IInv'
<1> SUFFICES ASSUME IInv, ConvertBatch PROVE IInv'
  OBVIOUS
<1>1. settings \in Deployments
  BY DEF IInv
<1>2. PICK c \in Sent("batch", BatchItems, BatchTargets, BOOLEAN) :
         Respond(c, AdmitBatch(c), c.target)
  BY DEF ConvertBatch
<1>3. /\ c.endpoint = "batch" /\ c.options \in Options /\ c.header \in Headers
      /\ c.target \in BatchTargets
  BY SentParts
<1>4. PICK admitted \in BOOLEAN : admitted = AdmitBatch(c)
  BY DEF AdmitBatch
<1>5. admitted /\ Authorised(c.header) => Servable(c, c.target)
  BY <1>1, <1>3, <1>4, PartsServe DEF AdmitBatch
<1>6. Omitted(c)
  BY <1>3 DEF Omitted
<1> QED
  BY <1>2, <1>4, <1>5, <1>6, RespondInv

\* Conversion of uploads: the target that was admitted is the target queued.
LEMMA ConvertFileInv == IInv /\ ConvertFile => IInv'
<1> SUFFICES ASSUME IInv, ConvertFile PROVE IInv'
  OBVIOUS
<1>1. settings \in Deployments
  BY DEF IInv
<1>2. PICK c \in Sent("file", {"file"}, Targets(TargetNames), {FALSE}) :
         Respond(c, AdmitFile(c), FileTarget(Named(c.target, DefaultTarget)))
  BY DEF ConvertFile
<1>3. /\ c.endpoint = "file" /\ c.options \in Options /\ c.header \in Headers
      /\ c.target \in Targets(TargetNames) /\ ToSet(c.sources) \subseteq {"file"}
  BY SentParts
<1>4. PICK admitted \in BOOLEAN : admitted = AdmitFile(c)
  BY DEF AdmitFile
<1>5. PICK target : target = Named(c.target, DefaultTarget)
  OBVIOUS
<1>6. target \in TargetNames
  BY <1>3, <1>5 DEF Targets, TargetNames, Named, DefaultTarget
<1>7. Respond(c, admitted, target)
  <2>1. FileTarget(target) = target
    BY <1>6 DEF FileTarget, TargetNames
  <2> QED
    BY <1>2, <1>4, <1>5, <2>1
<1>8. admitted /\ Authorised(c.header) => Servable(c, target)
  <2>1. ValidPairing(c.sources, target)
    BY <1>3, FilesPair
  <2> QED
    BY <1>1, <1>3, <1>4, <1>5, <2>1, PartsServe DEF AdmitFile
<1>9. ~admitted => Omitted(c)
  <2> SUFFICES ASSUME c.target = Null, ~Blocked(settings.allowed_target_types, "inbody"),
                      AdmitFile([c EXCEPT !.target = "inbody"])
               PROVE  AdmitFile(c)
    BY <1>3, <1>4 DEF Omitted
  <2> DEFINE named == [c EXCEPT !.target = "inbody"]
  <2>1. /\ named.options = c.options /\ named.sources = c.sources
        /\ named.callbacks = c.callbacks /\ named.target = "inbody"
    BY SentParts
  <2>2. AdmitFile(named)
    OBVIOUS
  <2> HIDE DEF named
  <2>3. ValidOptions(Normalised(c.options)) /\ ValidCount(c.sources)
    BY <2>1, <2>2 DEF AdmitFile
  <2> QED
    BY <1>1, <2>3, DefaultPasses DEF AdmitFile, Named
<1> QED
  BY <1>7, <1>8, <1>9, RespondInv

\* Chunking of sources.
LEMMA ChunkSourceInv == IInv /\ ChunkSource => IInv'
<1> SUFFICES ASSUME IInv, ChunkSource PROVE IInv'
  OBVIOUS
<1>1. settings \in Deployments
  BY DEF IInv
<1>2. PICK c \in Sent("chunk_source", SourceItems, Targets(AllTargets), BOOLEAN) :
         Respond(c, AdmitChunkSource(c), Named(c.target, "inbody"))
  BY DEF ChunkSource
<1>3. c.endpoint = "chunk_source" /\ c.options \in Options /\ c.header \in Headers
  BY SentParts
<1>4. PICK admitted \in BOOLEAN : admitted = AdmitChunkSource(c)
  BY DEF AdmitChunkSource
<1>5. PICK target : target = Named(c.target, "inbody")
  OBVIOUS
<1>6. Respond(c, admitted, target)
  BY <1>2, <1>4, <1>5
<1>7. admitted /\ Authorised(c.header) => Servable(c, target)
  BY <1>1, <1>3, <1>4, <1>5, PartsServe DEF AdmitChunkSource
<1>8. ~admitted => Omitted(c)
  <2> SUFFICES ASSUME c.target = Null, AdmitChunkSource([c EXCEPT !.target = "inbody"])
               PROVE  AdmitChunkSource(c)
    BY <1>3, <1>4 DEF Omitted
  <2> DEFINE named == [c EXCEPT !.target = "inbody"]
  <2>1. /\ named.options = c.options /\ named.sources = c.sources
        /\ named.callbacks = c.callbacks /\ named.target = "inbody"
    BY SentParts
  <2>2. AdmitChunkSource(named)
    OBVIOUS
  <2> HIDE DEF named
  <2> QED
    BY <2>1, <2>2 DEF AdmitChunkSource, Named
<1> QED
  BY <1>6, <1>7, <1>8, RespondInv

\* Chunking of uploads.
LEMMA ChunkFileInv == IInv /\ ChunkFile => IInv'
<1> SUFFICES ASSUME IInv, ChunkFile PROVE IInv'
  OBVIOUS
<1>1. settings \in Deployments
  BY DEF IInv
<1>2. PICK c \in Sent("chunk_file", {"file"}, Targets(TargetNames), {FALSE}) :
         Respond(c, AdmitChunkFile(c), ChunkTarget(Named(c.target, "inbody")))
  BY DEF ChunkFile
<1>3. /\ c.endpoint = "chunk_file" /\ c.options \in Options /\ c.header \in Headers
      /\ c.target \in Targets(TargetNames) /\ ToSet(c.sources) \subseteq {"file"}
  BY SentParts
<1>4. PICK admitted \in BOOLEAN : admitted = AdmitChunkFile(c)
  BY DEF AdmitChunkFile
<1>5. PICK target : target = Named(c.target, "inbody")
  OBVIOUS
<1>6. Respond(c, admitted, ChunkTarget(target))
  BY <1>2, <1>4, <1>5
<1>7. admitted /\ Authorised(c.header) => Servable(c, ChunkTarget(target))
  <2> SUFFICES ASSUME admitted, Authorised(c.header)
               PROVE  Servable(c, ChunkTarget(target))
    OBVIOUS
  <2>1. target # "presigned_url" /\ ValidTarget(target) /\ ValidOptions(Normalised(c.options))
    BY <1>4, <1>5 DEF AdmitChunkFile
  <2>2. ChunkTarget(target) = target
    BY <1>3, <1>5, <2>1 DEF ChunkTarget, Targets, TargetNames, Named
  <2>3. ValidPairing(c.sources, target)
    BY <1>3, FilesPair
  <2> QED
    BY <1>1, <1>3, <2>1, <2>2, <2>3, PartsServe
<1>8. ~admitted => Omitted(c)
  <2> SUFFICES ASSUME c.target = Null, AdmitChunkFile([c EXCEPT !.target = "inbody"])
               PROVE  AdmitChunkFile(c)
    BY <1>3, <1>4 DEF Omitted
  <2> DEFINE named == [c EXCEPT !.target = "inbody"]
  <2>1. named.options = c.options /\ named.target = "inbody"
    BY SentParts
  <2>2. AdmitChunkFile(named)
    OBVIOUS
  <2> HIDE DEF named
  <2> QED
    BY <2>1, <2>2 DEF AdmitChunkFile, Named
<1> QED
  BY <1>6, <1>7, <1>8, RespondInv

-----------------------------------------------------------------------------
(* The theorems.                                                           *)

\* Every step keeps the invariant.
LEMMA StepInv == IInv /\ [Next]_vars => IInv'
<1> SUFFICES ASSUME IInv, [Next]_vars PROVE IInv'
  OBVIOUS
<1>1. CASE UNCHANGED vars
  <2>1. /\ settings' = settings /\ task' = task /\ answer' = answer /\ call' = call
    BY <1>1 DEF vars
  <2>2. AcceptedIsServable'
    BY <2>1 DEF IInv, AcceptedIsServable
  <2>3. OmittedTargetServed'
    <3>1. answer = "422" => Omitted(call)
      BY DEF IInv, Omitted, OmittedTargetServed
    <3>2. answer = "422" => Omitted(call)'
      <4>1. PICK c : c = call
        OBVIOUS
      <4> QED
        BY <2>1, <3>1, <4>1, SameAdmission
    <3> QED
      BY <2>1, <3>2 DEF Omitted, OmittedTargetServed
  <2> QED
    BY <2>1, <2>2, <2>3 DEF IInv
<1>2. CASE Answered
  BY <1>2 DEF Answered, IInv, AcceptedIsServable, OmittedTargetServed
<1> QED
  BY <1>1, <1>2, ConvertSourceInv, ConvertBatchInv, ConvertFileInv, ChunkSourceInv, ChunkFileInv
  DEF Next

\* The invariant: both properties, and a deployment that stays as it is.
THEOREM Invariance == Spec => []IInv
<1>1. Init => IInv
  BY DEF Init, IInv, AcceptedIsServable, OmittedTargetServed
<1> QED
  BY <1>1, StepInv, PTL DEF Spec

\* Nothing reaches the task queue that the deployment forbids, apart from what the
\* code does not compare with its lists: the target of a batch, and the sources
\* of the endpoints that take files.
THEOREM OnlyServableIsQueued == Spec => []AcceptedIsServable
<1>1. IInv => AcceptedIsServable
  BY DEF IInv
<1> QED
  BY <1>1, Invariance, PTL

\* No request is refused for the target it leaves out where inbody would do.
THEOREM OmittedIsServed == Spec => []OmittedTargetServed
<1>1. IInv => OmittedTargetServed
  BY DEF IInv
<1> QED
  BY <1>1, Invariance, PTL

=============================================================================
