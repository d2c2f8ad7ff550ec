--------------------------- MODULE Routing_proofs ---------------------------
(***************************************************************************)
(* Theorems about Routing, for all stages, backends, forms and             *)
(* environments that satisfy FieldAssumption and InputAssumption.          *)
(***************************************************************************)
EXTENDS Routing, TLAPS

-----------------------------------------------------------------------------
(* Loading.                                                                *)

\* A backend filled from another one is a backend.
LEMMA FillType ==
    ASSUME NEW b \in Backend, NEW c \in Backend
    PROVE  FillBackend(b, c) \in Backend
BY DEF FillBackend, OrElse, Backend

\* The backends of a loaded configuration.
LEMMA FilledType ==
    ASSUME NEW r, r.backend \in [Endpoints -> Backend], NEW e \in Environs
    PROVE  Filled(r, e) \in [Endpoints -> Backend]
<1>1. e \in [Endpoints -> Backend]
  BY InputAssumption
<1> QED
  BY <1>1, FillType DEF Filled

\* Loading a complete configuration keeps its stages.
LEMMA LoadComplete ==
    ASSUME NEW r \in Runtime, NEW e \in Environs
    PROVE  /\ Load(r, e).stages = r.stages
           /\ Load(r, e).backend = Filled(r, e)
           /\ Load(r, e) \in Runtime
<1>1. r.stages \in [Stages -> StageOverride] /\ r.backend \in [Endpoints -> Backend]
  BY DEF Runtime
<1>2. Load(r, e).stages = r.stages
  BY <1>1 DEF Load
<1>3. Load(r, e).backend = Filled(r, e) /\ Filled(r, e) \in [Endpoints -> Backend]
  BY <1>1, FilledType DEF Load
<1> QED
  BY <1>1, <1>2, <1>3 DEF Load, Runtime

\* The stage that the defaults leave to with_default_stages.
LEMMA DefaultStageType ==
    ASSUME NEW s \in Stages, NEW backend \in [Endpoints -> Backend]
    PROVE  DefaultStage(s, backend) \in StageOverride
<1>1. DefaultEndpoint[s] \in Endpoints /\ DefaultMode[s] \in Modes
  BY FieldAssumption DEF Endpoints
<1>2. backend[DefaultEndpoint[s]].model \in Models \cup {Empty}
  BY <1>1 DEF Backend
<1> QED
  BY <1>1, <1>2 DEF DefaultStage, StageOverride

\* The configuration that is seeded is complete.
LEMMA SeedComplete ==
    ASSUME NEW e \in Environs
    PROVE  Load(Defaults, e) \in Runtime
<1>1. Filled(Defaults, e) \in [Endpoints -> Backend]
  BY InputAssumption, FilledType
<1>2. DOMAIN Defaults.stages = {}
  BY InputAssumption
<1>3. \A s \in Stages : DefaultStage(s, Filled(Defaults, e)) \in StageOverride
  BY <1>1, DefaultStageType
<1>4. [s \in Stages |-> IF s \in DOMAIN Defaults.stages THEN Defaults.stages[s]
                        ELSE DefaultStage(s, Filled(Defaults, e))]
        \in [Stages -> StageOverride]
  BY <1>2, <1>3
<1> QED
  BY <1>1, <1>4 DEF Load, Runtime

-----------------------------------------------------------------------------
(* Table and settings.                                                     *)

\* The merged stages of a complete configuration.
LEMMA StagesType ==
    ASSUME NEW r \in Runtime
    PROVE  MergedStages(r) \in [Stages -> StageOverride]
<1>1. SUFFICES ASSUME NEW s \in Stages
               PROVE  (IF r.stages[s].mode = "kserve_relay"
                       THEN [r.stages[s] EXCEPT !.model = OrElse(@, s)]
                       ELSE [r.stages[s] EXCEPT !.relay = Empty]) \in StageOverride
  BY DEF MergedStages
<1>2. r.stages[s] \in StageOverride
  BY DEF Runtime
<1>3. OrElse(r.stages[s].model, s) \in Models \cup {Empty}
  BY <1>2, FieldAssumption DEF OrElse, StageOverride
<1> QED
  BY <1>2, <1>3 DEF StageOverride

\* Every backend but a native one without URL is an endpoint.
LEMMA EndpointsType ==
    ASSUME NEW r \in Runtime
    PROVE  /\ \E D \in SUBSET Endpoints : MergedEndpoints(r) \in [D -> EndpointConfig]
           /\ Settings(r).key \in [Endpoints -> Keys \cup {Empty}]
           /\ Settings(r).textModel \in Models \cup {Empty}
<1>1. \A n \in Endpoints : r.backend[n] \in Backend
  BY DEF Runtime
<1>2. \A n \in Endpoints : [url |-> r.backend[n].url, model |-> r.backend[n].model] \in EndpointConfig
  BY <1>1 DEF Backend, EndpointConfig
<1> DEFINE D == {m \in Endpoints : m = Native => r.backend[m].url # Empty}
<1>3. MergedEndpoints(r) \in [D -> EndpointConfig]
  BY <1>2 DEF MergedEndpoints
<1>4. \A n \in Endpoints : r.backend[n].key \in Keys \cup {Empty}
  BY <1>1 DEF Backend
<1>5. Text \in Endpoints
  BY FieldAssumption DEF Endpoints
<1>6. r.backend[Text].model \in Models \cup {Empty}
  BY <1>1, <1>5 DEF Backend
<1> QED
  BY <1>3, <1>4, <1>6 DEF Settings

-----------------------------------------------------------------------------
(* The invariant.                                                          *)

\* Memory is what the volume and the environment make it, docling-serve.yaml
\* is rendered from the volume, and a successful test had a server for every
\* stage.
IInv ==
    /\ TypeOK
    /\ table = Table(Load(file.runtime, environ))
    /\ settings = Settings(Load(file.runtime, environ))
    /\ rendered = file.runtime.backend[Text].model
    /\ tested.ok /\ tested.form # Absent =>
          /\ \A s \in Stages : Resolves(Table(tested.form), s)
          /\ \A n \in Backends : tested.form.backend[n].url # Empty

\* A configuration that is loaded and installed has the right type.
LEMMA InstallType ==
    ASSUME NEW r \in Runtime, NEW e \in Environs
    PROVE  /\ \E D \in SUBSET Endpoints :
                 Table(Load(r, e)).endpoints \in [D -> EndpointConfig]
           /\ Table(Load(r, e)).stages \in [Stages -> StageOverride]
           /\ Settings(Load(r, e)) \in [key : [Endpoints -> Keys \cup {Empty}],
                                        textModel : Models \cup {Empty}]
<1>1. Load(r, e) \in Runtime
  BY LoadComplete
<1>2. Settings(Load(r, e)) \in [key : [Endpoints -> Keys \cup {Empty}],
                               textModel : Models \cup {Empty}]
  BY <1>1, EndpointsType DEF Settings
<1> QED
  BY <1>1, <1>2, StagesType, EndpointsType DEF Table

\* The text model of a complete configuration.
LEMMA TextModelType ==
    ASSUME NEW r \in Runtime
    PROVE  r.backend[Text].model \in Models \cup {Empty}
<1>1. Text \in Endpoints
  BY FieldAssumption DEF Endpoints
<1> QED
  BY <1>1 DEF Runtime, Backend

\* The initial states.
LEMMA InitIInv == Init => IInv
<1> SUFFICES ASSUME Init PROVE IInv
  OBVIOUS
<1>1. environ \in Environs /\ file.runtime = Load(Defaults, environ)
  BY DEF Init
<1>2. file.runtime \in Runtime /\ file \in [runtime : Runtime, marked : BOOLEAN]
  BY <1>1, SeedComplete DEF Init
<1>3. rendered \in Models \cup {Empty} /\ docling \in Models \cup {Empty}
  BY <1>2, TextModelType DEF Init
<1>4. TypeOK
  <2>1. tested \in [form : Forms \cup {Absent}, ok : BOOLEAN]
    BY DEF Init
  <2> QED
    BY <1>1, <1>2, <1>3, <2>1, InstallType DEF Init, TypeOK
<1> QED
  BY <1>4 DEF Init, IInv

\* Loading what the volume holds, as a restart and a reload do.
LEMMA InstallKeeps ==
    ASSUME IInv, NEW r \in Runtime, NEW e \in Environs, Install(r, e),
           file'.runtime = r, file' \in [runtime : Runtime, marked : BOOLEAN], environ' = e,
           tested' \in [form : Forms \cup {Absent}, ok : BOOLEAN],
           rendered' = r.backend[Text].model, docling' = docling,
           tested' = tested \/ tested'.form = Absent
    PROVE  IInv'
<1>1. /\ \E D \in SUBSET Endpoints : table'.endpoints \in [D -> EndpointConfig]
      /\ table'.stages \in [Stages -> StageOverride]
      /\ settings' \in [key : [Endpoints -> Keys \cup {Empty}], textModel : Models \cup {Empty}]
  BY InstallType DEF Install
<1>2. rendered' \in Models \cup {Empty} /\ docling' \in Models \cup {Empty}
  BY TextModelType DEF IInv, TypeOK
<1>3. TypeOK'
  BY <1>1, <1>2 DEF TypeOK
<1>4. table' = Table(Load(file'.runtime, environ')) /\ settings' = Settings(Load(file'.runtime, environ'))
  BY DEF Install
<1>5. (tested.ok /\ tested.form # Absent =>
          /\ \A s \in Stages : Resolves(Table(tested.form), s)
          /\ \A n \in Backends : tested.form.backend[n].url # Empty)'
  BY DEF IInv
<1> QED
  BY <1>3, <1>4, <1>5 DEF IInv

\* Every step keeps the invariant.
LEMMA NextIInv == IInv /\ [Next]_vars => IInv'
<1> SUFFICES ASSUME IInv, [Next]_vars PROVE IInv'
  OBVIOUS
<1>0. /\ file \in [runtime : Runtime, marked : BOOLEAN]
      /\ file.runtime \in Runtime
      /\ environ \in Environs
      /\ tested \in [form : Forms \cup {Absent}, ok : BOOLEAN]
      /\ rendered = file.runtime.backend[Text].model
  BY DEF IInv, TypeOK
<1>1. ASSUME NEW e \in Environs, Restart(e) PROVE IInv'
  <2>1. tested' \in [form : Forms \cup {Absent}, ok : BOOLEAN] /\ tested'.form = Absent
    BY <1>0, <1>1 DEF Restart
  <2> QED
    BY <1>0, <1>1, <2>1, InstallKeeps DEF Restart
<1>2. ASSUME AdminReload PROVE IInv'
  BY <1>0, <1>2, InstallKeeps DEF AdminReload
<1>3. ASSUME DoclingRestart PROVE IInv'
  BY <1>3 DEF DoclingRestart, IInv, TypeOK
<1>4. ASSUME NEW f \in Forms, NEW ok \in BOOLEAN, Test(f, ok) PROVE IInv'
  <2>1. tested' \in [form : Forms \cup {Absent}, ok : BOOLEAN]
    BY <1>4 DEF Test
  <2>2. TypeOK'
    BY <1>4, <2>1 DEF Test, IInv, TypeOK
  <2>3. (tested.ok /\ tested.form # Absent =>
            /\ \A s \in Stages : Resolves(Table(tested.form), s)
            /\ \A n \in Backends : tested.form.backend[n].url # Empty)'
    BY <1>4 DEF Test
  <2> QED
    BY <1>4, <2>2, <2>3 DEF Test, IInv
<1>5. ASSUME NEW f \in Forms, Save(f) PROVE IInv'
  <2>1. f \in Runtime
    BY InputAssumption
  <2>2. file'.runtime = f /\ file' \in [runtime : Runtime, marked : BOOLEAN]
    BY <1>5, <2>1 DEF Save
  <2> QED
    BY <1>0, <1>5, <2>1, <2>2, InstallKeeps DEF Save
<1>6. ASSUME UNCHANGED vars PROVE IInv'
  BY <1>6 DEF vars, IInv, TypeOK
<1> QED
  BY <1>1, <1>2, <1>3, <1>4, <1>5, <1>6 DEF Next

\* Memory, volume and environment agree, in every reachable state.
THEOREM Invariance == Spec => []IInv
BY InitIInv, NextIInv, PTL DEF Spec

\* The type invariant.
THEOREM TypeCorrect == Spec => []TypeOK
<1>1. IInv => TypeOK
  BY DEF IInv
<1> QED
  BY <1>1, Invariance, PTL

-----------------------------------------------------------------------------
(* What is saved is used.                                                  *)

\* The entry of a stage and of its endpoint in the table of configuration r.
LEMMA TableEntry ==
    ASSUME NEW r \in Runtime, NEW s \in Stages, Resolves(Table(r), s)
    PROVE  LET t == Table(r)
               c == r.stages[s]
           IN  /\ t.stages[s].endpoint = c.endpoint
               /\ t.stages[s].mode = c.mode
               /\ c.mode # "kserve_relay" => t.stages[s].model = c.model
               /\ c.mode = "kserve_relay" => t.stages[s].relay = c.relay
               /\ c.mode \in Modes /\ c.endpoint \in Endpoints
               /\ c.relay \in Models \cup {Empty}
               /\ t.endpoints[c.endpoint].url = r.backend[c.endpoint].url
               /\ t.endpoints[c.endpoint].model = r.backend[c.endpoint].model
<1>1. r.stages[s] \in StageOverride
  BY DEF Runtime
<1>2. Table(r).stages[s] = IF r.stages[s].mode = "kserve_relay"
                           THEN [r.stages[s] EXCEPT !.model = OrElse(@, s)]
                           ELSE [r.stages[s] EXCEPT !.relay = Empty]
  BY DEF Table, MergedStages
<1>3. /\ Table(r).stages[s].endpoint = r.stages[s].endpoint
      /\ Table(r).stages[s].mode = r.stages[s].mode
      /\ r.stages[s].mode # "kserve_relay" => Table(r).stages[s].model = r.stages[s].model
      /\ r.stages[s].mode = "kserve_relay" => Table(r).stages[s].relay = r.stages[s].relay
  BY <1>1, <1>2 DEF StageOverride
<1>4. r.stages[s].endpoint \in DOMAIN MergedEndpoints(r)
  BY <1>3 DEF Resolves, Table
<1>5. /\ MergedEndpoints(r)[r.stages[s].endpoint].url = r.backend[r.stages[s].endpoint].url
      /\ MergedEndpoints(r)[r.stages[s].endpoint].model = r.backend[r.stages[s].endpoint].model
  BY <1>4 DEF MergedEndpoints
<1> QED
  BY <1>1, <1>3, <1>5 DEF StageOverride, Table

\* What loading makes of a backend.
LEMMA LoadedBackend ==
    ASSUME NEW r \in Runtime, NEW e \in Environs, NEW n \in Endpoints
    PROVE  LET b == Load(r, e).backend[n]
               d == r.backend[n]
           IN  /\ d.url # Empty => b.url = d.url
               /\ n # Native => b.url # Empty
               /\ d.model # Empty => b.model = d.model
               /\ n = Native => b = d
               /\ n # Native => b.key = OrElse(d.key, e[n].key)
<1>0. Load(r, e).backend = Filled(r, e)
  BY LoadComplete
<1>1. Load(r, e).backend[n] = IF n = Native THEN r.backend[n] ELSE FillBackend(r.backend[n], e[n])
  BY <1>0 DEF Filled
<1>2. n # Native => e[n].url # Empty
  BY InputAssumption DEF Endpoints
<1> QED
  BY <1>1, <1>2 DEF FillBackend, OrElse

\* The server and the model that the runtime file names are the ones that
\* inference uses, whatever the environment holds.
THEOREM SavedIsUsed == Spec => []SavedRouteUsed
<1>1. ASSUME IInv PROVE SavedRouteUsed
  <2> DEFINE r == file.runtime
             l == Load(r, environ)
  <2>1. SUFFICES ASSUME NEW s \in Stages, Resolves(table, s)
                 PROVE  /\ r.backend[r.stages[s].endpoint].url # Empty =>
                              Sends(s).url = r.backend[r.stages[s].endpoint].url
                        /\ r.stages[s].mode # "kserve_relay" /\ r.stages[s].model # Empty =>
                              Sends(s).model = r.stages[s].model
    BY DEF SavedRouteUsed
  <2>2. r \in Runtime /\ environ \in Environs /\ table = Table(l)
    BY <1>1 DEF IInv, TypeOK
  <2>3. l \in Runtime /\ l.stages = r.stages
    BY <2>2, LoadComplete
  <2> DEFINE c == r.stages[s]
  <2>4. /\ table.stages[s].endpoint = c.endpoint
        /\ table.stages[s].mode = c.mode
        /\ c.mode # "kserve_relay" => table.stages[s].model = c.model
        /\ c.endpoint \in Endpoints
        /\ table.endpoints[c.endpoint].url = l.backend[c.endpoint].url
    <3> HIDE DEF r, l
    <3>1. Resolves(Table(l), s)
      BY <2>1, <2>2
    <3>2. /\ Table(l).stages[s].endpoint = l.stages[s].endpoint
          /\ Table(l).stages[s].mode = l.stages[s].mode
          /\ l.stages[s].mode # "kserve_relay" => Table(l).stages[s].model = l.stages[s].model
          /\ l.stages[s].endpoint \in Endpoints
          /\ Table(l).endpoints[l.stages[s].endpoint].url = l.backend[l.stages[s].endpoint].url
      BY <2>3, <3>1, TableEntry
    <3> QED
      BY <2>2, <2>3, <3>2
  <2>5. r.backend[c.endpoint].url # Empty => l.backend[c.endpoint].url = r.backend[c.endpoint].url
    BY <2>2, <2>4, LoadedBackend
  <2>6. Sends(s).url = table.endpoints[c.endpoint].url
    BY <2>4 DEF Sends, Call, Route
  <2>7. c.mode # "kserve_relay" /\ c.model # Empty => Sends(s).model = c.model
    BY <2>4 DEF Sends, Call, Route, OrElse
  <2> QED
    BY <2>4, <2>5, <2>6, <2>7
<1> QED
  BY <1>1, Invariance, PTL

\* Once docling-serve has read its file again, formulas, and only formulas,
\* are taken for formulas, if the runtime file names a text model.
THEOREM FormulasReach == Spec => []FormulasReachStage
<1>1. ASSUME IInv PROVE FormulasReachStage
  <2>1. SUFFICES ASSUME docling = rendered, file.runtime.backend[Text].model # Empty
                 PROVE  /\ SelectStage(docling, settings) = CodeFormula
                        /\ SelectStage(RemoteVision, settings) = Vlm
    BY DEF FormulasReachStage
  <2>2. file.runtime \in Runtime /\ environ \in Environs
    BY <1>1 DEF IInv, TypeOK
  <2>3. Text \in Endpoints
    BY FieldAssumption DEF Endpoints
  <2>4. settings.textModel = rendered
    BY <1>1, <2>1, <2>2, <2>3, LoadedBackend DEF IInv, Settings
  <2>5. rendered \in Models
    BY <1>1, <2>1 DEF IInv, TypeOK
  <2> QED
    BY <2>1, <2>4, <2>5, FieldAssumption DEF SelectStage
<1> QED
  BY <1>1, Invariance, PTL

\* No reload or restart changes a route while file and environment stay.
THEOREM ReloadsReproduce == Spec => Reproducible
<1>1. ASSUME IInv, IInv', file' = file /\ environ' = environ PROVE UNCHANGED <<table, settings>>
  BY <1>1 DEF IInv
<1> QED
  BY <1>1, Invariance, PTL DEF Reproducible

-----------------------------------------------------------------------------
(* What is tested is used.                                                 *)

\* After a Save of the tested form every stage has a server.
THEOREM TestedHasRoutes == Spec => []TestedResolves
<1>1. ASSUME IInv PROVE TestedResolves
  <2> DEFINE r == file.runtime
             l == Load(r, environ)
  <2>1. SUFFICES ASSUME TestedIsSaved, NEW s \in Stages
                 PROVE  Resolves(table, s) /\ Sends(s).url # Empty
    BY DEF TestedResolves
  <2>2. r \in Runtime /\ environ \in Environs /\ table = Table(l) /\ tested.form = r
    BY <1>1, <2>1 DEF IInv, TypeOK, TestedIsSaved
  <2>3. tested.form # Absent
    BY <1>1, <2>2, InputAssumption DEF IInv, TypeOK
  <2>4. Resolves(Table(r), s)
    BY <1>1, <2>1, <2>2, <2>3 DEF IInv, TestedIsSaved
  <2> DEFINE c == r.stages[s]
  <2>5. l \in Runtime /\ l.stages = r.stages
    BY <2>2, LoadComplete
  <2>6. c.endpoint \in Endpoints /\ Table(r).stages[s].endpoint = c.endpoint
    BY <2>2, <2>4, TableEntry
  <2>7. Table(l).stages[s].endpoint = c.endpoint
    BY <2>5, <2>6 DEF Table, MergedStages
  <2>8. c.endpoint = Native => r.backend[c.endpoint].url # Empty
    BY <2>4, <2>6 DEF Resolves, Table, MergedEndpoints
  <2>9. l.backend[c.endpoint].url # Empty
    BY <2>2, <2>6, <2>8, LoadedBackend
  <2>10. Resolves(table, s)
    BY <2>2, <2>6, <2>7, <2>9 DEF Resolves, Table, MergedEndpoints
  <2>11. table.stages[s].endpoint = c.endpoint /\ table.endpoints[c.endpoint].url = l.backend[c.endpoint].url
    BY <2>2, <2>5, <2>10, TableEntry
  <2>12. Sends(s).url # Empty
    BY <2>9, <2>11 DEF Sends, Call, Route
  <2> QED
    BY <2>10, <2>12
<1> QED
  BY <1>1, Invariance, PTL

\* A saved form that was tested is sent as it was probed: where both routes
\* exist they have the same server, key, path and model.
THEOREM ProbedAndSent == Spec => []ProbedIsSent
<1>1. ASSUME IInv PROVE ProbedIsSent
  <2> DEFINE r == file.runtime
             l == Load(r, environ)
  <2>1. SUFFICES ASSUME TestedIsSaved, NEW s \in Stages, Resolves(table, s), NamesModel(r, s),
                        r.stages[s].mode = "kserve_relay" => s \in KServeStages
                 PROVE  Sends(s) = Probes(tested.form, s)
    BY DEF ProbedIsSent
  <2>2. /\ r \in Runtime /\ environ \in Environs /\ tested.form = r
        /\ table = Table(l) /\ settings = Settings(l)
    BY <1>1, <2>1 DEF IInv, TypeOK, TestedIsSaved
  <2>3. tested.form # Absent /\ r \in Forms
    BY <1>1, <2>2, InputAssumption DEF IInv, TypeOK
  <2>4. Resolves(Table(r), s) /\ \A n \in Backends : r.backend[n].url # Empty
    BY <1>1, <2>1, <2>2, <2>3 DEF IInv, TestedIsSaved
  <2>5. l \in Runtime /\ l.stages = r.stages
    BY <2>2, LoadComplete
  <2> DEFINE c == r.stages[s]
             n == c.endpoint
  <2>6. /\ Table(r).stages[s].endpoint = n
        /\ Table(r).stages[s].mode = c.mode
        /\ c.mode # "kserve_relay" => Table(r).stages[s].model = c.model
        /\ c.mode = "kserve_relay" => Table(r).stages[s].relay = c.relay
        /\ n \in Endpoints
        /\ Table(r).endpoints[n].url = r.backend[n].url
        /\ Table(r).endpoints[n].model = r.backend[n].model
    BY <2>2, <2>4, TableEntry
  <2>7. /\ table.stages[s].endpoint = n
        /\ table.stages[s].mode = c.mode
        /\ c.mode # "kserve_relay" => table.stages[s].model = c.model
        /\ c.mode = "kserve_relay" => table.stages[s].relay = c.relay
        /\ table.endpoints[n].url = l.backend[n].url
        /\ table.endpoints[n].model = l.backend[n].model
    <3>1. Resolves(Table(l), s)
      BY <2>1, <2>2
    <3>2. /\ Table(l).stages[s].endpoint = l.stages[s].endpoint
          /\ Table(l).stages[s].mode = l.stages[s].mode
          /\ l.stages[s].mode # "kserve_relay" => Table(l).stages[s].model = l.stages[s].model
          /\ l.stages[s].mode = "kserve_relay" => Table(l).stages[s].relay = l.stages[s].relay
          /\ Table(l).endpoints[l.stages[s].endpoint].url = l.backend[l.stages[s].endpoint].url
          /\ Table(l).endpoints[l.stages[s].endpoint].model = l.backend[l.stages[s].endpoint].model
      <4> HIDE DEF l
      <4> QED
        BY <2>5, <3>1, TableEntry
    <3> QED
      BY <2>2, <2>5, <3>2
  <2>8. l.backend[n].url = r.backend[n].url
    <3>1. CASE n = Native
      BY <2>2, <2>6, <3>1, LoadedBackend
    <3>2. CASE n # Native
      <4>1. n \in Backends
        BY <2>6, <3>2 DEF Endpoints
      <4> QED
        BY <2>2, <2>4, <2>6, <4>1, LoadedBackend
    <3> QED
      BY <3>1, <3>2
  <2>9. ResolveApiKey(settings, environ, n) = ResolveApiKey(Settings(r), environ, n)
    <3>1. settings.key[n] = l.backend[n].key /\ Settings(r).key[n] = r.backend[n].key
      BY <2>2, <2>6 DEF Settings
    <3>2. l.backend[n].key = r.backend[n].key \/ l.backend[n].key = OrElse(r.backend[n].key, environ[n].key)
      BY <2>2, <2>6, LoadedBackend
    <3> QED
      BY <3>1, <3>2 DEF ResolveApiKey, OrElse
  <2>10. c.mode # "kserve_relay" =>
           OrElse(c.model, l.backend[n].model) = OrElse(c.model, r.backend[n].model)
    <3>1. l.backend[n].model = r.backend[n].model \/ c.model # Empty
      BY <2>1, <2>2, <2>6, LoadedBackend DEF NamesModel
    <3> QED
      BY <3>1 DEF OrElse
  <2> DEFINE p == Route(table, settings, environ, s)
             q == Route(Table(r), Settings(r), environ, s)
  <2>11. Sends(s) = Call(p, s) /\ Probes(tested.form, s) = Probe(q)
    BY <2>2 DEF Sends, Probes
  <2>12. p.mode = c.mode /\ q.mode = c.mode
    BY <2>6, <2>7 DEF Route
  <2>13. p.url = q.url
    BY <2>6, <2>7, <2>8 DEF Route
  <2>14. p.key = q.key
    BY <2>6, <2>7, <2>9 DEF Route
  <2>15. c.mode = "kserve_relay" =>
           c.relay # Empty /\ p.relay = c.relay /\ q.path = "infer" /\ q.model = c.relay
    <3>1. c.mode = "kserve_relay" => c.relay # Empty
      BY <2>3, InputAssumption DEF RelayComplete
    <3>2. c.mode = "kserve_relay" => p.relay = c.relay
      BY <2>7 DEF Route
    <3>3. c.mode = "kserve_relay" => q.path = "infer" /\ q.model = c.relay
      BY <2>6, <3>1 DEF Route, OrElse
    <3> QED
      BY <3>1, <3>2, <3>3
  <2>16. c.mode # "kserve_relay" => p.path = "chat" /\ q.path = "chat"
    BY <2>6, <2>7 DEF Route
  <2>17. c.mode # "kserve_relay" => p.model = q.model
    BY <2>6, <2>7, <2>10 DEF Route
  <2> HIDE DEF p, q
  <2>18. CASE c.mode = "kserve_relay"
    <3>1. Call(p, s) = [url |-> p.url, key |-> p.key, path |-> "infer", body |-> "tensors",
                        model |-> c.relay]
      BY <2>1, <2>12, <2>15, <2>18 DEF Call, OrElse
    <3>2. Probe(q) = [url |-> q.url, key |-> q.key, path |-> "infer", body |-> "tensors",
                      model |-> c.relay]
      BY <2>12, <2>15, <2>18 DEF Probe
    <3> QED
      BY <2>11, <2>13, <2>14, <3>1, <3>2
  <2>19. CASE c.mode # "kserve_relay"
    <3>1. Call(p, s) = [url |-> p.url, key |-> p.key, path |-> "chat", body |-> "messages",
                        model |-> p.model]
      BY <2>12, <2>16, <2>19 DEF Call
    <3>2. Probe(q) = [url |-> q.url, key |-> q.key, path |-> "chat", body |-> "messages",
                      model |-> q.model]
      BY <2>12, <2>16, <2>19 DEF Probe
    <3> QED
      BY <2>11, <2>13, <2>14, <2>17, <2>19, <3>1, <3>2
  <2> QED
    BY <2>18, <2>19
<1> QED
  BY <1>1, Invariance, PTL
=============================================================================
