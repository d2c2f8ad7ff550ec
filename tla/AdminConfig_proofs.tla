-------------------------- MODULE AdminConfig_proofs --------------------------
(***************************************************************************)
(* Theorems about AdminConfig, for any sets of contents and sessions and   *)
(* any number of crashes that satisfy ContentAssumption and                *)
(* MarkerAssumption.                                                       *)
(***************************************************************************)
EXTENDS AdminConfig, TLAPS

\* gateway-runtime.yaml is whole, and there is one once a start has seeded
\* it; pages and workers live in a process that is up.
Alive ==
    /\ runtime # Torn
    /\ process \notin {"down", "seed", "write", "replace"} => runtime # Absent
    /\ process \in {"write", "replace"} => runtime = Absent
    /\ process # "up" => saving = NoSave /\ testing = NoTest
    /\ \A s \in Sessions : session[s].open => process = "up"

\* The temporary file is complete when it is moved: what save_runtime_config
\* was called with.
OnTheWay ==
    /\ process = "replace" => tmp = Default
    /\ saving.phase = "replace" => tmp = saving.form

\* Where a Save is admitted, the meta section it would write says tested.
Tested ==
    /\ \A s \in Sessions : session[s].testOk => session[s].metaOk
    /\ saving # NoSave => saving.metaOk

\* Past its first write a Save finds its own form on the volume.
Written ==
    saving.phase \in {"truncate", "fill", "reload", "return"} => runtime = saving.form

\* docling-serve.yaml follows but for the two writes of a Save and the start.
DoclingCopy ==
    "docling" \notin unfinished =>
        /\ process \in {"down", "seed", "write", "replace", "generate"} => docling \in {Absent, runtime}
        /\ process \in {"construct", "mount"} => docling = runtime
        /\ process = "up" /\ saving.phase \notin {"truncate", "fill"} => docling = runtime

\* The memory follows but for a Save between its first write and its reload.
MemoryCopy ==
    /\ process = "mount" => memory = runtime
    /\ /\ process = "up" /\ saving.phase \notin {"truncate", "fill", "reload"}
       /\ "memory" \notin unfinished /\ runtime \notin Unloadable
       => memory = runtime

IInv == TypeOK /\ Alive /\ OnTheWay /\ Tested /\ Written /\ DoclingCopy /\ MemoryCopy

-----------------------------------------------------------------------------
(* Initially, and the start of the process.                                *)

\* The types of the variables, and what tells an idle Save from a running
\* one.
LEMMA Typed ==
    ASSUME IInv
    PROVE  /\ runtime \in Contents \cup {Absent} /\ Absent # Torn
           /\ tmp \in Contents \cup {Absent, Torn}
           /\ Absent \notin Contents /\ Torn \notin Contents
           /\ docling \in Contents \cup {Absent, Torn}
           /\ marked \in BOOLEAN /\ memory \in Contents /\ shown.content \in Contents
           /\ shown \in [content : Contents, ok : BOOLEAN] /\ shown.ok \in BOOLEAN
           /\ process \in Starting \cup {"down", "up"}
           /\ session \in [Sessions -> Page]
           /\ testing \in [s : Sessions, form : Contents] \cup {NoTest}
           /\ saving \in [phase : SavePhase \ {"idle"}, s : Sessions, form : Contents,
                          metaOk : BOOLEAN] \cup {NoSave}
           /\ saving.phase = "idle" <=> saving = NoSave
           /\ saving.phase \in SavePhase
           /\ crashes \in 0..MaxCrashes /\ unfinished \subseteq {"docling", "memory"}
           /\ Default \in Contents
<1>1. saving.phase = "idle" <=> saving = NoSave
  BY DEF IInv, TypeOK, NoSave
<1>2. saving.phase \in SavePhase
  BY DEF IInv, TypeOK, NoSave, SavePhase
<1> QED
  BY <1>1, <1>2, ContentAssumption, MarkerAssumption DEF IInv, TypeOK, Alive

\* The volume is empty and nothing runs.
LEMMA InitInv == Init => IInv
<1> SUFFICES ASSUME Init PROVE IInv
  OBVIOUS
<1> USE DEF Init
<1>1. Default \in Contents /\ MaxCrashes \in Nat /\ Absent # Torn
  BY ContentAssumption, MarkerAssumption
<1>2. Closed \in Page
  BY <1>1 DEF Closed, Page
<1>3. TypeOK
  <2>1. session \in [Sessions -> Page] /\ crashes \in 0..MaxCrashes
    BY <1>1, <1>2
  <2>2. shown \in [content : Contents, ok : BOOLEAN]
    BY <1>1
  <2> QED
    BY <1>1, <2>1, <2>2 DEF TypeOK
<1>4. Alive /\ Tested /\ OnTheWay
  BY <1>1 DEF Alive, Tested, Closed, OnTheWay, NoSave
<1>5. Written /\ DoclingCopy /\ MemoryCopy
  BY DEF Written, DoclingCopy, MemoryCopy, NoSave
<1> QED
  BY <1>3, <1>4, <1>5 DEF IInv

\* Every step of a start: no page is open and no worker runs.
LEMMA BootInv ==
    ASSUME IInv, BootStep
    PROVE  IInv'
<1> USE DEF volume, history, Boot
<1>0. runtime # Torn
  BY DEF IInv, Alive
<1>1. /\ process # "up" /\ process' \in Starting \cup {"down", "up"}
      /\ UNCHANGED <<session, testing, saving, crashes>>
      /\ process' = "down" => process # "seed"
  BY <1>0 DEF BootStep, StartProcess, Seed, SeedWrites, SeedReplaces, Generate, FillAtBoot,
              Construct, ConstructFails, Mount, Starting
<1>2. saving = NoSave /\ testing = NoTest /\ \A s \in Sessions : ~session[s].open
  BY <1>1 DEF IInv, Alive
<1>3. saving'.phase = "idle"
  BY <1>1, <1>2 DEF NoSave
<1>4. Tested' /\ Written'
  BY <1>1, <1>3 DEF IInv, Tested, Written
<1>5. CASE StartProcess
  <2>1. TypeOK' /\ Alive' /\ OnTheWay'
    BY <1>1, <1>2, <1>3, <1>5 DEF StartProcess, IInv, TypeOK, Alive, OnTheWay
  <2>2. DoclingCopy' /\ MemoryCopy'
    BY <1>5 DEF StartProcess, IInv, DoclingCopy, MemoryCopy
  <2> QED
    BY <1>4, <2>1, <2>2 DEF IInv
<1>6. CASE Seed
  <2>1. /\ process = "seed" /\ runtime' = runtime /\ marked' = marked
        /\ process' \in {"write", "generate"}
        /\ process' = "write" <=> runtime = Absent
        /\ tmp' \in {tmp, Torn}
    BY <1>0, <1>6, Typed DEF Seed, CreateTmp
  <2>2. TypeOK' /\ Alive' /\ OnTheWay'
    BY <1>1, <1>2, <1>3, <1>6, <2>1 DEF Seed, IInv, TypeOK, Alive, OnTheWay
  <2>3. DoclingCopy' /\ MemoryCopy'
    BY <1>6, <2>1 DEF Seed, IInv, DoclingCopy, MemoryCopy
  <2> QED
    BY <1>4, <2>2, <2>3 DEF IInv
<1>7. CASE SeedWrites
  <2>1. /\ process = "write" /\ process' = "replace" /\ tmp' = Default
        /\ UNCHANGED <<runtime, marked, docling, memory, shown, unfinished>>
    BY <1>7 DEF SeedWrites, FillTmp
  <2>2. TypeOK' /\ Alive' /\ OnTheWay'
    BY <1>1, <1>2, <1>3, <2>1, Typed DEF IInv, TypeOK, Alive, OnTheWay
  <2>3. DoclingCopy' /\ MemoryCopy'
    BY <1>1, <2>1 DEF IInv, DoclingCopy, MemoryCopy
  <2> QED
    BY <1>4, <2>2, <2>3 DEF IInv
<1>8. CASE SeedReplaces
  <2>1. /\ process = "replace" /\ process' = "generate" /\ tmp' = Absent
        /\ runtime' = Default /\ marked' = FALSE /\ runtime = Absent
        /\ UNCHANGED <<docling, memory, shown, unfinished>>
    BY <1>8 DEF SeedReplaces, Publish, IInv, OnTheWay, Alive
  <2>2. Default # Absent /\ Default # Torn /\ Default \in Contents
    BY Typed
  <2>3. TypeOK' /\ Alive' /\ OnTheWay'
    BY <1>1, <1>2, <1>3, <2>1, <2>2 DEF IInv, TypeOK, Alive, OnTheWay
  <2>4. DoclingCopy' /\ MemoryCopy'
    BY <1>1, <2>1 DEF IInv, DoclingCopy, MemoryCopy
  <2> QED
    BY <1>4, <2>3, <2>4 DEF IInv
<1>9. CASE Generate
  <2>1. TypeOK' /\ Alive' /\ OnTheWay'
    BY <1>1, <1>2, <1>3, <1>9 DEF Generate, IInv, TypeOK, Alive, OnTheWay
  <2>2. DoclingCopy' /\ MemoryCopy'
    BY <1>9 DEF Generate, IInv, DoclingCopy, MemoryCopy
  <2> QED
    BY <1>4, <2>1, <2>2 DEF IInv
<1>10. CASE FillAtBoot
  <2>1. runtime \in Contents
    BY <1>10, Typed DEF FillAtBoot, IInv, Alive
  <2>2. TypeOK' /\ Alive' /\ OnTheWay'
    BY <1>1, <1>2, <1>3, <1>10, <2>1 DEF FillAtBoot, IInv, TypeOK, Alive, OnTheWay
  <2>3. DoclingCopy' /\ MemoryCopy'
    BY <1>10 DEF FillAtBoot, IInv, DoclingCopy, MemoryCopy
  <2> QED
    BY <1>4, <2>2, <2>3 DEF IInv
<1>11. CASE Construct \/ ConstructFails
  <2>1. runtime \in Contents
    BY <1>11, Typed DEF Construct, ConstructFails, IInv, Alive
  <2>2. TypeOK' /\ Alive' /\ OnTheWay'
    BY <1>1, <1>2, <1>3, <1>11, <2>1 DEF Construct, ConstructFails, IInv, TypeOK, Alive, OnTheWay
  <2>3. DoclingCopy' /\ MemoryCopy'
    BY <1>11 DEF Construct, ConstructFails, IInv, DoclingCopy, MemoryCopy
  <2> QED
    BY <1>4, <2>2, <2>3 DEF IInv
<1>12. CASE Mount
  <2>1. runtime \in Contents /\ marked \in BOOLEAN
    BY <1>12, Typed DEF Mount, IInv, Alive
  <2>2. TypeOK' /\ Alive' /\ OnTheWay'
    BY <1>1, <1>2, <1>3, <1>12, <2>1 DEF Mount, IInv, TypeOK, Alive, OnTheWay
  <2>3. DoclingCopy' /\ MemoryCopy'
    BY <1>3, <1>12 DEF Mount, IInv, DoclingCopy, MemoryCopy
  <2> QED
    BY <1>4, <2>2, <2>3 DEF IInv
<1> QED
  BY <1>5, <1>6, <1>7, <1>8, <1>9, <1>10, <1>11, <1>12 DEF BootStep

\* A crash takes pages and workers, and records the copy it leaves torn.
LEMMA CrashInv ==
    ASSUME IInv, Crash
    PROVE  IInv'
<1>1. /\ process' = "down" /\ saving' = NoSave /\ testing' = NoTest
      /\ crashes' \in 0..MaxCrashes
      /\ session' = [s \in Sessions |-> Closed]
      /\ tmp' = Absent
      /\ UNCHANGED <<runtime, marked, docling, memory, shown>>
      /\ unfinished \subseteq unfinished' /\ unfinished' \subseteq {"docling", "memory"}
      /\ saving.phase \in {"truncate", "fill"} \/ process = "fill" => "docling" \in unfinished'
  BY Typed, MarkerAssumption DEF Crash
<1>2. Closed \in Page
  BY ContentAssumption DEF Closed, Page
<1>3. TypeOK'
  BY <1>1, <1>2 DEF IInv, TypeOK, Starting
<1>4. Alive' /\ OnTheWay' /\ Tested' /\ Written'
  BY <1>1 DEF IInv, Alive, OnTheWay, Tested, Written, Closed, NoSave
<1>5. DoclingCopy' /\ MemoryCopy'
  BY <1>1, Typed DEF IInv, DoclingCopy, MemoryCopy, Starting
<1> QED
  BY <1>3, <1>4, <1>5 DEF IInv

-----------------------------------------------------------------------------
(* Pages.                                                                  *)

\* A step that changes pages and the Test worker only.
LEMMA PageInv ==
    ASSUME IInv, UNCHANGED <<volume, process, memory, shown, saving, history>>,
           session' \in [Sessions -> Page],
           testing' \in [s : Sessions, form : Contents] \cup {NoTest},
           process = "up",
           \A s \in Sessions : session'[s].testOk => session'[s].metaOk
    PROVE  IInv'
<1> USE DEF volume, history
<1>1. TypeOK'
  BY DEF IInv, TypeOK
<1>2. Alive' /\ OnTheWay' /\ Tested'
  BY DEF IInv, Alive, OnTheWay, Tested
<1>3. Written' /\ DoclingCopy' /\ MemoryCopy'
  BY DEF IInv, Written, DoclingCopy, MemoryCopy
<1> QED
  BY <1>1, <1>2, <1>3 DEF IInv

\* Opening, editing and a form that is rejected.
LEMMA EditInv ==
    ASSUME IInv, NEW s \in Sessions,
           Open(s) \/ FormRejected(s) \/ TestClicked(s) \/ \E c \in Contents : Edit(s, c)
    PROVE  IInv'
<1>1. session \in [Sessions -> Page] /\ process = "up"
      /\ UNCHANGED <<volume, process, memory, shown, saving, history>>
  BY Typed DEF IInv, Alive, Open, FormRejected, TestClicked, Edit
<1>2. session[s] \in Page
  BY <1>1
<1>3. session[s].testOk => session[s].metaOk
  BY DEF IInv, Tested
<1>4. CASE TestClicked(s)
  <2>1. testing' = [s |-> s, form |-> session[s].form] /\ session' = session
    BY <1>4 DEF TestClicked
  <2>2. testing' \in [s : Sessions, form : Contents]
    BY <1>2, <2>1 DEF Page
  <2> QED
    BY <1>1, <2>1, <2>2, PageInv DEF IInv, Tested
<1>5. ASSUME NEW p \in Page, session' = [session EXCEPT ![s] = p], testing' = testing,
             p.testOk => p.metaOk
      PROVE  IInv'
  <2>1. session' \in [Sessions -> Page] /\ \A q \in Sessions : session'[q].testOk => session'[q].metaOk
    BY <1>1, <1>5 DEF IInv, Tested
  <2> QED
    BY <1>1, <1>5, <2>1, Typed, PageInv
<1>6. CASE Open(s)
  <2> DEFINE p == [open |-> TRUE, form |-> shown.content, testOk |-> shown.ok,
                   state |-> shown.content, metaOk |-> shown.ok]
  <2>1. p \in Page /\ (p.testOk => p.metaOk)
    BY Typed DEF Page
  <2>2. session' = [session EXCEPT ![s] = p] /\ testing' = testing
    BY <1>6 DEF Open
  <2> HIDE DEF p
  <2> QED
    BY <1>5, <2>1, <2>2
<1>7. CASE FormRejected(s)
  <2> DEFINE p == [session[s] EXCEPT !.testOk = FALSE]
  <2>1. p \in Page /\ ~p.testOk
    BY <1>2 DEF Page
  <2>2. session' = [session EXCEPT ![s] = p] /\ testing' = testing
    BY <1>7 DEF FormRejected
  <2> HIDE DEF p
  <2> QED
    BY <1>5, <2>1, <2>2
<1>8. ASSUME NEW c \in Contents, Edit(s, c) PROVE IInv'
  <2> DEFINE p == [session[s] EXCEPT !.form = c]
  <2>1. p \in Page /\ (p.testOk => p.metaOk)
    BY <1>2, <1>3 DEF Page
  <2>2. session' = [session EXCEPT ![s] = p] /\ testing' = testing
    BY <1>8 DEF Edit
  <2> HIDE DEF p
  <2> QED
    BY <1>5, <2>1, <2>2
<1> QED
  BY <1>4, <1>6, <1>7, <1>8

-----------------------------------------------------------------------------
(* Test.                                                                   *)

\* A test that returns, or raises, on a page that may have changed since.
LEMMA TestInv ==
    ASSUME IInv, NEW ok \in BOOLEAN, TestReturns(ok) \/ TestRaises
    PROVE  IInv'
<1>1. /\ testing # NoTest /\ testing' = NoTest
      /\ UNCHANGED <<volume, process, memory, shown, saving, history>>
  BY DEF TestReturns, TestRaises
<1>2. testing \in [s : Sessions, form : Contents] /\ process = "up"
  BY <1>1, Typed DEF IInv, Alive
<1>3. testing.s \in Sessions /\ testing.form \in Contents
  BY <1>2
<1>4. CASE TestReturns(ok)
  <2> DEFINE p == [open |-> session[testing.s].open, form |-> session[testing.s].form,
                   testOk |-> ok, state |-> testing.form, metaOk |-> ok]
  <2>1. session[testing.s] \in Page
    BY <1>3, Typed
  <2>2. p \in Page /\ (p.testOk => p.metaOk)
    BY <1>3, <2>1 DEF Page
  <2>3. session' = [session EXCEPT ![testing.s] = p]
    BY <1>4 DEF TestReturns
  <2> HIDE DEF p
  <2>4. session' \in [Sessions -> Page] /\ \A q \in Sessions : session'[q].testOk => session'[q].metaOk
    BY <1>3, <2>2, <2>3, Typed DEF IInv, Tested
  <2> QED
    BY <1>1, <1>2, <2>4, PageInv
<1>5. CASE TestRaises
  <2>1. session' = session
    BY <1>5 DEF TestRaises
  <2> QED
    BY <1>1, <1>2, <2>1, Typed, PageInv DEF IInv, Tested
<1> QED
  BY <1>4, <1>5

-----------------------------------------------------------------------------
(* Save.                                                                   *)

\* A Save that runs: its phase and the arguments of handle_save_config.
SaveType == [phase : SavePhase \ {"idle"}, s : Sessions, form : Contents, metaOk : BOOLEAN]

\* A Save starts only on a page that holds a successful test.
LEMMA ClickInv ==
    ASSUME IInv, NEW s \in Sessions, SaveClicked(s)
    PROVE  IInv'
<1>1. /\ session[s].open /\ session[s].testOk /\ saving.phase = "idle"
      /\ UNCHANGED <<volume, process, memory, shown, session, testing, history>>
      /\ saving' = [phase |-> "create", s |-> s, form |-> session[s].form,
                    metaOk |-> session[s].metaOk]
  BY DEF SaveClicked
<1>2. session[s] \in Page /\ session[s].metaOk /\ process = "up"
  BY <1>1, Typed DEF IInv, Tested, Alive
<1>3. saving' \in SaveType /\ saving'.metaOk /\ saving'.phase = "create"
  BY <1>1, <1>2 DEF Page, SaveType, SavePhase
<1>4. TypeOK'
  BY <1>1, <1>3 DEF IInv, TypeOK, SaveType, volume, history
<1>5. Alive' /\ OnTheWay' /\ Tested'
  BY <1>1, <1>2, <1>3 DEF IInv, Alive, Tested, OnTheWay, volume
<1>6. Written' /\ DoclingCopy' /\ MemoryCopy'
  BY <1>1, <1>3 DEF IInv, Written, DoclingCopy, MemoryCopy, volume, history
<1> QED
  BY <1>4, <1>5, <1>6 DEF IInv

\* What every step of a running Save keeps.
LEMMA RunningSave ==
    ASSUME IInv, NEW from \in SavePhase \ {"idle"}, NEW to \in SavePhase, SaveStep(from, to)
    PROVE  /\ saving \in SaveType /\ saving.phase = from /\ saving.form \in Contents
           /\ saving.s \in Sessions /\ saving.metaOk = TRUE /\ process = "up"
           /\ saving' \in SaveType \cup {NoSave}
           /\ saving'.phase = to
           /\ saving' # NoSave => saving'.form = saving.form /\ saving'.metaOk
           /\ to # "idle" => saving'.form = saving.form /\ saving'.metaOk
<1>1. saving.phase = from /\ saving # NoSave
  BY Typed DEF SaveStep
<1>2. saving \in SaveType /\ process = "up" /\ saving.metaOk
  BY <1>1, Typed DEF IInv, Alive, Tested, SaveType
<1>3. saving.form \in Contents /\ saving.s \in Sessions /\ saving.metaOk = TRUE
  BY <1>2 DEF SaveType
<1>4. CASE to = "idle"
  <2>1. saving' = NoSave
    BY <1>4 DEF SaveStep
  <2> QED
    BY <1>1, <1>2, <1>3, <1>4, <2>1 DEF NoSave
<1>5. CASE to # "idle"
  <2>1. saving' = [saving EXCEPT !.phase = to]
    BY <1>5 DEF SaveStep
  <2>2. /\ saving'.phase = to /\ saving'.s = saving.s /\ saving'.form = saving.form
        /\ saving'.metaOk = saving.metaOk /\ saving' \in SaveType
    BY <1>2, <1>5, <2>1 DEF SaveType
  <2> QED
    BY <1>1, <1>2, <1>3, <1>5, <2>2
<1> QED
  BY <1>4, <1>5

\* The three steps of the write of gateway-runtime.yaml.
LEMMA WriteRuntimeInv ==
    ASSUME IInv, SaveCreates \/ SaveWrites \/ ReplaceRuntime
    PROVE  IInv'
<1> USE DEF volume, history
<1>1. CASE SaveCreates \/ SaveWrites
  <2>1. PICK from \in {"create", "write"}, to \in {"write", "replace"} :
           /\ SaveStep(from, to)
           /\ to = "replace" => tmp' = saving.form
           /\ tmp' \in {Torn, saving.form}
           /\ UNCHANGED <<runtime, marked, docling, process, memory, shown, session, testing, history>>
    BY <1>1 DEF SaveCreates, SaveWrites, CreateTmp, FillTmp
  <2>2. /\ saving' \in SaveType \cup {NoSave} /\ process = "up" /\ saving.phase = from
        /\ saving'.phase = to /\ (saving' # NoSave => saving'.metaOk)
        /\ saving.form \in Contents /\ saving'.form = saving.form
    BY <2>1, RunningSave DEF SavePhase
  <2>3. TypeOK'
    BY <2>1, <2>2 DEF IInv, TypeOK, SaveType
  <2>4. Alive' /\ OnTheWay' /\ Tested'
    BY <2>1, <2>2 DEF IInv, Alive, OnTheWay, Tested
  <2>5. Written' /\ DoclingCopy' /\ MemoryCopy'
    BY <2>1, <2>2 DEF IInv, Written, DoclingCopy, MemoryCopy
  <2> QED
    BY <2>3, <2>4, <2>5 DEF IInv
<1>2. CASE ReplaceRuntime
  <2>1. /\ SaveStep("replace", "truncate") /\ runtime' = tmp /\ marked' = saving.metaOk
        /\ tmp' = Absent
        /\ UNCHANGED <<docling, process, memory, shown, session, testing, history>>
    BY <1>2 DEF ReplaceRuntime, Publish
  <2>2. /\ saving' \in SaveType \cup {NoSave} /\ process = "up" /\ saving.phase = "replace"
        /\ saving'.phase = "truncate" /\ (saving' # NoSave => saving'.metaOk)
        /\ saving'.form = saving.form /\ saving.form \in Contents /\ saving.metaOk = TRUE
    BY <2>1, RunningSave DEF SavePhase
  <2>3. runtime' = saving.form
    BY <2>1, <2>2 DEF IInv, OnTheWay
  <2>4. TypeOK'
    BY <2>1, <2>2, <2>3 DEF IInv, TypeOK, SaveType
  <2>5. Alive' /\ OnTheWay' /\ Tested'
    BY <2>1, <2>2, <2>3, Typed DEF IInv, Alive, OnTheWay, Tested
  <2>6. Written' /\ DoclingCopy' /\ MemoryCopy'
    BY <2>1, <2>2, <2>3 DEF IInv, Written, DoclingCopy, MemoryCopy
  <2> QED
    BY <2>4, <2>5, <2>6 DEF IInv
<1> QED
  BY <1>1, <1>2

\* The two steps of the write of docling-serve.yaml.
LEMMA WriteDoclingInv ==
    ASSUME IInv, TruncateDocling \/ FillDocling
    PROVE  IInv'
<1> USE DEF volume, history
<1>1. CASE TruncateDocling
  <2>1. /\ SaveStep("truncate", "fill") /\ docling' = Torn
        /\ UNCHANGED <<tmp, runtime, marked, process, memory, shown, session, testing, history>>
    BY <1>1 DEF TruncateDocling
  <2>2. /\ saving' \in SaveType \cup {NoSave} /\ process = "up" /\ saving.phase = "truncate"
        /\ saving'.phase = "fill" /\ (saving' # NoSave => saving'.metaOk)
        /\ saving'.form = saving.form
    BY <2>1, RunningSave DEF SavePhase
  <2>3. TypeOK'
    BY <2>1, <2>2 DEF IInv, TypeOK, SaveType
  <2>4. Alive' /\ OnTheWay' /\ Tested'
    BY <2>1, <2>2 DEF IInv, Alive, Tested, OnTheWay
  <2>5. Written' /\ DoclingCopy' /\ MemoryCopy'
    BY <2>1, <2>2 DEF IInv, Written, DoclingCopy, MemoryCopy
  <2> QED
    BY <2>3, <2>4, <2>5 DEF IInv
<1>2. CASE FillDocling
  <2>1. /\ SaveStep("fill", "reload") /\ docling' = saving.form
        /\ unfinished' = unfinished \ {"docling"}
        /\ UNCHANGED <<tmp, runtime, marked, process, memory, shown, session, testing, crashes>>
    BY <1>2 DEF FillDocling
  <2>2. /\ saving' \in SaveType \cup {NoSave} /\ process = "up" /\ saving.phase = "fill"
        /\ saving'.phase = "reload" /\ (saving' # NoSave => saving'.metaOk)
        /\ saving'.form = saving.form /\ saving.form \in Contents
    BY <2>1, RunningSave DEF SavePhase
  <2>3. TypeOK'
    BY <2>1, <2>2 DEF IInv, TypeOK, SaveType
  <2>4. Alive' /\ OnTheWay' /\ Tested'
    BY <2>1, <2>2 DEF IInv, Alive, Tested, OnTheWay
  <2>5. Written' /\ DoclingCopy' /\ MemoryCopy'
    BY <2>1, <2>2 DEF IInv, Written, DoclingCopy, MemoryCopy
  <2> QED
    BY <2>3, <2>4, <2>5 DEF IInv
<1> QED
  BY <1>1, <1>2

\* A write that raises records the copies it leaves behind.
LEMMA FailInv ==
    ASSUME IInv, WriteFails
    PROVE  IInv'
<1>1. /\ saving.phase \in {"create", "write", "replace", "truncate", "fill"} /\ saving' = NoSave
      /\ saving.phase \in {"truncate", "fill"} => unfinished' = {"docling", "memory"}
      /\ saving.phase \notin {"truncate", "fill"} => unfinished' = unfinished
      /\ tmp' = Absent
      /\ UNCHANGED <<runtime, marked, docling, process, memory, shown, session, testing, crashes>>
  BY Typed DEF WriteFails
<1>2. saving'.phase = "idle" /\ unfinished' \subseteq {"docling", "memory"} /\ process = "up"
  BY <1>1, Typed DEF NoSave, IInv, Alive
<1>3. TypeOK'
  BY <1>1, <1>2 DEF IInv, TypeOK
<1>4. Alive' /\ OnTheWay' /\ Tested'
  BY <1>1, <1>2 DEF IInv, Alive, Tested, OnTheWay
<1>5. Written' /\ DoclingCopy' /\ MemoryCopy'
  BY <1>1, <1>2 DEF IInv, Written, DoclingCopy, MemoryCopy
<1> QED
  BY <1>3, <1>4, <1>5 DEF IInv

\* The reload of a Save, which reads the volume.
LEMMA ReloadInv ==
    ASSUME IInv, Reload \/ ReloadFails
    PROVE  IInv'
<1> USE DEF volume, history
<1>1. PICK to \in {"return", "idle"} :
        /\ SaveStep("reload", to)
        /\ \/ Loadable /\ memory' = runtime /\ unfinished' = unfinished \ {"memory"}
           \/ ~Loadable /\ memory' = memory /\ unfinished' = unfinished
        /\ UNCHANGED <<volume, process, shown, session, testing, crashes>>
  BY DEF Reload, ReloadFails
<1>2. /\ saving' \in SaveType \cup {NoSave} /\ process = "up" /\ saving.phase = "reload"
      /\ saving'.phase = to /\ (saving' # NoSave => saving'.metaOk)
      /\ to # "idle" => saving'.form = saving.form
  BY <1>1, RunningSave DEF SavePhase
<1>3. runtime \in Contents
  BY <1>2, Typed DEF IInv, Alive
<1>4. TypeOK'
  BY <1>1, <1>2, <1>3 DEF IInv, TypeOK, SaveType
<1>5. Alive' /\ OnTheWay' /\ Tested'
  BY <1>1, <1>2 DEF IInv, Alive, Tested, OnTheWay
<1>6. Written' /\ DoclingCopy' /\ MemoryCopy'
  BY <1>1, <1>2, <1>3 DEF IInv, Written, DoclingCopy, MemoryCopy, Loadable
<1> QED
  BY <1>4, <1>5, <1>6 DEF IInv

\* The outputs of a Save, applied to its page.
LEMMA ReturnInv ==
    ASSUME IInv, SaveReturns
    PROVE  IInv'
<1> USE DEF volume, history
<1> DEFINE p == [open |-> session[saving.s].open, form |-> session[saving.s].form,
                 testOk |-> TRUE, state |-> saving.form, metaOk |-> saving.metaOk]
<1>1. /\ SaveStep("return", "idle") /\ session' = [session EXCEPT ![saving.s] = p]
      /\ UNCHANGED <<volume, process, memory, shown, testing, history>>
  BY DEF SaveReturns
<1>2. /\ saving' \in SaveType \cup {NoSave} /\ process = "up" /\ saving.phase = "return"
      /\ saving'.phase = "idle" /\ (saving' # NoSave => saving'.metaOk)
      /\ saving.form \in Contents /\ saving.s \in Sessions /\ saving.metaOk = TRUE
  BY <1>1, RunningSave DEF SavePhase
<1>3. session[saving.s] \in Page
  BY <1>2, Typed
<1>4. p \in Page /\ p.metaOk
  BY <1>2, <1>3 DEF Page
<1> HIDE DEF p
<1>5. session' \in [Sessions -> Page] /\ \A q \in Sessions : session'[q].testOk => session'[q].metaOk
  BY <1>1, <1>2, <1>4, Typed DEF IInv, Tested
<1>6. TypeOK'
  BY <1>1, <1>2, <1>5 DEF IInv, TypeOK, SaveType
<1>7. Alive' /\ OnTheWay' /\ Tested'
  BY <1>1, <1>2, <1>5 DEF IInv, Alive, Tested, OnTheWay
<1>8. Written' /\ DoclingCopy' /\ MemoryCopy'
  BY <1>1, <1>2 DEF IInv, Written, DoclingCopy, MemoryCopy
<1> QED
  BY <1>6, <1>7, <1>8 DEF IInv

\* POST /admin/reload.
LEMMA AdminReloadInv ==
    ASSUME IInv, AdminReload
    PROVE  IInv'
<1> USE DEF volume
<1>1. /\ process = "up" /\ memory' = runtime /\ unfinished' = unfinished \ {"memory"}
      /\ UNCHANGED <<volume, process, shown, session, testing, saving, crashes>>
  BY DEF AdminReload
<1>2. runtime \in Contents
  BY <1>1, Typed DEF IInv, Alive
<1>3. TypeOK'
  BY <1>1, <1>2 DEF IInv, TypeOK
<1>4. Alive' /\ OnTheWay' /\ Tested'
  BY <1>1 DEF IInv, Alive, Tested, OnTheWay
<1>5. Written' /\ DoclingCopy' /\ MemoryCopy'
  BY <1>1 DEF IInv, Written, DoclingCopy, MemoryCopy
<1> QED
  BY <1>3, <1>4, <1>5 DEF IInv

-----------------------------------------------------------------------------
(* The theorems.                                                           *)

\* Every step keeps the invariant.
LEMMA StepInv == IInv /\ [Next]_vars => IInv'
<1> SUFFICES ASSUME IInv, [Next]_vars PROVE IInv'
  OBVIOUS
<1>1. CASE UNCHANGED vars
  BY <1>1 DEF vars, volume, history, IInv, TypeOK, Alive, OnTheWay, Tested, Written, DoclingCopy, MemoryCopy
<1>2. CASE BootStep
  BY <1>2, BootInv
<1>3. CASE Crash
  BY <1>3, CrashInv
<1>4. ASSUME NEW s \in Sessions,
             \/ Open(s) \/ FormRejected(s) \/ TestClicked(s) \/ SaveClicked(s)
             \/ \E c \in Contents : Edit(s, c)
      PROVE  IInv'
  BY <1>4, EditInv, ClickInv
<1>5. ASSUME NEW ok \in BOOLEAN, TestReturns(ok) \/ TestRaises PROVE IInv'
  BY <1>5, TestInv
<1>6. CASE SavePasses
  BY <1>6, WriteRuntimeInv, WriteDoclingInv, ReloadInv, ReturnInv DEF SavePasses
<1>7. CASE WriteFails
  BY <1>7, FailInv
<1>8. CASE AdminReload
  BY <1>8, AdminReloadInv
<1>9. TRUE \in BOOLEAN
  OBVIOUS
<1> QED
  BY <1>1, <1>2, <1>3, <1>4, <1>5, <1>6, <1>7, <1>8, <1>9 DEF Next

\* The inductive invariant: where the two files and the memory agree, and
\* that a Save only runs on what was tested.
THEOREM Invariance == Spec => []IInv
<1> QED
  BY InitInv, StepInv, PTL DEF Spec

\* Every variable of the volume, the pages and the workers keeps its type.
THEOREM TypeCorrect == Spec => []TypeOK
<1>1. IInv => TypeOK
  BY DEF IInv
<1> QED
  BY <1>1, Invariance, PTL

\* Whatever step of the bootstrap or of a Save a crash or a failed write hits,
\* gateway-runtime.yaml is absent or whole: the file that replaces it is
\* complete when it is moved.
THEOREM RuntimeStaysWhole == Spec => []RuntimeWhole
<1>1. IInv => RuntimeWhole
  BY DEF IInv, Alive, RuntimeWhole
<1> QED
  BY <1>1, Invariance, PTL

\* docling-serve.yaml is what gateway-runtime.yaml renders to, unless a Save
\* or a start was interrupted between the two.
THEOREM FilesAgree == Spec => []DoclingFollows
<1>1. IInv => DoclingFollows
  BY DEF IInv, DoclingCopy, DoclingFollows, Settled
<1> QED
  BY <1>1, Invariance, PTL

\* The gateway serves what is on the volume, unless that cannot be loaded or
\* a Save failed between its first write and the reload.
THEOREM ServesTheVolume == Spec => []MemoryFollows
<1>1. IInv => MemoryFollows
  BY DEF IInv, MemoryCopy, MemoryFollows, Settled
<1> QED
  BY <1>1, Invariance, PTL

\* Nothing replaces a configuration on the volume but a form whose session
\* holds a successful test.
THEOREM OnlyTestedIsSaved == Spec => SavedMarkedTested
<1>1. IInv /\ [Next]_vars =>
        [runtime # Absent /\ runtime' # runtime => marked']_vars
  <2> SUFFICES ASSUME IInv, Next, runtime # Absent, runtime' # runtime
               PROVE  marked'
    BY DEF vars
  <2>1. CASE ReplaceRuntime
    <3>1. SaveStep("replace", "truncate") /\ marked' = saving.metaOk
      BY <2>1 DEF ReplaceRuntime, Publish
    <3>2. saving.metaOk = TRUE
      BY <3>1, RunningSave DEF SavePhase
    <3> QED
      BY <3>1, <3>2
  <2>2. CASE SeedReplaces
    BY <2>2 DEF SeedReplaces, Boot, IInv, Alive
  <2>3. CASE ~ReplaceRuntime /\ ~SeedReplaces
    <3> USE DEF volume, CreateTmp, FillTmp
    <3>1. ~BootStep
      BY <2>3 DEF BootStep, StartProcess, Seed, SeedWrites, Generate, FillAtBoot, Construct,
                  ConstructFails, Mount
    <3>2. ~SavePasses
      BY <2>3 DEF SavePasses, SaveCreates, SaveWrites, TruncateDocling, FillDocling, Reload,
                  ReloadFails, SaveReturns
    <3> QED
      BY <3>1, <3>2 DEF Next, Crash, Open, Edit, FormRejected, TestClicked, TestReturns,
                        TestRaises, SaveClicked, WriteFails, AdminReload
  <2> QED
    BY <2>1, <2>2, <2>3
<1> QED
  BY <1>1, Invariance, PTL DEF Spec, SavedMarkedTested

=============================================================================
