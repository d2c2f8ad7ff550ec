----------------------------- MODULE AdminConfig -----------------------------
(***************************************************************************)
(* The configuration volume and everything that writes it: the bootstrap   *)
(* of a starting gateway and the Test and Save buttons of the admin page,  *)
(* with crashes between any two writes and restarts by the container       *)
(* runtime (restart: unless-stopped).                                      *)
(*                                                                         *)
(* gateway-runtime.yaml holds a form's content and the result of the last  *)
(* connection test; docling-serve.yaml is rendered from the content.  The  *)
(* first is written to a temporary file that replaces it, by the bootstrap *)
(* and by Save alike; the second is truncated and written in place.        *)
(*                                                                         *)
(* Gradio runs Test and Save in worker threads, one of each at a time      *)
(* (default concurrency limit), and hands each session its own copy of     *)
(* the two gr.State values.                                                *)
(*                                                                         *)
(* Abstractions.  A content is an element of Contents; the environment     *)
(* fallback and the steps of reload_gateway_state are module GatewayReload *)
(* and one step here; a click is served when it is made; a page does not   *)
(* outlive the gateway process that served it; a write that fails during   *)
(* start-up ends the process and is the Crash at that point.  A temporary  *)
(* file has a fresh name: one that a crash leaves behind is never opened   *)
(* again, and is left out.                                                 *)
(***************************************************************************)
EXTENDS Naturals

CONSTANTS
    Contents,     \* what the form may hold
    Default,      \* gateway-runtime.defaults.yaml with the environment's values
    Invalid,      \* contents form_to_runtime raises on
    Unloadable,   \* contents reload_gateway_state and build_gateway_state raise on
    Unmergeable,  \* those whose routing table cannot be built, the others
                  \* name a proxy that the HTTP client refuses
    Sessions,     \* browser sessions of the admin page
    Absent,       \* a file that does not exist, the session of an idle worker
    Torn,         \* a file that was truncated and not completely written
    MaxCrashes    \* bound: crashes of the gateway process

ASSUME ContentAssumption ==
    /\ Default \in Contents \ (Invalid \cup Unloadable)
    /\ Invalid \subseteq Contents
    /\ Unloadable \subseteq Contents
    /\ Unmergeable \subseteq Unloadable
ASSUME MarkerAssumption ==
    /\ Absent # Torn
    /\ {Absent, Torn} \cap Contents = {}
    /\ Absent \notin Sessions
    /\ MaxCrashes \in Nat

VARIABLES
    tmp,          \* the temporary file of save_runtime_config
    runtime,      \* gateway-runtime.yaml without its meta section
    marked,       \* its meta section: last_test_ok
    docling,      \* docling-serve.yaml, as the content it is rendered from
    process,      \* where the gateway process is in its life
    memory,       \* the content app.state.gateway was built from
    shown,        \* the runtime configuration the page was built with
    session,      \* session[s]: form fields, test_ok_state, runtime_state as
                  \* its content (state) and its meta section (metaOk)
    testing,      \* the Test worker: whose click it serves, and the form
    saving,       \* the Save worker: its phase, whose click, the arguments
    crashes,
    unfinished    \* history: what an interrupted write or Save left behind

vars == <<tmp, runtime, marked, docling, process, memory, shown, session, testing, saving,
          crashes, unfinished>>

volume == <<tmp, runtime, marked, docling>>
history == <<crashes, unfinished>>

Starting == {"seed", "write", "replace", "generate", "fill", "construct", "mount"}
SavePhase == {"idle", "create", "write", "replace", "truncate", "fill", "reload", "return"}
Closed == [open |-> FALSE, form |-> Default, testOk |-> FALSE,
           state |-> Default, metaOk |-> FALSE]
NoTest == [s |-> Absent, form |-> Default]
NoSave == [phase |-> "idle", s |-> Absent, form |-> Default, metaOk |-> FALSE]
Page == [open : BOOLEAN, form : Contents, testOk : BOOLEAN,
         state : Contents, metaOk : BOOLEAN]

TypeOK ==
    /\ tmp \in Contents \cup {Absent, Torn}
    /\ runtime \in Contents \cup {Absent, Torn}
    /\ marked \in BOOLEAN
    /\ docling \in Contents \cup {Absent, Torn}
    /\ process \in Starting \cup {"down", "up"}
    /\ memory \in Contents
    /\ shown \in [content : Contents, ok : BOOLEAN]
    /\ session \in [Sessions -> Page]
    /\ testing \in [s : Sessions, form : Contents] \cup {NoTest}
    /\ saving \in [phase : SavePhase \ {"idle"}, s : Sessions, form : Contents,
                   metaOk : BOOLEAN] \cup {NoSave}
    /\ crashes \in 0..MaxCrashes
    /\ unfinished \subseteq {"docling", "memory"}

\* The volume is new and empty.
Init ==
    /\ tmp = Absent
    /\ runtime = Absent
    /\ marked = FALSE
    /\ docling = Absent
    /\ process = "down"
    /\ memory = Default
    /\ shown = [content |-> Default, ok |-> FALSE]
    /\ session = [s \in Sessions |-> Closed]
    /\ testing = NoTest
    /\ saving = NoSave
    /\ crashes = 0
    /\ unfinished = {}

\* What load_runtime_config and the routing table and client built from it
\* do not raise on.
Loadable == runtime \in Contents \ Unloadable

-----------------------------------------------------------------------------
(* The steps of save_runtime_config, for the bootstrap and for Save.       *)

\* mkstemp
CreateTmp ==
    /\ tmp' = Torn
    /\ UNCHANGED <<runtime, marked>>

\* write_text
FillTmp(c) ==
    /\ tmp' = c
    /\ UNCHANGED <<runtime, marked>>

\* Path.replace
Publish(ok) ==
    /\ runtime' = tmp
    /\ marked' = ok
    /\ tmp' = Absent

-----------------------------------------------------------------------------
(* Start of the process: build_gateway_state, then mount_admin_ui.         *)

Boot(from, to) ==
    /\ process = from
    /\ process' = to

StartProcess ==
    /\ Boot("down", "seed")
    /\ UNCHANGED <<volume, memory, shown, session, testing, saving, history>>

\* The file is created exclusively: an existing one is an error.
SeedExclusively ==
    /\ runtime = Absent
    /\ Boot("seed", "write")
    /\ CreateTmp
    /\ UNCHANGED <<docling, memory, shown, session, testing, saving, history>>

\* ensure_runtime_config_seeded: an existing file is loaded, which raises if
\* it is not a mapping; otherwise one is created.
Seed ==
    /\ \/ /\ runtime = Absent
          /\ Boot("seed", "write")
          /\ CreateTmp
       \/ /\ runtime # Absent
          /\ Boot("seed", IF runtime = Torn THEN "down" ELSE "generate")
          /\ UNCHANGED <<tmp, runtime, marked>>
    /\ UNCHANGED <<docling, memory, shown, session, testing, saving, history>>

SeedWrites ==
    /\ Boot("write", "replace")
    /\ FillTmp(Default)
    /\ UNCHANGED <<docling, memory, shown, session, testing, saving, history>>

SeedReplaces ==
    /\ Boot("replace", "generate")
    /\ Publish(FALSE)
    /\ UNCHANGED <<docling, memory, shown, session, testing, saving, history>>

\* The bootstrap leaves docling-serve.yaml to the first Save.
GenerateNever ==
    /\ Boot("generate", "construct")
    /\ UNCHANGED <<volume, memory, shown, session, testing, saving, history>>

\* bootstrap_runtime_config renders docling-serve.yaml only if there is none.
Generate ==
    /\ \/ /\ docling = Absent
          /\ Boot("generate", "fill")
          /\ docling' = Torn
       \/ /\ docling # Absent
          /\ Boot("generate", "construct")
          /\ UNCHANGED docling
    /\ UNCHANGED <<tmp, runtime, marked, memory, shown, session, testing, saving, history>>

FillAtBoot ==
    /\ Boot("fill", "construct")
    /\ docling' = runtime
    /\ unfinished' = unfinished \ {"docling"}
    /\ UNCHANGED <<tmp, runtime, marked, memory, shown, session, testing, saving, crashes>>

\* The routing table and the client are built from the file.
Construct ==
    /\ Loadable
    /\ Boot("construct", "mount")
    /\ memory' = runtime
    /\ unfinished' = unfinished \ {"memory"}
    /\ UNCHANGED <<volume, shown, session, testing, saving, crashes>>

\* create_app raises and the process exits; the runtime will start it again.
ConstructFails ==
    /\ ~Loadable
    /\ Boot("construct", "down")
    /\ UNCHANGED <<volume, memory, shown, session, testing, saving, history>>

\* build_admin_blocks: the page is built once, with what is loaded now.
Mount ==
    /\ Boot("mount", "up")
    /\ shown' = [content |-> runtime, ok |-> marked]
    /\ UNCHANGED <<volume, memory, session, testing, saving, history>>

\* The process dies: pages and workers are gone, files stay as they are.
Crash ==
    /\ process # "down"
    /\ crashes < MaxCrashes
    /\ process' = "down"
    /\ crashes' = crashes + 1
    /\ session' = [s \in Sessions |-> Closed]
    /\ testing' = NoTest
    /\ saving' = NoSave
    /\ tmp' = Absent
    /\ unfinished' = unfinished \cup
           (IF saving.phase \in {"truncate", "fill"} \/ process = "fill" THEN {"docling"} ELSE {})
    /\ UNCHANGED <<runtime, marked, docling, memory, shown>>

-----------------------------------------------------------------------------
(* A browser session.                                                      *)

\* The page as it was built; gr.State values are copied for the session.
Open(s) ==
    /\ process = "up"
    /\ ~session[s].open
    /\ session' = [session EXCEPT ![s] =
                      [open |-> TRUE, form |-> shown.content, testOk |-> shown.ok,
                       state |-> shown.content, metaOk |-> shown.ok]]
    /\ UNCHANGED <<volume, process, memory, shown, testing, saving, history>>

\* The fields have no listeners: test_ok_state stays as it is.
Edit(s, c) ==
    /\ session[s].open
    /\ session[s].form # c
    /\ session' = [session EXCEPT ![s].form = c]
    /\ UNCHANGED <<volume, process, memory, shown, testing, saving, history>>

\* on_test or on_save with a form that is not valid: test_ok_state is reset,
\* unless it is an emptied number that raises a TypeError, which neither of
\* them catches: then nothing changes.
FormRejected(s) ==
    /\ session[s].open
    /\ session[s].form \in Invalid
    /\ session' = [session EXCEPT ![s].testOk = FALSE]
    /\ UNCHANGED <<volume, process, memory, shown, testing, saving, history>>

TestClicked(s) ==
    /\ session[s].open
    /\ session[s].form \notin Invalid
    /\ testing = NoTest
    /\ testing' = [s |-> s, form |-> session[s].form]
    /\ UNCHANGED <<volume, process, memory, shown, session, saving, history>>

\* runtime_state is left out of the outputs of the Test button.
TestReturnsFlagOnly(ok) ==
    /\ testing # NoTest
    /\ testing.form \notin Unmergeable
    /\ testing' = NoTest
    /\ session' = [session EXCEPT ![testing.s].testOk = ok]
    /\ UNCHANGED <<volume, process, memory, shown, saving, history>>

\* The probes have been answered or have timed out; outputs of on_test.
TestReturns(ok) ==
    /\ testing # NoTest
    /\ testing.form \notin Unmergeable
    /\ testing' = NoTest
    /\ session' = [session EXCEPT ![testing.s] =
                      [open |-> @.open, form |-> @.form, testOk |-> ok,
                       state |-> testing.form, metaOk |-> ok]]
    /\ UNCHANGED <<volume, process, memory, shown, saving, history>>

\* run_all_connection_tests raises, on the routing table, on a list of models
\* that is not JSON or on a URL that is none, and on_test does not catch it:
\* no output is applied, an earlier test_ok stays.
TestRaises ==
    /\ testing # NoTest
    /\ testing' = NoTest
    /\ UNCHANGED <<volume, process, memory, shown, session, saving, history>>

-----------------------------------------------------------------------------
(* Save: on_save and handle_save_config.  Without test_ok it changes       *)
(* nothing.                                                                *)

SaveClicked(s) ==
    /\ session[s].open
    /\ session[s].testOk
    /\ session[s].form \notin Invalid
    /\ saving.phase = "idle"
    /\ saving' = [phase |-> "create", s |-> s, form |-> session[s].form,
                  metaOk |-> session[s].metaOk]
    /\ UNCHANGED <<volume, process, memory, shown, session, testing, history>>

SaveStep(from, to) ==
    /\ saving.phase = from
    /\ saving' = IF to = "idle" THEN NoSave ELSE [saving EXCEPT !.phase = to]

SaveCreates ==
    /\ SaveStep("create", "write")
    /\ CreateTmp
    /\ UNCHANGED <<docling, process, memory, shown, session, testing, history>>

SaveWrites ==
    /\ SaveStep("write", "replace")
    /\ FillTmp(saving.form)
    /\ UNCHANGED <<docling, process, memory, shown, session, testing, history>>

ReplaceRuntime ==
    /\ SaveStep("replace", "truncate")
    /\ Publish(saving.metaOk)
    /\ UNCHANGED <<docling, process, memory, shown, session, testing, history>>

TruncateDocling ==
    /\ SaveStep("truncate", "fill")
    /\ docling' = Torn
    /\ UNCHANGED <<tmp, runtime, marked, process, memory, shown, session, testing, history>>

FillDocling ==
    /\ SaveStep("fill", "reload")
    /\ docling' = saving.form
    /\ unfinished' = unfinished \ {"docling"}
    /\ UNCHANGED <<tmp, runtime, marked, process, memory, shown, session, testing, crashes>>

\* The temporary file is moved whether or not it could be written.
WriteFailsMoves ==
    /\ saving.phase \in {"create", "write", "replace", "truncate", "fill"}
    /\ saving' = NoSave
    /\ unfinished' = unfinished \cup
           (IF saving.phase \in {"truncate", "fill"} THEN {"docling", "memory"} ELSE {})
    /\ tmp' = Absent
    /\ runtime' = IF tmp = Absent THEN runtime ELSE tmp
    /\ UNCHANGED <<marked, docling, process, memory, shown, session, testing, crashes>>

\* A write raises (no space left, read-only volume): on_save raises, its
\* outputs are not applied, a temporary file is removed, and nothing already
\* written is undone.
WriteFails ==
    /\ saving.phase \in {"create", "write", "replace", "truncate", "fill"}
    /\ saving' = NoSave
    /\ unfinished' = unfinished \cup
           (IF saving.phase \in {"truncate", "fill"} THEN {"docling", "memory"} ELSE {})
    /\ tmp' = Absent
    /\ UNCHANGED <<runtime, marked, docling, process, memory, shown, session, testing, crashes>>

\* Save leaves the reload to POST /admin/reload.
NoReload ==
    /\ SaveStep("reload", "return")
    /\ UNCHANGED <<volume, process, memory, shown, session, testing, history>>

\* reload_gateway_state reads the file, not the form.
Reload ==
    /\ Loadable
    /\ SaveStep("reload", "return")
    /\ memory' = runtime
    /\ unfinished' = unfinished \ {"memory"}
    /\ UNCHANGED <<volume, process, shown, session, testing, crashes>>

ReloadFails ==
    /\ ~Loadable
    /\ SaveStep("reload", "idle")
    /\ UNCHANGED <<volume, process, memory, shown, session, testing, history>>

\* The outputs of on_save: the flag it was given, and what it saved.
SaveReturns ==
    /\ SaveStep("return", "idle")
    /\ session' = [session EXCEPT ![saving.s] =
                      [open |-> @.open, form |-> @.form, testOk |-> TRUE,
                       state |-> saving.form, metaOk |-> saving.metaOk]]
    /\ UNCHANGED <<volume, process, memory, shown, testing, history>>

\* POST /admin/reload, possibly in the middle of a save.
AdminReload ==
    /\ process = "up"
    /\ Loadable
    /\ memory' = runtime
    /\ unfinished' = unfinished \ {"memory"}
    /\ UNCHANGED <<volume, process, shown, session, testing, saving, crashes>>

BootStep ==
    \/ StartProcess
    \/ Seed
    \/ SeedWrites
    \/ SeedReplaces
    \/ Generate
    \/ FillAtBoot
    \/ Construct
    \/ ConstructFails
    \/ Mount

SavePasses ==
    \/ SaveCreates
    \/ SaveWrites
    \/ ReplaceRuntime
    \/ TruncateDocling
    \/ FillDocling
    \/ Reload
    \/ ReloadFails
    \/ SaveReturns

Next ==
    \/ BootStep
    \/ Crash
    \/ \E s \in Sessions : Open(s)
    \/ \E s \in Sessions, c \in Contents : Edit(s, c)
    \/ \E s \in Sessions : FormRejected(s)
    \/ \E s \in Sessions : TestClicked(s)
    \/ \E ok \in BOOLEAN : TestReturns(ok)
    \/ TestRaises
    \/ \E s \in Sessions : SaveClicked(s)
    \/ SavePasses
    \/ WriteFails
    \/ AdminReload

Spec == Init /\ [][Next]_vars

\* The container runtime starts the process again and a start runs on; the
\* threads of Test and Save are scheduled, and every probe has a timeout.
Fairness ==
    /\ WF_vars(BootStep)
    /\ WF_vars(SavePasses \/ WriteFails)
    /\ WF_vars(TestRaises \/ \E ok \in BOOLEAN : TestReturns(ok))

FairSpec == Spec /\ Fairness

-----------------------------------------------------------------------------
(* Properties.                                                             *)

Settled == process = "up" /\ saving.phase = "idle"

\* gateway-runtime.yaml is absent or whole at every point, although a crash or
\* a failed write may hit while its successor is being written, and the file
\* on the way is there for another step to move (config_store.py 105-140).
RuntimeWhole == runtime # Torn

\* What a Save leaves on the volume is marked as tested, whatever order the
\* results of Test and Save are applied in: the flag that admits a Save and
\* the meta section it writes are always updated together.
SavedMarkedTested ==
    [][runtime # Absent /\ runtime' # runtime => marked']_vars

\* docling-serve.yaml is rendered from gateway-runtime.yaml, unless a crash
\* or a failed write hit between the two writes of the last Save or of the
\* first start.
DoclingFollows ==
    Settled /\ "docling" \notin unfinished => docling = runtime

\* The gateway serves what the volume holds, unless that cannot be loaded or
\* a Save failed between its first write and the reload.
MemoryFollows ==
    /\ Settled
    /\ "memory" \notin unfinished
    /\ runtime \notin Unloadable
    => memory = runtime

\* A gateway that went down comes up again, unless a configuration that
\* cannot be loaded was saved: the crash loop is the only way to stay down.
GatewayRestarts ==
    process = "down" ~> (process = "up" \/ runtime \in Unloadable)

=============================================================================
