------------------------------ MODULE MCRouting ------------------------------
(***************************************************************************)
(* Instances of Routing for TLC: one stage of the KServe adapter and the   *)
(* two stages of the OpenAI proxy, both backends that are filled from the  *)
(* environment and the native KServe backend.                              *)
(***************************************************************************)
EXTENDS Routing, TLC

CONSTANTS u1, u2, uNative, k1, k2, m1, m2, ocr, vlm, code, vision, text,
          native, none

OneKServeName == (ocr :> m2)
StageEndpoint == (ocr :> vision @@ vlm :> vision @@ code :> text)
StageModes == (ocr :> "openai_vision" @@ vlm :> "openai_proxy" @@ code :> "openai_text")

NoBackend == [url |-> none, key |-> none, model |-> none]
Server(u, k, m) == [url |-> u, key |-> k, model |-> m]

DefaultFile ==
    [backend |-> (vision :> Server(u1, none, m1) @@ text :> Server(u2, none, m2) @@
                  native :> NoBackend),
     stages |-> <<>>]

\* The variables of the vision backend are set or not, to the values of the
\* file or to others; KSERVE_NATIVE_API_KEY is set or not.
TwoEnvirons ==
    {(vision :> Server(u1, k1, m1) @@ text :> Server(u2, none, m2) @@ native :> NoBackend),
     (vision :> Server(u2, none, m2) @@ text :> Server(u1, k1, m1) @@
      native :> Server(none, k2, none))}

PlainStage == [endpoint |-> vision, mode |-> "openai_vision", model |-> m1, relay |-> none]
TextStage == [endpoint |-> text, mode |-> "openai_text", model |-> m2, relay |-> none]
PlainText == Server(u2, none, m2)

\* The vision and the native backend in every way ...
VisionForms ==
    {[backend |-> (vision :> Server(u, k, m) @@ text :> PlainText @@ native :> Server(n, k, none)),
      stages |-> (ocr :> [PlainStage EXCEPT !.model = m] @@ vlm :> PlainStage @@ code :> TextStage)] :
        u \in {u2, none}, k \in {k2, none}, m \in {m2, none}, n \in {uNative, none}}

\* ... the text backend ...
TextForms ==
    {[backend |-> (vision :> Server(u1, k1, m1) @@ text :> Server(u2, k, m) @@ native :> NoBackend),
      stages |-> (ocr :> PlainStage @@ vlm :> PlainStage @@ code :> [TextStage EXCEPT !.model = m])] :
        k \in {k2, none}, m \in {m1, m2, none}}

\* ... and one stage at a time in every way, with and without a native URL.
StageChoices ==
    {c \in [endpoint : {vision, native}, mode : {"openai_proxy", "kserve_relay"},
            model : {m2, none}, relay : {m1, none}] :
        c.relay = none <=> c.mode = "openai_proxy"}
StageForms ==
    {[backend |-> (vision :> Server(u1, k1, m1) @@ text :> PlainText @@ native :> Server(n, none, none)),
      stages |-> [(ocr :> PlainStage @@ vlm :> PlainStage @@ code :> TextStage) EXCEPT ![s] = c]] :
        n \in {uNative, none}, s \in {ocr, vlm}, c \in StageChoices}

SomeForms == {f \in VisionForms \cup TextForms \cup StageForms : RelayComplete(f)}
=============================================================================
