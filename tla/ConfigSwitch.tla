---------------------------- MODULE ConfigSwitch ----------------------------
(***************************************************************************)
(* What a hot reload of the gateway promises to a request, with no notion  *)
(* of HTTP clients, volumes, threads or an event loop: one configuration   *)
(* is active at a time, it may be switched at any moment, and a request    *)
(* is handled from its acceptance to its answer under the configuration    *)
(* that was active when it was accepted, both for where it is sent (the    *)
(* routing table) and for how it is sent (the HTTP client with its         *)
(* timeout and retry settings).                                            *)
(***************************************************************************)
CONSTANTS
    Configs,    \* the configurations an operator may save
    Requests,   \* identities of concurrent inference requests
    Nothing     \* what a request that is not being handled is pinned to:
                \* no member of [table : Configs, client : Configs]

VARIABLES
    active,     \* the configuration new requests are accepted under
    pinned      \* pinned[q]: the configuration request q is handled under

vars == <<active, pinned>>

Pin(c) == [table |-> c, client |-> c]

Init ==
    /\ active \in Configs
    /\ pinned = [q \in Requests |-> Nothing]

Switch(c) ==
    /\ active' = c
    /\ UNCHANGED pinned

Accept(q) ==
    /\ pinned[q] = Nothing
    /\ pinned' = [pinned EXCEPT ![q] = Pin(active)]
    /\ UNCHANGED active

Answer(q) ==
    /\ pinned[q] # Nothing
    /\ pinned' = [pinned EXCEPT ![q] = Nothing]
    /\ UNCHANGED active

Next ==
    \/ \E c \in Configs : Switch(c)
    \/ \E q \in Requests : Accept(q) \/ Answer(q)

Spec == Init /\ [][Next]_vars
=============================================================================
