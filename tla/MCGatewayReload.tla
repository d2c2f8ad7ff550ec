-------------------------- MODULE MCGatewayReload --------------------------
(***************************************************************************)
(* Instances of GatewayReload for TLC.                                     *)
(***************************************************************************)
EXTENDS GatewayReload, TLC

CONSTANTS c1, c2, c3, c4, p1, p2, pBad, none, q1, q2

\* Two configurations with proxies of their own: what is swapped is visible.
TwoProxies == (c1 :> p1 @@ c2 :> p2)

\* What a form may hold: a proxy, an empty field, a proxy of a scheme httpx
\* does not know, and a base URL with an unresolved placeholder.
MixedProxies == (c1 :> p1 @@ c2 :> none @@ c3 :> pBad @@ c4 :> p2)
=============================================================================
