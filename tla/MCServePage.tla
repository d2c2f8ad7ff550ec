----------------------------- MODULE MCServePage -----------------------------
(***************************************************************************)
(* Instances of ServePage for TLC: two runs on one page.                   *)
(***************************************************************************)
EXTENDS ServePage, TLC

CONSTANTS t1, t2, anyone, p1, c1, c2

OneOwner == (t1 :> anyone @@ t2 :> anyone)
OnePage == (c1 :> p1 @@ c2 :> p1)
=============================================================================
