---------------------------- MODULE MCServeTasks ----------------------------
(***************************************************************************)
(* Instances of ServeTasks for TLC: a task of each of two tenants.         *)
(***************************************************************************)
EXTENDS ServeTasks, TLC

CONSTANTS t1, t2, red, blue, q1, q2

TwoOwners == (t1 :> red @@ t2 :> blue)
=============================================================================
