---------------------------- MODULE MCServeWatch ----------------------------
(***************************************************************************)
(* Instances of ServeWatch for TLC: two clients, of which one keeps        *)
(* sending and the other only listens, on a task of the red tenant.        *)
(***************************************************************************)
EXTENDS ServeWatch, TLC

CONSTANTS t1, red, blue, asker, silent

RedTask == (t1 :> red)
=============================================================================
