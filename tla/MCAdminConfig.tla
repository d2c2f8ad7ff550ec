---------------------------- MODULE MCAdminConfig ----------------------------
(***************************************************************************)
(* Instances of AdminConfig for TLC: a valid, a malformed and an           *)
(* unloadable content besides the defaults.                                *)
(***************************************************************************)
EXTENDS AdminConfig, TLC

CONSTANTS default, good, malformed, refused, tab1, tab2
=============================================================================
