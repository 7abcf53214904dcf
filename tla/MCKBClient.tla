------------------------------ MODULE MCKBClient ------------------------------
(***************************************************************************)
(* Model-checking KBClient; liveness is checked, so there is no symmetry.   *)
(***************************************************************************)
EXTENDS KBClient
=============================================================================
