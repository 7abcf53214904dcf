------------------------- MODULE MCBatchOrchestrator -------------------------
(***************************************************************************)
(* Model-checking BatchOrchestrator.                                        *)
(***************************************************************************)
EXTENDS BatchOrchestrator
=============================================================================
