--------------------------- MODULE MCSearchBoundary ---------------------------
(***************************************************************************)
(* Values for model-checking SearchBoundary.                                *)
(***************************************************************************)
EXTENDS SearchBoundary, TLC

RequestsAndClients == Permutations(Requests) \cup Permutations(Clients)
=============================================================================
