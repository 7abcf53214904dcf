------------------------- MODULE MCResultsPublication -------------------------
(* Two packages; results_publication explores two cycles.                     *)
EXTENDS ResultsPublication, TLC

TwoPackages == 1..2
AnyBatch == Permutations(Batches)
=============================================================================
