-------------------------- MODULE MCAnalysisRequests --------------------------
(* AnalysisRequests on small instances. *)
EXTENDS AnalysisRequests, TLC

Symmetry == Permutations(Analysts) \cup Permutations(Explicit)
=============================================================================
