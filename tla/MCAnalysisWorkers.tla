--------------------------- MODULE MCAnalysisWorkers ---------------------------
(* One stream, two coordinators, two slots. *)
EXTENDS AnalysisWorkers, TLC

CONSTANTS s1, c1, c2, k1, k2

Symmetry == Permutations(Coordinators) \cup Permutations(Slots)
=============================================================================
