--------------------------- MODULE MC_ImportBatch ---------------------------
(* Instances of ImportBatch for TLC. *)
EXTENDS ImportBatch, TLC

Symmetry == Permutations(Parsers) \cup Permutations(Committers) \cup Permutations(Deleters)
=============================================================================
