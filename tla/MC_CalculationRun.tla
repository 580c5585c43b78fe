-------------------------- MODULE MC_CalculationRun --------------------------
(* Instances of CalculationRun for TLC. *)
EXTENDS CalculationRun, TLC

Symmetry == Permutations(Records) \cup Permutations(Invocations)
=============================================================================
