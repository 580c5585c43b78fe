--------------------------- MODULE MC_PeriodRuns ---------------------------
EXTENDS PeriodRuns, TLC

Symmetry ==
    Permutations(Runs) \cup Permutations(Requests) \cup Permutations(Records)
        \cup Permutations(Publishers)
=============================================================================
