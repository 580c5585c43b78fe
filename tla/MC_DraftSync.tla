---------------------------- MODULE MC_DraftSync ----------------------------
(* Instances of DraftSync for TLC. *)
EXTENDS DraftSync, TLC

Symmetry == Permutations(Senders) \cup Permutations(Reviewers)
=============================================================================
