---------------------------- MODULE MC_WasteRecords ----------------------------
(* Instances of WasteRecords for TLC: what records may say and notes read as. *)
EXTENDS WasteRecords, TLC

Says(ref, weight, period) == [ref |-> ref, weight |-> weight, period |-> period]
\* Two loads of one reference, in two periods.
SomeBodies == {Says("n1", 1, 1), Says("n1", 2, 2)}
SameReading == [d \in Docs |-> Says("n1", 1, 1)]
Symmetry == Permutations(Handlers) \cup Permutations(Docs)
=============================================================================
