-------------------------------- MODULE MC_Billing --------------------------------
(* Instances of Billing for TLC. *)
EXTENDS Billing, TLC

CONSTANTS starter, growth, starter_monthly, starter_annual, growth_monthly

PlansSold == {starter, growth}
PricesSold == {starter_monthly, starter_annual, growth_monthly}
LookupKeys == (starter_monthly :> starter) @@ (starter_annual :> starter) @@ (growth_monthly :> growth)

\* The two prices of one plan are interchangeable.
Symmetry == Permutations(Deliveries) \cup Permutations(Callers)
            \cup Permutations({starter_monthly, starter_annual})
=============================================================================
