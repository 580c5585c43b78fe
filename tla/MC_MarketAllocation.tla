-------------------------- MODULE MC_MarketAllocation --------------------------
(* Instances of MarketAllocation for TLC: what records and instruments may say. *)
EXTENDS MarketAllocation

Record(kwh, date, facility, factor) ==
    [kwh |-> kwh, date |-> date, facility |-> facility, factor |-> factor]
Instrument(tier, facility, covered, from, to) ==
    [tier |-> tier, facility |-> facility, covered |-> covered, from |-> from, to |-> to]

SomeRecords ==
    {Record(2, 1, "a", "fits"), Record(3, 2, "a", "fits"), Record(1, 2, "b", "misfits")}
\* A certificate, a site's own certificate for the later date, and a tariff for the earlier.
SomeInstruments ==
    {Instrument(1, Anywhere, 2, 1, 2), Instrument(1, "a", 3, 2, 2),
     Instrument(2, Anywhere, Unlimited, 1, 1)}
=============================================================================
