\* Events of one organisation, delivered twice and out of order, and requests beside them.
SPECIFICATION Spec
CONSTANTS
    starter = starter
    growth = growth
    starter_monthly = starter_monthly
    starter_annual = starter_annual
    growth_monthly = growth_monthly
    Prices <- PricesSold
    Plans <- PlansSold
    PlanOf <- LookupKeys
    Deliveries = {h1, h2}
    Callers = {c1, c2}
    MaxEvents = 2
    MaxCalls = 2
    MaxFaults = 2
SYMMETRY Symmetry
CHECK_DEADLOCK FALSE
INVARIANTS
    QuietRowsMirrorStripe
    DeliveriesAreSound
    ChargesAreSound
