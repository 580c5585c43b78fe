\* A parse resumed by the sweep, raced by two commits and a deletion, ends.
SPECIFICATION FairSpec
CONSTANTS
    Parsers = {p1, p2}
    Committers = {c1, c2}
    Deleters = {d1}
    Chunks = 2
    References = {"a", "b"}
    CleanUnder = {"a"}
    Budget = 1
    MaxDuration = 1
    StaleAfter = 2
    MaxAttempts = 2
INVARIANTS
    TypeOK
    ExclusiveParser
    StagedWhole
    StartsAreCounted
PROPERTY ParsingEnds
