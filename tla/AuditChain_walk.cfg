\* Writers, walks, anonymisation, a deleted account and anchors at once.
SPECIFICATION FairSpec
CONSTANTS
    u1 = u1
    w1 = w1
    Writers = {w1, w2}
    Anchorers = {j1, j2}
    OldEntries = {"old", "a", "b"}
    Users = {u1}
    Author <- SomeAuthors
    LegacyChains <- SomeChains
CHECK_DEADLOCK FALSE
INVARIANTS
    TypeOK
    ChainHolds
    FalseAlarmsAreKnown
PROPERTIES
    ImplementsLog
    EveryCallEnds
