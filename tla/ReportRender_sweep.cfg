\* Two requests and two overlapping sweeps; invocations die and time passes.
SPECIFICATION FairSpec
CONSTANTS
    Requests = {r1, r2}
    Sweeps = {s1, s2}
    Deletions = {}
    Outputs <- PdfOnly
    MaxAttempts = 3
    StaleAfter = 3
    MaxDuration = 2
    Logos = {l1}
    Uploads = {}
    Saves = {}
    MaxDeaths = 2
INVARIANTS
    RendersAreLimited
PROPERTIES
    GivesUpUnfinished
    EveryReportEnds
