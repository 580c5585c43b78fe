\* Two requests and a sweep, while a report is deleted, and a logo is uploaded and another saved.
SPECIFICATION Spec
CONSTANTS
    Requests = {r1, r2}
    Sweeps = {s1}
    Deletions = {d1}
    Outputs <- PdfAndXml
    MaxAttempts = 2
    StaleAfter = 2
    MaxDuration = 1
    Logos = {l1}
    Uploads = {u1}
    Saves = {b1}
    MaxDeaths = 1
SYMMETRY Symmetry
INVARIANTS
    ReadyIsWhole
    CacheShowsTheLogo
