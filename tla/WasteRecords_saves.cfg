\* One record or none to begin with; two requests, one of which may die.
SPECIFICATION Spec
CONSTANTS
    Handlers = {h1, h2}
    Docs = {d1, d2}
    Moves = {m1}
    Periods = {1, 2}
    Bodies <- SomeBodies
    Reading <- SameReading
    NoRef = NoRef
    Form = Form
    MaxJobs = 2
    MaxRecords = 2
    MaxDeaths = 1
SYMMETRY Symmetry
CHECK_DEADLOCK FALSE
INVARIANTS
    OneRecordPerLoad
    BulkNeverDoubles
    QuietRecordsAgree
    QuietTotals
