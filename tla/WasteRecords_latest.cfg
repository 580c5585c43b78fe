\* A record saved, and then another of its period.
SPECIFICATION Spec
CONSTANTS
    Handlers = {h1}
    Docs = {}
    Moves = {}
    Periods = {1, 2}
    Bodies <- SomeBodies
    Reading <- SameReading
    NoRef = NoRef
    Form = Form
    MaxJobs = 1
    MaxRecords = 2
    MaxDeaths = 0
CHECK_DEADLOCK FALSE
INVARIANT EarlierRowsSuperseded
