\* Certificates drawn down over a run cut into chunks while users change things.
SPECIFICATION MarketSpec
CONSTANTS
    Electricity = {1, 2, 3}
    Instruments = {1, 2}
    RecordKinds <- SomeRecords
    InstrumentKinds <- SomeInstruments
    Batch = 2
    MaxChanges = 1
CHECK_DEADLOCK FALSE
INVARIANTS
    DrawnInOrder
    OneAllocation
    ClaimsAreSound
