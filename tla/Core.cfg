CONSTANTS
    Events <- MCEvents
    SeriesOf <- MCSeriesOf
    Ts <- MCTs
    Faults = {"crash", "write_error", "fsync_error", "save_error", "collect_error"}
    MaxFaults = 3

SPECIFICATION Spec
INVARIANTS
    TypeOK
    CheckpointIsCounted
    FirstBackfillInOrder
    BackfillCountsOnce
PROPERTIES
    TotalsNeverDrop
    LedgerSpec
