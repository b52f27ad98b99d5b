CONSTANTS
    Events <- MCEvents
    SeriesOf <- MCSeriesOf
    Ts <- MCTs
    Faults = {"crash", "tear", "write_error", "fsync_error", "save_error", "collect_error", "force"}
    MaxFaults = 2

SPECIFICATION PowerSpec
INVARIANTS
    OvercountIsBounded
    CheckpointSurvivesPower
