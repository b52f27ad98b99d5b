CONSTANTS
    Events <- MCEvents
    SeriesOf <- MCSeriesOf
    Ts <- MCTs
    Faults = {"crash", "tear"}
    MaxFaults = 1

SPECIFICATION Spec
INVARIANT CheckpointIsCounted
