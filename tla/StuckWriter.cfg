CONSTANTS
    Events <- MCEvents
    SeriesOf <- MCSeriesOf
    Ts <- MCTs
    Faults = {"write_error"}
    MaxFaults = 1

SPECIFICATION LiveSpec
PROPERTY EventuallyCounted
