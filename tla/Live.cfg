CONSTANTS
    Events <- MCEvents
    SeriesOf <- MCSeriesOf
    Ts <- MCTs
    Faults = {"crash", "fsync_error", "save_error", "collect_error"}
    MaxFaults = 2

SPECIFICATION ScraperLiveSpec
INVARIANTS
    IndexMatchesLog
    ScrapedIsStored
PROPERTIES
    ScrapesNeverDrop
    EventuallyCounted
