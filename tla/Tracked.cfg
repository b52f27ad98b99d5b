CONSTANTS
    Calls <- MCCalls
    Label <- MCLabel
    Transcript = "transcripts"
    Stored <- MCStored
    MaxBatches = 2

SPECIFICATION ExportSpec
INVARIANTS
    TypeOK
    NeverOvercounted
    ExactWithoutClash
    BatchRestoresTotals
    HistoryIsTrue
    HistoryIsComplete
