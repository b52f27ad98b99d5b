CONSTANTS
    Calls <- MCCalls
    Label <- MCLabel
    Transcript = "transcripts"
    Stored <- MCStored
    MaxBatches = 0

SPECIFICATION Spec
INVARIANT ExactWithoutClash
