CONSTANTS
    Delegates = {"d1", "d2"}
    BucketOf <- MCBucketOf
    Gemini = "gemini"
    Other = "other"
    Low = 2
    Full = 2
    Renames = {"remaining_fraction"}

SPECIFICATION Spec
INVARIANTS
    TypeOK
    GaugeDecides
PROPERTY DelegateEnds
