CONSTANTS
    Sessions <- MCSessions
    MaxShutdowns = 2
    MaxNames = 1
    MaxUpsets = 2

SPECIFICATION Spec
INVARIANTS
    TypeOK
    ReadIsStored
    StoredOncePerUpset
    StoresNothingStale
    OnlyResumedIsShort
 
