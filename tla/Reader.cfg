CONSTANTS
    Requests <- MCRequests
    Titles <- MCTitles
    Files = 2
    FileOf <- MCFileOf
    Content = 3
    Pieces = {3}
    MaxLines <- MCMaxLines
    MaxFails = 1

SPECIFICATION Spec
INVARIANTS
    TypeOK
    NoLineTwice
    NoLinePassedOver
PROPERTIES
    EventuallyStored
    FreshReadIsNamed
    OneEventPerScan
