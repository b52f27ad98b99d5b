CONSTANTS
    Requests <- MCRequests
    Titles <- MCTitles
    Files = 2
    FileOf <- MCFileOf
    Content = 3
    Pieces = {1}
    MaxLines <- MCMaxLines
    MaxFails = 0

SPECIFICATION Spec
INVARIANT NoLinePassedOver
