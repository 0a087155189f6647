SPECIFICATION FairStream
CONSTANTS
    InitCap = 4
    InCap = 4
    Lengths <- MCLengths
    MaxBytes = 7
INVARIANTS
    InputHasRoom
    EndToEnd
PROPERTIES
    IsQueue
    FailureIsWaiting
    AllArrive
CHECK_DEADLOCK FALSE
