SPECIFICATION FairSpec
CONSTANTS
    alice = alice
    bob = bob
    Clients <- MCClients
    MaxStarts = 2
    MaxSent = 2
INVARIANTS
    NoDangling
    FailsOnlyByOverlap
    Agreement
PROPERTIES
    Established
CHECK_DEADLOCK FALSE
