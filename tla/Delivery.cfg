SPECIFICATION FairSpec
CONSTANTS
    alice = alice
    bob = bob
    NoUser = NoUser
    Users <- MCUsers
    Room = 2
    MaxSteps = 4
INVARIANTS
    
    NeverForgotten

    
    
CHECK_DEADLOCK FALSE
