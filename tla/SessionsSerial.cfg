SPECIFICATION SerialFairSpec
CONSTANTS
    alice = alice
    bob = bob
    NoUser = NoUser
    Users <- MCUsers
    MaxConns = 3
    LoginTimeout = 1
    BlockDuration = 1
    MaxTime = 2
    Passwords = {"right"}
    Orderly = TRUE
INVARIANTS
    NoDanglingClient
    
PROPERTIES
    OnlyIdleLoggedOff
    
    IdleIsReaped
CHECK_DEADLOCK FALSE
