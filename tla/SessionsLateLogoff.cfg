SPECIFICATION Spec
CONSTANTS
    alice = alice
    bob = bob
    NoUser = NoUser
    Users <- MCUsers
    MaxConns = 2
    LoginTimeout = 2
    BlockDuration = 1
    MaxTime = 4
    Passwords = {"right"}
    Orderly = TRUE
SYMMETRY Symmetry
PROPERTIES
    OnlyIdleLoggedOff
CHECK_DEADLOCK FALSE
