SPECIFICATION FairSpec
CONSTANTS
    alice = alice
    bob = bob
    NoUser = NoUser
    Users <- MCUsers
    MaxConns = 2
    LoginTimeout = 1
    BlockDuration = 1
    MaxTime = 1
    Passwords = {"right"}
    Orderly = TRUE
INVARIANTS
    TypeOK
    NothingInherited
PROPERTIES
    NetReturns
CHECK_DEADLOCK FALSE
