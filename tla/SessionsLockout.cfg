SPECIFICATION Spec
CONSTANTS
    alice = alice
    bob = bob
    NoUser = NoUser
    Users = {alice}
    MaxConns = 2
    LoginTimeout = 1
    BlockDuration = 2
    MaxTime = 3
    Passwords = {"right", "wrong"}
    Orderly = FALSE
PROPERTIES
    NoSessionWhileLocked
    
CHECK_DEADLOCK FALSE
