SPECIFICATION FairLogin
CONSTANTS
    MaxLogins = 4
INVARIANTS
    OneLoginAtATime
    ReadyIsWelcome
PROPERTIES
    EveryAnswerActedOn
CHECK_DEADLOCK FALSE
