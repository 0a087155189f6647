SPECIFICATION FairSpec
CONSTANTS
    NFds = 2
    MaxEvents = 2
    MaxBacklog = 3
INVARIANTS
    TableOK
    EventsAreCurrent
PROPERTIES
    RequestAnswered
    ReadInTheEnd
CHECK_DEADLOCK FALSE
