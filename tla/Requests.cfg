SPECIFICATION FairSpec
CONSTANTS
    Word = 16
    Numeral <- MCNumeral
    Users = {"alice", "bob", "carol"}
    Me = "alice"
    Lines <- MCLines
    Visitors = {"bob"}
    Budget = 3
    MaxTime = 1
INVARIANTS
    AsTyped
    BlockListIsSet
    AnswersInOrder
PROPERTIES
    WhoElseIsTrue
    AllHandled
CHECK_DEADLOCK FALSE
