SPECIFICATION FairSpec
CONSTANTS
    Window = 2
    Distance = 5
    Sequences <- MCSequences
CHECK_DEADLOCK FALSE
INVARIANTS TypeOK AtMostOnce MarksAreTrue AcceptedWhenDue UndoneIsShort
PROPERTIES PromiseKept EveryVAASettled
