\* The responder stops.
CHECK_DEADLOCK FALSE
SPECIFICATION FairSpec
CONSTANTS
    Interfaces <- SomeInterfaces
    Packets <- SomePackets
    MaxPackets = 2
INVARIANT ReplyComplete
INVARIANT AnsweredExactly
INVARIANT GoodbyeBeforeFree
PROPERTY Announced
PROPERTY QueriesHeard
PROPERTY StopCompletes
