\* A conversation ends.
CHECK_DEADLOCK FALSE
SPECIFICATION FairSpec
CONSTANTS
    Size = 6
    MaxHeaders = 2
    EINTR = 4
    LineEnds <- AnyEnd
    Requests <- SomeRequests
INVARIANT FramedAsSent
INVARIANT HeadersOfOneRequest
INVARIANT NothingHandledOutOfStep
INVARIANT StaysInRoom
PROPERTY Answered
