CONSTANTS
    CloseCap = 1
    OutCap = 2
    MaxMessages = 3
SPECIFICATION FairSpec
INVARIANTS
    TypeOK
    NeverClosedUnasked
PROPERTIES
    FailureReported
    ClosedWhenAsked
    ActorGetsThrough
CHECK_DEADLOCK FALSE
