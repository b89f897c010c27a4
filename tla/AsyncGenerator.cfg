CONSTANTS
    MaxRequests = 4
    MaxAwaits = 2
SPECIFICATION FairSpec
INVARIANTS BodyExclusive PendingExact HeadIsServed
PROPERTIES KeepsOrder RequestsAnswered
CHECK_DEADLOCK FALSE
