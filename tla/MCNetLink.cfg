\* One unit of time is five seconds; the budget is a minute.
SPECIFICATION LiveSpec
CONSTANTS
    SuperviseMs = 1
    MinWait = 3
    MaxWait = 6
    AssocMs = 3
    Budget = 12
    MaxAttempts = 3
    EventDepth = 2
INVARIANTS
    UpIsSignalled
    BackUnlessMisled
PROPERTIES
    LeaseIsRenewed
    ServerReached
