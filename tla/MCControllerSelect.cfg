\* A selection whose argument is no index: 257 truncates to the index 1.
SPECIFICATION LiveSpec
CONSTANTS
    MaxStep = 4
    MaxRejects = 3
    TempMin = 0
    TempMax = 15
    Profiles <- MCProfiles
    CoolGraceMs = 2
    WindowMs = 4
    MinPulseMs = 1
    AbsMax = 12
    SampleMs = 2
    RetryMs = 2
    PublishMs = 2
    Readings = {2}
    Duties = {0}
    Ticks = {1}
    SelectArgs = {257}
    QueueDepth = 1
    LossyBus = FALSE
PROPERTIES
    UnresolvedRefused
CHECK_DEADLOCK FALSE
