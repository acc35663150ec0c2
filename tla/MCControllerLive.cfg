\* Liveness of the control loop: two commands in flight, frames may be lost.
SPECIFICATION LiveSpec
CONSTANTS
    MaxStep = 4
    MaxRejects = 2
    TempMin = 0
    TempMax = 15
    Profiles <- MCShortProfiles
    CoolGraceMs = 2
    WindowMs = 1
    MinPulseMs = 1
    AbsMax = 12
    SampleMs = 1
    RetryMs = 2
    PublishMs = 2
    Readings = {3, 6}
    Duties = {1000}
    Ticks = {1}
    SelectArgs = {256}
    QueueDepth = 2
    LossyBus = TRUE
PROPERTIES
    QueueDrains
    RunEnds
    FrontEndReturns
CHECK_DEADLOCK FALSE
