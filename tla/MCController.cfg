\* Safety of the control loop: one command in flight at a time, a bus that loses nothing.
SPECIFICATION Spec
CONSTANTS
    MaxStep = 4
    MaxRejects = 3
    TempMin = 0
    TempMax = 15
    Profiles <- MCProfiles
    CoolGraceMs = 2
    WindowMs = 4
    MinPulseMs = 1
    AbsMax = 12
    SampleMs = 2
    RetryMs = 2
    PublishMs = 2
    Readings = {2, 5, 10, 13}
    Duties = {0, 500}
    Ticks = {1, 2}
    SelectArgs = {1, 2}
    QueueDepth = 1
    LossyBus = FALSE
INVARIANTS
    NoRunWithoutFrontEnd
    HeatOnlyInRun
    HeatOnlyBelowLimits
    HeatOnFreshReading
    OvertempTrips
    FrameTruthful
PROPERTIES
    SuppressionIsCounted
    ImplementsOvenSafety
    ImplementsCommandedOven
CHECK_DEADLOCK FALSE
