\* The driver under a control loop whose ticks are one or two units of time apart.
SPECIFICATION Spec
CONSTANTS
    WindowMs = 7
    MinPulseMs = 2
    StaleMs = 4
    MaxGap = 2
    Horizon = 7
    Requests = {0, 200, 430, 600, 900, 1200}
INVARIANTS
    HaltedIsCold
    StaleIsCut
    EnergyBounded
PROPERTIES
    ImplementsDriver
    EnergyDelivered
CHECK_DEADLOCK FALSE
