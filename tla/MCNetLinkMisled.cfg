\* The promise of a minute, against the code.
SPECIFICATION Spec
CONSTANTS
    SuperviseMs = 1
    MinWait = 3
    MaxWait = 6
    AssocMs = 3
    Budget = 12
    MaxAttempts = 3
    EventDepth = 2
INVARIANTS
    BackInBudget
