\* The runner on two profiles, ticked at one or two periods with any readings.
SPECIFICATION Spec
CONSTANTS
    MaxStep = 15
    MaxRejects = 3
    TempMin = 0
    TempMax = 100
    Profiles <- MCProfiles
    CoolGraceMs = 3
    Temps = {20, 38, 43, 58, 61, 66, 75}
    Steps = {1, 2}
INVARIANTS
    SetpointInRamp
    SetpointBelowAbort
    DoneIsEarned
    OverrunBounded
