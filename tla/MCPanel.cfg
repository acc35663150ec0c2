\* The knob and one more client on an oven with three profiles.
SPECIFICATION PanelLiveSpec
CONSTANTS
    ProfileCount = 3
    Detents <- MCDetents
    QueueDepth = 2
    MaxInputs = 4
INVARIANTS
    ShowsTheOven
PROPERTIES
    PanelSettles
    
