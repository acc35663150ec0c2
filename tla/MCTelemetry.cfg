SPECIFICATION Spec
CONSTANTS
    Frames = {f1, f2}
    Fields = {state, fault}
    SubQueue = 2
    PubTimeout = 2
    ReadTimeout = 2
    LockTimeout = 1
INVARIANTS
    WholeFrames
    PublishIsBounded
PROPERTIES
    DisplayCatchesUp
