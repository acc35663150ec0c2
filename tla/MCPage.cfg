\* Two profiles; two commands under way, so that they can overtake each other; a queue
\* of one, so that it can be full.
SPECIFICATION Spec
CONSTANTS
    NProfiles = 2
    QueueLen = 1
    MaxFetches = 2
    MaxFrames = 1
INVARIANTS
    UntouchedFollows
PROPERTIES
    RefusalStands
    PageCatchesUp
