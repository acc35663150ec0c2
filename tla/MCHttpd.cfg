\* Two slots, so that one client can hold the thread while the other waits, and a third
\* can come while both are taken.  A page of three pieces is a slow download past the
\* send budget.  In this build the thread may end before it listens.
SPECIFICATION Spec
CONSTANTS
    MaxClients = 2
    IdleBudget = 2
    SendBudget = 1
    PushPeriod = 2
    PageChunks = 3
    Backlog = 1
    Window = 1
PROPERTIES
    ReaderIsKept
    HeardUnlessHeld
    DeadPeersLeave
CHECK_DEADLOCK FALSE
