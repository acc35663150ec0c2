\* Two profiles, so that index 1 is one and index 2 is not.
SPECIFICATION Spec
CONSTANTS
    Requests <- MCRequests
    Values <- MCValues
    Token = "secret"
    Ipv4 <- MCIpv4
    TooLong <- MCTooLong
    Authority <- MCAuthority
    Index <- MCIndex
    NProfiles = 2
INVARIANTS
    GateIsExact
    DeedMatchesAnswer
    StopIsHeard
CHECK_DEADLOCK FALSE
