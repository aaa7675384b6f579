CONSTANTS
    u1 = u1
    u2 = u2
    Users <- MCUsers
    c1 = c1
    c2 = c2
    Callers <- MCCallers
    Rosters <- MCRosters
    UidSets <- MCUidSets
    Explored <- MCExplored
    MaxCalls = 3
    Test = FALSE
SPECIFICATION Spec
INVARIANT SuccessMeansDone
INVARIANT GatewayFollowsAnswers
INVARIANT RemovedNoticeIsPrivate
INVARIANT HolesAreFilled
SYMMETRY MCSymmetry
