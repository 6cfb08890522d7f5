SPECIFICATION FairVeleroSpec
CONSTANTS
    Pvcs = {p1}
    ClaimPool <- MCClaims
    MountPool <- MCPods
    SchedulePool <- MCSchedules
    MaxSchedules = 1
    Absent = absent
    Unset = unset
    ListsMayFail = TRUE
INVARIANTS
    VeleroTypeOK
    SettledVerdictIsTrue
PROPERTY ClosedGapClears
