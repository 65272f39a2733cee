\* Two technicians and two incidents of one station, in small doses.
SPECIFICATION GFairSpec
CONSTANTS
    Streams <- MCStreams
    Entries <- MCEntries
    BatchSize = 2
    u1 = u1
    u2 = u2
    Technicians = {u1, u2}
    NoUser = NoUser
    NoStats = NoStats
    NoLog = NoLog
    Incidents = {1, 2}
    FaultOf <- MCFaultOf
    Thresholds <- MCThresholds
    SilverAt = 20
    Window = 1
    Scenarios <- MCScenarios
INVARIANTS
    TypeOK
    StatsFollowLedger
    CountsAreExact
    PointsAreBacked
PROPERTIES
    EvaluationIsPaid
CHECK_DEADLOCK FALSE
