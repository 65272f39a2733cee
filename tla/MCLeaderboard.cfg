\* One incident that is breached and resolved; its three events are consumed by three tasks.
SPECIFICATION GSpec
CONSTANTS
    Streams <- MCStreams
    Entries <- MCEntries
    BatchSize = 2
    u1 = u1
    u2 = u2
    Technicians = {u1, u2}
    NoUser = NoUser
    NoStats = NoStats
    NoLog = NoLog
    Incidents = {1, 2}
    FaultOf <- MCFaultOf
    Thresholds <- MCThresholds
    SilverAt = 20
    Window = 1
    Scenarios <- MCRace
INVARIANTS
    ProfileAgreesWithLeaderboard
CHECK_DEADLOCK FALSE
