\* Two incidents, two teams with room for one each, and one failure of any kind.
SPECIFICATION WFairSpec
CONSTANTS
    Streams <- MCStreams
    Entries <- MCEntries
    BatchSize = 2
    near = near
    far = far
    Teams = {near, far}
    NoTeam = NoTeam
    NoRow = NoRow
    Incidents = {i1, i2}
    Capacity = 1
    Specialists = {far}
    Scenarios <- MCScenarios
    Proximity <- MCProximity
INVARIANTS
    TypeOK
    
    CapacityRespected
    AnnouncedTeamWasLogged
PROPERTIES
    AtMostOnceInOrder
    RosterConverges
    StreamsAreDrained
CHECK_DEADLOCK FALSE
