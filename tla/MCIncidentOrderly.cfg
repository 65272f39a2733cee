\* Two requests at a time over one incident that are not both moves, every operation, the
\* SLA task, and one failure or crash.
SPECIFICATION OrderlyFairSpec
CONSTANTS
    Incidents = {i1}
    NoIncident = NoIncident
    Teams = {t1}
    NoTeam = NoTeam
    noc = noc
    supervisor = supervisor
    customer = customer
    SystemActor = SystemActor
    Users <- MCUsers
    Callers <- MCCallers
    Belirsiz = Belirsiz
    FaultTypes = {Belirsiz, isinma}
    Workers = {w1, w2}
    Scenarios <- OrderlyScenarios
    MaxFailures = 1
PROPERTIES
    ImplementsLifecycle
    OverdueIsDecided
    BreachIsAnnounced
    ResolutionIsAnnounced
