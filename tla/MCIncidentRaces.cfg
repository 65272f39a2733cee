\* Two requests at a time over one incident, the SLA task, and one failure or crash.
SPECIFICATION Spec
CONSTANTS
    Incidents = {i1}
    NoIncident = NoIncident
    Teams = {t1, t2}
    NoTeam = NoTeam
    noc = noc
    supervisor = supervisor
    customer = customer
    SystemActor = SystemActor
    Users <- MCUsers
    Callers <- MCCallers
    Belirsiz = Belirsiz
    FaultTypes = {Belirsiz, isinma}
    Workers = {w1, w2}
    Scenarios <- RacingScenarios
    MaxFailures = 1
SYMMETRY Symmetry
INVARIANTS
    TypeOK
    StatusFollowsHistory
    ResolutionIsRecorded
    ResolvedHasVerdict
    BreachAnnouncedOnce
    ResolvedEventsBacked
    EvaluatedOnce
    ResolverIsAnnounced
    AssignmentIsAnnounced
    TypeChangesChain
PROPERTIES
    NothingWithdrawn
