\* A supervisor moves an incident to ATANDI through PATCH /status.
SPECIFICATION Spec
CONSTANTS
    Incidents = {i1}
    NoIncident = NoIncident
    Teams = {t1, t2}
    NoTeam = NoTeam
    noc = noc
    supervisor = supervisor
    customer = customer
    SystemActor = SystemActor
    Users <- MCUsers
    Callers <- MCCallers
    Belirsiz = Belirsiz
    FaultTypes = {Belirsiz}
    Workers = {w1}
    Scenarios <- MovingScenarios
    MaxFailures = 0
INVARIANT AssignedHasTeam
