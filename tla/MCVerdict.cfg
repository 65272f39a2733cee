\* The SLA task and a resolution, each holding a copy from before the other's commit.
SPECIFICATION Spec
CONSTANTS
    Incidents = {i1}
    NoIncident = NoIncident
    Teams = {t1, t2}
    NoTeam = NoTeam
    noc = noc
    supervisor = supervisor
    customer = customer
    SystemActor = SystemActor
    Users <- MCUsers
    Callers <- MCCallers
    Belirsiz = Belirsiz
    FaultTypes = {Belirsiz}
    Workers = {w1}
    Scenarios <- MovingScenarios
    MaxFailures = 0
PROPERTY VerdictIsFinal
