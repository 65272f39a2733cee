\* Every background task of the service runs fairly; no operator comes.
SPECIFICATION FairSpec
CONSTANTS
    Incidents = {i1}
    NoIncident = NoIncident
    Teams = {t1, t2}
    NoTeam = NoTeam
    noc = noc
    supervisor = supervisor
    customer = customer
    SystemActor = SystemActor
    Users <- MCUsers
    Callers <- MCCallers
    Belirsiz = Belirsiz
    FaultTypes = {Belirsiz}
    Workers = {w1}
    Scenarios <- MovingScenarios
    MaxFailures = 0
PROPERTY ResolvedIsClosed
