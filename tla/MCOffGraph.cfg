\* Two requests that loaded the same row: the later commit moves the status off the graph.
SPECIFICATION Spec
CONSTANTS
    Incidents = {i1}
    NoIncident = NoIncident
    Teams = {t1, t2}
    NoTeam = NoTeam
    noc = noc
    supervisor = supervisor
    customer = customer
    SystemActor = SystemActor
    Users <- MCUsers
    Callers <- MCCallers
    Belirsiz = Belirsiz
    FaultTypes = {Belirsiz}
    Workers = {w1, w2}
    Scenarios <- MovingScenarios
    MaxFailures = 0
PROPERTY StatusMovesAlongGraph
