\* Three requests and two sockets of one client; a technician and a supervisor.
SPECIFICATION HFairSpec
CONSTANTS
    ann = ann
    sue = sue
    Streams <- MCStreams
    Entries <- MCEntries
    BatchSize = 2
    Requests = {1, 2, 3}
    Sockets = {1, 2}
    Users = {ann, sue}
    Supervisors = {sue}
    Nobody = Nobody
    Buckets = {"login", "general"}
    Limit <- MCLimit
    Minute = 2
    TTL = 3
    LastWindow = 2
    Scenarios <- MCScenarios
INVARIANTS
    TypeOK
    LimitPerMinute
    CurrentTokensPass
    OpenSocketsGetEachEventOnce
PROPERTIES
    RequestsEnd
CHECK_DEADLOCK FALSE
