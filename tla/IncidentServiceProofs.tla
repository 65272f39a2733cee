------------------------ MODULE IncidentServiceProofs ------------------------
(***************************************************************************)
(* Theorems about the incident service for any number of incidents,        *)
(* concurrent requests, teams and failures.                                *)
(***************************************************************************)
EXTENDS IncidentService, SequenceTheorems, TLAPS

\* A fresh row is a row.
LEMMA NewRowType == \A ft \in FaultTypes : NewRow(ft) \in Row
  BY UsersAssumption DEF NewRow, Row, Statuses

\* Writing only the changed columns of a row yields a row.
LEMMA MergeType == \A db, snap, want \in Row : Merge(db, snap, want) \in Row
  BY DEF Merge, Row

\* Each column of a merge is the one the request wanted if it changed it, else the stored one.
LEMMA MergeColumns ==
    ASSUME NEW db \in Row, NEW snap \in Row, NEW want \in Row
    PROVE  LET m == Merge(db, snap, want) IN
           /\ m.status = IF want.status # snap.status THEN want.status ELSE db.status
           /\ m.team = IF want.team # snap.team THEN want.team ELSE db.team
           /\ m.sla = IF want.sla # snap.sla THEN want.sla ELSE db.sla
           /\ m.resolved = IF want.resolved # snap.resolved THEN want.resolved ELSE db.resolved
  BY DEF Merge, Row

\* The assignments the handlers and the SLA task make keep a row a row.
LEMMA RowUpdates ==
    /\ \A r \in Row : Resolve(r) \in Row
    /\ \A r \in Row, st \in Statuses : [r EXCEPT !.status = st] \in Row
    /\ \A r \in Row, t \in Teams : [r EXCEPT !.status = "ATANDI", !.team = t] \in Row
    /\ \A r \in Row, ft \in FaultTypes : [r EXCEPT !.faultType = ft, !.override = TRUE] \in Row
    /\ \A r \in Row : [r EXCEPT !.sla = "BREACHED"] \in Row
<1>1. \A r \in Row : Resolve(r) \in Row
  BY DEF Resolve, Row, Statuses
<1>2. \A r \in Row, st \in Statuses : [r EXCEPT !.status = st] \in Row
  BY DEF Row
<1>3. \A r \in Row, t \in Teams : [r EXCEPT !.status = "ATANDI", !.team = t] \in Row
  BY UsersAssumption DEF Row, Statuses
<1>4. \A r \in Row, ft \in FaultTypes : [r EXCEPT !.faultType = ft, !.override = TRUE] \in Row
  BY DEF Row
<1>5. \A r \in Row : [r EXCEPT !.sla = "BREACHED"] \in Row
  BY DEF Row
<1> QED
  BY <1>1, <1>2, <1>3, <1>4, <1>5

LEMMA TaskUpdate ==
    ASSUME NEW t \in Task, NEW pc \in {"committed", "publishing", "committing"}
    PROVE  /\ [t EXCEPT !.pc = pc] \in Task
           /\ [t EXCEPT !.pc = pc].inc = t.inc
           /\ [t EXCEPT !.pc = pc].op = t.op
  BY DEF Task

LEMMA IdleType == Idle \in Task
  BY NewRowType, UsersAssumption, FaultTypesAssumption DEF Idle, Task

LEMMA PublishType ==
    ASSUME NEW s \in Streams, NEW e \in Event, streams \in [Streams -> Seq(Event)],
           Publish(s, e)
    PROVE  streams' \in [Streams -> Seq(Event)]
  BY DEF Publish

LEMMA QuotaType ==
    ASSUME quota \in [Operations -> Nat], NEW op \in Operations, Accepted(op)
    PROVE  quota' \in [Operations -> Nat]
  BY DEF Accepted

\* The first half of a handler keeps the types if the object it wants to write is a row.
LEMMA LoadType ==
    ASSUME TypeOK, NEW w \in Workers, NEW op \in Operations, NEW i \in Incidents,
           NEW c \in Callers, NEW want \in Row, Load(w, op, i, c, want)
    PROVE  TypeOK'
<1>1. c.id \in Users
  BY UsersAssumption
<1>2. [pc |-> "loaded", op |-> op, inc |-> i, by |-> c.id, snap |-> row[i], want |-> want,
       at |-> clock + 1] \in Task
  BY <1>1 DEF TypeOK, Task
<1>3. /\ task' \in [Workers -> Task] /\ quota' \in [Operations -> Nat]
      /\ clock' \in Nat /\ contested' \subseteq Incidents
  BY <1>2 DEF TypeOK, Load, Accepted
<1>4. \A v \in Workers : task'[v].pc \notin {"idle", "predicting"} => task'[v].inc \in Incidents
  BY DEF TypeOK, Load
<1> QED
  BY <1>3, <1>4 DEF TypeOK, Load, database, ghosts

LEMMA AcceptType ==
    ASSUME TypeOK, NEW w \in Workers, Accept(w)
    PROVE  TypeOK'
<1> USE DEF TypeOK
<1>1. CASE SubmitTelemetry(w)
  <2>1. [Idle EXCEPT !.pc = "predicting", !.op = "telemetry", !.at = clock] \in Task
    BY IdleType DEF Task, Operations
  <2>2. quota' \in [Operations -> Nat]
    BY <1>1, QuotaType DEF SubmitTelemetry, Operations
  <2> QED
    BY <1>1, <2>1, <2>2 DEF SubmitTelemetry, Idle, database, ghosts
<1>2. ASSUME NEW i \in Incidents, NEW c \in Callers, ReportIncident(w, i, c)
      PROVE  TypeOK'
  <2>1. [Idle EXCEPT !.pc = "publishing", !.op = "report", !.inc = i] \in Task
    BY IdleType DEF Task, Operations
  <2>2. quota' \in [Operations -> Nat]
    BY <1>2, QuotaType DEF ReportIncident, Operations
  <2> QED
    BY <1>2, <2>1, <2>2, NewRowType, FaultTypesAssumption, IncidentsAssumption
       DEF ReportIncident, Idle, ghosts
<1>3. ASSUME NEW i \in Incidents, NEW c \in Callers, NEW to \in Statuses, LoadStatus(w, i, c, to)
      PROVE  TypeOK'
  <2> DEFINE want == IF to = "COZULDU" THEN Resolve(row[i]) ELSE [row[i] EXCEPT !.status = to]
  <2>1. want \in Row
    BY RowUpdates
  <2>2. Load(w, "status", i, c, want)
    BY <1>3 DEF LoadStatus
  <2> HIDE DEF want
  <2> QED
    BY <2>1, <2>2, LoadType DEF Operations
<1>4. ASSUME NEW i \in Incidents, NEW c \in Callers, NEW t \in Teams, LoadAssign(w, i, c, t)
      PROVE  TypeOK'
  <2> DEFINE want == [row[i] EXCEPT !.status = "ATANDI", !.team = t]
  <2>1. want \in Row
    BY RowUpdates
  <2>2. Load(w, "assign", i, c, want)
    BY <1>4 DEF LoadAssign
  <2> HIDE DEF want
  <2> QED
    BY <2>1, <2>2, LoadType DEF Operations
<1>5. ASSUME NEW i \in Incidents, NEW c \in Callers, NEW ft \in FaultTypes,
             LoadFaultType(w, i, c, ft)
      PROVE  TypeOK'
  <2> DEFINE want == [row[i] EXCEPT !.faultType = ft, !.override = TRUE]
  <2>1. want \in Row
    BY RowUpdates
  <2>2. Load(w, "faultType", i, c, want)
    BY <1>5 DEF LoadFaultType
  <2> HIDE DEF want
  <2> QED
    BY <2>1, <2>2, LoadType DEF Operations
<1>6. ASSUME NEW i \in Incidents, NEW c \in Callers, LoadEvaluation(w, i, c)
      PROVE  TypeOK'
  BY <1>6, LoadType DEF LoadEvaluation, Operations
<1>7. ASSUME NEW i \in Incidents, NEW c \in Callers, LoadMessage(w, i, c)
      PROVE  TypeOK'
  BY <1>7, LoadType DEF LoadMessage, Operations
<1>8. ASSUME NEW i \in Incidents, NEW c \in Callers, LoadNote(w, i, c)
      PROVE  TypeOK'
  BY <1>8, LoadType DEF LoadNote, Operations
<1> QED
  BY <1>1, <1>2, <1>3, <1>4, <1>5, <1>6, <1>7, <1>8 DEF Accept

LEMMA EventType == \A t \in Task : t.inc \in Incidents => EventOf(t) \in Event
  BY FaultTypesAssumption DEF EventOf, Announcement, Event, Task, Row

LEMMA StatusRowType == \A t \in Task : StatusRow(t) \in HistoryRow
  BY DEF StatusRow, HistoryRow, Task, Row

LEMMA ProceedType ==
    ASSUME TypeOK, NEW w \in Workers, Proceed(w)
    PROVE  TypeOK'
<1> DEFINE t == task[w]
<1> USE DEF TypeOK
<1>0. /\ t \in Task
      /\ t.pc \notin {"idle", "predicting"} => t.inc \in Incidents
  OBVIOUS
<1>m. t.inc \in Incidents => Merge(row[t.inc], t.snap, t.want) \in Row
  BY <1>0, MergeType DEF Task
<1>g. ASSUME NEW pc \in {"committed", "publishing", "committing"}, t.inc \in Incidents, Goto(w, pc)
      PROVE  /\ task' \in [Workers -> Task]
             /\ \A v \in Workers : task'[v].pc \notin {"idle", "predicting"}
                                      => task'[v].inc \in Incidents
  <2> DEFINE u == [t EXCEPT !.pc = pc]
  <2>1. task' = [task EXCEPT ![w] = u]
    BY <1>g DEF Goto
  <2>2. u \in Task /\ u.inc = t.inc
    BY <1>0, TaskUpdate
  <2> HIDE DEF u
  <2> QED
    BY <2>1, <2>2, <1>g, <1>0
<1>f. ASSUME Finish(w)
      PROVE  /\ task' \in [Workers -> Task]
             /\ \A v \in Workers : task'[v].pc \notin {"idle", "predicting"}
                                      => task'[v].inc \in Incidents
  BY <1>f, IdleType DEF Finish, Idle
<1>1. CASE CommitStatus(w)
  <2>1. t.inc \in Incidents /\ t.by \in Users
    BY <1>1, <1>0 DEF CommitStatus, Loaded, Task
  <2>2. row' \in [Incidents -> Row] /\ history' \in [Incidents -> Seq(HistoryRow)]
    BY <1>1, <1>m, <1>0, <2>1, StatusRowType DEF CommitStatus
  <2>3. notes' \subseteq Incidents \X Users
    BY <1>1, <2>1 DEF CommitStatus
  <2> QED
    BY <1>1, <1>g, <1>f, <2>1, <2>2, <2>3 DEF CommitStatus, ghosts
<1>2. CASE Refresh(w)
  BY <1>2, <1>0 DEF Refresh, database, ghosts, Task
<1>3. CASE CommitAssign(w)
  <2>1. t.inc \in Incidents
    BY <1>3, <1>0 DEF CommitAssign, Loaded
  <2>2. row' \in [Incidents -> Row] /\ history' \in [Incidents -> Seq(HistoryRow)]
    BY <1>3, <1>m, <1>0, <2>1, StatusRowType DEF CommitAssign
  <2> QED
    BY <1>3, <1>g, <2>1, <2>2 DEF CommitAssign, ghosts
<1>4. CASE CommitFaultType(w)
  <2>1. t.inc \in Incidents
    BY <1>4, <1>0 DEF CommitFaultType, Loaded
  <2>2. row' \in [Incidents -> Row]
    BY <1>4, <1>m, <2>1 DEF CommitFaultType
  <2> QED
    BY <1>4, <1>g, <2>1, <2>2 DEF CommitFaultType, ghosts
<1>5. CASE CommitEvaluation(w)
  <2>1. t.inc \in Incidents
    BY <1>5, <1>0 DEF CommitEvaluation, Loaded
  <2> QED
    BY <1>5, <1>g, <1>f, <2>1 DEF CommitEvaluation, ghosts
<1>6. CASE CommitMessage(w)
  <2>1. t.inc \in Incidents /\ t.by \in Users
    BY <1>6, <1>0 DEF CommitMessage, Loaded, Task
  <2> QED
    BY <1>6, <1>f, <2>1 DEF CommitMessage, ghosts
<1>7. CASE CommitNote(w)
  <2>1. t.inc \in Incidents /\ t.by \in Users
    BY <1>7, <1>0 DEF CommitNote, Loaded, Task
  <2> QED
    BY <1>7, <1>f, <2>1 DEF CommitNote, ghosts
<1>8. CASE PublishCommitted(w)
  <2>1. EventOf(t) \in Event
    BY <1>8, <1>0, EventType DEF PublishCommitted
  <2>2. StreamOf(t.op) \in Streams
    BY DEF StreamOf, Streams
  <2>3. streams' \in [Streams -> Seq(Event)]
    BY <1>8, <2>1, <2>2, PublishType DEF PublishCommitted
  <2> QED
    BY <1>8, <1>f, <2>3 DEF PublishCommitted, database, ghosts
<1>9. CASE KeepWatching(w)
  BY <1>9, <1>f DEF KeepWatching, database, ghosts
<1>10. ASSUME NEW i \in Incidents, NEW ft \in FaultTypes, NEW available \in BOOLEAN,
              OpenIncident(w, i, ft, available)
       PROVE  TypeOK'
  <2>1. Announcement(i, NoTeam, ft, Belirsiz) \in Event
    BY FaultTypesAssumption DEF Announcement, Event
  <2>2. streams' \in [Streams -> Seq(Event)]
    BY <1>10, <2>1, PublishType DEF OpenIncident, Streams
  <2>3. NewRow(ft) \in Row
    BY NewRowType
  <2>4. /\ task' \in [Workers -> Task]
        /\ \A v \in Workers : task'[v].pc \notin {"idle", "predicting"}
                                 => task'[v].inc \in Incidents
    BY <1>10, <1>0, <2>3 DEF OpenIncident, Task
  <2> QED
    BY <1>10, <2>2, <2>4 DEF OpenIncident, ghosts
<1>11. CASE AutoAssignQueued(w)
  BY <1>11, <1>0, <1>g DEF AutoAssignQueued, database, ghosts
<1>12. ASSUME NEW team \in Teams, AutoAssign(w, team)
       PROVE  TypeOK'
  <2>1. t.inc \in Incidents /\ team \in Users
    BY <1>12, <1>0, UsersAssumption DEF AutoAssign
  <2>2. Announcement(t.inc, team, Belirsiz, Belirsiz) \in Event
    BY <2>1, FaultTypesAssumption DEF Announcement, Event
  <2>3. streams' \in [Streams -> Seq(Event)]
    BY <1>12, <2>2, PublishType DEF AutoAssign, Streams
  <2>4. /\ task' \in [Workers -> Task]
        /\ \A v \in Workers : task'[v].pc \notin {"idle", "predicting"}
                                 => task'[v].inc \in Incidents
    BY <1>12, <1>0, <2>1, ZenonT(60) DEF AutoAssign, Task, Row, Statuses
  <2> QED
    BY <1>12, <2>3, <2>4 DEF AutoAssign, database, ghosts
<1>13. CASE CommitTelemetry(w)
  <2>1. t.inc \in Incidents /\ t.want \in Row
    BY <1>13, <1>0 DEF CommitTelemetry, Task
  <2>2. history' \in [Incidents -> Seq(HistoryRow)]
    BY <1>13, <1>0, <2>1, StatusRowType DEF CommitTelemetry
  <2> QED
    BY <1>13, <1>f, <2>1, <2>2 DEF CommitTelemetry, ghosts
<1> QED
  BY <1>1, <1>2, <1>3, <1>4, <1>5, <1>6, <1>7, <1>8, <1>9, <1>10, <1>11, <1>12, <1>13
     DEF Proceed

LEMMA ScheduleType ==
    ASSUME TypeOK, Schedule
    PROVE  TypeOK'
<1> USE DEF TypeOK
<1>1. CASE SchedulerSelect
  <2>1. \A i \in Due : Announcement(i, row[i].team, Belirsiz, Belirsiz) \in Event
    BY FaultTypesAssumption DEF Due, Announcement, Event, Row
  <2> QED
    BY <1>1, <2>1 DEF SchedulerSelect, database, ghosts
<1>2. CASE SchedulerCommit
  <2>1. row' \in [Incidents -> Row]
    BY <1>2, RowUpdates DEF SchedulerCommit
  <2> QED
    BY <1>2, <2>1 DEF SchedulerCommit, ghosts
<1>3. ASSUME NEW e \in scheduler.batch, SchedulerPublish(e)
      PROVE  TypeOK'
  <2>1. streams' \in [Streams -> Seq(Event)]
    BY <1>3, PublishType DEF SchedulerPublish, Streams
  <2> QED
    BY <1>3, <2>1 DEF SchedulerPublish, Resting, database, ghosts
<1> QED
  BY <1>1, <1>2, <1>3 DEF Schedule

LEMMA NextType ==
    ASSUME TypeOK, [Next]_vars
    PROVE  TypeOK'
<1>0. /\ \A w \in Workers : Owed(w) \subseteq Incidents \X Streams
      /\ OwedByScheduler \subseteq Incidents \X Streams
  <2>1. ASSUME NEW w \in Workers
        PROVE  Owed(w) \subseteq Incidents \X Streams
    <3>1. StreamOf(task[w].op) \in Streams
      BY DEF StreamOf, Streams
    <3>2. task[w].pc \in {"committed", "publishing"} => task[w].inc \in Incidents
      BY DEF TypeOK
    <3> QED
      BY <3>1, <3>2 DEF Owed
  <2>2. OwedByScheduler \subseteq Incidents \X Streams
    BY DEF TypeOK, OwedByScheduler, Event, Streams
  <2> QED
    BY <2>1, <2>2
<1>1. ASSUME NEW w \in Workers, RequestFails(w)
      PROVE  TypeOK'
  BY <1>0, <1>1, IdleType DEF TypeOK, RequestFails, Finish, Idle, database, ghosts
<1>2. ASSUME NEW i \in Incidents, DeadlinePasses(i)
      PROVE  TypeOK'
  BY <1>2 DEF TypeOK, DeadlinePasses, database, ghosts, ghosts
<1>3. CASE SchedulerFails
  BY <1>0, <1>3 DEF TypeOK, SchedulerFails, Resting, database, ghosts
<1>4. CASE Crash
  <2>1. unsent' \subseteq Incidents \X Streams
    BY <1>0, <1>4 DEF TypeOK, Crash
  <2> QED
    BY <1>4, <2>1, IdleType DEF TypeOK, Crash, Resting, Idle, database, ghosts
<1>5. CASE UNCHANGED vars
  BY <1>5 DEF TypeOK, vars
<1> QED
  BY <1>1, <1>2, <1>3, <1>4, <1>5, AcceptType, ProceedType, ScheduleType DEF Next

\* The variables keep their types in every reachable state, for any number of incidents,
\* workers, teams and fault types.
THEOREM TypeCorrect == Spec => []TypeOK
<1>1. Init => TypeOK
  BY IdleType, NewRowType, FaultTypesAssumption, BoundsAssumption DEF Init, TypeOK, Resting, Idle
<1>2. TypeOK /\ [Next]_vars => TypeOK'
  BY NextType
<1> QED
  BY <1>1, <1>2, PTL DEF Spec

-----------------------------------------------------------------------------
(* The inductive invariant about rows.                                     *)

\* The status is the target of the history row committed last, which the table cannot tell.
LastRecorded(i) ==
    IF history[i] = <<>> THEN "YENI" ELSE history[i][Len(history[i])].to

LastMoveIsStatus == \A i \in Incidents : row[i].status = LastRecorded(i)

\* A row nobody has committed is still blank.
BlankUntilStored ==
    \A i \in Incidents \ stored : row[i] = NewRow(Belirsiz) /\ history[i] = <<>>

Opening(w) == task[w].pc \in {"assigning", "committing"}

\* A telemetry request owns the id it generated until its commit, and intends to write a
\* fresh row; everybody else works on stored incidents.
OpeningsAreExclusive ==
    /\ stored \subseteq used
    /\ \A w \in Workers : Opening(w) =>
          /\ task[w].inc \in used \ stored
          /\ ~task[w].want.resolved /\ task[w].want.sla = "ACTIVE"
          /\ task[w].want.status \in {"YENI", "ATANDI"}
    /\ \A v, w \in Workers : Opening(v) /\ Opening(w) /\ v # w => task[v].inc # task[w].inc
    /\ \A w \in Workers : task[w].pc = "loaded" => task[w].inc \in stored
    /\ \A e \in scheduler.batch : e.inc \in stored

\* What a handler has loaded may be stale in one direction only: verdicts, teams and
\* resolutions it saw are still there.  And what it wants is what its checks allowed.
SnapshotsOnlyLag ==
    \A w \in Workers : task[w].pc = "loaded" =>
        LET t == task[w] IN
        /\ t.snap.sla # "ACTIVE" => row[t.inc].sla # "ACTIVE"
        /\ t.snap.team # NoTeam => row[t.inc].team # NoTeam
        /\ t.snap.resolved => row[t.inc].resolved
        /\ t.want.sla # t.snap.sla => t.want.sla = "MET" /\ t.want.resolved
        /\ t.want.team = NoTeam => t.snap.team = NoTeam
        /\ t.snap.resolved => t.want.resolved
        /\ t.want.resolved => t.want.sla # "ACTIVE"
        /\ t.want.status \in TerminalStatuses => t.want.resolved
        /\ t.op \in {"status", "assign"} => t.want.status # t.snap.status
        /\ t.op = "assign" => t.want.status = "ATANDI"
        /\ t.op \in {"status", "assign"} /\ t.want.status # "COZULDU" =>
              t.want.resolved = t.snap.resolved
        /\ t.op \notin {"status", "assign"} =>
              t.want.status = t.snap.status /\ t.want.resolved = t.snap.resolved

RowInv ==
    /\ BlankUntilStored
    /\ OpeningsAreExclusive
    /\ SnapshotsOnlyLag
    /\ LastMoveIsStatus
    /\ ResolutionIsRecorded
    /\ ResolvedHasVerdict

\* A row is never taken back: what NothingWithdrawn says of one row.
Advances(r, s) ==
    /\ r.sla # "ACTIVE" => s.sla # "ACTIVE"
    /\ r.team # NoTeam => s.team # NoTeam
    /\ r.resolved => s.resolved

\* Committing a loaded object advances its row, records a resolution exactly when the
\* object has one, and leaves no resolved row without a verdict.
LEMMA MergeAdvances ==
    ASSUME TypeOK, RowInv, NEW w \in Workers, task[w].pc = "loaded"
    PROVE  LET t == task[w]
               m == Merge(row[t.inc], t.snap, t.want)
           IN  /\ Advances(row[t.inc], m)
               /\ t.want.resolved => m.resolved
               /\ m.resolved => t.want.resolved \/ row[t.inc].resolved
               /\ t.want.resolved = t.snap.resolved => m.resolved = row[t.inc].resolved
               /\ t.want.status # t.snap.status => m.status = t.want.status
               /\ t.want.status = t.snap.status => m.status = row[t.inc].status
               /\ m.resolved => m.sla # "ACTIVE"
               /\ m.sla = "MET" => m.resolved
<1> DEFINE t == task[w]
           i == t.inc
           m == Merge(row[i], t.snap, t.want)
<1>1. /\ t \in Task /\ i \in Incidents
      /\ row[i] \in Row /\ t.snap \in Row /\ t.want \in Row
  BY DEF TypeOK, Task
<1>2. /\ m.status = IF t.want.status # t.snap.status THEN t.want.status ELSE row[i].status
      /\ m.team = IF t.want.team # t.snap.team THEN t.want.team ELSE row[i].team
      /\ m.sla = IF t.want.sla # t.snap.sla THEN t.want.sla ELSE row[i].sla
      /\ m.resolved = IF t.want.resolved # t.snap.resolved THEN t.want.resolved ELSE row[i].resolved
  BY <1>1, MergeColumns, SMTT(60)
<1>3. /\ t.snap.sla # "ACTIVE" => row[i].sla # "ACTIVE"
      /\ t.snap.team # NoTeam => row[i].team # NoTeam
      /\ t.snap.resolved => row[i].resolved
      /\ t.want.sla # t.snap.sla => t.want.sla = "MET" /\ t.want.resolved
      /\ t.want.team = NoTeam => t.snap.team = NoTeam
      /\ t.snap.resolved => t.want.resolved
      /\ t.want.resolved => t.want.sla # "ACTIVE"
  BY DEF RowInv, SnapshotsOnlyLag
<1>4. /\ row[i].resolved => row[i].sla # "ACTIVE"
      /\ row[i].sla = "MET" => row[i].resolved
  BY <1>1 DEF RowInv, ResolvedHasVerdict
<1>5. /\ t.want.resolved \in BOOLEAN /\ t.snap.resolved \in BOOLEAN /\ row[i].resolved \in BOOLEAN
  BY <1>1 DEF Row
<1> HIDE DEF t, i, m
<1>6. Advances(row[i], m)
  BY <1>2, <1>3, <1>5 DEF Advances
<1>7. /\ t.want.resolved => m.resolved
      /\ m.resolved => t.want.resolved \/ row[i].resolved
      /\ t.want.resolved = t.snap.resolved => m.resolved = row[i].resolved
  BY <1>2, <1>3, <1>5
<1>8. /\ m.resolved => m.sla # "ACTIVE"
      /\ m.sla = "MET" => m.resolved
  BY <1>2, <1>3, <1>4, <1>5
<1> QED
  BY <1>2, <1>6, <1>7, <1>8 DEF t, i, m

\* A step that touches no row, no history and no opening or freshly loaded task.
LEMMA QuietStep ==
    ASSUME RowInv,
           row' = row, history' = history, stored' = stored, used' = used,
           notes \subseteq notes',
           \A v \in Workers : \/ task'[v] = task[v]
                               \/ task'[v].pc \notin {"loaded", "assigning", "committing"},
           \A e \in scheduler'.batch : e.inc \in stored
    PROVE  RowInv'
<1>1. BlankUntilStored' /\ LastMoveIsStatus' /\ ResolvedHasVerdict'
  BY DEF RowInv, BlankUntilStored, LastMoveIsStatus, LastRecorded, ResolvedHasVerdict
<1>2. ResolutionIsRecorded'
  BY DEF RowInv, ResolutionIsRecorded
<1>3. OpeningsAreExclusive'
  BY DEF RowInv, OpeningsAreExclusive, Opening
<1>4. SnapshotsOnlyLag'
  BY DEF RowInv, SnapshotsOnlyLag
<1> QED
  BY <1>1, <1>2, <1>3, <1>4 DEF RowInv

\* Loading a row: the assignments respect what the invariant says about a handler's wish.
LEMMA LoadRowInv ==
    ASSUME TypeOK, RowInv, NEW w \in Workers, NEW op \in Operations, NEW i \in Incidents,
           NEW c \in Callers, NEW want \in Row, Load(w, op, i, c, want),
           want.sla # row[i].sla => want.sla = "MET" /\ want.resolved,
           want.team = NoTeam => row[i].team = NoTeam,
           row[i].resolved => want.resolved,
           want.resolved => want.sla # "ACTIVE",
           want.status \in TerminalStatuses => want.resolved,
           op = "assign" => want.status = "ATANDI",
           op \in {"status", "assign"} => want.status # row[i].status,
           op \in {"status", "assign"} /\ want.status # "COZULDU" =>
                want.resolved = row[i].resolved,
           op \notin {"status", "assign"} =>
                want.status = row[i].status /\ want.resolved = row[i].resolved
    PROVE  RowInv'
<1> DEFINE u == [pc |-> "loaded", op |-> op, inc |-> i, by |-> c.id, snap |-> row[i], want |-> want,
       at |-> clock + 1]
<1>1. /\ task' = [task EXCEPT ![w] = u]
      /\ row' = row /\ stored' = stored /\ used' = used /\ history' = history /\ notes' = notes
      /\ scheduler' = scheduler /\ i \in stored
  BY DEF Load, database, ghosts
<1>2. /\ u.pc = "loaded" /\ u.op = op /\ u.inc = i /\ u.snap = row[i] /\ u.want = want
  OBVIOUS
<1> HIDE DEF u
<1>3. /\ task'[w] = u
      /\ \A v \in Workers : v # w => task'[v] = task[v]
  BY <1>1 DEF TypeOK
<1>4. BlankUntilStored' /\ LastMoveIsStatus' /\ ResolvedHasVerdict' /\ ResolutionIsRecorded'
  BY <1>1 DEF RowInv, BlankUntilStored, LastMoveIsStatus, LastRecorded, ResolvedHasVerdict,
              ResolutionIsRecorded
<1>5. OpeningsAreExclusive'
  BY <1>1, <1>2, <1>3 DEF RowInv, OpeningsAreExclusive, Opening
<1>6. SnapshotsOnlyLag'
  <2> SUFFICES ASSUME NEW v \in Workers, task'[v].pc = "loaded"
               PROVE  SnapshotsOnlyLag!(v)'
    BY DEF SnapshotsOnlyLag
  <2> QED
    BY <1>1, <1>2, <1>3 DEF RowInv, SnapshotsOnlyLag
<1> QED
  BY <1>4, <1>5, <1>6 DEF RowInv

LEMMA TransitionFacts ==
    ASSUME NEW from, NEW to, NEW c, NEW team, ValidTransition(from, to, c, team)
    PROVE  /\ from # to
           /\ to = "KAPANDI" => from = "COZULDU"
  BY DEF ValidTransition, ALLOWED_TRANSITIONS

LEMMA AcceptRowInv ==
    ASSUME TypeOK, RowInv, NEW w \in Workers, Accept(w)
    PROVE  RowInv'
<1>0. \A i \in Incidents :
        /\ row[i] \in Row
        /\ row[i].resolved => row[i].sla # "ACTIVE"
        /\ row[i].status \in TerminalStatuses => row[i].resolved
  BY DEF TypeOK, RowInv, ResolvedHasVerdict, ResolutionIsRecorded
<1>1. CASE SubmitTelemetry(w)
  <2>1. \A v \in Workers : task'[v] = task[v] \/ task'[v].pc = "predicting"
    BY <1>1 DEF SubmitTelemetry, Idle, TypeOK
  <2> QED
    BY <1>1, <2>1, QuietStep DEF SubmitTelemetry, Accepted, database, ghosts, RowInv, OpeningsAreExclusive
<1>2. ASSUME NEW i \in Incidents, NEW c \in Callers, ReportIncident(w, i, c)
      PROVE  RowInv'
  <2>1. /\ i \notin stored /\ row' = [row EXCEPT ![i] = NewRow(Belirsiz)]
        /\ stored' = stored \cup {i} /\ used' = used \cup {i} /\ i \notin used
        /\ history' = history /\ notes' = notes /\ scheduler' = scheduler
    BY <1>2 DEF ReportIncident, RowInv, OpeningsAreExclusive
  <2>2. row[i] = NewRow(Belirsiz) /\ row' = row
    BY <2>1 DEF RowInv, BlankUntilStored, TypeOK
  <2>3. \A v \in Workers : task'[v] = task[v] \/ task'[v].pc = "publishing"
    BY <1>2 DEF ReportIncident, Idle, TypeOK
  <2>4. BlankUntilStored' /\ LastMoveIsStatus' /\ ResolvedHasVerdict' /\ ResolutionIsRecorded'
    BY <2>1, <2>2, SMTT(60) DEF RowInv, BlankUntilStored, LastMoveIsStatus, LastRecorded,
                      ResolvedHasVerdict, ResolutionIsRecorded
  <2>5. OpeningsAreExclusive'
    BY <2>1, <2>3 DEF RowInv, OpeningsAreExclusive, Opening
  <2>6. SnapshotsOnlyLag'
    BY <2>2, <2>3 DEF RowInv, SnapshotsOnlyLag
  <2> QED
    BY <2>4, <2>5, <2>6 DEF RowInv
<1>3. ASSUME NEW i \in Incidents, NEW c \in Callers, NEW to \in Statuses, LoadStatus(w, i, c, to)
      PROVE  RowInv'
  <2> DEFINE want == IF to = "COZULDU" THEN Resolve(row[i]) ELSE [row[i] EXCEPT !.status = to]
  <2>1. want \in Row
    BY <1>0, RowUpdates
  <2>2. Load(w, "status", i, c, want)
    BY <1>3 DEF LoadStatus
  <2>3. row[i].status # to /\ (to = "KAPANDI" => row[i].status = "COZULDU")
    BY <1>3, TransitionFacts DEF LoadStatus
  <2>4. /\ want.status = to
        /\ want.team = row[i].team
        /\ want.sla = IF to = "COZULDU" /\ row[i].sla = "ACTIVE" THEN "MET" ELSE row[i].sla
        /\ want.resolved = IF to = "COZULDU" THEN TRUE ELSE row[i].resolved
    BY <1>0 DEF Resolve, Row
  <2> HIDE DEF want
  <2>5. /\ want.sla # row[i].sla => want.sla = "MET" /\ want.resolved
        /\ row[i].resolved => want.resolved
        /\ want.resolved => want.sla # "ACTIVE"
        /\ want.status \in TerminalStatuses => want.resolved
        /\ want.status # "COZULDU" => want.resolved = row[i].resolved
    BY <1>0, <2>3, <2>4 DEF TerminalStatuses
  <2> QED
    BY <2>1, <2>2, <2>3, <2>4, <2>5, LoadRowInv DEF Operations
<1>4. ASSUME NEW i \in Incidents, NEW c \in Callers, NEW t \in Teams, LoadAssign(w, i, c, t)
      PROVE  RowInv'
  <2> DEFINE want == [row[i] EXCEPT !.status = "ATANDI", !.team = t]
  <2>1. want \in Row
    BY <1>0, RowUpdates
  <2>2. Load(w, "assign", i, c, want)
    BY <1>4 DEF LoadAssign
  <2>3. row[i].status # "ATANDI"
    BY <1>4, TransitionFacts DEF LoadAssign
  <2>4. /\ want.status = "ATANDI" /\ want.team = t /\ want.sla = row[i].sla
        /\ want.resolved = row[i].resolved
    BY <1>0 DEF Row
  <2>5. t # NoTeam
    BY UsersAssumption
  <2> HIDE DEF want
  <2> QED
    BY <1>0, <2>1, <2>2, <2>3, <2>4, <2>5, LoadRowInv DEF Operations, TerminalStatuses
<1>5. ASSUME NEW i \in Incidents, NEW c \in Callers, NEW ft \in FaultTypes,
             LoadFaultType(w, i, c, ft)
      PROVE  RowInv'
  <2> DEFINE want == [row[i] EXCEPT !.faultType = ft, !.override = TRUE]
  <2>1. want \in Row
    BY <1>0, RowUpdates
  <2>2. Load(w, "faultType", i, c, want)
    BY <1>5 DEF LoadFaultType
  <2>3. /\ want.status = row[i].status /\ want.team = row[i].team /\ want.sla = row[i].sla
        /\ want.resolved = row[i].resolved
    BY <1>0 DEF Row
  <2> HIDE DEF want
  <2> QED
    BY <1>0, <2>1, <2>2, <2>3, LoadRowInv DEF Operations
<1>6. ASSUME NEW i \in Incidents, NEW c \in Callers, NEW op \in {"evaluate", "message", "note"},
             Load(w, op, i, c, row[i])
      PROVE  RowInv'
  BY <1>0, <1>6, LoadRowInv DEF Operations
<1> QED
  BY <1>1, <1>2, <1>3, <1>4, <1>5, <1>6 DEF Accept, LoadEvaluation, LoadMessage, LoadNote

\* The commit of a status change or an assignment: the row is merged and the history grows
\* by the move to the wanted status.
LEMMA MoveRowInv ==
    ASSUME TypeOK, RowInv, NEW w \in Workers, NEW t, NEW i, t = task[w], i = t.inc,
           Loaded(w, "status") \/ Loaded(w, "assign"),
           row' = [row EXCEPT ![i] = Merge(@, t.snap, t.want)],
           history' = [history EXCEPT ![i] = Append(@, StatusRow(t))],
           stored' = stored, used' = used, scheduler' = scheduler, notes \subseteq notes',
           t.want.status = "COZULDU" => <<i, t.by>> \in notes',
           \A v \in Workers : v # w => task'[v] = task[v],
           task'[w].pc \in {"idle", "committed", "publishing"}
    PROVE  RowInv'
<1> DEFINE m == Merge(row[i], t.snap, t.want)
           h == StatusRow(t)
<1>1. /\ t \in Task /\ i \in Incidents /\ i \in stored /\ t.pc = "loaded"
      /\ t.op \in {"status", "assign"} /\ h \in HistoryRow /\ h.to = t.want.status /\ h.by = t.by
  BY StatusRowType DEF TypeOK, Loaded, RowInv, OpeningsAreExclusive, StatusRow
<1>2. /\ t.want.status # t.snap.status
      /\ t.want.status \in TerminalStatuses => t.want.resolved
      /\ t.want.status # "COZULDU" => t.want.resolved = t.snap.resolved
  BY <1>1, SMTT(60) DEF RowInv, SnapshotsOnlyLag
<1>3. /\ Advances(row[i], m)
      /\ t.want.resolved => m.resolved
      /\ t.want.resolved = t.snap.resolved => m.resolved = row[i].resolved
      /\ m.status = t.want.status
      /\ m.resolved => m.sla # "ACTIVE"
      /\ m.sla = "MET" => m.resolved
  BY <1>1, <1>2, MergeAdvances
<1>4. /\ row'[i] = m
      /\ history'[i] = Append(history[i], h)
      /\ history[i] \in Seq(HistoryRow)
      /\ \A j \in Incidents \ {i} : row'[j] = row[j] /\ history'[j] = history[j]
  BY <1>1 DEF TypeOK
<1>5. /\ Len(history'[i]) = Len(history[i]) + 1
      /\ DOMAIN history[i] = 1 .. Len(history[i])
      /\ DOMAIN history'[i] = 1 .. Len(history[i]) + 1
      /\ history'[i][Len(history[i]) + 1] = h
      /\ \A k \in 1 .. Len(history[i]) : history'[i][k] = history[i][k]
      /\ Len(history[i]) \in Nat
  BY <1>1, <1>4
<1>6. \A v \in Workers : \/ task'[v] = task[v]
                          \/ task'[v].pc \in {"idle", "committed", "publishing"}
  OBVIOUS
<1>n. history'[i] # <<>>
  BY <1>1, <1>4, AppendProperties
<1> HIDE DEF m, h
<1>7. /\ notes \subseteq notes' /\ (t.want.status = "COZULDU" => <<i, t.by>> \in notes')
      /\ stored' = stored /\ used' = used /\ scheduler' = scheduler
  OBVIOUS
<1>8. BlankUntilStored'
  BY <1>1, <1>4, <1>7 DEF RowInv, BlankUntilStored
<1>9. LastMoveIsStatus'
  <2> SUFFICES ASSUME NEW j \in Incidents
               PROVE  row'[j].status = LastRecorded(j)'
    BY SMTT(60) DEF LastMoveIsStatus
  <2>1. CASE j = i
    <3>1. LastRecorded(j)' = history'[i][Len(history'[i])].to
      BY <1>n, <2>1 DEF LastRecorded
    <3> QED
      BY <1>1, <1>3, <1>4, <1>5, <2>1, <3>1
  <2>2. CASE j # i
    BY <1>4, <2>2 DEF RowInv, LastMoveIsStatus, LastRecorded
  <2> QED
    BY <2>1, <2>2
<1>10. ResolvedHasVerdict'
  BY <1>3, <1>4, SMTT(60) DEF RowInv, ResolvedHasVerdict
<1>11. ResolutionIsRecorded'
  <2> SUFFICES ASSUME NEW j \in Incidents
               PROVE  /\ row'[j].resolved <=> \E k \in DOMAIN history'[j] : history'[j][k].to = "COZULDU"
                      /\ \A k \in DOMAIN history'[j] :
                            history'[j][k].to = "COZULDU" => <<j, history'[j][k].by>> \in notes'
                      /\ row'[j].status \in TerminalStatuses => row'[j].resolved
    BY DEF ResolutionIsRecorded
  <2>1. /\ row[j].resolved <=> \E k \in DOMAIN history[j] : history[j][k].to = "COZULDU"
        /\ \A k \in DOMAIN history[j] :
                history[j][k].to = "COZULDU" => <<j, history[j][k].by>> \in notes
        /\ row[j].status \in TerminalStatuses => row[j].resolved
    BY DEF RowInv, ResolutionIsRecorded
  <2>2. CASE j # i
    BY <1>4, <1>7, <2>1, <2>2, ZenonT(60)
  <2>3. CASE j = i
    <3>1. (\E k \in DOMAIN history'[i] : history'[i][k].to = "COZULDU")
            <=> h.to = "COZULDU" \/ \E k \in DOMAIN history[i] : history[i][k].to = "COZULDU"
      BY <1>5, SMTT(60)
    <3>2. row'[i].resolved <=> row[i].resolved \/ t.want.status = "COZULDU"
      BY <1>2, <1>3, <1>4, <1>1 DEF TerminalStatuses, Advances, TypeOK, Row
    <3>3. \A k \in DOMAIN history'[i] :
            history'[i][k].to = "COZULDU" => <<i, history'[i][k].by>> \in notes'
      <4> SUFFICES ASSUME NEW k \in 1 .. Len(history[i]) + 1, history'[i][k].to = "COZULDU"
                   PROVE  <<i, history'[i][k].by>> \in notes'
        BY <1>5
      <4>1. CASE k = Len(history[i]) + 1
        BY <1>1, <1>5, <1>7, <4>1
      <4>2. CASE k \in 1 .. Len(history[i])
        <5>1. history'[i][k] = history[i][k] /\ k \in DOMAIN history[i]
          BY <1>5, <4>2
        <5> QED
          BY <5>1, <1>7, <2>1, <2>3
      <4>3. k = Len(history[i]) + 1 \/ k \in 1 .. Len(history[i])
        BY <1>5
      <4> QED
        BY <4>1, <4>2, <4>3
    <3> QED
      BY <1>1, <1>2, <1>3, <1>4, <2>1, <2>3, <3>1, <3>2, <3>3, SMTT(60)
  <2> QED
    BY <2>2, <2>3
<1>12. OpeningsAreExclusive'
  BY <1>6, <1>7 DEF RowInv, OpeningsAreExclusive, Opening
<1>13. SnapshotsOnlyLag'
  <2> SUFFICES ASSUME NEW v \in Workers, task'[v].pc = "loaded"
               PROVE  SnapshotsOnlyLag!(v)'
    BY DEF SnapshotsOnlyLag
  <2>1. task'[v] = task[v] /\ task[v].inc \in Incidents /\ SnapshotsOnlyLag!(v)
    BY <1>6 DEF RowInv, SnapshotsOnlyLag, TypeOK
  <2>2. \A j \in Incidents : Advances(row[j], row'[j])
    BY <1>3, <1>4 DEF Advances
  <2> QED
    BY <2>1, <2>2 DEF Advances
<1> QED
  BY <1>8, <1>9, <1>10, <1>11, <1>12, <1>13 DEF RowInv
\* An opening moves on: it still owns its id and still wants a fresh row.
LEMMA OpeningRowInv ==
    ASSUME TypeOK, RowInv, NEW w \in Workers, NEW i \in Incidents,
           row' = row, history' = history, stored' = stored, notes' = notes,
           used \subseteq used', scheduler' = scheduler,
           \A v \in Workers : v # w => task'[v] = task[v],
           task'[w].pc \in {"assigning", "committing"},
           task'[w].inc = i, i \in used' \ stored,
           ~task'[w].want.resolved, task'[w].want.sla = "ACTIVE",
           task'[w].want.status \in {"YENI", "ATANDI"},
           \A v \in Workers : v # w /\ Opening(v) => task[v].inc # i
    PROVE  RowInv'
<1>1. BlankUntilStored' /\ LastMoveIsStatus' /\ ResolvedHasVerdict' /\ ResolutionIsRecorded'
  BY DEF RowInv, BlankUntilStored, LastMoveIsStatus, LastRecorded, ResolvedHasVerdict,
         ResolutionIsRecorded
<1>2. OpeningsAreExclusive'
  <2>1. \A v \in Workers : v # w => (Opening(v)' <=> Opening(v)) /\ task'[v] = task[v]
    BY DEF Opening
  <2>2. (stored \subseteq used)' /\ (\A e \in scheduler.batch : e.inc \in stored)'
    BY DEF RowInv, OpeningsAreExclusive
  <2>3. ASSUME NEW v \in Workers, Opening(v)'
        PROVE  /\ task'[v].inc \in used' \ stored'
               /\ ~task'[v].want.resolved /\ task'[v].want.sla = "ACTIVE"
               /\ task'[v].want.status \in {"YENI", "ATANDI"}
    BY <2>1, <2>3 DEF RowInv, OpeningsAreExclusive
  <2>4. ASSUME NEW u \in Workers, NEW v \in Workers, Opening(u)', Opening(v)', u # v
        PROVE  task'[u].inc # task'[v].inc
    BY <2>1, <2>4 DEF RowInv, OpeningsAreExclusive
  <2>5. ASSUME NEW v \in Workers, task'[v].pc = "loaded"
        PROVE  task'[v].inc \in stored'
    BY <2>5 DEF RowInv, OpeningsAreExclusive
  <2> QED
    BY <2>2, <2>3, <2>4, <2>5 DEF OpeningsAreExclusive
<1>3. SnapshotsOnlyLag'
  <2> SUFFICES ASSUME NEW v \in Workers, task'[v].pc = "loaded"
               PROVE  SnapshotsOnlyLag!(v)'
    BY DEF SnapshotsOnlyLag
  <2>1. task'[v] = task[v] /\ SnapshotsOnlyLag!(v)
    BY DEF RowInv, SnapshotsOnlyLag
  <2> QED
    BY <2>1
<1> QED
  BY <1>1, <1>2, <1>3 DEF RowInv

\* The commit of a fault type changes no column the invariant speaks of.
LEMMA CommitFaultTypeRowInv ==
    ASSUME TypeOK, RowInv, NEW w \in Workers, NEW t, NEW i, t = task[w], i = t.inc,
           CommitFaultType(w)
    PROVE  RowInv'
<1> DEFINE m == Merge(row[i], t.snap, t.want)
<1>1. /\ t \in Task /\ i \in Incidents /\ i \in stored /\ t.pc = "loaded" /\ t.op = "faultType"
      /\ row' = [row EXCEPT ![i] = m]
      /\ history' = history /\ notes' = notes /\ stored' = stored /\ used' = used
      /\ scheduler' = scheduler
  BY DEF TypeOK, CommitFaultType, Loaded, RowInv, OpeningsAreExclusive
<1>2. t.want.status = t.snap.status /\ t.want.resolved = t.snap.resolved
  BY <1>1 DEF RowInv, SnapshotsOnlyLag
<1>3. /\ Advances(row[i], m) /\ m.status = row[i].status /\ m.resolved = row[i].resolved
      /\ m.resolved => m.sla # "ACTIVE"
      /\ m.sla = "MET" => m.resolved
  BY <1>1, <1>2, MergeAdvances
<1>4. row'[i] = m /\ \A j \in Incidents \ {i} : row'[j] = row[j]
  BY <1>1 DEF TypeOK
<1>5. \A v \in Workers : task'[v] = task[v] \/ task'[v].pc = "publishing"
  BY DEF CommitFaultType, Goto, TypeOK, Task
<1> HIDE DEF m
<1>6. BlankUntilStored' /\ LastMoveIsStatus' /\ ResolvedHasVerdict' /\ ResolutionIsRecorded'
  BY <1>1, <1>3, <1>4 DEF RowInv, BlankUntilStored, LastMoveIsStatus, LastRecorded,
                         ResolvedHasVerdict, ResolutionIsRecorded
<1>7. OpeningsAreExclusive'
  BY <1>1, <1>5 DEF RowInv, OpeningsAreExclusive, Opening
<1>8. SnapshotsOnlyLag'
  <2> SUFFICES ASSUME NEW v \in Workers, task'[v].pc = "loaded"
               PROVE  SnapshotsOnlyLag!(v)'
    BY DEF SnapshotsOnlyLag
  <2>1. task'[v] = task[v] /\ task[v].inc \in Incidents /\ SnapshotsOnlyLag!(v)
    BY <1>5 DEF RowInv, SnapshotsOnlyLag, TypeOK
  <2>2. \A j \in Incidents : Advances(row[j], row'[j])
    BY <1>3, <1>4 DEF Advances
  <2> QED
    BY <2>1, <2>2 DEF Advances
<1> QED
  BY <1>6, <1>7, <1>8 DEF RowInv

\* The commit of a telemetry request writes a fresh row, and its history row if it was assigned.
LEMMA CommitTelemetryRowInv ==
    ASSUME TypeOK, RowInv, NEW w \in Workers, NEW t, NEW i, t = task[w], i = t.inc,
           CommitTelemetry(w)
    PROVE  RowInv'
<1> DEFINE h == StatusRow(t)
<1>1. /\ t \in Task /\ i \in Incidents /\ i \in used \ stored /\ Opening(w)
      /\ row' = [row EXCEPT ![i] = t.want] /\ stored' = stored \cup {i}
      /\ notes' = notes /\ used' = used /\ scheduler' = scheduler
      /\ ~t.want.resolved /\ t.want.sla = "ACTIVE" /\ t.want.status \in {"YENI", "ATANDI"}
      /\ history[i] = <<>>
      /\ h \in HistoryRow /\ h.to = t.want.status
  BY StatusRowType DEF TypeOK, CommitTelemetry, RowInv, OpeningsAreExclusive, Opening,
                       BlankUntilStored, StatusRow
<1>2. /\ row'[i] = t.want
      /\ history'[i] = IF t.want.status = "ATANDI" THEN Append(<<>>, h) ELSE <<>>
      /\ \A j \in Incidents \ {i} : row'[j] = row[j] /\ history'[j] = history[j]
  BY <1>1 DEF TypeOK, CommitTelemetry
<1>3. /\ Append(<<>>, h) # <<>> /\ Len(Append(<<>>, h)) = 1 /\ Append(<<>>, h)[1] = h
      /\ DOMAIN Append(<<>>, h) = {1}
  OBVIOUS
<1>4. \A v \in Workers : \/ v # w /\ task'[v] = task[v]
                         \/ v = w /\ task'[v].pc = "idle"
  BY DEF CommitTelemetry, Finish, Idle, TypeOK
<1> HIDE DEF h
<1>5. BlankUntilStored'
  BY <1>1, <1>2 DEF RowInv, BlankUntilStored
<1>6. LastMoveIsStatus'
  <2> SUFFICES ASSUME NEW j \in Incidents
               PROVE  row'[j].status = LastRecorded(j)'
    BY DEF LastMoveIsStatus
  <2>1. CASE j = i
    BY <1>1, <1>2, <1>3, <2>1 DEF LastRecorded
  <2>2. CASE j # i
    BY <1>2, <2>2 DEF RowInv, LastMoveIsStatus, LastRecorded
  <2> QED
    BY <2>1, <2>2
<1>7. ResolvedHasVerdict'
  BY <1>1, <1>2 DEF RowInv, ResolvedHasVerdict
<1>8. ResolutionIsRecorded'
  <2> SUFFICES ASSUME NEW j \in Incidents
               PROVE  ResolutionIsRecorded!(j)'
    BY DEF ResolutionIsRecorded
  <2>1. CASE j = i
    BY <1>1, <1>2, <1>3, <2>1 DEF TerminalStatuses
  <2>2. CASE j # i
    BY <1>1, <1>2, <2>2 DEF RowInv, ResolutionIsRecorded
  <2> QED
    BY <2>1, <2>2
<1>9. OpeningsAreExclusive'
  BY <1>1, <1>4 DEF RowInv, OpeningsAreExclusive, Opening
<1>10. SnapshotsOnlyLag'
  <2> SUFFICES ASSUME NEW v \in Workers, task'[v].pc = "loaded"
               PROVE  SnapshotsOnlyLag!(v)'
    BY DEF SnapshotsOnlyLag
  <2>1. task'[v] = task[v] /\ task[v].inc \in stored /\ SnapshotsOnlyLag!(v)
    BY <1>4 DEF RowInv, SnapshotsOnlyLag, OpeningsAreExclusive
  <2>2. row'[task[v].inc] = row[task[v].inc]
    BY <1>1, <1>2, <2>1 DEF TypeOK
  <2> QED
    BY <2>1, <2>2
<1> QED
  BY <1>5, <1>6, <1>7, <1>8, <1>9, <1>10 DEF RowInv
LEMMA ProceedRowInv ==
    ASSUME TypeOK, RowInv, NEW w \in Workers, Proceed(w)
    PROVE  RowInv'
<1>0. /\ \A v \in Workers : task[v] \in Task
      /\ \A e \in scheduler.batch : e.inc \in stored
  BY DEF TypeOK, RowInv, OpeningsAreExclusive
<1>f. ASSUME Finish(w)
      PROVE  task'[w].pc = "idle" /\ \A v \in Workers : v # w => task'[v] = task[v]
  BY <1>f DEF Finish, Idle, TypeOK
<1>g. ASSUME NEW pc \in {"committed", "publishing", "committing"}, Goto(w, pc)
      PROVE  /\ task'[w] = [task[w] EXCEPT !.pc = pc]
             /\ \A v \in Workers : v # w => task'[v] = task[v]
  BY <1>g DEF Goto, TypeOK
<1>h. ASSUME NEW pc \in {"committed", "publishing"}, Goto(w, pc)
      PROVE  task'[w].pc = pc /\ \A v \in Workers : v # w => task'[v] = task[v]
  BY <1>0, <1>g, <1>h DEF Task
<1>1. CASE CommitStatus(w)
  BY <1>1, <1>f, <1>h, MoveRowInv DEF CommitStatus
<1>2. CASE Refresh(w)
  <2>1. \A v \in Workers : task'[v] = task[v] \/ task'[v].pc = "publishing"
    BY <1>0, <1>2 DEF Refresh, Task, TypeOK
  <2> QED
    BY <1>0, <1>2, <2>1, QuietStep DEF Refresh, database, ghosts
<1>3. CASE CommitAssign(w)
  BY <1>3, <1>h, MoveRowInv DEF CommitAssign, Loaded, RowInv, SnapshotsOnlyLag
<1>4. CASE CommitFaultType(w)
  BY <1>4, CommitFaultTypeRowInv
<1>5. CASE CommitEvaluation(w)
  BY <1>0, <1>5, <1>f, <1>h, QuietStep DEF CommitEvaluation
<1>6. CASE CommitMessage(w)
  BY <1>0, <1>6, <1>f, QuietStep DEF CommitMessage
<1>7. CASE CommitNote(w)
  BY <1>0, <1>7, <1>f, QuietStep DEF CommitNote
<1>8. CASE PublishCommitted(w)
  BY <1>0, <1>8, <1>f, QuietStep DEF PublishCommitted, database, ghosts
<1>9. CASE KeepWatching(w)
  BY <1>0, <1>9, <1>f, QuietStep DEF KeepWatching, database, ghosts
<1>10. ASSUME NEW i \in Incidents, NEW ft \in FaultTypes, NEW available \in BOOLEAN,
              OpenIncident(w, i, ft, available)
       PROVE  RowInv'
  <2>1. /\ task'[w].pc \in {"assigning", "committing"} /\ task'[w].inc = i
        /\ task'[w].want = NewRow(ft)
        /\ \A v \in Workers : v # w => task'[v] = task[v]
    BY <1>0, <1>10 DEF OpenIncident, Task, TypeOK
  <2>2. /\ i \notin used /\ used' = used \cup {i} /\ i \notin stored
        /\ \A v \in Workers : Opening(v) => task[v].inc # i
    BY <1>10 DEF OpenIncident, RowInv, OpeningsAreExclusive
  <2>3. /\ ~NewRow(ft).resolved /\ NewRow(ft).sla = "ACTIVE" /\ NewRow(ft).status = "YENI"
    BY DEF NewRow
  <2>4. /\ row' = row /\ history' = history /\ stored' = stored /\ notes' = notes
        /\ scheduler' = scheduler
    BY <1>10 DEF OpenIncident
  <2> QED
    BY <2>1, <2>2, <2>3, <2>4, OpeningRowInv
<1>11. CASE AutoAssignQueued(w)
  <2> DEFINE i == task[w].inc
  <2>1. Opening(w) /\ i \in Incidents
    BY <1>11 DEF AutoAssignQueued, Opening, TypeOK
  <2>2. /\ i \in used \ stored /\ ~task[w].want.resolved /\ task[w].want.sla = "ACTIVE"
        /\ task[w].want.status \in {"YENI", "ATANDI"}
        /\ \A v \in Workers : v # w /\ Opening(v) => task[v].inc # i
    BY <2>1 DEF RowInv, OpeningsAreExclusive
  <2>3. /\ task' = [task EXCEPT ![w].pc = "committing"]
        /\ row' = row /\ history' = history /\ stored' = stored /\ notes' = notes
        /\ used' = used /\ scheduler' = scheduler
    BY <1>11 DEF AutoAssignQueued, Goto, database, ghosts
  <2>4. /\ task'[w].pc = "committing" /\ task'[w].inc = i /\ task'[w].want = task[w].want
        /\ \A v \in Workers : v # w => task'[v] = task[v]
    BY <1>0, <2>3 DEF Task, TypeOK
  <2> HIDE DEF i
  <2> QED
    BY <2>1, <2>2, <2>3, <2>4, OpeningRowInv
<1>12. ASSUME NEW team \in Teams, AutoAssign(w, team)
       PROVE  RowInv'
  <2> DEFINE i == task[w].inc
  <2>1. Opening(w) /\ i \in Incidents
    BY <1>12 DEF AutoAssign, Opening, TypeOK
  <2>2. /\ i \in used \ stored /\ ~task[w].want.resolved /\ task[w].want.sla = "ACTIVE"
        /\ \A v \in Workers : v # w /\ Opening(v) => task[v].inc # i
    BY <2>1 DEF RowInv, OpeningsAreExclusive
  <2>3. /\ task'[w].pc = "committing" /\ task'[w].inc = i
        /\ task'[w].want.status = "ATANDI"
        /\ task'[w].want.sla = task[w].want.sla /\ task'[w].want.resolved = task[w].want.resolved
        /\ \A v \in Workers : v # w => task'[v] = task[v]
    BY <1>0, <1>12 DEF AutoAssign, Task, Row, TypeOK
  <2>4. /\ row' = row /\ history' = history /\ stored' = stored /\ notes' = notes
        /\ used' = used /\ scheduler' = scheduler
    BY <1>12 DEF AutoAssign, database, ghosts
  <2> HIDE DEF i
  <2> QED
    BY <2>1, <2>2, <2>3, <2>4, OpeningRowInv
<1>13. CASE CommitTelemetry(w)
  BY <1>13, CommitTelemetryRowInv
<1> QED
  BY <1>1, <1>2, <1>3, <1>4, <1>5, <1>6, <1>7, <1>8, <1>9, <1>10, <1>11, <1>12, <1>13
     DEF Proceed

LEMMA ScheduleRowInv ==
    ASSUME TypeOK, RowInv, Schedule
    PROVE  RowInv'
<1>1. CASE SchedulerSelect
  <2>1. \A e \in scheduler'.batch : e.inc \in stored
    BY <1>1 DEF SchedulerSelect, Due, Announcement, RowInv, OpeningsAreExclusive
  <2> QED
    BY <1>1, <2>1, QuietStep DEF SchedulerSelect, database, ghosts
<1>2. CASE SchedulerCommit
  <2>1. /\ stored' = stored /\ used' = used /\ history' = history /\ notes' = notes
        /\ task' = task
    BY <1>2 DEF SchedulerCommit
  <2>2. scheduler'.batch = scheduler.batch
    BY <1>2 DEF SchedulerCommit, TypeOK
  <2>3. \A i \in Incidents :
          /\ row'[i].status = row[i].status /\ row'[i].team = row[i].team
          /\ row'[i].resolved = row[i].resolved
          /\ row'[i].sla = IF \E e \in scheduler.batch : e.inc = i THEN "BREACHED" ELSE row[i].sla
          /\ i \notin stored => row'[i] = row[i]
    BY <1>2 DEF SchedulerCommit, TypeOK, Row, RowInv, OpeningsAreExclusive
  <2>4. BlankUntilStored' /\ LastMoveIsStatus' /\ ResolvedHasVerdict' /\ ResolutionIsRecorded'
    BY <2>1, <2>3 DEF RowInv, BlankUntilStored, LastMoveIsStatus, LastRecorded,
                      ResolvedHasVerdict, ResolutionIsRecorded
  <2>5. OpeningsAreExclusive'
    BY <2>1, <2>2 DEF RowInv, OpeningsAreExclusive, Opening
  <2>6. SnapshotsOnlyLag'
    <3> SUFFICES ASSUME NEW v \in Workers, task[v].pc = "loaded"
                 PROVE  SnapshotsOnlyLag!(v)'
      BY <2>1 DEF SnapshotsOnlyLag
    <3>1. SnapshotsOnlyLag!(v) /\ task[v].inc \in Incidents /\ task'[v] = task[v]
      BY <2>1 DEF RowInv, SnapshotsOnlyLag, TypeOK
    <3> QED
      BY <2>3, <3>1
  <2> QED
    BY <2>4, <2>5, <2>6 DEF RowInv
<1>3. ASSUME NEW e \in scheduler.batch, SchedulerPublish(e)
      PROVE  RowInv'
  <2>1. scheduler'.batch \subseteq scheduler.batch
    BY <1>3 DEF SchedulerPublish, Resting, TypeOK
  <2> QED
    BY <1>3, <2>1, QuietStep DEF SchedulerPublish, database, ghosts, RowInv, OpeningsAreExclusive
<1> QED
  BY <1>1, <1>2, <1>3 DEF Schedule

LEMMA InitRowInv == Init => RowInv
  BY DEF Init, RowInv, BlankUntilStored, OpeningsAreExclusive, Opening, SnapshotsOnlyLag,
         LastMoveIsStatus, LastRecorded, ResolutionIsRecorded, ResolvedHasVerdict,
         Idle, Resting, NewRow, TerminalStatuses

LEMMA NextRowInv == TypeOK /\ RowInv /\ [Next]_vars => RowInv'
<1> SUFFICES ASSUME TypeOK, RowInv, [Next]_vars
             PROVE  RowInv'
  OBVIOUS
<1>0. \A e \in scheduler.batch : e.inc \in stored
  BY DEF RowInv, OpeningsAreExclusive
<1>1. ASSUME NEW w \in Workers, RequestFails(w)
      PROVE  RowInv'
  <2>1. \A v \in Workers : task'[v] = task[v] \/ task'[v].pc = "idle"
    BY <1>1 DEF RequestFails, Finish, Idle, TypeOK
  <2> QED
    BY <1>0, <1>1, <2>1, QuietStep DEF RequestFails, database, ghosts
<1>2. ASSUME NEW i \in Incidents, DeadlinePasses(i)
      PROVE  RowInv'
  BY <1>0, <1>2, QuietStep DEF DeadlinePasses, database, ghosts
<1>3. CASE SchedulerFails
  BY <1>3, QuietStep DEF SchedulerFails, Resting, database, ghosts
<1>4. CASE Crash
  BY <1>4, QuietStep DEF Crash, Resting, Idle, database, ghosts
<1>5. CASE UNCHANGED vars
  BY <1>0, <1>5, QuietStep DEF vars
<1> QED
  BY <1>1, <1>2, <1>3, <1>4, <1>5, AcceptRowInv, ProceedRowInv, ScheduleRowInv DEF Next
\* The inductive invariant holds in every reachable state.
THEOREM RowInvariant == Spec => []RowInv
<1>1. Spec => []TypeOK
  BY TypeCorrect
<1>2. TypeOK /\ RowInv /\ [Next]_vars => RowInv'
  BY NextRowInv
<1> QED
  BY <1>1, <1>2, InitRowInv, PTL DEF Spec

\* The history explains the status however many requests race: the row committed last is a
\* witness, whatever changed_at it and the others carry.
THEOREM StatusCorrect == Spec => []StatusFollowsHistory
<1>1. TypeOK /\ RowInv => StatusFollowsHistory
  <2> SUFFICES ASSUME TypeOK, RowInv, NEW i \in Incidents
               PROVE  StatusFollowsHistory!(i)
    BY DEF StatusFollowsHistory
  <2>1. history[i] \in Seq(HistoryRow) /\ row[i].status = LastRecorded(i)
    BY DEF TypeOK, RowInv, LastMoveIsStatus
  <2>2. CASE history[i] = <<>>
    BY <2>1, <2>2 DEF LastRecorded
  <2>3. CASE history[i] # <<>>
    <3> DEFINE k == Len(history[i])
    <3>1. k \in DOMAIN history[i] /\ DOMAIN history[i] = 1 .. k /\ k \in Nat
      BY <2>1, <2>3
    <3>2. history[i][k].to = row[i].status
      BY <2>1, <2>3 DEF LastRecorded
    <3>3. \A j \in DOMAIN history[i] : history[i][j].at > history[i][k].at => j < k
      <4> SUFFICES ASSUME NEW j \in DOMAIN history[i], history[i][j].at > history[i][k].at
                   PROVE  j < k
        OBVIOUS
      <4>0. history[i][k] \in HistoryRow
        BY <2>1, <3>1
      <4>1. history[i][k].at \in Nat
        BY <4>0 DEF HistoryRow
      <4>2. j # k
        BY <4>1
      <4> HIDE DEF k
      <4> QED
        BY <3>1, <4>2
    <3> QED
      BY <2>3, <3>1, <3>2, <3>3
  <2> QED
    BY <2>2, <2>3
<1> QED
  BY <1>1, TypeCorrect, RowInvariant, PTL

\* Every resolution is recorded, with a note by the technician who made it.
THEOREM ResolutionCorrect == Spec => []ResolutionIsRecorded
<1>1. RowInv => ResolutionIsRecorded
  BY DEF RowInv
<1> QED
  BY <1>1, RowInvariant, PTL

\* A resolved incident has a verdict, and only resolved incidents are MET.
THEOREM VerdictCorrect == Spec => []ResolvedHasVerdict
<1>1. RowInv => ResolvedHasVerdict
  BY DEF RowInv
<1> QED
  BY <1>1, RowInvariant, PTL

-----------------------------------------------------------------------------
(* Nothing is withdrawn.                                                   *)

\* No step takes a verdict, a team or a resolution away.
LEMMA StepAdvances ==
    ASSUME TypeOK, RowInv, [Next]_vars, NEW i \in Incidents
    PROVE  Advances(row[i], row'[i])
<1>0. row' = row => Advances(row[i], row'[i])
  BY DEF Advances
<1>1. ASSUME NEW w \in Workers, Accept(w)
      PROVE  Advances(row[i], row'[i])
  <2>1. ASSUME NEW j \in Incidents, NEW c \in Callers, ReportIncident(w, j, c)
        PROVE  row' = row
    <3>1. j \notin stored /\ row' = [row EXCEPT ![j] = NewRow(Belirsiz)]
      BY <2>1 DEF ReportIncident, RowInv, OpeningsAreExclusive
    <3> QED
      BY <3>1 DEF RowInv, BlankUntilStored, TypeOK
  <2>2. ASSUME NEW op, NEW j, NEW c, NEW want, Load(w, op, j, c, want)
        PROVE  row' = row
    BY <2>2 DEF Load, database, ghosts
  <2>3. ASSUME NEW j \in Incidents, NEW c \in Callers,
               \/ \E to \in Statuses : LoadStatus(w, j, c, to)
               \/ \E t \in Teams : LoadAssign(w, j, c, t)
               \/ \E ft \in FaultTypes : LoadFaultType(w, j, c, ft)
               \/ LoadEvaluation(w, j, c) \/ LoadMessage(w, j, c) \/ LoadNote(w, j, c)
        PROVE  row' = row
    BY <2>2, <2>3 DEF LoadStatus, LoadAssign, LoadFaultType, LoadEvaluation, LoadMessage, LoadNote
  <2>4. CASE SubmitTelemetry(w)
    BY <1>0, <2>4, ZenonT(30) DEF SubmitTelemetry, database, ghosts
  <2> QED
    BY <1>0, <1>1, <2>1, <2>3, <2>4 DEF Accept
<1>2. ASSUME NEW w \in Workers, Proceed(w)
      PROVE  Advances(row[i], row'[i])
  <2> DEFINE t == task[w]
             m == Merge(row[t.inc], t.snap, t.want)
  <2>1. CASE t.pc = "loaded" /\ row' = [row EXCEPT ![t.inc] = m]
    <3>1. Advances(row[t.inc], m)
      BY <2>1, MergeAdvances
    <3>2. row'[i] = IF i = t.inc THEN m ELSE row[i]
      BY <2>1 DEF TypeOK
    <3> HIDE DEF m
    <3> QED
      BY <3>1, <3>2 DEF Advances
  <2>2. CASE CommitTelemetry(w)
    <3>1. t.inc \in Incidents \ stored /\ row' = [row EXCEPT ![t.inc] = t.want]
      BY <2>2 DEF CommitTelemetry, RowInv, OpeningsAreExclusive, Opening, TypeOK
    <3>2. row[t.inc] = NewRow(Belirsiz)
      BY <3>1 DEF RowInv, BlankUntilStored
    <3>3. Advances(NewRow(Belirsiz), t.want)
      BY DEF Advances, NewRow
    <3>4. row'[i] = IF i = t.inc THEN t.want ELSE row[i]
      BY <3>1 DEF TypeOK
    <3> QED
      BY <3>2, <3>3, <3>4 DEF Advances
  <2>3. CASE row' = row
    BY <1>0, <2>3
  <2> QED
    BY <1>2, <2>1, <2>2, <2>3
       DEF Proceed, CommitStatus, Refresh, CommitAssign, CommitFaultType, CommitEvaluation,
           CommitMessage, CommitNote, PublishCommitted, KeepWatching, OpenIncident,
           AutoAssignQueued, AutoAssign, Loaded, database, ghosts
<1>3. CASE Schedule
  <2>1. CASE SchedulerCommit
    <3>1. /\ row[i] \in Row
          /\ row'[i] = row[i] \/ row'[i] = [row[i] EXCEPT !.sla = "BREACHED"]
      BY <2>1 DEF SchedulerCommit, TypeOK
    <3> QED
      BY <3>1 DEF Advances, Row
  <2> QED
    BY <1>0, <1>3, <2>1 DEF Schedule, SchedulerSelect, SchedulerPublish, database, ghosts
<1> QED
  BY <1>0, <1>1, <1>2, <1>3
     DEF Next, RequestFails, DeadlinePasses, SchedulerFails, Crash, vars, database, ghosts

\* No race, failure or crash withdraws a verdict, unassigns a team or reopens a resolution.
THEOREM NothingWithdrawnCorrect == Spec => NothingWithdrawn
<1> DEFINE Kept == \A i \in Incidents :
                      /\ row[i].sla # "ACTIVE" => row'[i].sla # "ACTIVE"
                      /\ row[i].team # NoTeam => row'[i].team # NoTeam
                      /\ row[i].resolved => row'[i].resolved
<1>1. TypeOK /\ RowInv /\ [Next]_vars => Kept
  BY StepAdvances DEF Advances
<1> HIDE DEF Kept
<1>2. TypeOK /\ RowInv /\ [Next]_vars => [Kept]_vars
  BY <1>1
<1>3. Spec => [][Kept]_vars
  BY <1>2, TypeCorrect, RowInvariant, PTL DEF Spec
<1> QED
  BY <1>3 DEF Kept, NothingWithdrawn
=============================================================================
