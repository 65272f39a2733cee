--------------------------- MODULE IncidentService ---------------------------
(***************************************************************************)
(* The incident service: its request handlers (api/incidents.py), the      *)
(* status graph they consult (core/state_machine.py) and the periodic SLA  *)
(* task (core/sla_scheduler.py), all running over one Postgres database    *)
(* and publishing to Redis streams.                                        *)
(*                                                                         *)
(* A handler is an asyncio coroutine, so every await is a point where the  *)
(* others run.  It reads a row, validates against that copy, writes the    *)
(* columns it changed in one commit, and only then (or, for telemetry,     *)
(* before) publishes.  Rows are neither locked nor versioned.  A refused   *)
(* request (403, 404, 409, 422) changes nothing and is a disabled action.  *)
(***************************************************************************)
EXTENDS Naturals, Sequences, FiniteSets

CONSTANTS
    Incidents,    \* ids the database can hand out
    NoIncident,   \* a request that has no incident (yet)
    Users,        \* ids carried by X-User-Id, and the ids of teams
    Teams,        \* ids the AI service or a supervisor may assign; a team is a technician
    NoTeam,       \* NULL in assigned_team_id
    SystemActor,  \* SYSTEM_ACTOR_ID
    Callers,      \* the [role, id] pairs that send requests
    FaultTypes,
    Belirsiz,     \* the fault type nobody has diagnosed
    Workers,      \* concurrently served requests
    Scenarios,    \* bounds: how many requests of each operation there may be
    MaxFailures   \* bound: failed requests, failed scheduler rounds and crashes

Statuses == {"YENI", "ATANDI", "YOLDA", "MUDAHALE_EDILIYOR",
             "PARCA_BEKLENIYOR", "COZULDU", "KAPANDI"}
TerminalStatuses == {"COZULDU", "KAPANDI"}
Roles == {"SYSTEM", "MUSTERI", "SAHA_TEKNISYENI", "NOC_OPERATORU", "SUPERVIZOR", "ADMIN"}
Operations == {"telemetry", "report", "status", "assign",
               "faultType", "evaluate", "message", "note"}
Streams == {"created", "assigned", "resolved", "evaluated", "type_changed", "sla_breached"}

ASSUME IncidentsAssumption == NoIncident \notin Incidents
ASSUME UsersAssumption ==
    /\ Teams \subseteq Users
    /\ SystemActor \in Users
    /\ NoTeam \notin Users
    /\ Callers \subseteq [role : Roles, id : Users]
ASSUME FaultTypesAssumption == Belirsiz \in FaultTypes
ASSUME BoundsAssumption ==
    /\ Scenarios \subseteq [Operations -> Nat]
    /\ MaxFailures \in Nat

VARIABLES
    row,        \* the incidents table
    stored,     \* the ids whose row is committed
    used,       \* the ids generated so far, rolled back or not
    overdue,    \* the incidents whose sla_due_at has passed
    history,    \* incident_status_history, per incident
    notes,      \* incident_resolution_notes: <<incident, technician>>
    messages,   \* incident_messages: <<incident, sender>>
    evaluated,  \* incidents with a row in incident_evaluations
    streams,    \* the Redis streams this service writes
    task,       \* what each worker is doing
    scheduler,  \* what the SLA task is doing
    clock,      \* the database's, as far as history rows are ordered by it
    quota,      \* bound: the requests of each operation still to come
    failures,   \* failures so far
    unsent,     \* history: <<incident, stream>> committed, and lost before it was announced
    contested   \* history: incidents two corrections of the type were under way on at once

database == <<row, stored, used, history, notes, messages, evaluated>>
vars == <<row, stored, used, overdue, history, notes, messages, evaluated,
          streams, task, scheduler, clock, quota, failures, unsent, contested>>
ghosts == <<unsent, contested>>

Row == [status : Statuses, team : Users \cup {NoTeam}, faultType : FaultTypes,
        override : BOOLEAN, sla : {"ACTIVE", "MET", "BREACHED"}, resolved : BOOLEAN]

\* The row of a freshly opened incident.
NewRow(ft) == [status |-> "YENI", team |-> NoTeam, faultType |-> ft,
               override |-> FALSE, sla |-> "ACTIVE", resolved |-> FALSE]

\* at stands for changed_at, the now() of the request's transaction: its start.  The table
\* keeps no other order; that the rows of a sequence are in the order of their commits is
\* known to the model only.
HistoryRow == [from : Statuses, to : Statuses, by : Users, at : Nat]

\* One shape for all events; a field its schema lacks holds NoTeam or Belirsiz.
Event == [inc : Incidents, team : Users \cup {NoTeam},
          faultType : FaultTypes, original : FaultTypes]

\* snap is what db.get returned, want the same object with the handler's assignments, at
\* the time the transaction began.
Task == [pc : {"idle", "loaded", "committed", "publishing",
               "predicting", "assigning", "committing"},
         op : Operations \cup {"none"}, inc : Incidents \cup {NoIncident},
         by : Users, snap : Row, want : Row, at : Nat]

Idle == [pc |-> "idle", op |-> "none", inc |-> NoIncident, by |-> SystemActor,
         snap |-> NewRow(Belirsiz), want |-> NewRow(Belirsiz), at |-> 0]

Resting == [pc |-> "idle", batch |-> {}]

Init ==
    /\ row = [i \in Incidents |-> NewRow(Belirsiz)]
    /\ stored = {}
    /\ used = {}
    /\ overdue = {}
    /\ history = [i \in Incidents |-> <<>>]
    /\ notes = {}
    /\ messages = {}
    /\ evaluated = {}
    /\ streams = [s \in Streams |-> <<>>]
    /\ task = [w \in Workers |-> Idle]
    /\ scheduler = Resting
    /\ clock = 0
    /\ quota \in Scenarios
    /\ failures = 0
    /\ unsent = {}
    /\ contested = {}

-----------------------------------------------------------------------------
(* The status graph. *)

\* Mutant: a resolved incident may be taken up again.
ReopenableTransitions == {
    [from |-> "YENI", to |-> "ATANDI", roles |-> {"SYSTEM", "SUPERVIZOR", "ADMIN"}],
    [from |-> "ATANDI", to |-> "YOLDA", roles |-> {"SAHA_TEKNISYENI"}],
    [from |-> "YOLDA", to |-> "MUDAHALE_EDILIYOR", roles |-> {"SAHA_TEKNISYENI"}],
    [from |-> "MUDAHALE_EDILIYOR", to |-> "COZULDU", roles |-> {"SAHA_TEKNISYENI"}],
    [from |-> "COZULDU", to |-> "MUDAHALE_EDILIYOR", roles |-> {"SAHA_TEKNISYENI"}]}

ALLOWED_TRANSITIONS == {
    [from |-> "YENI", to |-> "ATANDI", roles |-> {"SYSTEM", "SUPERVIZOR", "ADMIN"}],
    [from |-> "ATANDI", to |-> "YOLDA", roles |-> {"SAHA_TEKNISYENI"}],
    [from |-> "YOLDA", to |-> "MUDAHALE_EDILIYOR", roles |-> {"SAHA_TEKNISYENI"}],
    [from |-> "MUDAHALE_EDILIYOR", to |-> "PARCA_BEKLENIYOR", roles |-> {"SAHA_TEKNISYENI"}],
    [from |-> "PARCA_BEKLENIYOR", to |-> "MUDAHALE_EDILIYOR", roles |-> {"SYSTEM"}],
    [from |-> "MUDAHALE_EDILIYOR", to |-> "COZULDU", roles |-> {"SAHA_TEKNISYENI"}],
    [from |-> "COZULDU", to |-> "KAPANDI", roles |-> {"SYSTEM", "NOC_OPERATORU"}]}

ASSIGNED_TECHNICIAN_ONLY == {
    <<"ATANDI", "YOLDA">>, <<"YOLDA", "MUDAHALE_EDILIYOR">>,
    <<"MUDAHALE_EDILIYOR", "PARCA_BEKLENIYOR">>, <<"MUDAHALE_EDILIYOR", "COZULDU">>}

\* Mutant: the role is checked, the assigned technician is not.
ValidForAnyTechnician(from, to, caller, team) ==
    \E t \in ALLOWED_TRANSITIONS : t.from = from /\ t.to = to /\ caller.role \in t.roles

ValidTransition(from, to, caller, team) ==
    /\ \E t \in ALLOWED_TRANSITIONS : t.from = from /\ t.to = to /\ caller.role \in t.roles
    /\ <<from, to>> \in ASSIGNED_TECHNICIAN_ONLY => caller.id = team

\* Mutant: the whole object is written back.
MergeWholeRow(db, snap, want) == want

\* The UPDATE of SQLAlchemy's unit of work: only the attributes that differ from what
\* was loaded are written; every other column keeps what the database holds now.
Merge(db, snap, want) ==
    [f \in DOMAIN db |-> IF want[f] # snap[f] THEN want[f] ELSE db[f]]

Publish(stream, event) == streams' = [streams EXCEPT ![stream] = Append(@, event)]

Announcement(i, team, ft, original) ==
    [inc |-> i, team |-> team, faultType |-> ft, original |-> original]

-----------------------------------------------------------------------------
(* First half of a handler: db.get, the role and state checks, and the     *)
(* assignments to the loaded object.                                       *)

Accepted(op) == quota[op] > 0 /\ quota' = [quota EXCEPT ![op] = @ - 1]

Correcting(w, i) == task[w].op = "faultType" /\ task[w].inc = i

Load(w, op, i, caller, want) ==
    /\ task[w].pc = "idle"
    /\ Accepted(op)
    /\ i \in stored
    /\ task' = [task EXCEPT ![w] = [pc |-> "loaded", op |-> op, inc |-> i, by |-> caller.id,
                                    snap |-> row[i], want |-> want, at |-> clock + 1]]
    /\ clock' = IF op \in {"status", "assign"} THEN clock + 1 ELSE clock
    /\ contested' = IF op = "faultType" /\ \E v \in Workers : Correcting(v, i)
                    THEN contested \cup {i} ELSE contested
    /\ UNCHANGED <<database, overdue, streams, scheduler, failures, unsent>>

\* Mutants: a verdict outside the three the code compares with, and none at all.
ResolveOffEnum(r) == [r EXCEPT !.status = "COZULDU", !.resolved = TRUE, !.sla = "ON_TIME"]
ResolveWithoutVerdict(r) == [r EXCEPT !.status = "COZULDU", !.resolved = TRUE]

Resolve(r) == [r EXCEPT !.status = "COZULDU", !.resolved = TRUE,
                        !.sla = IF @ = "ACTIVE" THEN "MET" ELSE @]

\* A request for COZULDU carries its note; one without is refused with 422.
LoadStatus(w, i, caller, to) ==
    /\ ValidTransition(row[i].status, to, caller, row[i].team)
    /\ Load(w, "status", i, caller,
            IF to = "COZULDU" THEN Resolve(row[i]) ELSE [row[i] EXCEPT !.status = to])

LoadAssign(w, i, caller, team) ==
    /\ caller.role \in {"SUPERVIZOR", "ADMIN"}
    /\ ValidTransition(row[i].status, "ATANDI", caller, row[i].team)
    /\ Load(w, "assign", i, caller, [row[i] EXCEPT !.status = "ATANDI", !.team = team])

LoadFaultType(w, i, caller, ft) ==
    /\ caller.role \in {"NOC_OPERATORU", "SUPERVIZOR"}
    /\ ft # row[i].faultType
    /\ Load(w, "faultType", i, caller, [row[i] EXCEPT !.faultType = ft, !.override = TRUE])

LoadEvaluation(w, i, caller) ==
    /\ caller.role = "NOC_OPERATORU"
    /\ row[i].status = "KAPANDI"
    /\ i \notin evaluated
    /\ Load(w, "evaluate", i, caller, row[i])

LoadMessage(w, i, caller) ==
    /\ \/ caller.role = "NOC_OPERATORU"
       \/ caller.role = "SAHA_TEKNISYENI" /\ caller.id = row[i].team
    /\ Load(w, "message", i, caller, row[i])

LoadNote(w, i, caller) ==
    /\ caller.role = "SAHA_TEKNISYENI"
    /\ caller.id = row[i].team
    /\ Load(w, "note", i, caller, row[i])

-----------------------------------------------------------------------------
(* Second half: the commit, and what follows it.                           *)

Loaded(w, op) == task[w].pc = "loaded" /\ task[w].op = op

Goto(w, pc) == task' = [task EXCEPT ![w].pc = pc]
Finish(w) == task' = [task EXCEPT ![w] = Idle]

StatusRow(t) == [from |-> t.snap.status, to |-> t.want.status, by |-> t.by, at |-> t.at]

\* Mutant: the resolution note is left to POST /resolution-note.
CommitStatusWithoutNote(w) ==
    LET t == task[w] IN
    /\ Loaded(w, "status")
    /\ row' = [row EXCEPT ![t.inc] = Merge(@, t.snap, t.want)]
    /\ history' = [history EXCEPT ![t.inc] = Append(@, StatusRow(t))]
    /\ IF t.want.status = "COZULDU" THEN Goto(w, "committed") ELSE Finish(w)
    /\ UNCHANGED <<stored, used, overdue, notes, messages, evaluated,
                   streams, scheduler, clock, quota, failures, ghosts>>

\* Mutant: nothing is published after the commit.
CommitStatusUnannounced(w) ==
    LET t == task[w] IN
    /\ Loaded(w, "status")
    /\ row' = [row EXCEPT ![t.inc] = Merge(@, t.snap, t.want)]
    /\ history' = [history EXCEPT ![t.inc] = Append(@, StatusRow(t))]
    /\ notes' = IF t.want.status = "COZULDU" THEN notes \cup {<<t.inc, t.by>>} ELSE notes
    /\ Finish(w)
    /\ UNCHANGED <<stored, used, overdue, messages, evaluated,
                   streams, scheduler, clock, quota, failures, ghosts>>

\* Only COZULDU is announced; the refresh after any other commit just fills the response.
CommitStatus(w) ==
    LET t == task[w] IN
    /\ Loaded(w, "status")
    /\ row' = [row EXCEPT ![t.inc] = Merge(@, t.snap, t.want)]
    /\ history' = [history EXCEPT ![t.inc] = Append(@, StatusRow(t))]
    /\ IF t.want.status = "COZULDU"
       THEN notes' = notes \cup {<<t.inc, t.by>>} /\ Goto(w, "committed")
       ELSE UNCHANGED notes /\ Finish(w)
    /\ UNCHANGED <<stored, used, overdue, messages, evaluated,
                   streams, scheduler, clock, quota, failures, ghosts>>

\* db.refresh: the event will carry whatever the row holds now.
Refresh(w) ==
    /\ task[w].pc = "committed"
    /\ task' = [task EXCEPT ![w].pc = "publishing", ![w].want = row[task[w].inc]]
    /\ UNCHANGED <<database, overdue, streams, scheduler, clock, quota, failures, ghosts>>

CommitAssign(w) ==
    LET t == task[w] IN
    /\ Loaded(w, "assign")
    /\ row' = [row EXCEPT ![t.inc] = Merge(@, t.snap, t.want)]
    /\ history' = [history EXCEPT ![t.inc] = Append(@, StatusRow(t))]
    /\ Goto(w, "publishing")
    /\ UNCHANGED <<stored, used, overdue, notes, messages, evaluated,
                   streams, scheduler, clock, quota, failures, ghosts>>

CommitFaultType(w) ==
    LET t == task[w] IN
    /\ Loaded(w, "faultType")
    /\ row' = [row EXCEPT ![t.inc] = Merge(@, t.snap, t.want)]
    /\ Goto(w, "publishing")
    /\ UNCHANGED <<stored, used, overdue, history, notes, messages, evaluated,
                   streams, scheduler, clock, quota, failures, ghosts>>

\* Mutant: the column is not unique, the earlier check is all there is.
CommitEvaluationUnchecked(w) ==
    /\ Loaded(w, "evaluate")
    /\ evaluated' = evaluated \cup {task[w].inc}
    /\ Goto(w, "publishing")
    /\ UNCHANGED <<row, stored, used, overdue, history, notes, messages,
                   streams, scheduler, clock, quota, failures, ghosts>>

\* incident_evaluations.incident_id is unique: the loser of a race gets an IntegrityError.
CommitEvaluation(w) ==
    LET i == task[w].inc IN
    /\ Loaded(w, "evaluate")
    /\ evaluated' = evaluated \cup {i}
    /\ IF i \in evaluated THEN Finish(w) ELSE Goto(w, "publishing")
    /\ UNCHANGED <<row, stored, used, overdue, history, notes, messages,
                   streams, scheduler, clock, quota, failures, ghosts>>

CommitMessage(w) ==
    /\ Loaded(w, "message")
    /\ messages' = messages \cup {<<task[w].inc, task[w].by>>}
    /\ Finish(w)
    /\ UNCHANGED <<row, stored, used, overdue, history, notes, evaluated,
                   streams, scheduler, clock, quota, failures, ghosts>>

CommitNote(w) ==
    /\ Loaded(w, "note")
    /\ notes' = notes \cup {<<task[w].inc, task[w].by>>}
    /\ Finish(w)
    /\ UNCHANGED <<row, stored, used, overdue, history, messages, evaluated,
                   streams, scheduler, clock, quota, failures, ghosts>>

StreamOf(op) == CASE op = "report" -> "created"
                  [] op = "status" -> "resolved"
                  [] op = "assign" -> "assigned"
                  [] op = "evaluate" -> "evaluated"
                  [] OTHER -> "type_changed"

\* Mutant: original_fault_type is read after the assignment.
EventOfAfterOverride(t) ==
    CASE t.op = "status" -> Announcement(t.inc, t.want.team, t.want.faultType, Belirsiz)
      [] t.op = "assign" -> Announcement(t.inc, t.want.team, Belirsiz, Belirsiz)
      [] t.op = "faultType" -> Announcement(t.inc, NoTeam, t.want.faultType, t.want.faultType)
      [] OTHER -> Announcement(t.inc, NoTeam, Belirsiz, Belirsiz)

EventOf(t) ==
    CASE t.op = "status" -> Announcement(t.inc, t.want.team, t.want.faultType, Belirsiz)
      [] t.op = "assign" -> Announcement(t.inc, t.want.team, Belirsiz, Belirsiz)
      [] t.op = "faultType" -> Announcement(t.inc, NoTeam, t.want.faultType, t.snap.faultType)
      [] OTHER -> Announcement(t.inc, NoTeam, Belirsiz, Belirsiz)

\* Mutant: the XADD is retried although it went through.
PublishAgain(w) ==
    /\ task[w].pc = "publishing"
    /\ Publish(StreamOf(task[w].op), EventOf(task[w]))
    /\ UNCHANGED <<database, overdue, task, scheduler, clock, quota, failures, ghosts>>

PublishCommitted(w) ==
    /\ task[w].pc = "publishing"
    /\ Publish(StreamOf(task[w].op), EventOf(task[w]))
    /\ Finish(w)
    /\ UNCHANGED <<database, overdue, scheduler, clock, quota, failures, ghosts>>

-----------------------------------------------------------------------------
(* Opening incidents.                                                      *)

\* A customer's report: the insert commits, then incident.created goes out.
ReportIncident(w, i, caller) ==
    /\ task[w].pc = "idle"
    /\ caller.role = "MUSTERI"
    /\ Accepted("report")
    /\ i \in Incidents \ used
    /\ row' = [row EXCEPT ![i] = NewRow(Belirsiz)]
    /\ stored' = stored \cup {i}
    /\ used' = used \cup {i}
    /\ task' = [task EXCEPT ![w] = [Idle EXCEPT !.pc = "publishing", !.op = "report", !.inc = i]]
    /\ UNCHANGED <<overdue, history, notes, messages, evaluated,
                   streams, scheduler, clock, failures, ghosts>>

\* The reading is flushed and POST /ai/predict is under way.
SubmitTelemetry(w) ==
    /\ task[w].pc = "idle"
    /\ Accepted("telemetry")
    /\ task' = [task EXCEPT ![w] = [Idle EXCEPT !.pc = "predicting", !.op = "telemetry",
                                               !.at = clock]]
    /\ UNCHANGED <<database, overdue, streams, scheduler, clock, failures, ghosts>>

\* The suggestion is IZLE: only the reading is committed.
KeepWatching(w) ==
    /\ task[w].pc = "predicting"
    /\ Finish(w)
    /\ UNCHANGED <<database, overdue, streams, scheduler, clock, quota, failures, ghosts>>

\* _create_incident flushes the row and publishes incident.created before any commit.
\* AIServiceUnavailable opens a BELIRSIZ incident and skips assignment.
OpenIncident(w, i, ft, available) ==
    /\ task[w].pc = "predicting"
    /\ i \in Incidents \ used
    /\ ~available => ft = Belirsiz
    /\ used' = used \cup {i}
    /\ Publish("created", Announcement(i, NoTeam, ft, Belirsiz))
    /\ task' = [task EXCEPT ![w].pc = IF available THEN "assigning" ELSE "committing",
                            ![w].inc = i, ![w].want = NewRow(ft)]
    /\ UNCHANGED <<row, stored, overdue, history, notes, messages, evaluated,
                   scheduler, clock, quota, failures, ghosts>>

\* POST /ai/assign is unreachable, or has no team with capacity.
AutoAssignQueued(w) ==
    /\ task[w].pc = "assigning"
    /\ Goto(w, "committing")
    /\ UNCHANGED <<database, overdue, streams, scheduler, clock, quota, failures, ghosts>>

\* Mutant: the assigned_team_id assignment is forgotten.
AutoAssignForgetsTeam(w, team) ==
    /\ task[w].pc = "assigning"
    /\ Publish("assigned", Announcement(task[w].inc, team, Belirsiz, Belirsiz))
    /\ task' = [task EXCEPT ![w].pc = "committing", ![w].want.status = "ATANDI"]
    /\ UNCHANGED <<database, overdue, scheduler, clock, quota, failures, ghosts>>

\* The row is flushed as ATANDI and incident.assigned published, still uncommitted.
AutoAssign(w, team) ==
    /\ task[w].pc = "assigning"
    /\ Publish("assigned", Announcement(task[w].inc, team, Belirsiz, Belirsiz))
    /\ task' = [task EXCEPT ![w].pc = "committing",
                            ![w].want.status = "ATANDI", ![w].want.team = team]
    /\ UNCHANGED <<database, overdue, scheduler, clock, quota, failures, ghosts>>

\* Mutant: the automatic assignment adds no history row.
CommitTelemetryUnrecorded(w) ==
    /\ task[w].pc = "committing"
    /\ row' = [row EXCEPT ![task[w].inc] = task[w].want]
    /\ stored' = stored \cup {task[w].inc}
    /\ Finish(w)
    /\ UNCHANGED <<used, overdue, history, notes, messages, evaluated,
                   streams, scheduler, clock, quota, failures, ghosts>>

CommitTelemetry(w) ==
    LET t == task[w] IN
    /\ t.pc = "committing"
    /\ row' = [row EXCEPT ![t.inc] = t.want]
    /\ stored' = stored \cup {t.inc}
    /\ history' = IF t.want.status = "ATANDI"
                  THEN [history EXCEPT ![t.inc] = Append(@, StatusRow(t))] ELSE history
    /\ Finish(w)
    /\ UNCHANGED <<used, overdue, notes, messages, evaluated,
                   streams, scheduler, clock, quota, failures, ghosts>>

-----------------------------------------------------------------------------
(* The SLA task.                                                           *)

DeadlinePasses(i) ==
    /\ i \in stored \ overdue
    /\ overdue' = overdue \cup {i}
    /\ UNCHANGED <<database, streams, task, scheduler, clock, quota, failures, ghosts>>

\* Mutants: the query without its sla_status condition, and restricted to assigned incidents.
DueWhateverVerdict == {i \in stored \cap overdue : row[i].status \notin TerminalStatuses}
DueIfAssigned == {i \in stored \cap overdue :
                    /\ row[i].sla = "ACTIVE" /\ row[i].status \notin TerminalStatuses
                    /\ row[i].team # NoTeam}

Due == {i \in stored \cap overdue :
            row[i].sla = "ACTIVE" /\ row[i].status \notin TerminalStatuses}

\* The SELECT; the events will carry the team read here.  An empty result ends the round.
SchedulerSelect ==
    /\ scheduler.pc = "idle"
    /\ scheduler' = IF Due = {} THEN scheduler
                    ELSE [pc |-> "selected",
                          batch |-> {Announcement(i, row[i].team, Belirsiz, Belirsiz) : i \in Due}]
    /\ UNCHANGED <<database, overdue, streams, task, clock, quota, failures, ghosts>>

\* UPDATE ... SET sla_status = 'BREACHED' by primary key, whatever the row has become.
SchedulerCommit ==
    /\ scheduler.pc = "selected"
    /\ row' = [i \in Incidents |-> IF \E e \in scheduler.batch : e.inc = i
                                   THEN [row[i] EXCEPT !.sla = "BREACHED"] ELSE row[i]]
    /\ scheduler' = [scheduler EXCEPT !.pc = "publishing"]
    /\ UNCHANGED <<stored, used, overdue, history, notes, messages, evaluated,
                   streams, task, clock, quota, failures, ghosts>>

\* Mutant: a breach without a team is not announced.
SchedulerPublishIfAssigned(e) ==
    /\ scheduler.pc = "publishing"
    /\ e \in scheduler.batch
    /\ IF e.team = NoTeam THEN UNCHANGED streams ELSE Publish("sla_breached", e)
    /\ scheduler' = IF scheduler.batch = {e} THEN Resting
                    ELSE [scheduler EXCEPT !.batch = @ \ {e}]
    /\ UNCHANGED <<database, overdue, task, clock, quota, failures, ghosts>>

SchedulerPublish(e) ==
    /\ scheduler.pc = "publishing"
    /\ e \in scheduler.batch
    /\ Publish("sla_breached", e)
    /\ scheduler' = IF scheduler.batch = {e} THEN Resting
                    ELSE [scheduler EXCEPT !.batch = @ \ {e}]
    /\ UNCHANGED <<database, overdue, task, clock, quota, failures, ghosts>>

-----------------------------------------------------------------------------
(* Failures: an exception at an await (a lost database or Redis connection,*)
(* an httpx error _post_with_retry does not catch) rolls the request back  *)
(* or ends it unannounced; one in the scheduler drops the rest of the      *)
(* round; a crash does both to everything in flight.                       *)

\* What is committed and has yet to be announced.
Owed(w) == IF task[w].pc \in {"committed", "publishing"}
           THEN {<<task[w].inc, StreamOf(task[w].op)>>} ELSE {}
OwedByScheduler == IF scheduler.pc = "publishing"
                   THEN {<<e.inc, "sla_breached">> : e \in scheduler.batch} ELSE {}

RequestFails(w) ==
    /\ task[w].pc # "idle"
    /\ failures < MaxFailures
    /\ Finish(w)
    /\ failures' = failures + 1
    /\ unsent' = unsent \cup Owed(w)
    /\ UNCHANGED <<database, overdue, streams, scheduler, clock, quota, contested>>

SchedulerFails ==
    /\ scheduler.pc # "idle"
    /\ failures < MaxFailures
    /\ scheduler' = Resting
    /\ failures' = failures + 1
    /\ unsent' = unsent \cup OwedByScheduler
    /\ UNCHANGED <<database, overdue, streams, task, clock, quota, contested>>

Crash ==
    /\ failures < MaxFailures
    /\ task' = [w \in Workers |-> Idle]
    /\ scheduler' = Resting
    /\ failures' = failures + 1
    /\ unsent' = unsent \cup OwedByScheduler \cup UNION {Owed(w) : w \in Workers}
    /\ UNCHANGED <<database, overdue, streams, clock, quota, contested>>

-----------------------------------------------------------------------------
Accept(w) ==
    \/ SubmitTelemetry(w)
    \/ \E i \in Incidents, c \in Callers :
        \/ ReportIncident(w, i, c)
        \/ \E to \in Statuses : LoadStatus(w, i, c, to)
        \/ \E t \in Teams : LoadAssign(w, i, c, t)
        \/ \E ft \in FaultTypes : LoadFaultType(w, i, c, ft)
        \/ LoadEvaluation(w, i, c)
        \/ LoadMessage(w, i, c)
        \/ LoadNote(w, i, c)

Proceed(w) ==
    \/ CommitStatus(w)
    \/ Refresh(w)
    \/ CommitAssign(w)
    \/ CommitFaultType(w)
    \/ CommitEvaluation(w)
    \/ CommitMessage(w)
    \/ CommitNote(w)
    \/ PublishCommitted(w)
    \/ KeepWatching(w)
    \/ \E i \in Incidents, ft \in FaultTypes, available \in BOOLEAN :
            OpenIncident(w, i, ft, available)
    \/ AutoAssignQueued(w)
    \/ \E t \in Teams : AutoAssign(w, t)
    \/ CommitTelemetry(w)

Schedule ==
    \/ SchedulerSelect
    \/ SchedulerCommit
    \/ \E e \in scheduler.batch : SchedulerPublish(e)

Next ==
    \/ \E w \in Workers : Accept(w) \/ Proceed(w) \/ RequestFails(w)
    \/ \E i \in Incidents : DeadlinePasses(i)
    \/ Schedule
    \/ SchedulerFails
    \/ Crash

Spec == Init /\ [][Next]_vars

\* The event loop keeps resuming an accepted request and the scheduler's loop; callers
\* owe nothing.
Fairness == WF_vars(Schedule) /\ \A w \in Workers : WF_vars(Proceed(w))
FairSpec == Spec /\ Fairness

\* The behaviours in which no request loads an incident for a move while another one holds a
\* move of it that is not committed yet.  Everything else still overlaps and fails freely.
Moving(w) == task[w].pc = "loaded" /\ task[w].op \in {"status", "assign"}

OneMoveAtATime ==
    \A v, w \in Workers :
        Moving(v) /\ Moving(w) /\ task[v].inc = task[w].inc => v = w

OrderlySpec == Init /\ [][Next /\ OneMoveAtATime']_vars
OrderlyFairSpec == OrderlySpec /\ Fairness

-----------------------------------------------------------------------------
(* Properties.                                                             *)

\* Everything stays in its type, and a request past its first step names an incident.
TypeOK ==
    /\ row \in [Incidents -> Row]
    /\ stored \subseteq Incidents
    /\ used \subseteq Incidents
    /\ overdue \subseteq Incidents
    /\ history \in [Incidents -> Seq(HistoryRow)]
    /\ notes \subseteq Incidents \X Users
    /\ messages \subseteq Incidents \X Users
    /\ evaluated \subseteq Incidents
    /\ streams \in [Streams -> Seq(Event)]
    /\ task \in [Workers -> Task]
    /\ \A w \in Workers : task[w].pc \notin {"idle", "predicting"} => task[w].inc \in Incidents
    /\ scheduler \in [pc : {"idle", "selected", "publishing"}, batch : SUBSET Event]
    /\ clock \in Nat
    /\ quota \in [Operations -> Nat]
    /\ failures \in Nat
    /\ unsent \subseteq Incidents \X Streams
    /\ contested \subseteq Incidents

\* The history explains the status, whatever order racing commits, rollbacks and crashes come
\* in: it is the target of the row that is newest by changed_at, or of a row that was written
\* by a request that began earlier and committed later than those that look newer.
StatusFollowsHistory ==
    \A i \in Incidents :
        IF history[i] = <<>> THEN row[i].status = "YENI"
        ELSE \E k \in DOMAIN history[i] :
                /\ history[i][k].to = row[i].status
                /\ \A j \in DOMAIN history[i] : history[i][j].at > history[i][k].at => j < k

\* resolved_at is set exactly when the history has a move to COZULDU, the technician who made
\* that move left a note, and an incident that is COZULDU or KAPANDI has it set.  (The
\* converse of the last part does not hold: a racing request can move the status back.)
ResolutionIsRecorded ==
    \A i \in Incidents :
        /\ row[i].resolved <=> \E k \in DOMAIN history[i] : history[i][k].to = "COZULDU"
        /\ \A k \in DOMAIN history[i] :
                history[i][k].to = "COZULDU" => <<i, history[i][k].by>> \in notes
        /\ row[i].status \in TerminalStatuses => row[i].resolved

\* Resolution stops the SLA clock: a resolved incident is never ACTIVE, and MET is given to
\* resolved incidents only, although handler and scheduler both decide on stale copies.
ResolvedHasVerdict ==
    \A i \in Incidents :
        /\ row[i].resolved => row[i].sla # "ACTIVE"
        /\ row[i].sla = "MET" => row[i].resolved

\* The penalty is announced once: no interleaving of scheduler rounds, failed rounds and
\* resolutions publishes incident.sla_breached twice for an incident.
BreachAnnouncedOnce ==
    \A j, k \in DOMAIN streams["sla_breached"] :
        streams["sla_breached"][j].inc = streams["sla_breached"][k].inc => j = k

\* Points are paid per incident.resolved: there are never more of these events for an
\* incident than committed moves to COZULDU, and each names a team.
ResolvedEventsBacked ==
    /\ \A i \in Incidents :
        Cardinality({k \in DOMAIN streams["resolved"] : streams["resolved"][k].inc = i})
            <= Cardinality({k \in DOMAIN history[i] : history[i][k].to = "COZULDU"})
    /\ \A k \in DOMAIN streams["resolved"] : streams["resolved"][k].team # NoTeam

\* Two operators racing to evaluate produce one incident.evaluated at most, and only for an
\* incident that has been closed.
EvaluatedOnce ==
    \A j \in DOMAIN streams["evaluated"] :
        LET i == streams["evaluated"][j].inc IN
        /\ \A k \in DOMAIN streams["evaluated"] : streams["evaluated"][k].inc = i => j = k
        /\ i \in evaluated
        /\ \E k \in DOMAIN history[i] : history[i][k].to = "KAPANDI"

\* A verdict may change hands in a race but is never withdrawn, a team is never unassigned,
\* and resolved_at is never cleared: commits write changed columns, not whole stale rows.
NothingWithdrawn ==
    [][\A i \in Incidents :
        /\ row[i].sla # "ACTIVE" => row'[i].sla # "ACTIVE"
        /\ row[i].team # NoTeam => row'[i].team # NoTeam
        /\ row[i].resolved => row'[i].resolved]_vars

\* Two requests that both loaded the incident as YENI have committed.
TakenTwice(i) ==
    \E j, k \in DOMAIN history[i] :
        j # k /\ history[i][j].from = "YENI" /\ history[i][k].from = "YENI"

\* The technician an incident.resolved names, who is paid for it, moved the incident to
\* COZULDU, although the handler reads the team again after its commit: only an assignment
\* left over from before the first one can put another team into the event.
ResolverIsAnnounced ==
    \A k \in DOMAIN streams["resolved"] :
        LET e == streams["resolved"][k] IN
        \/ TakenTwice(e.inc)
        \/ \E h \in DOMAIN history[e.inc] :
                history[e.inc][h].to = "COZULDU" /\ history[e.inc][h].by = e.team

\* The team of a stored incident is announced unless the request failed after its commit, and
\* no incident.assigned names another team unless two requests took the incident from YENI:
\* what telemetry announces before its commit never contradicts what is then stored.
AssignmentIsAnnounced ==
    \A i \in stored :
        LET sent == {k \in DOMAIN streams["assigned"] : streams["assigned"][k].inc = i} IN
        /\ \A k \in sent : streams["assigned"][k].team = row[i].team \/ TakenTwice(i)
        /\ \/ row[i].team = NoTeam
           \/ sent # {}
           \/ <<i, "assigned">> \in unsent
           \/ \E w \in Workers :
                task[w].pc = "publishing" /\ task[w].op = "assign" /\ task[w].inc = i

\* The type_changed events of an incident form a chain that ends at its current fault type,
\* whatever moves, breaches and failures come between, as long as no two corrections of it
\* were under way at once and none was lost after its commit.
TypeChangesChain ==
    LET changes == streams["type_changed"] IN
    \A j \in DOMAIN changes :
        LET i == changes[j].inc
            later == {k \in DOMAIN changes : k > j /\ changes[k].inc = i} IN
        \/ i \in contested
        \/ <<i, "type_changed">> \in unsent
        \/ /\ later = {}
           /\ \/ changes[j].faultType = row[i].faultType
              \/ \E w \in Workers : task[w].pc = "publishing" /\ Correcting(w, i)
        \/ \E k \in later : /\ \A l \in later : k <= l
                            /\ changes[k].original = changes[j].faultType

\* The scheduler keeps up: an incident past its deadline gets a verdict, also when rounds are
\* dropped by an exception the loop swallows: the next one selects the incident again.
OverdueIsDecided ==
    \A i \in Incidents :
        (i \in stored \cap overdue /\ row[i].sla = "ACTIVE") ~> (row[i].sla # "ACTIVE")

\* Every breach is announced, unless the round failed between its commit and the event ...
BreachIsAnnounced ==
    \A i \in Incidents :
        (row[i].sla = "BREACHED")
            ~> (\/ <<i, "sla_breached">> \in unsent
                \/ \E k \in DOMAIN streams["sla_breached"] : streams["sla_breached"][k].inc = i)

\* ... and so is every resolution.
ResolutionIsAnnounced ==
    \A i \in Incidents :
        row[i].resolved
            ~> (\/ <<i, "resolved">> \in unsent
                \/ \E k \in DOMAIN streams["resolved"] : streams["resolved"][k].inc = i)

-----------------------------------------------------------------------------
(* What holds as long as moves of one incident do not overlap.             *)

Lifecycle == INSTANCE IncidentLifecycle WITH
    status <- [i \in Incidents |-> IF i \in stored THEN row[i].status ELSE "absent"],
    team <- [i \in Incidents |-> row[i].team],
    verdict <- [i \in Incidents |-> row[i].sla]

\* The handlers and the SLA task implement the atomic lifecycle.
ImplementsLifecycle == Lifecycle!Spec

-----------------------------------------------------------------------------
(* What the documents say and the code does not do.                        *)

\* ARCHITECTURE.md 4.2.1: a status changes along the graph only.
StatusMovesAlongGraph ==
    [][\A i \in stored :
        \/ row'[i].status = row[i].status
        \/ \E t \in ALLOWED_TRANSITIONS :
                t.from = row[i].status /\ t.to = row'[i].status]_vars

\* ARCHITECTURE.md 4.2.2: after COZULDU the verdict does not change any more.
VerdictIsFinal ==
    [][\A i \in Incidents : row[i].resolved => row'[i].sla = row[i].sla]_vars

\* ARCHITECTURE.md 4.2.1: ATANDI means that a team has been determined.
AssignedHasTeam == \A i \in stored : row[i].status # "YENI" => row[i].team # NoTeam

\* ARCHITECTURE.md 4.2.1: a COZULDU incident is closed in the end, by an operator or by itself.
ResolvedIsClosed ==
    \A i \in Incidents : (row[i].status = "COZULDU") ~> (row[i].status = "KAPANDI")
=============================================================================
