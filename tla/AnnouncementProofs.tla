-------------------------- MODULE AnnouncementProofs --------------------------
(***************************************************************************)
(* Theorems about what the incident service publishes.  Whatever races,    *)
(* fails or crashes, a breach and an evaluation are announced at most      *)
(* once, no resolution is announced that was not committed, and resolvers, *)
(* assignments and corrections are announced as they were written, but for *)
(* the exceptions each theorem names.  As long as moves of one incident do *)
(* not overlap the service implements IncidentLifecycle.                   *)
(***************************************************************************)
EXTENDS IncidentServiceProofs, FiniteSetTheorems

\* Publishing adds one entry to one stream and leaves the entries it has in place.
LEMMA PublishAppends ==
    ASSUME NEW s \in Streams, NEW e \in Event, streams \in [Streams -> Seq(Event)],
           Publish(s, e)
    PROVE  /\ \A r \in Streams : r # s => streams'[r] = streams[r]
           /\ DOMAIN streams'[s] = DOMAIN streams[s] \cup {Len(streams[s]) + 1}
           /\ streams'[s][Len(streams[s]) + 1] = e
           /\ \A k \in DOMAIN streams[s] : streams'[s][k] = streams[s][k]
<1>1. streams'[s] = Append(streams[s], e) /\ streams[s] \in Seq(Event)
  BY DEF Publish
<1>2. ASSUME NEW q \in Seq(Event)
      PROVE  /\ DOMAIN Append(q, e) = DOMAIN q \cup {Len(q) + 1}
             /\ Append(q, e)[Len(q) + 1] = e
             /\ \A k \in DOMAIN q : Append(q, e)[k] = q[k]
  OBVIOUS
<1>3. \A r \in Streams : r # s => streams'[r] = streams[r]
  BY DEF Publish
<1> QED
  BY <1>1, <1>2, <1>3

-----------------------------------------------------------------------------
(* A breach is announced once.                                             *)

Announced(i) ==
    \E k \in DOMAIN streams["sla_breached"] : streams["sla_breached"][k].inc = i

\* An announced incident is stored and has its verdict, so that no later round selects it.
AnnouncedIsDecided ==
    \A k \in DOMAIN streams["sla_breached"] :
        LET i == streams["sla_breached"][k].inc IN
        i \in stored /\ row[i].sla # "ACTIVE"

\* What a round still has to announce was announced by no earlier round, and is decided once
\* the round has committed.
BatchIsPending ==
    /\ \A e, f \in scheduler.batch : e.inc = f.inc => e = f
    /\ \A e \in scheduler.batch : ~Announced(e.inc)
    /\ scheduler.pc = "publishing" => \A e \in scheduler.batch : row[e.inc].sla # "ACTIVE"

BreachInv == BreachAnnouncedOnce /\ AnnouncedIsDecided /\ BatchIsPending

\* Committed rows stay, and so do committed evaluations.
LEMMA StoredGrows ==
    [Next]_vars => stored \subseteq stored' /\ evaluated \subseteq evaluated'
<1> SUFFICES ASSUME [Next]_vars
             PROVE  stored \subseteq stored' /\ evaluated \subseteq evaluated'
  BY SMTT(60)
<1>1. ASSUME NEW w \in Workers, Accept(w)
      PROVE  stored \subseteq stored' /\ evaluated \subseteq evaluated'
  <2>1. ASSUME NEW op, NEW j, NEW c, NEW want, Load(w, op, j, c, want)
        PROVE  stored' = stored /\ evaluated' = evaluated
    BY <2>1 DEF Load, database, ghosts
  <2> QED
    BY <1>1, <2>1, ZenonT(60)
       DEF Accept, SubmitTelemetry, ReportIncident, LoadStatus, LoadAssign, LoadFaultType,
           LoadEvaluation, LoadMessage, LoadNote, database, ghosts
<1>2. ASSUME NEW w \in Workers, Proceed(w)
      PROVE  stored \subseteq stored' /\ evaluated \subseteq evaluated'
  BY <1>2, ZenonT(60)
     DEF Proceed, CommitStatus, Refresh, CommitAssign, CommitFaultType, CommitEvaluation,
         CommitMessage, CommitNote, PublishCommitted, KeepWatching, OpenIncident,
         AutoAssignQueued, AutoAssign, CommitTelemetry, database, ghosts
<1>3. CASE Schedule
  BY <1>3 DEF Schedule, SchedulerSelect, SchedulerCommit, SchedulerPublish, database, ghosts
<1> QED
  BY <1>1, <1>2, <1>3
     DEF Next, RequestFails, DeadlinePasses, SchedulerFails, Crash, vars, database, ghosts

\* A step that neither announces a breach nor moves the scheduler, except to end its round.
LEMMA BreachUndisturbed ==
    ASSUME TypeOK, RowInv, BreachInv, [Next]_vars,
           streams'["sla_breached"] = streams["sla_breached"],
           scheduler' = scheduler \/ scheduler' = Resting
    PROVE  BreachInv'
<1>1. /\ \A i \in stored : i \in stored' /\ i \in Incidents
      /\ \A i \in Incidents : row[i].sla # "ACTIVE" => row'[i].sla # "ACTIVE"
  BY StoredGrows, StepAdvances DEF Advances, TypeOK
<1>2. BreachAnnouncedOnce' /\ AnnouncedIsDecided'
  BY <1>1 DEF BreachInv, BreachAnnouncedOnce, AnnouncedIsDecided
<1>3. CASE scheduler' = scheduler
  <2>1. \A e \in scheduler.batch : e.inc \in Incidents
    BY DEF RowInv, OpeningsAreExclusive, TypeOK
  <2> QED
    BY <1>1, <1>2, <1>3, <2>1 DEF BreachInv, BatchIsPending, Announced
<1>4. CASE scheduler' = Resting
  BY <1>2, <1>4 DEF BreachInv, BatchIsPending, Resting
<1> QED
  BY <1>3, <1>4

\* Requests never announce a breach, and leave the scheduler alone.
LEMMA RequestsDoNotBreach ==
    ASSUME TypeOK, NEW w \in Workers, Accept(w) \/ Proceed(w) \/ RequestFails(w)
    PROVE  streams'["sla_breached"] = streams["sla_breached"] /\ scheduler' = scheduler
<1>1. CASE Accept(w)
  <2>1. ASSUME NEW op, NEW j, NEW c, NEW want, Load(w, op, j, c, want)
        PROVE  streams' = streams /\ scheduler' = scheduler
    BY <2>1 DEF Load
  <2> QED
    BY <1>1, <2>1, ZenonT(60)
       DEF Accept, SubmitTelemetry, ReportIncident, LoadStatus, LoadAssign, LoadFaultType,
           LoadEvaluation, LoadMessage, LoadNote
<1>2. CASE Proceed(w)
  <2>1. ASSUME NEW s \in Streams \ {"sla_breached"}, NEW e, Publish(s, e)
        PROVE  streams'["sla_breached"] = streams["sla_breached"]
    BY <2>1 DEF Publish, TypeOK, Streams
  <2>2. CASE PublishCommitted(w)
    <3>1. StreamOf(task[w].op) \in Streams \ {"sla_breached"}
      BY DEF StreamOf, Streams
    <3> QED
      BY <2>1, <2>2, <3>1 DEF PublishCommitted
  <2>3. /\ "created" \in Streams \ {"sla_breached"}
        /\ "assigned" \in Streams \ {"sla_breached"}
    BY DEF Streams
  <2>4. ASSUME NEW i \in Incidents, NEW ft \in FaultTypes, NEW available \in BOOLEAN,
               OpenIncident(w, i, ft, available)
        PROVE  streams'["sla_breached"] = streams["sla_breached"] /\ scheduler' = scheduler
    BY <2>1, <2>3, <2>4 DEF OpenIncident
  <2>5. ASSUME NEW t \in Teams, AutoAssign(w, t)
        PROVE  streams'["sla_breached"] = streams["sla_breached"] /\ scheduler' = scheduler
    BY <2>1, <2>3, <2>5 DEF AutoAssign
  <2> QED
    BY <1>2, <2>2, <2>4, <2>5
       DEF Proceed, CommitStatus, Refresh, CommitAssign, CommitFaultType, CommitEvaluation,
           CommitMessage, CommitNote, KeepWatching, AutoAssignQueued, CommitTelemetry
<1>3. CASE RequestFails(w)
  BY <1>3 DEF RequestFails
<1> QED
  BY <1>1, <1>2, <1>3, ZenonT(60)

\* A round of the SLA task announces what it committed, each once.
LEMMA ScheduleBreachInv ==
    ASSUME TypeOK, RowInv, BreachInv, Schedule
    PROVE  BreachInv'
<1>a. /\ \A i \in stored : i \in stored' /\ i \in Incidents
      /\ \A i \in Incidents : row[i].sla # "ACTIVE" => row'[i].sla # "ACTIVE"
  BY StoredGrows, StepAdvances DEF Advances, TypeOK, Next
<1>1. CASE SchedulerSelect
  <2>1. /\ streams' = streams /\ row' = row /\ stored' = stored
    BY <1>1 DEF SchedulerSelect, database, ghosts
  <2>2. BreachAnnouncedOnce' /\ AnnouncedIsDecided'
    BY <2>1 DEF BreachInv, BreachAnnouncedOnce, AnnouncedIsDecided
  <2>3. CASE Due = {}
    BY <1>1, <2>1, <2>2, <2>3 DEF SchedulerSelect, BreachInv, BatchIsPending, Announced
  <2>4. CASE Due # {}
    <3> DEFINE due(i) == Announcement(i, row[i].team, Belirsiz, Belirsiz)
    <3>1. scheduler' = [pc |-> "selected", batch |-> {due(i) : i \in Due}]
      BY <1>1, <2>4 DEF SchedulerSelect
    <3>2. \A i \in Due : due(i).inc = i /\ ~Announced(i)
      BY DEF Announcement, Due, Announced, BreachInv, AnnouncedIsDecided
    <3> HIDE DEF due
    <3>3. \A i \in Due : ~Announced(i)'
      BY <2>1, <3>2 DEF Announced
    <3>4. BatchIsPending'
      BY <3>1, <3>2, <3>3 DEF BatchIsPending
    <3> QED
      BY <2>2, <3>4 DEF BreachInv
  <2> QED
    BY <2>3, <2>4
<1>2. CASE SchedulerCommit
  <2>1. streams' = streams /\ scheduler'.batch = scheduler.batch
    BY <1>2 DEF SchedulerCommit, TypeOK
  <2>2. \A e \in scheduler.batch : row'[e.inc].sla = "BREACHED"
    <3> SUFFICES ASSUME NEW e \in scheduler.batch
                 PROVE  row'[e.inc].sla = "BREACHED"
      OBVIOUS
    <3>1. e.inc \in Incidents
      BY DEF TypeOK, RowInv, OpeningsAreExclusive
    <3> QED
      BY <1>2, <3>1 DEF SchedulerCommit, TypeOK, Row
  <2>3. BreachAnnouncedOnce' /\ AnnouncedIsDecided'
    BY <1>a, <2>1 DEF BreachInv, BreachAnnouncedOnce, AnnouncedIsDecided
  <2> QED
    BY <2>1, <2>2, <2>3 DEF BreachInv, BatchIsPending, Announced
<1>3. ASSUME NEW e \in scheduler.batch, SchedulerPublish(e)
      PROVE  BreachInv'
  <2> DEFINE q == streams["sla_breached"]
             n == Len(q) + 1
  <2>1. e \in Event /\ "sla_breached" \in Streams
    BY DEF TypeOK, Streams
  <2>2. /\ DOMAIN q' = DOMAIN q \cup {n} /\ q'[n] = e
        /\ \A k \in DOMAIN q : q'[k] = q[k]
    BY <1>3, <2>1, PublishAppends DEF SchedulerPublish, TypeOK
  <2>3. row' = row /\ stored' = stored
    BY <1>3 DEF SchedulerPublish, database, ghosts
  <2>4. ~Announced(e.inc) /\ e.inc \in stored /\ row[e.inc].sla # "ACTIVE"
    BY <1>3 DEF SchedulerPublish, BreachInv, BatchIsPending, RowInv, OpeningsAreExclusive
  <2>5. BreachAnnouncedOnce'
    BY <2>2, <2>4 DEF BreachInv, BreachAnnouncedOnce, Announced
  <2>6. AnnouncedIsDecided'
    BY <2>2, <2>3, <2>4 DEF BreachInv, AnnouncedIsDecided
  <2>7. scheduler'.batch \subseteq scheduler.batch \ {e}
    BY <1>3 DEF SchedulerPublish, Resting, TypeOK
  <2>8. \A f \in scheduler'.batch : ~Announced(f.inc)'
    BY <2>2, <2>7 DEF BreachInv, BatchIsPending, Announced
  <2>9. BatchIsPending'
    BY <1>3, <2>3, <2>7, <2>8 DEF SchedulerPublish, BreachInv, BatchIsPending
  <2> QED
    BY <2>5, <2>6, <2>9 DEF BreachInv
<1> QED
  BY <1>1, <1>2, <1>3 DEF Schedule

\* However scheduler rounds, their failures, crashes and racing resolutions interleave, no
\* incident's breach is announced twice.
THEOREM BreachAnnouncedOnceCorrect == Spec => []BreachAnnouncedOnce
<1>1. Init => BreachInv
  BY DEF Init, BreachInv, BreachAnnouncedOnce, AnnouncedIsDecided, BatchIsPending, Announced,
         Resting, Streams
<1>2. TypeOK /\ RowInv /\ BreachInv /\ [Next]_vars => BreachInv'
  <2> SUFFICES ASSUME TypeOK, RowInv, BreachInv, [Next]_vars
               PROVE  BreachInv'
    OBVIOUS
  <2>1. ASSUME NEW w \in Workers, Accept(w) \/ Proceed(w) \/ RequestFails(w)
        PROVE  BreachInv'
    BY <2>1, RequestsDoNotBreach, BreachUndisturbed
  <2>2. ASSUME NEW i \in Incidents, DeadlinePasses(i)
        PROVE  BreachInv'
    BY <2>2, BreachUndisturbed DEF DeadlinePasses
  <2>3. CASE SchedulerFails \/ Crash
    BY <2>3, BreachUndisturbed DEF SchedulerFails, Crash
  <2>4. CASE UNCHANGED vars
    BY <2>4, BreachUndisturbed DEF vars
  <2> QED
    BY <2>1, <2>2, <2>3, <2>4, ScheduleBreachInv DEF Next
<1>3. BreachInv => BreachAnnouncedOnce
  BY DEF BreachInv
<1> QED
  BY <1>1, <1>2, <1>3, TypeCorrect, RowInvariant, PTL DEF Spec

-----------------------------------------------------------------------------
(* An evaluation is announced once.                                        *)

Closed(i) == \E k \in DOMAIN history[i] : history[i][k].to = "KAPANDI"

\* A request that won the evaluation of an incident and has not announced it yet.
Reporting(w) == task[w].pc = "publishing" /\ task[w].op = "evaluate"

\* Winning is exclusive: one request per incident, and it has announced nothing so far.
ReportIsExclusive ==
    /\ \A w \in Workers : Reporting(w) =>
          LET i == task[w].inc IN
          /\ i \in evaluated /\ Closed(i)
          /\ \A k \in DOMAIN streams["evaluated"] : streams["evaluated"][k].inc # i
    /\ \A v, w \in Workers : Reporting(v) /\ Reporting(w) /\ v # w => task[v].inc # task[w].inc

\* An evaluation under way is of a closed incident, and only a resolution refreshes its row.
EvaluationIsOfClosed ==
    \A w \in Workers :
        /\ task[w].pc = "loaded" /\ task[w].op = "evaluate" => Closed(task[w].inc)
        /\ task[w].pc = "committed" => task[w].op = "status"

EvaluationInv == EvaluatedOnce /\ ReportIsExclusive /\ EvaluationIsOfClosed

\* The history of an incident is only ever appended to.
LEMMA ClosedStays ==
    ASSUME TypeOK, [Next]_vars, NEW i \in Incidents, Closed(i)
    PROVE  Closed(i)'
<1>1. history' = history => Closed(i)'
  BY DEF Closed
<1>2. ASSUME NEW j \in Incidents, NEW t \in Task,
             history' = [history EXCEPT ![j] = Append(@, StatusRow(t))]
      PROVE  Closed(i)'
  <2>1. ASSUME NEW q \in Seq(HistoryRow), NEW h \in HistoryRow
        PROVE  /\ DOMAIN q \subseteq DOMAIN Append(q, h)
               /\ \A k \in DOMAIN q : Append(q, h)[k] = q[k]
    OBVIOUS
  <2>2. StatusRow(t) \in HistoryRow
    BY StatusRowType
  <2>3. history'[i] = history[i] \/ history'[i] = Append(history[i], StatusRow(t))
    BY <1>2 DEF TypeOK
  <2>4. history[i] \in Seq(HistoryRow)
    BY DEF TypeOK
  <2>5. PICK k \in DOMAIN history[i] : history[i][k].to = "KAPANDI"
    BY DEF Closed
  <2>6. k \in DOMAIN history'[i] /\ history'[i][k] = history[i][k]
    BY <2>1, <2>2, <2>3, <2>4, SMTT(60)
  <2> QED
    BY <2>5, <2>6 DEF Closed
<1>3. ASSUME NEW w \in Workers, Accept(w)
      PROVE  Closed(i)'
  <2>1. ASSUME NEW op, NEW j, NEW c, NEW want, Load(w, op, j, c, want)
        PROVE  history' = history
    BY <2>1 DEF Load, database, ghosts
  <2> QED
    BY <1>1, <1>3, <2>1, ZenonT(60)
       DEF Accept, SubmitTelemetry, ReportIncident, LoadStatus, LoadAssign, LoadFaultType,
           LoadEvaluation, LoadMessage, LoadNote, database, ghosts
<1>4. ASSUME NEW w \in Workers, Proceed(w)
      PROVE  Closed(i)'
  <2>1. /\ task[w] \in Task
        /\ task[w].pc \notin {"idle", "predicting"} => task[w].inc \in Incidents
    BY DEF TypeOK
  <2>2. CASE CommitStatus(w) \/ CommitAssign(w) \/ CommitTelemetry(w)
    BY <1>1, <1>2, <2>1, <2>2 DEF CommitStatus, CommitAssign, CommitTelemetry, Loaded
  <2> QED
    BY <1>1, <1>4, <2>2
       DEF Proceed, Refresh, CommitFaultType, CommitEvaluation, CommitMessage, CommitNote,
           PublishCommitted, KeepWatching, OpenIncident, AutoAssignQueued, AutoAssign, database, ghosts
<1> QED
  BY <1>1, <1>3, <1>4
     DEF Next, Schedule, SchedulerSelect, SchedulerCommit, SchedulerPublish, RequestFails,
         DeadlinePasses, SchedulerFails, Crash, vars, database, ghosts

\* A step that announces no evaluation and after which no further request is about to.
LEMMA EvaluationUndisturbed ==
    ASSUME TypeOK, EvaluationInv, [Next]_vars,
           streams'["evaluated"] = streams["evaluated"],
           \A v \in Workers : \/ task'[v] = task[v]
                               \/ /\ task'[v].pc = "publishing" => task'[v].op # "evaluate"
                                  /\ task'[v].pc = "loaded" /\ task'[v].op = "evaluate"
                                        => Closed(task[v].inc)'
                                  /\ task'[v].pc = "committed" => task'[v].op = "status"
    PROVE  EvaluationInv'
<1>1. /\ \A i \in evaluated : i \in evaluated'
      /\ \A i \in Incidents : Closed(i) => Closed(i)'
  BY StoredGrows, ClosedStays
<1>2. \A k \in DOMAIN streams["evaluated"] : streams["evaluated"][k].inc \in Incidents
  BY DEF EvaluationInv, EvaluatedOnce, TypeOK
<1>3. \A w \in Workers : task[w].pc \in {"loaded", "publishing"} => task[w].inc \in Incidents
  BY DEF TypeOK
<1>4. EvaluatedOnce'
  BY <1>1, <1>2 DEF EvaluationInv, EvaluatedOnce, Closed
<1>5. \A v \in Workers : Reporting(v)' => Reporting(v) /\ task'[v] = task[v]
  BY DEF Reporting
<1>6. ReportIsExclusive'
  BY <1>1, <1>3, <1>5 DEF EvaluationInv, ReportIsExclusive, Reporting
<1>7. EvaluationIsOfClosed'
  <2> SUFFICES ASSUME NEW w \in Workers
               PROVE  EvaluationIsOfClosed!(w)'
    BY DEF EvaluationIsOfClosed
  <2>1. CASE task'[w] = task[w]
    BY <1>1, <1>3, <2>1 DEF EvaluationInv, EvaluationIsOfClosed, Closed
  <2>2. CASE task'[w] # task[w]
    BY <2>2 DEF Closed
  <2> QED
    BY <2>1, <2>2
<1> QED
  BY <1>4, <1>6, <1>7 DEF EvaluationInv

\* A request for an evaluation loads a closed incident.
LEMMA AcceptEvaluationInv ==
    ASSUME TypeOK, RowInv, EvaluationInv, NEW w \in Workers, Accept(w)
    PROVE  EvaluationInv'
<1>0. [Next]_vars
  BY DEF Next
<1>1. ASSUME NEW op, NEW i \in Incidents, NEW c, NEW want, Load(w, op, i, c, want),
             op = "evaluate" => Closed(i)
      PROVE  EvaluationInv'
  <2>1. /\ task'[w].pc = "loaded" /\ task'[w].op = op /\ task'[w].inc = i
        /\ \A v \in Workers : v # w => task'[v] = task[v]
    BY <1>1 DEF Load, TypeOK
  <2>2. streams' = streams /\ (Closed(i) => Closed(i)')
    BY <1>0, <1>1, ClosedStays DEF Load
  <2>3. /\ task'[w].pc # "publishing" /\ task'[w].pc # "committed"
        /\ task'[w].op = "evaluate" => Closed(task[w].inc)'
    BY <1>1, <2>1, <2>2 DEF Closed
  <2> QED
    BY <1>0, <2>1, <2>2, <2>3, EvaluationUndisturbed DEF Closed
<1>2. CASE SubmitTelemetry(w)
  <2>1. /\ task'[w].pc = "predicting" /\ \A v \in Workers : v # w => task'[v] = task[v]
        /\ streams' = streams
    BY <1>2 DEF SubmitTelemetry, Idle, TypeOK
  <2> QED
    BY <1>0, <2>1, EvaluationUndisturbed
<1>3. ASSUME NEW i \in Incidents, NEW c \in Callers, ReportIncident(w, i, c)
      PROVE  EvaluationInv'
  <2>1. /\ task'[w].pc = "publishing" /\ task'[w].op = "report"
        /\ \A v \in Workers : v # w => task'[v] = task[v]
        /\ streams' = streams
    BY <1>3 DEF ReportIncident, Idle, TypeOK
  <2> QED
    BY <1>0, <2>1, EvaluationUndisturbed
<1>4. ASSUME NEW i \in Incidents, NEW c \in Callers, LoadEvaluation(w, i, c)
      PROVE  EvaluationInv'
  <2>1. LastRecorded(i) = "KAPANDI"
    BY <1>4 DEF LoadEvaluation, RowInv, LastMoveIsStatus
  <2>2. Closed(i)
    BY <2>1 DEF LastRecorded, Closed, TypeOK
  <2> QED
    BY <1>1, <1>4, <2>2 DEF LoadEvaluation
<1>5. ASSUME NEW i \in Incidents, NEW c \in Callers,
             \/ \E to \in Statuses : LoadStatus(w, i, c, to)
             \/ \E t \in Teams : LoadAssign(w, i, c, t)
             \/ \E ft \in FaultTypes : LoadFaultType(w, i, c, ft)
             \/ LoadMessage(w, i, c) \/ LoadNote(w, i, c)
      PROVE  EvaluationInv'
  <2>1. PICK op \in Operations \ {"evaluate"} : \E want : Load(w, op, i, c, want)
    BY <1>5
       DEF LoadStatus, LoadAssign, LoadFaultType, LoadMessage, LoadNote, Operations
  <2> QED
    BY <1>1, <2>1
<1> QED
  BY <1>2, <1>3, <1>4, <1>5 DEF Accept

\* The unique incident_id lets one commit through, and that request alone announces it.
LEMMA CommitEvaluationOnce ==
    ASSUME TypeOK, EvaluationInv, NEW w \in Workers, CommitEvaluation(w)
    PROVE  EvaluationInv'
<1> DEFINE i == task[w].inc
<1>0. [Next]_vars
  BY DEF Next, Proceed
<1>1. /\ i \in Incidents /\ Closed(i) /\ evaluated' = evaluated \cup {i}
      /\ streams' = streams /\ history' = history
  BY DEF CommitEvaluation, Loaded, EvaluationInv, EvaluationIsOfClosed, TypeOK
<1>2. CASE i \in evaluated
  <2>1. task'[w].pc = "idle" /\ \A v \in Workers : v # w => task'[v] = task[v]
    BY <1>2 DEF CommitEvaluation, Finish, Idle, TypeOK
  <2> QED
    BY <1>0, <1>1, <2>1, EvaluationUndisturbed
<1>3. CASE i \notin evaluated
  <2>1. /\ task'[w].pc = "publishing" /\ task'[w].op = "evaluate" /\ task'[w].inc = i
        /\ \A v \in Workers : v # w => task'[v] = task[v]
    BY <1>3 DEF CommitEvaluation, Loaded, Goto, TypeOK, Task
  <2>2. \A k \in DOMAIN streams["evaluated"] : streams["evaluated"][k].inc # i
    BY <1>3 DEF EvaluationInv, EvaluatedOnce
  <2>3. \A v \in Workers : Reporting(v) => task[v].inc # i
    BY <1>3 DEF EvaluationInv, ReportIsExclusive
  <2> HIDE DEF i
  <2>4. EvaluatedOnce'
    BY <1>1 DEF EvaluationInv, EvaluatedOnce
  <2>5. ReportIsExclusive'
    BY <1>1, <2>1, <2>2, <2>3 DEF EvaluationInv, ReportIsExclusive, Reporting, Closed
  <2>6. EvaluationIsOfClosed'
    BY <1>1, <2>1 DEF EvaluationInv, EvaluationIsOfClosed, Closed
  <2> QED
    BY <2>4, <2>5, <2>6 DEF EvaluationInv
<1> QED
  BY <1>2, <1>3

\* The one request that stored the evaluation announces it.
LEMMA PublishEvaluationOnce ==
    ASSUME TypeOK, EvaluationInv, NEW w \in Workers, PublishCommitted(w)
    PROVE  EvaluationInv'
<1> DEFINE t == task[w]
           q == streams["evaluated"]
           n == Len(q) + 1
<1>0. [Next]_vars
  BY DEF Next, Proceed
<1>1. /\ t \in Task /\ t.inc \in Incidents /\ EventOf(t) \in Event
      /\ StreamOf(t.op) \in Streams /\ "evaluated" \in Streams
  BY EventType DEF PublishCommitted, TypeOK, StreamOf, Streams
<1>2. /\ task'[w].pc = "idle" /\ \A v \in Workers : v # w => task'[v] = task[v]
      /\ history' = history /\ evaluated' = evaluated
  BY DEF PublishCommitted, Finish, Idle, TypeOK, database, ghosts
<1>3. CASE t.op # "evaluate"
  <2>1. StreamOf(t.op) # "evaluated"
    BY <1>3 DEF StreamOf
  <2>2. streams'["evaluated"] = streams["evaluated"]
    BY <1>1, <2>1, PublishAppends DEF PublishCommitted, TypeOK
  <2> QED
    BY <1>0, <1>2, <2>2, EvaluationUndisturbed
<1>4. CASE t.op = "evaluate"
  <2>1. /\ DOMAIN q' = DOMAIN q \cup {n} /\ q'[n] = EventOf(t)
        /\ \A k \in DOMAIN q : q'[k] = q[k]
    BY <1>1, <1>4, PublishAppends DEF PublishCommitted, TypeOK, StreamOf
  <2>2. EventOf(t).inc = t.inc
    BY DEF EventOf, Announcement
  <2>3. /\ t.inc \in evaluated /\ Closed(t.inc)
        /\ \A k \in DOMAIN q : q[k].inc # t.inc
        /\ \A v \in Workers : Reporting(v) /\ v # w => task[v].inc # t.inc
    BY <1>4 DEF PublishCommitted, EvaluationInv, ReportIsExclusive, Reporting
  <2> HIDE DEF t
  <2>4. EvaluatedOnce'
    BY <1>2, <2>1, <2>2, <2>3 DEF EvaluationInv, EvaluatedOnce, Closed
  <2>5. ReportIsExclusive'
    BY <1>2, <2>1, <2>2, <2>3 DEF EvaluationInv, ReportIsExclusive, Reporting, Closed
  <2>6. EvaluationIsOfClosed'
    BY <1>2 DEF EvaluationInv, EvaluationIsOfClosed, Closed
  <2> QED
    BY <2>4, <2>5, <2>6 DEF EvaluationInv
<1> QED
  BY <1>3, <1>4

\* No other step of a request announces an evaluation.
LEMMA ProceedEvaluationInv ==
    ASSUME TypeOK, EvaluationInv, NEW w \in Workers, Proceed(w)
    PROVE  EvaluationInv'
<1>0. [Next]_vars /\ task[w] \in Task
  BY DEF Next, TypeOK
<1>f. ASSUME Finish(w), streams' = streams
      PROVE  EvaluationInv'
  <2>1. task'[w].pc = "idle" /\ \A v \in Workers : v # w => task'[v] = task[v]
    BY <1>f DEF Finish, Idle, TypeOK
  <2> QED
    BY <1>0, <1>f, <2>1, EvaluationUndisturbed
<1>g. ASSUME NEW pc \in {"committed", "publishing", "committing"}, Goto(w, pc),
             task[w].op # "evaluate", pc = "committed" => task[w].op = "status",
             streams' = streams
      PROVE  EvaluationInv'
  <2>1. /\ task'[w].pc = pc /\ task'[w].op = task[w].op
        /\ \A v \in Workers : v # w => task'[v] = task[v]
    BY <1>0, <1>g DEF Goto, TypeOK, Task
  <2> QED
    BY <1>0, <1>g, <2>1, EvaluationUndisturbed
<1>1. CASE CommitStatus(w)
  BY <1>1, <1>f, <1>g DEF CommitStatus, Loaded
<1>2. CASE Refresh(w)
  <2>1. /\ task'[w].pc = "publishing" /\ task'[w].op = task[w].op
        /\ \A v \in Workers : v # w => task'[v] = task[v]
    BY <1>0, <1>2 DEF Refresh, TypeOK, Task
  <2>2. task[w].op = "status" /\ streams' = streams
    BY <1>2 DEF Refresh, EvaluationInv, EvaluationIsOfClosed
  <2> QED
    BY <1>0, <2>1, <2>2, EvaluationUndisturbed
<1>3. CASE CommitAssign(w) \/ CommitFaultType(w)
  BY <1>3, <1>g DEF CommitAssign, CommitFaultType, Loaded
<1>4. CASE CommitMessage(w) \/ CommitNote(w) \/ KeepWatching(w) \/ CommitTelemetry(w)
  BY <1>4, <1>f DEF CommitMessage, CommitNote, KeepWatching, CommitTelemetry
<1>5. ASSUME NEW s \in Streams \ {"evaluated"}, NEW e, Publish(s, e),
             task'[w].pc \in {"assigning", "committing"},
             \A v \in Workers : v # w => task'[v] = task[v]
      PROVE  EvaluationInv'
  <2>1. streams'["evaluated"] = streams["evaluated"]
    BY <1>5 DEF Publish, TypeOK, Streams
  <2> QED
    BY <1>0, <1>5, <2>1, EvaluationUndisturbed
<1>6. ASSUME NEW i \in Incidents, NEW ft \in FaultTypes, NEW available \in BOOLEAN,
             OpenIncident(w, i, ft, available)
      PROVE  EvaluationInv'
  <2>1. /\ task'[w].pc \in {"assigning", "committing"}
        /\ \A v \in Workers : v # w => task'[v] = task[v]
    BY <1>0, <1>6 DEF OpenIncident, TypeOK, Task
  <2> QED
    BY <1>5, <1>6, <2>1 DEF OpenIncident, Streams
<1>7. CASE AutoAssignQueued(w)
  <2>1. /\ task'[w].pc = "committing" /\ streams' = streams
        /\ \A v \in Workers : v # w => task'[v] = task[v]
    BY <1>0, <1>7 DEF AutoAssignQueued, Goto, TypeOK, Task
  <2> QED
    BY <1>0, <2>1, EvaluationUndisturbed
<1>8. ASSUME NEW team \in Teams, AutoAssign(w, team)
      PROVE  EvaluationInv'
  <2>1. /\ task'[w].pc = "committing"
        /\ \A v \in Workers : v # w => task'[v] = task[v]
    BY <1>0, <1>8 DEF AutoAssign, TypeOK, Task
  <2> QED
    BY <1>5, <1>8, <2>1 DEF AutoAssign, Streams
<1> QED
  BY <1>1, <1>2, <1>3, <1>4, <1>6, <1>7, <1>8, CommitEvaluationOnce, PublishEvaluationOnce
     DEF Proceed

\* Whatever evaluations race and whichever fail half way, an incident's evaluation is
\* announced at most once, and only after it was closed.
THEOREM EvaluatedOnceCorrect == Spec => []EvaluatedOnce
<1>1. Init => EvaluationInv
  BY DEF Init, EvaluationInv, EvaluatedOnce, ReportIsExclusive, Reporting,
         EvaluationIsOfClosed, Idle, Streams
<1>2. TypeOK /\ RowInv /\ EvaluationInv /\ [Next]_vars => EvaluationInv'
  <2> SUFFICES ASSUME TypeOK, RowInv, EvaluationInv, [Next]_vars
               PROVE  EvaluationInv'
    OBVIOUS
  <2>1. ASSUME NEW w \in Workers, RequestFails(w)
        PROVE  EvaluationInv'
    <3>1. /\ task'[w].pc = "idle" /\ \A v \in Workers : v # w => task'[v] = task[v]
          /\ streams' = streams
      BY <2>1 DEF RequestFails, Finish, Idle, TypeOK
    <3> QED
      BY <3>1, EvaluationUndisturbed
  <2>2. ASSUME NEW i \in Incidents, DeadlinePasses(i)
        PROVE  EvaluationInv'
    BY <2>2, EvaluationUndisturbed DEF DeadlinePasses
  <2>3. CASE Schedule
    <3>1. ASSUME NEW e, Publish("sla_breached", e)
          PROVE  streams'["evaluated"] = streams["evaluated"]
      BY <3>1 DEF Publish, TypeOK, Streams
    <3>2. streams'["evaluated"] = streams["evaluated"] /\ task' = task
      BY <2>3, <3>1 DEF Schedule, SchedulerSelect, SchedulerCommit, SchedulerPublish
    <3> QED
      BY <3>2, EvaluationUndisturbed
  <2>4. CASE SchedulerFails
    BY <2>4, EvaluationUndisturbed DEF SchedulerFails
  <2>5. CASE Crash
    <3>1. streams' = streams /\ \A v \in Workers : task'[v].pc = "idle"
      BY <2>5 DEF Crash, Idle
    <3> QED
      BY <3>1, EvaluationUndisturbed
  <2>6. CASE UNCHANGED vars
    BY <2>6, EvaluationUndisturbed DEF vars
  <2> QED
    BY <2>1, <2>2, <2>3, <2>4, <2>5, <2>6, AcceptEvaluationInv, ProceedEvaluationInv DEF Next
<1>3. EvaluationInv => EvaluatedOnce
  BY DEF EvaluationInv
<1> QED
  BY <1>1, <1>2, <1>3, TypeCorrect, RowInvariant, PTL DEF Spec

-----------------------------------------------------------------------------
(* What a request carries, however many there are.                         *)

Assignable == Teams \cup {NoTeam}

\* What the assignments of a handler to the object it loaded may be.
WishFits(t) ==
    LET s == t.snap
        r == t.want
    IN  /\ t.op # "faultType" => r.faultType = s.faultType
        /\ t.op # "assign" => r.team = s.team
        /\ t.op \notin {"status", "assign"} => r.status = s.status
        /\ t.op # "status" \/ r.status # "COZULDU" => r.sla = s.sla
        /\ t.op = "assign" => s.status = "YENI" /\ r.status = "ATANDI" /\ r.team \in Teams
        /\ t.op = "evaluate" => s.status = "KAPANDI"
        /\ t.op = "status" => <<s.status, r.status>> \in Lifecycle!Graph
        /\ t.op = "status" /\ r.status = "COZULDU" =>
               t.by = s.team /\ r.sla \in {s.sla, "MET"} \ {"ACTIVE"}

\* A new incident is unassigned until it is ATANDI, and ATANDI with a team.
OpeningFits(t) ==
    \/ t.want.status = "YENI" /\ t.want.team = NoTeam
    \/ t.pc = "committing" /\ t.want.status = "ATANDI" /\ t.want.team \in Teams

TaskFits(t) ==
    /\ t.snap.team \in Assignable /\ t.want.team \in Assignable
    /\ t.pc = "loaded" => WishFits(t)
    /\ t.pc \in {"assigning", "committing"} => OpeningFits(t) /\ t.op = "telemetry"
    /\ t.pc = "predicting" => t.op = "telemetry"
    /\ t.pc = "committed" => t.op = "status"
    /\ t.pc = "publishing" => t.op \in {"report", "status", "assign", "faultType", "evaluate"}

TasksFit ==
    /\ \A w \in Workers : TaskFits(task[w])
    /\ \A i \in Incidents : row[i].team \in Assignable

\* What validate_transition allows is an edge of the graph, and a resolution is its team's.
LEMMA TransitionOnGraph ==
    ASSUME NEW from, NEW to, NEW c, NEW team, ValidTransition(from, to, c, team)
    PROVE  /\ <<from, to>> \in Lifecycle!Graph
           /\ to = "ATANDI" => from = "YENI"
           /\ to = "COZULDU" => c.id = team
<1>1. PICK t \in ALLOWED_TRANSITIONS : t.from = from /\ t.to = to
  BY DEF ValidTransition
<1>2. <<from, to>> \in ASSIGNED_TECHNICIAN_ONLY => c.id = team
  BY DEF ValidTransition
<1>3. <<from, to>> \in Lifecycle!Graph /\ (to = "ATANDI" => from = "YENI")
  BY <1>1 DEF ALLOWED_TRANSITIONS, Lifecycle!Graph
<1>4. to = "COZULDU" => from = "MUDAHALE_EDILIYOR"
  BY <1>1 DEF ALLOWED_TRANSITIONS
<1> QED
  BY <1>2, <1>3, <1>4 DEF ASSIGNED_TECHNICIAN_ONLY

\* A request moves nobody's task but its own.
LEMMA OthersRest ==
    ASSUME TypeOK, NEW w \in Workers, Accept(w) \/ Proceed(w) \/ RequestFails(w)
    PROVE  \A v \in Workers : v # w => task'[v] = task[v]
<1>1. ASSUME NEW x, task' = [task EXCEPT ![w] = x]
      PROVE  \A v \in Workers : v # w => task'[v] = task[v]
  BY <1>1 DEF TypeOK
<1>2. CASE Accept(w)
  <2>1. ASSUME NEW op, NEW j, NEW c, NEW want, Load(w, op, j, c, want)
        PROVE  \A v \in Workers : v # w => task'[v] = task[v]
    BY <1>1, <2>1, SMTT(60) DEF Load
  <2>2. ASSUME NEW i \in Incidents, NEW c \in Callers,
               \/ \E to \in Statuses : LoadStatus(w, i, c, to)
               \/ \E t \in Teams : LoadAssign(w, i, c, t)
               \/ \E ft \in FaultTypes : LoadFaultType(w, i, c, ft)
               \/ LoadEvaluation(w, i, c) \/ LoadMessage(w, i, c) \/ LoadNote(w, i, c)
        PROVE  \A v \in Workers : v # w => task'[v] = task[v]
    BY <2>1, <2>2 DEF LoadStatus, LoadAssign, LoadFaultType, LoadEvaluation, LoadMessage, LoadNote
  <2>3. ASSUME NEW i \in Incidents, NEW c \in Callers, ReportIncident(w, i, c)
        PROVE  \A v \in Workers : v # w => task'[v] = task[v]
    BY <1>1, <2>3 DEF ReportIncident
  <2>4. CASE SubmitTelemetry(w)
    BY <1>1, <2>4 DEF SubmitTelemetry
  <2> QED
    BY <1>2, <2>2, <2>3, <2>4 DEF Accept
<1>3. ASSUME Finish(w) \/ \E pc : Goto(w, pc)
      PROVE  \A v \in Workers : v # w => task'[v] = task[v]
  BY <1>1, <1>3 DEF Finish, Goto
<1>4. CASE Proceed(w)
  <2>1. CASE Refresh(w)
    BY <2>1 DEF Refresh, TypeOK
  <2>2. ASSUME NEW i \in Incidents, NEW ft \in FaultTypes, NEW available \in BOOLEAN,
               OpenIncident(w, i, ft, available)
        PROVE  \A v \in Workers : v # w => task'[v] = task[v]
    BY <2>2 DEF OpenIncident, TypeOK
  <2>3. ASSUME NEW t \in Teams, AutoAssign(w, t)
        PROVE  \A v \in Workers : v # w => task'[v] = task[v]
    BY <2>3 DEF AutoAssign, TypeOK
  <2>4. CASE CommitStatus(w) \/ CommitEvaluation(w)
    BY <1>3, <2>4 DEF CommitStatus, CommitEvaluation
  <2>5. CASE \/ CommitAssign(w) \/ CommitFaultType(w) \/ CommitMessage(w) \/ CommitNote(w)
             \/ PublishCommitted(w) \/ KeepWatching(w) \/ AutoAssignQueued(w) \/ CommitTelemetry(w)
    BY <1>3, <2>5 DEF CommitAssign, CommitFaultType, CommitMessage, CommitNote, PublishCommitted,
                      KeepWatching, AutoAssignQueued, CommitTelemetry
  <2> QED
    BY <1>4, <2>1, <2>2, <2>3, <2>4, <2>5 DEF Proceed
<1>5. CASE RequestFails(w)
  BY <1>3, <1>5 DEF RequestFails
<1> QED
  BY <1>2, <1>4, <1>5

\* Loading: what is wanted is made from what was loaded.
LEMMA LoadFits ==
    ASSUME TypeOK, TasksFit, NEW w \in Workers, NEW i \in Incidents, NEW c \in Callers,
           \/ \E to \in Statuses : LoadStatus(w, i, c, to)
           \/ \E t \in Teams : LoadAssign(w, i, c, t)
           \/ \E ft \in FaultTypes : LoadFaultType(w, i, c, ft)
           \/ LoadEvaluation(w, i, c) \/ LoadMessage(w, i, c) \/ LoadNote(w, i, c)
    PROVE  TaskFits(task'[w]) /\ task'[w].pc = "loaded" /\ row' = row
<1>0. row[i] \in Row /\ row[i].team \in Assignable
  BY DEF TypeOK, TasksFit
<1>1. ASSUME NEW op, NEW want, Load(w, op, i, c, want), want.team \in Assignable,
             WishFits([pc |-> "loaded", op |-> op, inc |-> i, by |-> c.id,
                       snap |-> row[i], want |-> want, at |-> clock + 1])
      PROVE  TaskFits(task'[w]) /\ task'[w].pc = "loaded" /\ row' = row
  <2>1. PICK t : t = [pc |-> "loaded", op |-> op, inc |-> i, by |-> c.id,
                      snap |-> row[i], want |-> want, at |-> clock + 1]
    OBVIOUS
  <2>2. task'[w] = t /\ row' = row
    BY <1>1, <2>1 DEF Load, TypeOK, database, ghosts
  <2>3. t.pc = "loaded" /\ t.snap = row[i] /\ t.want = want
    BY <2>1
  <2>4. WishFits(t)
    BY <1>1, <2>1
  <2> QED
    BY <1>0, <1>1, <2>2, <2>3, <2>4 DEF TaskFits
<1>2. ASSUME NEW to \in Statuses, LoadStatus(w, i, c, to)
      PROVE  TaskFits(task'[w]) /\ task'[w].pc = "loaded" /\ row' = row
  <2>1. PICK want : want = IF to = "COZULDU" THEN Resolve(row[i]) ELSE [row[i] EXCEPT !.status = to]
    OBVIOUS
  <2>2. /\ want.status = to /\ want.team = row[i].team /\ want.faultType = row[i].faultType
        /\ to = "COZULDU" => want.sla \in {row[i].sla, "MET"} \ {"ACTIVE"}
        /\ to # "COZULDU" => want.sla = row[i].sla
    BY <1>0, <2>1 DEF Resolve, Row
  <2>3. /\ <<row[i].status, to>> \in Lifecycle!Graph
        /\ to = "COZULDU" => c.id = row[i].team
    BY <1>2, TransitionOnGraph DEF LoadStatus
  <2>4. Load(w, "status", i, c, want)
    BY <1>2, <2>1 DEF LoadStatus
  <2>5. WishFits([pc |-> "loaded", op |-> "status", inc |-> i, by |-> c.id,
                  snap |-> row[i], want |-> want, at |-> clock + 1])
    BY <2>2, <2>3 DEF WishFits
  <2> QED
    BY <1>0, <1>1, <2>2, <2>4, <2>5
<1>3. ASSUME NEW t \in Teams, LoadAssign(w, i, c, t)
      PROVE  TaskFits(task'[w]) /\ task'[w].pc = "loaded" /\ row' = row
  <2>1. PICK want : want = [row[i] EXCEPT !.status = "ATANDI", !.team = t]
    OBVIOUS
  <2>2. /\ want.status = "ATANDI" /\ want.team = t /\ want.faultType = row[i].faultType
        /\ want.sla = row[i].sla
    BY <1>0, <2>1 DEF Row
  <2>3. row[i].status = "YENI"
    BY <1>3, TransitionOnGraph, ZenonT(60) DEF LoadAssign
  <2>4. Load(w, "assign", i, c, want)
    BY <1>3, <2>1 DEF LoadAssign
  <2>5. WishFits([pc |-> "loaded", op |-> "assign", inc |-> i, by |-> c.id,
                  snap |-> row[i], want |-> want, at |-> clock + 1])
    BY <2>2, <2>3 DEF WishFits
  <2> QED
    BY <1>1, <2>2, <2>4, <2>5 DEF Assignable
<1>4. ASSUME NEW ft \in FaultTypes, LoadFaultType(w, i, c, ft)
      PROVE  TaskFits(task'[w]) /\ task'[w].pc = "loaded" /\ row' = row
  <2>1. PICK want : want = [row[i] EXCEPT !.faultType = ft, !.override = TRUE]
    OBVIOUS
  <2>2. want.status = row[i].status /\ want.team = row[i].team /\ want.sla = row[i].sla
    BY <1>0, <2>1 DEF Row
  <2>3. Load(w, "faultType", i, c, want)
    BY <1>4, <2>1 DEF LoadFaultType
  <2>4. WishFits([pc |-> "loaded", op |-> "faultType", inc |-> i, by |-> c.id,
                  snap |-> row[i], want |-> want, at |-> clock + 1])
    BY <2>2 DEF WishFits
  <2> QED
    BY <1>0, <1>1, <2>2, <2>3, <2>4
<1>5. ASSUME LoadEvaluation(w, i, c) \/ LoadMessage(w, i, c) \/ LoadNote(w, i, c)
      PROVE  TaskFits(task'[w]) /\ task'[w].pc = "loaded" /\ row' = row
  <2>1. PICK op \in {"evaluate", "message", "note"} :
          Load(w, op, i, c, row[i]) /\ (op = "evaluate" => row[i].status = "KAPANDI")
    BY <1>5 DEF LoadEvaluation, LoadMessage, LoadNote
  <2>2. WishFits([pc |-> "loaded", op |-> op, inc |-> i, by |-> c.id,
                  snap |-> row[i], want |-> row[i], at |-> clock + 1])
    BY <2>1 DEF WishFits
  <2> QED
    BY <1>0, <1>1, <2>1, <2>2
<1> QED
  BY <1>2, <1>3, <1>4, <1>5

\* Who changes the row of i, and to what.
LEMMA RowSteps ==
    ASSUME TypeOK, RowInv, [Next]_vars, NEW i \in Incidents
    PROVE  \/ row'[i] = row[i]
           \/ \E w \in Workers :
                 /\ CommitStatus(w) \/ CommitAssign(w) \/ CommitFaultType(w)
                 /\ task[w].inc = i /\ row'[i] = Merge(row[i], task[w].snap, task[w].want)
           \/ \E w \in Workers : CommitTelemetry(w) /\ task[w].inc = i /\ row'[i] = task[w].want
           \/ SchedulerCommit /\ row'[i] = [row[i] EXCEPT !.sla = "BREACHED"]
<1>1. ASSUME NEW w \in Workers, Accept(w)
      PROVE  row' = row
  <2>1. ASSUME NEW j \in Incidents, NEW c \in Callers, ReportIncident(w, j, c)
        PROVE  row' = row
    <3>1. j \notin stored /\ row' = [row EXCEPT ![j] = NewRow(Belirsiz)]
      BY <2>1 DEF ReportIncident, RowInv, OpeningsAreExclusive
    <3> QED
      BY <3>1 DEF RowInv, BlankUntilStored, TypeOK
  <2>2. ASSUME NEW op, NEW j, NEW c, NEW want, Load(w, op, j, c, want)
        PROVE  row' = row
    BY <2>2 DEF Load, database, ghosts
  <2>3. ASSUME NEW j \in Incidents, NEW c \in Callers,
               \/ \E to \in Statuses : LoadStatus(w, j, c, to)
               \/ \E t \in Teams : LoadAssign(w, j, c, t)
               \/ \E ft \in FaultTypes : LoadFaultType(w, j, c, ft)
               \/ LoadEvaluation(w, j, c) \/ LoadMessage(w, j, c) \/ LoadNote(w, j, c)
        PROVE  row' = row
    BY <2>2, <2>3 DEF LoadStatus, LoadAssign, LoadFaultType, LoadEvaluation, LoadMessage, LoadNote
  <2>4. CASE SubmitTelemetry(w)
    BY <2>4 DEF SubmitTelemetry, database, ghosts
  <2> QED
    BY <1>1, <2>1, <2>3, <2>4 DEF Accept
<1>2. ASSUME NEW w \in Workers, Proceed(w), row'[i] # row[i]
      PROVE  \/ /\ CommitStatus(w) \/ CommitAssign(w) \/ CommitFaultType(w)
                /\ task[w].inc = i /\ row'[i] = Merge(row[i], task[w].snap, task[w].want)
             \/ CommitTelemetry(w) /\ task[w].inc = i /\ row'[i] = task[w].want
  <2>1. CASE CommitStatus(w) \/ CommitAssign(w) \/ CommitFaultType(w)
    <3> DEFINE t == task[w]
    <3>1. row' = [row EXCEPT ![t.inc] = Merge(row[t.inc], t.snap, t.want)]
      BY <2>1 DEF CommitStatus, CommitAssign, CommitFaultType
    <3>2. row'[i] = IF i = t.inc THEN Merge(row[t.inc], t.snap, t.want) ELSE row[i]
      BY <3>1 DEF TypeOK
    <3> QED
      BY <1>2, <2>1, <3>2
  <2>2. CASE CommitTelemetry(w)
    <3>1. row'[i] = IF i = task[w].inc THEN task[w].want ELSE row[i]
      BY <2>2, SMTT(60) DEF CommitTelemetry, TypeOK
    <3> QED
      BY <1>2, <2>2, <3>1
  <2>3. CASE row' # row /\ ~CommitStatus(w) /\ ~CommitAssign(w) /\ ~CommitFaultType(w)
    BY <1>2, <2>2, <2>3
       DEF Proceed, Refresh, CommitEvaluation, CommitMessage, CommitNote, PublishCommitted,
           KeepWatching, OpenIncident, AutoAssignQueued, AutoAssign, database, ghosts
  <2> QED
    BY <1>2, <2>1, <2>2, <2>3
<1>3. CASE Schedule
  <2>1. SchedulerCommit => row'[i] = row[i] \/ row'[i] = [row[i] EXCEPT !.sla = "BREACHED"]
    BY DEF SchedulerCommit
  <2> QED
    BY <1>3, <2>1 DEF Schedule, SchedulerSelect, SchedulerPublish, database, ghosts
<1>4. CASE \/ \E w \in Workers : RequestFails(w)
           \/ \E j \in Incidents : DeadlinePasses(j)
           \/ SchedulerFails \/ Crash \/ UNCHANGED vars
  BY <1>4 DEF RequestFails, DeadlinePasses, SchedulerFails, Crash, vars, database, ghosts
<1> QED
  BY <1>1, <1>2, <1>3, <1>4 DEF Next

\* A worker at rest carries nothing.
LEMMA IdleFits == TaskFits(Idle)
  BY DEF TaskFits, Idle, NewRow, Assignable

\* A task that only goes on to its next await fits as long as what it needs there does.
LEMMA ProceedFits ==
    ASSUME TypeOK, RowInv, TasksFit, NEW w \in Workers, Proceed(w)
    PROVE  TaskFits(task'[w])
<1> DEFINE t == task[w]
<1>1. t \in Task /\ TaskFits(t) /\ task' \in [Workers -> Task]
  BY ProceedType DEF TypeOK, TasksFit
<1>2. ASSUME Finish(w)
      PROVE  TaskFits(task'[w])
  BY <1>2, IdleFits DEF Finish, TypeOK
<1>3. ASSUME NEW pc \in {"committed", "publishing", "committing"}, Goto(w, pc),
             pc = "committed" => t.op = "status",
             pc = "publishing" => t.op \in {"assign", "faultType", "evaluate"},
             pc = "committing" => t.pc = "assigning"
      PROVE  TaskFits(task'[w])
  <2>1. PICK u : u = [t EXCEPT !.pc = pc]
    OBVIOUS
  <2>2. task'[w] = u
    BY <1>3, <2>1 DEF Goto, TypeOK
  <2>3. u.pc = pc /\ u.snap = t.snap /\ u.want = t.want /\ u.op = t.op
    BY <1>1, <2>1 DEF Task
  <2> HIDE DEF t
  <2> QED
    BY <1>1, <1>3, <2>2, <2>3 DEF TaskFits, OpeningFits
<1>4. CASE \/ CommitStatus(w) \/ CommitAssign(w) \/ CommitFaultType(w) \/ CommitEvaluation(w)
           \/ CommitMessage(w) \/ CommitNote(w) \/ PublishCommitted(w) \/ KeepWatching(w)
           \/ AutoAssignQueued(w) \/ CommitTelemetry(w)
  BY <1>2, <1>3, <1>4
     DEF CommitStatus, CommitAssign, CommitFaultType, CommitEvaluation, CommitMessage, CommitNote,
         PublishCommitted, KeepWatching, AutoAssignQueued, CommitTelemetry, Loaded
<1>5. CASE Refresh(w)
  <2>1. PICK r : r = row[t.inc]
    OBVIOUS
  <2>2. t.inc \in Incidents /\ r.team \in Assignable
    BY <1>5, <2>1 DEF Refresh, TypeOK, TasksFit
  <2>3. PICK u : u = [t EXCEPT !.pc = "publishing", !.want = r]
    OBVIOUS
  <2>4. task'[w] = u
    BY <1>5, <2>1, <2>3 DEF Refresh, TypeOK
  <2>5. u.pc = "publishing" /\ u.snap = t.snap /\ u.want = r /\ u.op = t.op
    BY <1>1, <2>3 DEF Task
  <2>6. t.op = "status"
    BY <1>1, <1>5 DEF Refresh, TaskFits
  <2> HIDE DEF t
  <2> QED
    BY <1>1, <2>2, <2>4, <2>5, <2>6 DEF TaskFits
<1>6. ASSUME NEW i \in Incidents, NEW ft \in FaultTypes, NEW available \in BOOLEAN,
             OpenIncident(w, i, ft, available)
      PROVE  TaskFits(task'[w])
  <2>0. PICK r : r = NewRow(ft)
    OBVIOUS
  <2>1. PICK pc \in {"assigning", "committing"} :
          pc = (IF available THEN "assigning" ELSE "committing") /\ r = NewRow(ft)
    BY <2>0
  <2>2. PICK u : u = [t EXCEPT !.pc = pc, !.inc = i, !.want = r]
    OBVIOUS
  <2>3. task'[w] = u
    BY <1>6, <2>1, <2>2 DEF OpenIncident, TypeOK
  <2>4. u.pc = pc /\ u.snap = t.snap /\ u.want = r /\ u.op = t.op
    BY <1>1, <2>2 DEF Task
  <2>5. r.status = "YENI" /\ r.team = NoTeam
    BY <2>1 DEF NewRow
  <2>6. t.op = "telemetry"
    BY <1>1, <1>6 DEF OpenIncident, TaskFits
  <2> HIDE DEF t
  <2> QED
    BY <1>1, <2>1, <2>3, <2>4, <2>5, <2>6 DEF TaskFits, OpeningFits, Assignable
<1>7. ASSUME NEW team \in Teams, AutoAssign(w, team)
      PROVE  TaskFits(task'[w])
  <2>1. PICK r : r = [t.want EXCEPT !.status = "ATANDI", !.team = team]
    OBVIOUS
  <2>2. PICK u : u = [t EXCEPT !.pc = "committing", !.want = r]
    OBVIOUS
  <2>3. task'[w] = u
    BY <1>1, <1>7, <2>1, <2>2 DEF AutoAssign, TypeOK
  <2>4. u.pc = "committing" /\ u.snap = t.snap /\ u.want = r /\ u.op = t.op
    BY <1>1, <2>2 DEF Task
  <2>5. r.status = "ATANDI" /\ r.team = team
    BY <1>1, <2>1 DEF Task, Row
  <2>6. t.op = "telemetry"
    BY <1>1, <1>7 DEF AutoAssign, TaskFits
  <2> HIDE DEF t
  <2> QED
    BY <1>1, <2>3, <2>4, <2>5, <2>6 DEF TaskFits, OpeningFits, Assignable
<1> QED
  BY <1>4, <1>5, <1>6, <1>7 DEF Proceed

\* A request that begins carries what its checks let through.
LEMMA AcceptFits ==
    ASSUME TypeOK, TasksFit, NEW w \in Workers, Accept(w)
    PROVE  TaskFits(task'[w])
<1>1. CASE SubmitTelemetry(w)
  <2>1. PICK u : u = [Idle EXCEPT !.pc = "predicting", !.op = "telemetry", !.at = clock]
    OBVIOUS
  <2>2. task'[w] = u
    BY <1>1, <2>1 DEF SubmitTelemetry, TypeOK
  <2>3. u.pc = "predicting" /\ u.snap.team = NoTeam /\ u.want.team = NoTeam /\ u.op = "telemetry"
    BY <2>1 DEF Idle, NewRow
  <2> QED
    BY <2>2, <2>3 DEF TaskFits, Assignable
<1>2. ASSUME NEW i \in Incidents, NEW c \in Callers, ReportIncident(w, i, c)
      PROVE  TaskFits(task'[w])
  <2>1. PICK u : u = [Idle EXCEPT !.pc = "publishing", !.op = "report", !.inc = i]
    OBVIOUS
  <2>2. task'[w] = u
    BY <1>2, <2>1 DEF ReportIncident, TypeOK
  <2>3. u.pc = "publishing" /\ u.snap.team = NoTeam /\ u.want.team = NoTeam /\ u.op = "report"
    BY <2>1 DEF Idle, NewRow
  <2> QED
    BY <2>2, <2>3 DEF TaskFits, Assignable
<1> QED
  BY <1>1, <1>2, LoadFits DEF Accept

\* No step leaves a request with something its handler would not have written.
LEMMA NextFits == TypeOK /\ RowInv /\ TasksFit /\ [Next]_vars => TasksFit'
<1> SUFFICES ASSUME TypeOK, RowInv, TasksFit, [Next]_vars
             PROVE  TasksFit'
  OBVIOUS
<1>1. ASSUME NEW i \in Incidents
      PROVE  row'[i].team \in Assignable
  <2>1. row[i] \in Row /\ row[i].team \in Assignable
    BY DEF TypeOK, TasksFit
  <2>2. ASSUME NEW w \in Workers, task[w].inc = i,
               row'[i] = Merge(row[i], task[w].snap, task[w].want)
        PROVE  row'[i].team \in Assignable
    <3>1. task[w].snap \in Row /\ task[w].want \in Row /\ task[w].want.team \in Assignable
      BY DEF TypeOK, Task, TasksFit, TaskFits
    <3> QED
      BY <2>1, <2>2, <3>1, MergeColumns
  <2>3. ASSUME NEW w \in Workers, row'[i] = task[w].want
        PROVE  row'[i].team \in Assignable
    BY <2>3 DEF TasksFit, TaskFits
  <2>4. row'[i] = [row[i] EXCEPT !.sla = "BREACHED"] => row'[i].team = row[i].team
    BY <2>1 DEF Row
  <2> QED
    BY <2>1, <2>2, <2>3, <2>4, RowSteps
<1>2. ASSUME NEW w \in Workers
      PROVE  TaskFits(task'[w])
  <2>1. CASE task'[w] = task[w]
    BY <2>1 DEF TasksFit
  <2>2. ASSUME NEW v \in Workers, Accept(v) \/ Proceed(v) \/ RequestFails(v)
        PROVE  TaskFits(task'[w])
    <3>1. v # w => task'[w] = task[w]
      BY <2>2, OthersRest
    <3>2. RequestFails(w) => task'[w] = Idle
      BY DEF RequestFails, Finish, TypeOK
    <3> QED
      BY <2>1, <2>2, <3>1, <3>2, IdleFits, AcceptFits, ProceedFits
  <2>3. CASE Crash
    BY <2>3, IdleFits DEF Crash
  <2> QED
    BY <2>1, <2>2, <2>3
       DEF Next, DeadlinePasses, Schedule, SchedulerSelect, SchedulerCommit, SchedulerPublish,
           SchedulerFails, vars
<1>3. (\A w \in Workers : TaskFits(task'[w])) /\ (\A i \in Incidents : row'[i].team \in Assignable)
  BY <1>1, <1>2
<1> QED
  BY <1>3 DEF TasksFit, TaskFits, WishFits, OpeningFits, Assignable

\* Every request in flight carries what its handler may write, in any interleaving.
LEMMA TasksAlwaysFit == Spec => []TasksFit
<1>1. Init => TasksFit
  BY IdleFits DEF Init, TasksFit, NewRow, Assignable
<1> QED
  BY <1>1, NextFits, TypeCorrect, RowInvariant, PTL DEF Spec

\* Where a request stands that has something to announce, and how it got there.
LEMMA TaskSteps ==
    ASSUME TypeOK, TasksFit, NEW w \in Workers, Accept(w) \/ Proceed(w) \/ RequestFails(w),
           task'[w].pc \in {"committed", "publishing"}
    PROVE  \/ task'[w].op = "report"
           \/ /\ CommitStatus(w) /\ task[w].want.status = "COZULDU"
              /\ task'[w] = [task[w] EXCEPT !.pc = "committed"]
           \/ /\ Refresh(w) /\ task[w].op = "status"
              /\ task'[w] = [task[w] EXCEPT !.pc = "publishing", !.want = row[task[w].inc]]
           \/ /\ CommitAssign(w) \/ CommitFaultType(w) \/ CommitEvaluation(w)
              /\ task'[w] = [task[w] EXCEPT !.pc = "publishing"]
<1> DEFINE t == task[w]
<1>1. t \in Task /\ TaskFits(t)
  BY DEF TypeOK, TasksFit
<1>2. ASSUME Finish(w)
      PROVE  FALSE
  BY <1>2 DEF Finish, Idle, TypeOK
<1>3. ASSUME NEW pc, Goto(w, pc)
      PROVE  task'[w] = [t EXCEPT !.pc = pc]
  BY <1>3 DEF Goto, TypeOK
<1>4. CASE CommitStatus(w)
  BY <1>2, <1>3, <1>4 DEF CommitStatus
<1>5. CASE CommitAssign(w) \/ CommitFaultType(w) \/ CommitEvaluation(w)
  BY <1>2, <1>3, <1>5 DEF CommitAssign, CommitFaultType, CommitEvaluation
<1>6. CASE Refresh(w)
  <2>1. t.op = "status"
    BY <1>1, <1>6 DEF Refresh, TaskFits
  <2>2. task'[w] = [t EXCEPT !.pc = "publishing", !.want = row[t.inc]]
    BY <1>6 DEF Refresh, TypeOK
  <2> QED
    BY <1>6, <2>1, <2>2
<1>7. CASE \/ CommitMessage(w) \/ CommitNote(w) \/ PublishCommitted(w) \/ KeepWatching(w)
           \/ CommitTelemetry(w) \/ RequestFails(w)
  BY <1>2, <1>7 DEF CommitMessage, CommitNote, PublishCommitted, KeepWatching, CommitTelemetry,
                    RequestFails
<1>8. CASE AutoAssignQueued(w)
  <2>1. task'[w] = [t EXCEPT !.pc = "committing"]
    BY <1>3, <1>8 DEF AutoAssignQueued
  <2>2. task'[w].pc = "committing"
    BY <1>1, <2>1 DEF Task
  <2> QED
    BY <2>2
<1>9. ASSUME NEW i \in Incidents, NEW ft \in FaultTypes, NEW available \in BOOLEAN,
             OpenIncident(w, i, ft, available)
      PROVE  FALSE
  <2>1. task'[w].pc \in {"assigning", "committing"}
    BY <1>1, <1>9 DEF OpenIncident, TypeOK, Task
  <2> QED
    BY <2>1
<1>10. ASSUME NEW team \in Teams, AutoAssign(w, team)
       PROVE  FALSE
  <2>1. task'[w].pc = "committing"
    BY <1>1, <1>10 DEF AutoAssign, TypeOK, Task
  <2> QED
    BY <2>1
<1>11. CASE Accept(w)
  <2>1. CASE SubmitTelemetry(w)
    BY <2>1 DEF SubmitTelemetry, TypeOK, Idle
  <2>2. ASSUME NEW i \in Incidents, NEW c \in Callers, ReportIncident(w, i, c)
        PROVE  task'[w].op = "report"
    BY <2>2 DEF ReportIncident, TypeOK, Idle
  <2> QED
    BY <1>11, <2>1, <2>2, LoadFits DEF Accept
<1>12. CASE Proceed(w)
  BY <1>4, <1>5, <1>6, <1>7, <1>8, <1>9, <1>10, <1>12 DEF Proceed
<1> QED
  BY <1>7, <1>11, <1>12

\* Who announces: a request that committed, and a new incident that is assigned.
LEMMA StreamSteps ==
    ASSUME TypeOK, TasksFit, [Next]_vars, NEW s \in {"resolved", "assigned", "type_changed"}
    PROVE  \/ streams'[s] = streams[s]
           \/ \E w \in Workers : PublishCommitted(w) /\ StreamOf(task[w].op) = s
           \/ s = "assigned" /\ \E w \in Workers, t \in Teams : AutoAssign(w, t)
<1>0. s \in Streams /\ "created" \in Streams /\ "assigned" \in Streams /\ "sla_breached" \in Streams
  BY DEF Streams
<1>1. ASSUME NEW r \in Streams, NEW e, Publish(r, e), r # s
      PROVE  streams'[s] = streams[s]
  BY <1>0, <1>1, SMTT(60) DEF Publish, TypeOK
<1>2. ASSUME NEW w \in Workers, Accept(w)
      PROVE  streams' = streams
  <2>1. ASSUME NEW op, NEW j, NEW c, NEW want, Load(w, op, j, c, want)
        PROVE  streams' = streams
    BY <2>1 DEF Load, database, ghosts
  <2> QED
    BY <1>2, <2>1, ZenonT(60)
       DEF Accept, SubmitTelemetry, ReportIncident, LoadStatus, LoadAssign, LoadFaultType,
           LoadEvaluation, LoadMessage, LoadNote
<1>3. ASSUME NEW w \in Workers, PublishCommitted(w), StreamOf(task[w].op) # s
      PROVE  streams'[s] = streams[s]
  <2>1. StreamOf(task[w].op) \in Streams
    BY DEF StreamOf, Streams
  <2> QED
    BY <1>1, <1>3, <2>1 DEF PublishCommitted
<1>4. ASSUME NEW w \in Workers, NEW i \in Incidents, NEW ft \in FaultTypes,
             NEW available \in BOOLEAN, OpenIncident(w, i, ft, available)
      PROVE  streams'[s] = streams[s]
  BY <1>0, <1>1, <1>4 DEF OpenIncident
<1>5. ASSUME NEW w \in Workers, NEW t \in Teams, AutoAssign(w, t), s # "assigned"
      PROVE  streams'[s] = streams[s]
  BY <1>0, <1>1, <1>5 DEF AutoAssign
<1>6. ASSUME NEW w \in Workers, Proceed(w)
      PROVE  \/ streams'[s] = streams[s]
             \/ PublishCommitted(w) /\ StreamOf(task[w].op) = s
             \/ s = "assigned" /\ \E t \in Teams : AutoAssign(w, t)
  BY <1>3, <1>4, <1>5, <1>6
     DEF Proceed, CommitStatus, Refresh, CommitAssign, CommitFaultType, CommitEvaluation,
         CommitMessage, CommitNote, KeepWatching, AutoAssignQueued, CommitTelemetry
<1>7. CASE Schedule
  <2>1. ASSUME NEW e, SchedulerPublish(e)
        PROVE  streams'[s] = streams[s]
    BY <1>0, <1>1, <2>1 DEF SchedulerPublish
  <2> QED
    BY <1>7, <2>1 DEF Schedule, SchedulerSelect, SchedulerCommit
<1>8. CASE \/ SchedulerFails \/ Crash \/ UNCHANGED vars
           \/ \E w \in Workers : RequestFails(w)
           \/ \E j \in Incidents : DeadlinePasses(j)
  BY <1>8 DEF RequestFails, DeadlinePasses, SchedulerFails, Crash, vars
<1> QED
  BY <1>2, <1>6, <1>7, <1>8 DEF Next

\* An announcement adds the event of the request to its stream, and the request is done.
LEMMA Announcements ==
    ASSUME TypeOK, NEW w \in Workers, PublishCommitted(w), NEW s \in Streams,
           s = StreamOf(task[w].op)
    PROVE  /\ DOMAIN streams'[s] = DOMAIN streams[s] \cup {Len(streams[s]) + 1}
           /\ DOMAIN streams[s] = 1..Len(streams[s]) /\ Len(streams[s]) \in Nat
           /\ streams'[s][Len(streams[s]) + 1] = EventOf(task[w])
           /\ \A k \in DOMAIN streams[s] : streams'[s][k] = streams[s][k]
           /\ task'[w] = Idle /\ row' = row /\ history' = history /\ stored' = stored
           /\ task[w].inc \in Incidents /\ EventOf(task[w]).inc = task[w].inc
<1>1. task[w] \in Task /\ task[w].inc \in Incidents /\ EventOf(task[w]) \in Event
  BY EventType DEF PublishCommitted, TypeOK
<1>2. EventOf(task[w]).inc = task[w].inc
  BY DEF EventOf, Announcement
<1>3. task'[w] = Idle /\ row' = row /\ history' = history /\ stored' = stored
  BY DEF PublishCommitted, Finish, TypeOK, database, ghosts
<1>4. /\ DOMAIN streams'[s] = DOMAIN streams[s] \cup {Len(streams[s]) + 1}
      /\ streams'[s][Len(streams[s]) + 1] = EventOf(task[w])
      /\ \A k \in DOMAIN streams[s] : streams'[s][k] = streams[s][k]
  BY <1>1, PublishAppends DEF PublishCommitted, TypeOK
<1>5. DOMAIN streams[s] = 1..Len(streams[s]) /\ Len(streams[s]) \in Nat
  BY DEF TypeOK
<1> QED
  BY <1>1, <1>2, <1>3, <1>4, <1>5

-----------------------------------------------------------------------------
(* Every announced resolution was recorded.                                *)

Sent(i) == {k \in DOMAIN streams["resolved"] : streams["resolved"][k].inc = i}
Moves(i) == {k \in DOMAIN history[i] : history[i][k].to = "COZULDU"}

\* The requests that committed a resolution of i and have still to announce it.
Announcing(w) == task[w].op = "status" /\ task[w].pc \in {"committed", "publishing"}
Resolving(i) == {w \in Workers : Announcing(w) /\ task[w].inc = i}

ResolutionsAreCounted ==
    \A i \in Incidents :
        /\ IsFiniteSet(Resolving(i))
        /\ Cardinality(Sent(i)) + Cardinality(Resolving(i)) <= Cardinality(Moves(i))

\* A resolution is by the team of the incident, so there is one; it is never taken away.
ResolversAreTeams ==
    /\ \A w \in Workers : task[w].op = "status" =>
           /\ task[w].pc = "committed" => row[task[w].inc].team # NoTeam
           /\ task[w].pc = "publishing" => task[w].want.team # NoTeam
    /\ \A k \in DOMAIN streams["resolved"] : streams["resolved"][k].team # NoTeam

\* The history of an incident is appended to by three commits only.
LEMMA HistorySteps ==
    ASSUME TypeOK, [Next]_vars, NEW i \in Incidents
    PROVE  \/ history'[i] = history[i]
           \/ \E w \in Workers :
                 /\ CommitStatus(w) \/ CommitAssign(w) \/ CommitTelemetry(w)
                 /\ task[w].inc = i /\ history'[i] = Append(history[i], StatusRow(task[w]))
<1>1. ASSUME NEW w \in Workers, Accept(w)
      PROVE  history' = history
  <2>1. ASSUME NEW op, NEW j, NEW c, NEW want, Load(w, op, j, c, want)
        PROVE  history' = history
    BY <2>1 DEF Load, database, ghosts
  <2> QED
    BY <1>1, <2>1, ZenonT(60)
       DEF Accept, SubmitTelemetry, ReportIncident, LoadStatus, LoadAssign, LoadFaultType,
           LoadEvaluation, LoadMessage, LoadNote, database, ghosts
<1>2. ASSUME NEW w \in Workers, Proceed(w), history'[i] # history[i]
      PROVE  /\ CommitStatus(w) \/ CommitAssign(w) \/ CommitTelemetry(w)
             /\ task[w].inc = i /\ history'[i] = Append(history[i], StatusRow(task[w]))
  <2>1. CASE CommitStatus(w) \/ CommitAssign(w) \/ CommitTelemetry(w)
    <3> DEFINE t == task[w]
    <3>1. history' = [history EXCEPT ![t.inc] = Append(history[t.inc], StatusRow(t))]
      BY <1>2, <2>1 DEF CommitStatus, CommitAssign, CommitTelemetry
    <3>2. history'[i] = IF i = t.inc THEN Append(history[t.inc], StatusRow(t)) ELSE history[i]
      BY <3>1 DEF TypeOK
    <3> QED
      BY <1>2, <2>1, <3>2, SMTT(60)
  <2> QED
    BY <1>2, <2>1
       DEF Proceed, Refresh, CommitFaultType, CommitEvaluation, CommitMessage, CommitNote,
           PublishCommitted, KeepWatching, OpenIncident, AutoAssignQueued, AutoAssign, database, ghosts
<1>3. CASE \/ Schedule \/ SchedulerFails \/ Crash \/ UNCHANGED vars
           \/ \E w \in Workers : RequestFails(w)
           \/ \E j \in Incidents : DeadlinePasses(j)
  BY <1>3 DEF Schedule, SchedulerSelect, SchedulerCommit, SchedulerPublish, RequestFails,
              DeadlinePasses, SchedulerFails, Crash, vars, database, ghosts
<1> QED
  BY <1>1, <1>2, <1>3, SMTT(60) DEF Next

\* A history is a sequence, so its moves can be counted.
LEMMA MovesAreFinite ==
    ASSUME TypeOK, NEW i \in Incidents
    PROVE  IsFiniteSet(Moves(i))
<1>1. PICK q \in Seq(HistoryRow) : q = history[i]
  BY DEF TypeOK
<1>2. IsFiniteSet(1..Len(q)) /\ DOMAIN q = 1..Len(q)
  BY FS_Interval
<1>3. Moves(i) \in SUBSET (1..Len(q))
  BY <1>1, <1>2 DEF Moves
<1> QED
  BY <1>2, <1>3, FS_Subset

\* The moves to COZULDU grow by the one a request commits, and by no other step.
LEMMA MovesGrow ==
    ASSUME TypeOK, TasksFit, [Next]_vars, NEW i \in Incidents
    PROVE  /\ IsFiniteSet(Moves(i)) /\ IsFiniteSet(Moves(i)')
           /\ Moves(i) \subseteq Moves(i)'
           /\ \A w \in Workers :
                 CommitStatus(w) /\ task[w].inc = i /\ task[w].want.status = "COZULDU" =>
                    \E k : k \notin Moves(i) /\ Moves(i)' = Moves(i) \cup {k}
<1>1. /\ history[i] \in Seq(HistoryRow) /\ history'[i] \in Seq(HistoryRow)
  <2>1. TypeOK'
    BY NextType
  <2> QED
    BY <2>1 DEF TypeOK
<1>2. ASSUME NEW q \in Seq(HistoryRow), NEW h \in HistoryRow
      PROVE  /\ DOMAIN Append(q, h) = DOMAIN q \cup {Len(q) + 1} /\ Len(q) + 1 \notin DOMAIN q
             /\ Append(q, h)[Len(q) + 1] = h
             /\ \A k \in DOMAIN q : Append(q, h)[k] = q[k]
  OBVIOUS
<1>3. ASSUME NEW w \in Workers, history'[i] = Append(history[i], StatusRow(task[w]))
      PROVE  /\ Moves(i) \subseteq Moves(i)'
             /\ task[w].want.status = "COZULDU" =>
                   \E k : k \notin Moves(i) /\ Moves(i)' = Moves(i) \cup {k}
  <2>1. PICK h \in HistoryRow : h = StatusRow(task[w])
    BY StatusRowType DEF TypeOK
  <2>2. h.to = task[w].want.status
    BY <2>1 DEF StatusRow
  <2>3. PICK q \in Seq(HistoryRow) : q = history[i]
    BY <1>1
  <2>4. /\ DOMAIN history'[i] = DOMAIN q \cup {Len(q) + 1} /\ Len(q) + 1 \notin DOMAIN q
        /\ history'[i][Len(q) + 1] = h
        /\ \A k \in DOMAIN q : history'[i][k] = q[k]
    BY <1>2, <1>3, <2>1, <2>3
  <2>5. Moves(i) \subseteq Moves(i)'
    BY <2>3, <2>4 DEF Moves
  <2>6. h.to = "COZULDU" => Moves(i)' = Moves(i) \cup {Len(q) + 1} /\ Len(q) + 1 \notin Moves(i)
    BY <2>3, <2>4 DEF Moves
  <2> QED
    BY <2>2, <2>5, <2>6
<1>4. IsFiniteSet(Moves(i)) /\ IsFiniteSet(Moves(i)')
  <2>1. IsFiniteSet(Moves(i))
    BY MovesAreFinite
  <2>2. IsFiniteSet(Moves(i)')
    <3>1. PICK q \in Seq(HistoryRow) : q = history'[i]
      BY <1>1
    <3>2. IsFiniteSet(1..Len(q)) /\ DOMAIN q = 1..Len(q)
      BY FS_Interval
    <3>3. Moves(i)' \in SUBSET (1..Len(q))
      BY <3>1, <3>2 DEF Moves
    <3> QED
      BY <3>2, <3>3, FS_Subset
  <2> QED
    BY <2>1, <2>2
<1>5. Moves(i) \subseteq Moves(i)'
  BY <1>3, HistorySteps DEF Moves
<1>6. ASSUME NEW w \in Workers, CommitStatus(w), task[w].inc = i
      PROVE  history'[i] = Append(history[i], StatusRow(task[w]))
  BY <1>6 DEF CommitStatus, TypeOK
<1> QED
  BY <1>3, <1>4, <1>5, <1>6

\* A stream is a sequence, so its events can be counted.
LEMMA SentIsFinite ==
    ASSUME TypeOK, NEW i \in Incidents
    PROVE  IsFiniteSet(Sent(i))
<1>1. PICK q \in Seq(Event) : q = streams["resolved"]
  BY DEF TypeOK, Streams
<1>2. IsFiniteSet(1..Len(q)) /\ DOMAIN q = 1..Len(q)
  BY FS_Interval
<1>3. Sent(i) \in SUBSET (1..Len(q))
  BY <1>1, <1>2 DEF Sent
<1> QED
  BY <1>2, <1>3, FS_Subset

Counted(i) == Cardinality(Sent(i)) + Cardinality(Resolving(i)) <= Cardinality(Moves(i))

\* A step that announces no resolution of i and commits none.
LEMMA CountUndisturbed ==
    ASSUME TypeOK, TasksFit, ResolutionsAreCounted, [Next]_vars, NEW i \in Incidents,
           Sent(i)' = Sent(i), Resolving(i)' \subseteq Resolving(i)
    PROVE  IsFiniteSet(Resolving(i)') /\ Counted(i)'
<1>1. IsFiniteSet(Resolving(i)) /\ IsFiniteSet(Sent(i)) /\ Counted(i)
  BY SentIsFinite DEF ResolutionsAreCounted, Counted
<1>2. IsFiniteSet(Resolving(i)') /\ Cardinality(Resolving(i)') <= Cardinality(Resolving(i))
  BY <1>1, FS_Subset
<1>3. IsFiniteSet(Moves(i)) /\ IsFiniteSet(Moves(i)') /\ Moves(i) \in SUBSET (Moves(i)')
  BY MovesGrow
<1>4. Cardinality(Moves(i)) <= Cardinality(Moves(i)')
  BY <1>3, FS_Subset
<1>5. /\ Cardinality(Sent(i)) \in Nat /\ Cardinality(Resolving(i)) \in Nat
      /\ Cardinality(Resolving(i)') \in Nat /\ Cardinality(Moves(i)) \in Nat
      /\ Cardinality(Moves(i)') \in Nat
  BY <1>1, <1>2, <1>3, FS_CardinalityType
<1>6. Cardinality(Sent(i)') = Cardinality(Sent(i))
  OBVIOUS
<1> QED
  BY <1>1, <1>2, <1>4, <1>5, <1>6 DEF Counted

\* Committing a resolution adds a move to the history and a request that will announce it.
LEMMA CommitIsCounted ==
    ASSUME TypeOK, TasksFit, ResolutionsAreCounted, [Next]_vars, NEW i \in Incidents,
           NEW w \in Workers, CommitStatus(w), task[w].inc = i, task[w].want.status = "COZULDU"
    PROVE  IsFiniteSet(Resolving(i)') /\ Counted(i)'
<1>1. IsFiniteSet(Resolving(i)) /\ IsFiniteSet(Sent(i)) /\ Counted(i)
  BY SentIsFinite DEF ResolutionsAreCounted, Counted
<1>2. Sent(i)' = Sent(i)
  BY DEF CommitStatus, Sent
<1>3. \A v \in Workers : v # w => task'[v] = task[v]
  BY OthersRest DEF Proceed
<1>4. Resolving(i)' \subseteq Resolving(i) \cup {w}
  BY <1>3 DEF Resolving, Announcing
<1>5. PICK S : S = Resolving(i) \cup {w}
  OBVIOUS
<1>6. IsFiniteSet(S) /\ Cardinality(S) <= Cardinality(Resolving(i)) + 1 /\ Cardinality(S) \in Nat
      /\ Cardinality(Resolving(i)) \in Nat
  <2>1. IsFiniteSet(S) /\ Cardinality(S) = IF w \in Resolving(i) THEN Cardinality(Resolving(i))
                                                                  ELSE Cardinality(Resolving(i)) + 1
    BY <1>1, <1>5, FS_AddElement
  <2>2. Cardinality(Resolving(i)) \in Nat /\ Cardinality(S) \in Nat
    BY <1>1, <2>1, FS_CardinalityType
  <2> QED
    BY <2>1, <2>2
<1>7. Resolving(i)' \in SUBSET S
  BY <1>4, <1>5
<1>8. /\ IsFiniteSet(Resolving(i)') /\ Cardinality(Resolving(i)') <= Cardinality(S)
      /\ Cardinality(Resolving(i)') \in Nat
  BY <1>6, <1>7, FS_Subset, FS_CardinalityType
<1>9. PICK k : k \notin Moves(i) /\ Moves(i)' = Moves(i) \cup {k}
  BY MovesGrow
<1>10. IsFiniteSet(Moves(i)) /\ Cardinality(Moves(i)) \in Nat
  BY MovesGrow, FS_CardinalityType
<1>11. Cardinality(Moves(i)') = Cardinality(Moves(i)) + 1
  BY <1>9, <1>10, FS_AddElement
<1>12. Cardinality(Sent(i)) \in Nat /\ Cardinality(Sent(i)') = Cardinality(Sent(i))
  BY <1>1, <1>2, FS_CardinalityType
<1> QED
  BY <1>1, <1>6, <1>8, <1>10, <1>11, <1>12 DEF Counted

\* Announcing it takes the request from those who will and adds an event.
LEMMA AnnouncementIsCounted ==
    ASSUME TypeOK, TasksFit, ResolutionsAreCounted, [Next]_vars, NEW i \in Incidents,
           NEW w \in Workers, PublishCommitted(w), StreamOf(task[w].op) = "resolved",
           task[w].inc = i
    PROVE  IsFiniteSet(Resolving(i)') /\ Counted(i)'
<1>0. "resolved" \in Streams /\ task[w].op = "status"
  BY DEF Streams, StreamOf
<1>1. IsFiniteSet(Resolving(i)) /\ IsFiniteSet(Sent(i)) /\ Counted(i)
  BY SentIsFinite DEF ResolutionsAreCounted, Counted
<1>2. PICK n \in Nat : n = Len(streams["resolved"]) + 1
  BY <1>0 DEF TypeOK
<1>3. n \notin Sent(i) /\ Sent(i)' = Sent(i) \cup {n}
  <2>1. /\ DOMAIN streams'["resolved"] = DOMAIN streams["resolved"] \cup {n}
        /\ DOMAIN streams["resolved"] = 1..Len(streams["resolved"])
        /\ streams'["resolved"][n] = EventOf(task[w]) /\ EventOf(task[w]).inc = i
        /\ \A k \in DOMAIN streams["resolved"] : streams'["resolved"][k] = streams["resolved"][k]
    BY <1>0, <1>2, Announcements
  <2>2. n \notin DOMAIN streams["resolved"]
    BY <1>2, <2>1
  <2> QED
    BY <2>1, <2>2 DEF Sent
<1>4. Cardinality(Sent(i)') = Cardinality(Sent(i)) + 1 /\ Cardinality(Sent(i)) \in Nat
  BY <1>1, <1>3, FS_AddElement, FS_CardinalityType
<1>5. \A v \in Workers : v # w => task'[v] = task[v]
  BY OthersRest DEF Proceed
<1>6. task'[w] = Idle /\ w \in Resolving(i)
  BY <1>0, Announcements DEF PublishCommitted, Resolving, Announcing
<1>7. Resolving(i)' = Resolving(i) \ {w}
  BY <1>5, <1>6 DEF Resolving, Announcing, Idle
<1>8. /\ IsFiniteSet(Resolving(i)') /\ Cardinality(Resolving(i)') = Cardinality(Resolving(i)) - 1
      /\ Cardinality(Resolving(i)) \in Nat
  BY <1>1, <1>6, <1>7, FS_RemoveElement, FS_CardinalityType
<1>9. Moves(i)' = Moves(i)
  BY <1>0, Announcements DEF Moves
<1>10. Cardinality(Moves(i)) \in Nat /\ Cardinality(Moves(i)') = Cardinality(Moves(i))
  BY <1>9, MovesGrow, FS_CardinalityType
<1> QED
  BY <1>1, <1>4, <1>8, <1>10 DEF Counted

\* No step announces more resolutions of an incident than were committed.
LEMMA NextCounts ==
    ASSUME TypeOK, TasksFit, ResolutionsAreCounted, [Next]_vars
    PROVE  ResolutionsAreCounted'
<1> SUFFICES ASSUME NEW i \in Incidents
             PROVE  IsFiniteSet(Resolving(i)') /\ Counted(i)'
  BY DEF ResolutionsAreCounted, Counted
<1>1. CASE \E w \in Workers : /\ CommitStatus(w) /\ task[w].inc = i
                              /\ task[w].want.status = "COZULDU"
  BY <1>1, CommitIsCounted
<1>2. CASE \E w \in Workers : /\ PublishCommitted(w) /\ task[w].inc = i
                              /\ StreamOf(task[w].op) = "resolved"
  BY <1>2, AnnouncementIsCounted
<1>3. CASE ~ \/ \E w \in Workers : /\ CommitStatus(w) /\ task[w].inc = i
                                   /\ task[w].want.status = "COZULDU"
             \/ \E w \in Workers : /\ PublishCommitted(w) /\ task[w].inc = i
                                   /\ StreamOf(task[w].op) = "resolved"
  <2>1. Sent(i)' = Sent(i)
    <3>1. CASE streams'["resolved"] = streams["resolved"]
      BY <3>1 DEF Sent
    <3>2. ASSUME NEW w \in Workers, PublishCommitted(w), StreamOf(task[w].op) = "resolved",
                 task[w].inc # i
          PROVE  Sent(i)' = Sent(i)
      BY <3>2, Announcements DEF Sent, Streams
    <3> QED
      BY <1>3, <3>1, <3>2, StreamSteps
  <2>2. ASSUME NEW v \in Workers, Announcing(v)', task'[v].inc = i
        PROVE  v \in Resolving(i)
    <3>1. CASE task'[v] = task[v]
      BY <2>2, <3>1 DEF Resolving, Announcing
    <3>2. ASSUME NEW w \in Workers, Accept(w) \/ Proceed(w) \/ RequestFails(w)
          PROVE  v \in Resolving(i)
      <4>1. CASE v # w
        BY <3>1, <3>2, <4>1, OthersRest, SMTT(60)
      <4>2. CASE v = w
        <5>1. task[w] \in Task
          BY DEF TypeOK
        <5>2. CASE CommitStatus(w) /\ task[w].want.status = "COZULDU"
                   /\ task'[w] = [task[w] EXCEPT !.pc = "committed"]
          BY <1>3, <2>2, <4>2, <5>1, <5>2 DEF Task
        <5>3. CASE Refresh(w) /\ task[w].op = "status"
                   /\ task'[w] = [task[w] EXCEPT !.pc = "publishing", !.want = row[task[w].inc]]
          <6>1. task'[w].inc = task[w].inc /\ task[w].pc = "committed"
            BY <5>1, <5>3, ZenonT(60) DEF Task, Refresh
          <6> QED
            BY <2>2, <4>2, <5>3, <6>1 DEF Resolving, Announcing
        <5>4. CASE (CommitAssign(w) \/ CommitFaultType(w) \/ CommitEvaluation(w))
                   /\ task'[w] = [task[w] EXCEPT !.pc = "publishing"]
          BY <2>2, <4>2, <5>1, <5>4
             DEF Task, CommitAssign, CommitFaultType, CommitEvaluation, Loaded, Announcing
        <5> QED
          BY <2>2, <3>2, <4>2, <5>2, <5>3, <5>4, TaskSteps DEF Announcing
      <4> QED
        BY <4>1, <4>2
    <3>3. CASE Crash
      BY <2>2, <3>3 DEF Crash, Idle, Announcing
    <3> QED
      BY <3>1, <3>2, <3>3
         DEF Next, DeadlinePasses, Schedule, SchedulerSelect, SchedulerCommit, SchedulerPublish,
             SchedulerFails, vars
  <2>3. Resolving(i)' \subseteq Resolving(i)
    BY <2>2 DEF Resolving
  <2> QED
    BY <2>1, <2>3, CountUndisturbed
<1> QED
  BY <1>1, <1>2, <1>3

\* The team of a resolution is the one that was checked against the caller.
LEMMA NextResolvers ==
    ASSUME TypeOK, RowInv, TasksFit, ResolversAreTeams, [Next]_vars
    PROVE  ResolversAreTeams'
<1>1. \A i \in Incidents : row[i].team # NoTeam => row'[i].team # NoTeam
  BY StepAdvances DEF Advances
<1>2. ASSUME NEW v \in Workers, task'[v].op = "status"
      PROVE  /\ task'[v].pc = "committed" => row'[task'[v].inc].team # NoTeam
             /\ task'[v].pc = "publishing" => task'[v].want.team # NoTeam
  <2>1. CASE task'[v] = task[v]
    BY <1>1, <1>2, <2>1 DEF ResolversAreTeams, TypeOK
  <2>2. ASSUME NEW w \in Workers, Accept(w) \/ Proceed(w) \/ RequestFails(w),
               v = w, task'[v].pc \in {"committed", "publishing"}
        PROVE  /\ task'[v].pc = "committed" => row'[task'[v].inc].team # NoTeam
               /\ task'[v].pc = "publishing" => task'[v].want.team # NoTeam
    <3>1. /\ task[w] \in Task /\ TaskFits(task[w])
          /\ task[w].pc = "loaded" => task[w].inc \in Incidents
      BY DEF TypeOK, TasksFit
    <3>2. CASE CommitStatus(w) /\ task[w].want.status = "COZULDU"
               /\ task'[w] = [task[w] EXCEPT !.pc = "committed"]
      <4>1. task[w].pc = "loaded" /\ task[w].op = "status"
        BY <3>2 DEF CommitStatus, Loaded
      <4>2. task[w].by = task[w].snap.team /\ task[w].by \in Users
        BY <3>1, <3>2, <4>1 DEF TaskFits, WishFits, Task
      <4>3. row[task[w].inc].team # NoTeam
        BY <4>1, <4>2, UsersAssumption DEF RowInv, SnapshotsOnlyLag
      <4>4. task'[w].pc = "committed" /\ task'[w].inc = task[w].inc
        BY <3>1, <3>2 DEF Task
      <4> QED
        BY <1>1, <2>2, <3>1, <4>1, <4>3, <4>4
    <3>3. CASE Refresh(w) /\ task[w].op = "status"
               /\ task'[w] = [task[w] EXCEPT !.pc = "publishing", !.want = row[task[w].inc]]
      <4>1. task'[w].pc = "publishing" /\ task'[w].want = row[task[w].inc]
        BY <3>1, <3>3 DEF Task
      <4>2. row[task[w].inc].team # NoTeam
        BY <3>3 DEF Refresh, ResolversAreTeams
      <4> QED
        BY <2>2, <4>1, <4>2
    <3>4. CASE (CommitAssign(w) \/ CommitFaultType(w) \/ CommitEvaluation(w))
               /\ task'[w] = [task[w] EXCEPT !.pc = "publishing"]
      BY <1>2, <2>2, <3>1, <3>4 DEF Task, CommitAssign, CommitFaultType, CommitEvaluation, Loaded
    <3> QED
      BY <1>2, <2>2, <3>2, <3>3, <3>4, TaskSteps
  <2>3. ASSUME NEW w \in Workers, Accept(w) \/ Proceed(w) \/ RequestFails(w), v # w
        PROVE  task'[v] = task[v]
    BY <2>3, OthersRest
  <2>4. CASE Crash
    BY <2>4 DEF Crash, Idle
  <2> QED
    BY <2>1, <2>2, <2>3, <2>4
       DEF Next, DeadlinePasses, Schedule, SchedulerSelect, SchedulerCommit, SchedulerPublish,
           SchedulerFails, vars
<1>3. ASSUME NEW k \in DOMAIN streams'["resolved"]
      PROVE  streams'["resolved"][k].team # NoTeam
  <2>1. CASE streams'["resolved"] = streams["resolved"]
    BY <1>3, <2>1 DEF ResolversAreTeams
  <2>2. ASSUME NEW w \in Workers, PublishCommitted(w), StreamOf(task[w].op) = "resolved"
        PROVE  streams'["resolved"][k].team # NoTeam
    <3>1. task[w].op = "status" /\ task[w].pc = "publishing" /\ "resolved" \in Streams
      BY <2>2 DEF StreamOf, PublishCommitted, Streams
    <3>2. EventOf(task[w]).team # NoTeam
      BY <3>1 DEF EventOf, Announcement, ResolversAreTeams
    <3> QED
      BY <1>3, <2>2, <3>1, <3>2, Announcements, ZenonT(60) DEF ResolversAreTeams
  <2> QED
    BY <2>1, <2>2, StreamSteps
<1>4. \A v \in Workers : task'[v].op = "status" =>
          /\ task'[v].pc = "committed" => row'[task'[v].inc].team # NoTeam
          /\ task'[v].pc = "publishing" => task'[v].want.team # NoTeam
  BY <1>2
<1> QED
  BY <1>3, <1>4 DEF ResolversAreTeams

\* change_status: whatever races, fails or crashes, points are claimed for an incident at most as
\* often as a move of it to COZULDU was committed, and for a team.
THEOREM ResolvedEventsAreBacked == Spec => []ResolvedEventsBacked
<1>1. Init => ResolutionsAreCounted /\ ResolversAreTeams
  <2> SUFFICES ASSUME Init
               PROVE  ResolutionsAreCounted /\ ResolversAreTeams
    OBVIOUS
  <2>1. ASSUME NEW i \in Incidents
        PROVE  Resolving(i) = {} /\ Sent(i) = {} /\ Moves(i) = {}
    BY DEF Init, Resolving, Announcing, Sent, Moves, Idle, Streams
  <2>2. ResolutionsAreCounted
    BY <2>1, FS_EmptySet DEF ResolutionsAreCounted
  <2> QED
    BY <2>2 DEF Init, ResolversAreTeams, Idle, Streams
<1>2. TypeOK /\ RowInv /\ TasksFit /\ ResolutionsAreCounted /\ ResolversAreTeams /\ [Next]_vars
      => (ResolutionsAreCounted /\ ResolversAreTeams)'
  <2> SUFFICES ASSUME TypeOK, RowInv, TasksFit, ResolutionsAreCounted, ResolversAreTeams,
                      [Next]_vars
               PROVE  ResolutionsAreCounted' /\ ResolversAreTeams'
    OBVIOUS
  <2>1. ResolutionsAreCounted'
    BY NextCounts
  <2>2. ResolversAreTeams'
    BY NextResolvers
  <2> QED
    BY <2>1, <2>2
<1>3. TypeOK /\ ResolutionsAreCounted /\ ResolversAreTeams => ResolvedEventsBacked
  <2> SUFFICES ASSUME TypeOK, ResolutionsAreCounted, ResolversAreTeams
               PROVE  ResolvedEventsBacked
    OBVIOUS
  <2>1. ASSUME NEW i \in Incidents
        PROVE  Cardinality(Sent(i)) <= Cardinality(Moves(i))
    <3>1. IsFiniteSet(Sent(i)) /\ IsFiniteSet(Resolving(i)) /\ IsFiniteSet(Moves(i))
      BY SentIsFinite, MovesAreFinite DEF ResolutionsAreCounted
    <3>2. /\ Cardinality(Sent(i)) \in Nat /\ Cardinality(Resolving(i)) \in Nat
          /\ Cardinality(Moves(i)) \in Nat
      BY <3>1, FS_CardinalityType
    <3> QED
      BY <3>2 DEF ResolutionsAreCounted
  <2> QED
    BY <2>1 DEF ResolvedEventsBacked, Sent, Moves, ResolversAreTeams
<1> QED
  BY <1>1, <1>2, <1>3, TypeCorrect, RowInvariant, TasksAlwaysFit, PTL DEF Spec

-----------------------------------------------------------------------------
(* Who resolved an incident is announced as such.                          *)

\* A request that had loaded i as YENI has committed.
Taken(i) == \E k \in DOMAIN history[i] : history[i][k].from = "YENI"

\* t moved i to COZULDU.
ResolvedBy(i, t) ==
    \E h \in DOMAIN history[i] : history[i][h].to = "COZULDU" /\ history[i][h].by = t

\* Whoever has a team was taken, and what telemetry opens starts as YENI.
TeamsAreTaken ==
    /\ \A i \in Incidents : row[i].team # NoTeam => Taken(i)
    /\ \A w \in Workers : Opening(w) \/ task[w].pc = "predicting" => task[w].snap.status = "YENI"

\* Recorded moves stay recorded.
LEMMA HistoryStays ==
    ASSUME TypeOK, [Next]_vars, NEW i \in Incidents, NEW k \in DOMAIN history[i]
    PROVE  k \in DOMAIN history'[i] /\ history'[i][k] = history[i][k]
<1>1. PICK q \in Seq(HistoryRow) : q = history[i]
  BY DEF TypeOK
<1>2. ASSUME NEW e \in HistoryRow
      PROVE  DOMAIN q \subseteq DOMAIN Append(q, e) /\ \A j \in DOMAIN q : Append(q, e)[j] = q[j]
  OBVIOUS
<1>3. ASSUME NEW w \in Workers, history'[i] = Append(history[i], StatusRow(task[w]))
      PROVE  k \in DOMAIN history'[i] /\ history'[i][k] = history[i][k]
  <2>1. StatusRow(task[w]) \in HistoryRow
    BY StatusRowType DEF TypeOK
  <2> QED
    BY <1>1, <1>2, <1>3, <2>1
<1> QED
  BY <1>3, HistorySteps

LEMMA RecordsStay ==
    ASSUME TypeOK, [Next]_vars, NEW i \in Incidents
    PROVE  /\ Taken(i) => Taken(i)'
           /\ TakenTwice(i) => TakenTwice(i)'
           /\ \A t : ResolvedBy(i, t) => ResolvedBy(i, t)'
  BY HistoryStays DEF Taken, TakenTwice, ResolvedBy

\* A commit of a request that had loaded i as YENI is the first of its kind, or the second.
LEMMA TakingIsRecorded ==
    ASSUME TypeOK, [Next]_vars, NEW i \in Incidents, NEW w \in Workers,
           task[w].snap.status = "YENI", history'[i] = Append(history[i], StatusRow(task[w]))
    PROVE  Taken(i)' /\ (Taken(i) => TakenTwice(i)')
<1>1. PICK q \in Seq(HistoryRow) : q = history[i]
  BY DEF TypeOK
<1>2. PICK e \in HistoryRow : e = StatusRow(task[w])
  BY StatusRowType DEF TypeOK
<1>3. e.from = "YENI"
  BY <1>2 DEF StatusRow
<1>4. /\ Len(q) + 1 \in DOMAIN Append(q, e) /\ Append(q, e)[Len(q) + 1] = e
      /\ Len(q) + 1 \notin DOMAIN q
  OBVIOUS
<1>5. PICK n : n = Len(q) + 1
  OBVIOUS
<1>6. n \in DOMAIN history'[i] /\ history'[i][n] = e /\ n \notin DOMAIN history[i]
  BY <1>1, <1>2, <1>4, <1>5
<1>7. Taken(i)'
  BY <1>3, <1>6 DEF Taken
<1>8. ASSUME Taken(i)
      PROVE  TakenTwice(i)'
  <2>1. PICK k \in DOMAIN history[i] : history[i][k].from = "YENI"
    BY <1>8 DEF Taken
  <2>2. k \in DOMAIN history'[i] /\ history'[i][k].from = "YENI" /\ k # n
    BY <1>6, <2>1, HistoryStays
  <2> QED
    BY <1>3, <1>6, <2>2 DEF TakenTwice
<1> QED
  BY <1>7, <1>8

\* Only an assignment by hand changes the team of a stored incident.
LEMMA TeamSteps ==
    ASSUME TypeOK, RowInv, TasksFit, [Next]_vars, NEW i \in stored,
           row'[i].team # row[i].team
    PROVE  \E w \in Workers :
              /\ CommitAssign(w) /\ task[w].inc = i /\ task[w].snap.status = "YENI"
              /\ row'[i].team = task[w].want.team
              /\ history'[i] = Append(history[i], StatusRow(task[w]))
<1>1. i \in Incidents /\ row[i] \in Row
  BY DEF TypeOK
<1>2. ASSUME NEW w \in Workers, CommitStatus(w) \/ CommitAssign(w) \/ CommitFaultType(w),
             task[w].inc = i, row'[i] = Merge(row[i], task[w].snap, task[w].want)
      PROVE  /\ CommitAssign(w) /\ task[w].snap.status = "YENI"
             /\ row'[i].team = task[w].want.team
             /\ history'[i] = Append(history[i], StatusRow(task[w]))
  <2>1. PICK t : t = task[w]
    OBVIOUS
  <2>2. t.pc = "loaded" /\ ((CommitAssign(w) /\ t.op = "assign") \/ t.op # "assign")
    BY <1>2, <2>1 DEF CommitStatus, CommitAssign, CommitFaultType, Loaded
  <2>3. t.snap \in Row /\ t.want \in Row /\ WishFits(t)
    BY <2>1, <2>2 DEF TypeOK, Task, TasksFit, TaskFits
  <2>4. row'[i].team = IF t.want.team # t.snap.team THEN t.want.team ELSE row[i].team
    BY <1>1, <1>2, <2>1, <2>3, MergeColumns, SMTT(60)
  <2>5. t.op = "assign" /\ row'[i].team = t.want.team
    BY <2>3, <2>4 DEF WishFits
  <2>6. t.snap.status = "YENI"
    BY <2>3, <2>5 DEF WishFits
  <2>7. history'[i] = Append(history[i], StatusRow(t))
    BY <1>1, <1>2, <2>1, <2>2, <2>5 DEF CommitAssign, TypeOK
  <2> QED
    BY <2>1, <2>2, <2>5, <2>6, <2>7
<1>3. ASSUME NEW w \in Workers, CommitTelemetry(w), task[w].inc = i
      PROVE  FALSE
  BY <1>3 DEF CommitTelemetry, RowInv, OpeningsAreExclusive, Opening
<1>4. row'[i] = [row[i] EXCEPT !.sla = "BREACHED"] => row'[i].team = row[i].team
  BY <1>1 DEF Row
<1> QED
  BY <1>1, <1>2, <1>3, <1>4, RowSteps, ZenonT(60)

\* The team of an incident that was taken stays, or the incident is taken a second time.
LEMMA TeamStays ==
    ASSUME TypeOK, RowInv, TasksFit, [Next]_vars, NEW i \in stored, Taken(i)
    PROVE  row'[i].team = row[i].team \/ TakenTwice(i)'
<1>1. i \in Incidents
  BY DEF TypeOK
<1>2. ASSUME row'[i].team # row[i].team
      PROVE  TakenTwice(i)'
  <2>1. PICK w \in Workers : /\ task[w].snap.status = "YENI"
                             /\ history'[i] = Append(history[i], StatusRow(task[w]))
    BY <1>2, TeamSteps
  <2> QED
    BY <1>1, <2>1, TakingIsRecorded
<1> QED
  BY <1>2

\* Whoever is given a team is taken from YENI.
LEMMA NextTaken ==
    ASSUME TypeOK, RowInv, TasksFit, TeamsAreTaken, [Next]_vars
    PROVE  TeamsAreTaken'
<1>1. ASSUME NEW i \in Incidents, row'[i].team # NoTeam
      PROVE  Taken(i)'
  <2>1. CASE row'[i].team = row[i].team
    BY <1>1, <2>1, RecordsStay DEF TeamsAreTaken
  <2>2. CASE row'[i].team # row[i].team /\ i \in stored
    <3>1. PICK w \in Workers : /\ task[w].snap.status = "YENI"
                               /\ history'[i] = Append(history[i], StatusRow(task[w]))
      BY <2>2, TeamSteps
    <3> QED
      BY <3>1, TakingIsRecorded
  <2>3. CASE row'[i].team # row[i].team /\ i \notin stored
    <3>1. ASSUME NEW w \in Workers, task[w].inc = i,
                 CommitStatus(w) \/ CommitAssign(w) \/ CommitFaultType(w)
          PROVE  FALSE
      BY <2>3, <3>1 DEF CommitStatus, CommitAssign, CommitFaultType, Loaded, RowInv,
                        OpeningsAreExclusive
    <3>2. row'[i] = [row[i] EXCEPT !.sla = "BREACHED"] => row'[i].team = row[i].team
      BY DEF TypeOK, Row
    <3>3. PICK w \in Workers : CommitTelemetry(w) /\ task[w].inc = i /\ row'[i] = task[w].want
      BY <2>3, <3>1, <3>2, RowSteps
    <3>4. PICK t : t = task[w]
      OBVIOUS
    <3>5. t.want.team # NoTeam /\ t.pc = "committing" /\ OpeningFits(t)
      BY <1>1, <3>3, <3>4 DEF CommitTelemetry, TasksFit, TaskFits
    <3>6. t.want.status = "ATANDI" /\ t.snap.status = "YENI"
      BY <3>4, <3>5 DEF OpeningFits, TeamsAreTaken, Opening
    <3>7. history'[i] = Append(history[i], StatusRow(t))
      BY <3>3, <3>4, <3>6 DEF CommitTelemetry, TypeOK
    <3> QED
      BY <3>4, <3>6, <3>7, TakingIsRecorded
  <2> QED
    BY <2>1, <2>2, <2>3
<1>2. ASSUME NEW w \in Workers, task'[w].pc \in {"predicting", "assigning", "committing"}
      PROVE  task'[w].snap.status = "YENI"
  <2>0. task[w] \in Task
    BY DEF TypeOK
  <2>1. CASE task'[w] = task[w]
    BY <1>2, <2>1 DEF TeamsAreTaken, Opening
  <2>2. CASE Accept(w)
    <3>1. ASSUME NEW op, NEW i, NEW c, NEW want, Load(w, op, i, c, want)
          PROVE  FALSE
      BY <1>2, <3>1 DEF Load, TypeOK
    <3>2. SubmitTelemetry(w) => task'[w].snap.status = "YENI"
      BY DEF SubmitTelemetry, TypeOK, Idle, NewRow
    <3>3. ASSUME NEW i \in Incidents, NEW c \in Callers, ReportIncident(w, i, c)
          PROVE  FALSE
      BY <1>2, <3>3 DEF ReportIncident, TypeOK, Idle
    <3> QED
      BY <2>2, <3>1, <3>2, <3>3, ZenonT(60)
         DEF Accept, LoadStatus, LoadAssign, LoadFaultType, LoadEvaluation, LoadMessage, LoadNote
  <2>3. CASE Proceed(w)
    <3>1. ASSUME Finish(w)
          PROVE  FALSE
      BY <1>2, <3>1 DEF Finish, Idle, TypeOK
    <3>2. ASSUME NEW pc \in {"committed", "publishing"}, Goto(w, pc)
          PROVE  FALSE
      <4>1. task'[w].pc = pc
        BY <2>0, <3>2 DEF Goto, TypeOK, Task
      <4> QED
        BY <1>2, <4>1
    <3>3. CASE CommitStatus(w) \/ CommitAssign(w) \/ CommitFaultType(w) \/ CommitEvaluation(w)
      BY <3>1, <3>2, <3>3, ZenonT(60)
         DEF CommitStatus, CommitAssign, CommitFaultType, CommitEvaluation
    <3>4. CASE \/ CommitMessage(w) \/ CommitNote(w) \/ PublishCommitted(w) \/ KeepWatching(w)
               \/ CommitTelemetry(w)
      BY <3>1, <3>4, ZenonT(60)
         DEF CommitMessage, CommitNote, PublishCommitted, KeepWatching, CommitTelemetry
    <3>5. ASSUME Refresh(w)
          PROVE  FALSE
      <4>1. task'[w].pc = "publishing"
        BY <2>0, <3>5 DEF Refresh, TypeOK, Task
      <4> QED
        BY <1>2, <4>1
    <3>6. CASE AutoAssignQueued(w)
      <4>1. task'[w].snap = task[w].snap /\ task[w].pc = "assigning"
        BY <2>0, <3>6 DEF AutoAssignQueued, Goto, TypeOK, Task
      <4> QED
        BY <4>1 DEF TeamsAreTaken, Opening
    <3>7. ASSUME NEW i \in Incidents, NEW ft \in FaultTypes, NEW available \in BOOLEAN,
                 OpenIncident(w, i, ft, available)
          PROVE  task'[w].snap.status = "YENI"
      <4>1. task'[w].snap = task[w].snap /\ task[w].pc = "predicting"
        BY <2>0, <3>7 DEF OpenIncident, TypeOK, Task
      <4> QED
        BY <4>1 DEF TeamsAreTaken
    <3>8. ASSUME NEW team \in Teams, AutoAssign(w, team)
          PROVE  task'[w].snap.status = "YENI"
      <4>1. task'[w].snap = task[w].snap /\ task[w].pc = "assigning"
        BY <2>0, <3>8 DEF AutoAssign, TypeOK, Task
      <4> QED
        BY <4>1 DEF TeamsAreTaken, Opening
    <3> QED
      BY <2>3, <3>3, <3>4, <3>5, <3>6, <3>7, <3>8 DEF Proceed
  <2>4. CASE RequestFails(w) \/ Crash
    BY <1>2, <2>4 DEF RequestFails, Crash, Finish, TypeOK, Idle
  <2>5. ASSUME NEW v \in Workers, Accept(v) \/ Proceed(v) \/ RequestFails(v), v # w
        PROVE  task'[w] = task[w]
    BY <2>5, OthersRest
  <2> QED
    BY <2>1, <2>2, <2>3, <2>4, <2>5
       DEF Next, DeadlinePasses, Schedule, SchedulerSelect, SchedulerCommit, SchedulerPublish,
           SchedulerFails, vars
<1>3. \A w \in Workers : Opening(w)' \/ task'[w].pc = "predicting" => task'[w].snap.status = "YENI"
  BY <1>2 DEF Opening
<1>4. \A i \in Incidents : row'[i].team # NoTeam => Taken(i)'
  BY <1>1
<1> QED
  BY <1>3, <1>4 DEF TeamsAreTaken

LEMMA TeamsAreAlwaysTaken == Spec => []TeamsAreTaken
<1>1. Init => TeamsAreTaken
  BY DEF Init, TeamsAreTaken, NewRow, Idle, Opening
<1> QED
  BY <1>1, NextTaken, TypeCorrect, RowInvariant, TasksAlwaysFit, PTL DEF Spec

\* A request that has just loaded a row holds a copy of it.
LEMMA LoadIsCurrent ==
    ASSUME TypeOK, TasksFit, NEW w \in Workers, Accept(w) \/ Proceed(w) \/ RequestFails(w),
           task'[w].pc = "loaded"
    PROVE  /\ task'[w].snap = row[task'[w].inc]
           /\ row' = row
<1> DEFINE t == task[w]
<1>1. t \in Task
  BY DEF TypeOK
<1>2. ASSUME Finish(w)
      PROVE  FALSE
  BY <1>2 DEF Finish, Idle, TypeOK
<1>3. ASSUME NEW pc \in {"committed", "publishing", "committing"}, Goto(w, pc)
      PROVE  FALSE
  <2>1. task'[w].pc = pc
    BY <1>1, <1>3 DEF Goto, TypeOK, Task
  <2> QED
    BY <2>1
<1>4. CASE CommitStatus(w) \/ CommitAssign(w) \/ CommitFaultType(w) \/ CommitEvaluation(w)
  BY <1>2, <1>3, <1>4, ZenonT(60) DEF CommitStatus, CommitAssign, CommitFaultType, CommitEvaluation
<1>5. CASE \/ CommitMessage(w) \/ CommitNote(w) \/ PublishCommitted(w) \/ KeepWatching(w)
           \/ CommitTelemetry(w) \/ RequestFails(w)
  BY <1>2, <1>5, ZenonT(60)
     DEF CommitMessage, CommitNote, PublishCommitted, KeepWatching, CommitTelemetry, RequestFails
<1>6. CASE AutoAssignQueued(w)
  BY <1>3, <1>6, ZenonT(60) DEF AutoAssignQueued
<1>7. ASSUME Refresh(w)
      PROVE  FALSE
  <2>1. task'[w].pc = "publishing"
    BY <1>1, <1>7 DEF Refresh, TypeOK, Task
  <2> QED
    BY <2>1
<1>8. ASSUME NEW i \in Incidents, NEW ft \in FaultTypes, NEW available \in BOOLEAN,
             OpenIncident(w, i, ft, available)
      PROVE  FALSE
  <2>1. task'[w].pc \in {"assigning", "committing"}
    BY <1>1, <1>8 DEF OpenIncident, TypeOK, Task
  <2> QED
    BY <2>1
<1>9. ASSUME NEW team \in Teams, AutoAssign(w, team)
      PROVE  FALSE
  <2>1. task'[w].pc = "committing"
    BY <1>1, <1>9 DEF AutoAssign, TypeOK, Task
  <2> QED
    BY <2>1
<1>10. CASE Accept(w)
  <2>1. ASSUME NEW op, NEW i, NEW c, NEW want, Load(w, op, i, c, want)
        PROVE  task'[w].snap = row[task'[w].inc] /\ row' = row
    BY <2>1 DEF Load, TypeOK, database, ghosts
  <2>2. ASSUME SubmitTelemetry(w)
        PROVE  FALSE
    BY <2>2 DEF SubmitTelemetry, TypeOK, Idle
  <2>3. ASSUME NEW i \in Incidents, NEW c \in Callers, ReportIncident(w, i, c)
        PROVE  FALSE
    BY <2>3 DEF ReportIncident, TypeOK, Idle
  <2> QED
    BY <1>10, <2>1, <2>2, <2>3, ZenonT(60)
       DEF Accept, LoadStatus, LoadAssign, LoadFaultType, LoadEvaluation, LoadMessage, LoadNote
<1> QED
  BY <1>4, <1>5, <1>6, <1>7, <1>8, <1>9, <1>10 DEF Proceed

\* A request that resolves an incident is of its team, and its event will say so, unless the
\* incident was taken a second time.
ResolverInv ==
    /\ ResolverIsAnnounced
    /\ \A w \in Workers : task[w].op = "status" =>
           LET t == task[w] IN
           /\ t.pc = "loaded" /\ t.want.status = "COZULDU" =>
                  row[t.inc].team = t.by \/ TakenTwice(t.inc)
           /\ t.pc = "committed" =>
                  /\ ResolvedBy(t.inc, t.by)
                  /\ row[t.inc].team = t.by \/ TakenTwice(t.inc)
           /\ t.pc = "publishing" => ResolvedBy(t.inc, t.want.team) \/ TakenTwice(t.inc)

\* The team that a request found on a stored incident is still there.
LEMMA ResolverStays ==
    ASSUME TypeOK, RowInv, TasksFit, TeamsAreTaken, [Next]_vars, NEW i \in stored,
           NEW by \in Users, row[i].team = by \/ TakenTwice(i)
    PROVE  row'[i].team = by \/ TakenTwice(i)'
<1>1. i \in Incidents
  BY DEF TypeOK
<1>2. TakenTwice(i) => TakenTwice(i)'
  BY <1>1, RecordsStay
<1>3. row[i].team = by => Taken(i)
  BY <1>1, UsersAssumption DEF TeamsAreTaken
<1> QED
  BY <1>2, <1>3, TeamStays

\* The commit of a resolution records its caller.
LEMMA ResolverCommits ==
    ASSUME TypeOK, [Next]_vars, NEW w \in Workers, CommitStatus(w),
           task[w].want.status = "COZULDU", NEW i, i = task[w].inc, NEW by, by = task[w].by
    PROVE  ResolvedBy(i, by)'
<1>1. task[w] \in Task /\ i \in Incidents
  BY DEF TypeOK, CommitStatus, Loaded
<1>2. PICK e \in HistoryRow : e = StatusRow(task[w])
  BY <1>1, StatusRowType
<1>3. e.to = "COZULDU" /\ e.by = by
  BY <1>2 DEF StatusRow
<1>4. PICK q \in Seq(HistoryRow) : q = history[i]
  BY <1>1 DEF TypeOK
<1>5. history'[i] = Append(q, e)
  BY <1>1, <1>2, <1>4 DEF CommitStatus, TypeOK
<1>6. Len(q) + 1 \in DOMAIN Append(q, e) /\ Append(q, e)[Len(q) + 1] = e
  OBVIOUS
<1>7. Len(q) + 1 \in DOMAIN history'[i] /\ history'[i][Len(q) + 1] = e
  BY <1>5, <1>6
<1> QED
  BY <1>3, <1>7 DEF ResolvedBy

\* No step makes a request resolve for somebody else, or announce somebody who did not.
LEMMA NextResolving ==
    ASSUME TypeOK, RowInv, TasksFit, TeamsAreTaken, ResolverInv, [Next]_vars,
           NEW w \in Workers, task'[w].op = "status", NEW t, t = task'[w], NEW i, i = t.inc,
           t.pc \in {"loaded", "committed", "publishing"}
    PROVE  /\ t.pc = "loaded" /\ t.want.status = "COZULDU" =>
                  row'[i].team = t.by \/ TakenTwice(i)'
           /\ t.pc = "committed" =>
                  ResolvedBy(i, t.by)' /\ (row'[i].team = t.by \/ TakenTwice(i)')
           /\ t.pc = "publishing" => ResolvedBy(i, t.want.team)' \/ TakenTwice(i)'
<1>0. task[w] \in Task
  BY DEF TypeOK
<1>1. CASE task'[w] = task[w]
  <2>1. i \in Incidents /\ t.by \in Users
    BY <1>0, <1>1 DEF TypeOK, Task
  <2>2. /\ TakenTwice(i) => TakenTwice(i)'
        /\ \A s : ResolvedBy(i, s) => ResolvedBy(i, s)'
    BY <2>1, RecordsStay
  <2>3. CASE t.pc = "loaded" /\ t.want.status = "COZULDU"
    <3>1. i \in stored /\ (row[i].team = t.by \/ TakenTwice(i))
      BY <1>1, <2>3 DEF ResolverInv, RowInv, OpeningsAreExclusive
    <3> QED
      BY <2>1, <2>3, <3>1, ResolverStays
  <2>4. CASE t.pc = "committed"
    <3>1. ResolvedBy(i, t.by) /\ (row[i].team = t.by \/ TakenTwice(i))
      BY <1>1, <2>4 DEF ResolverInv
    <3>2. i \in stored
      <4>1. DOMAIN history[i] # {}
        BY <3>1 DEF ResolvedBy
      <4> QED
        BY <2>1, <4>1 DEF RowInv, BlankUntilStored
    <3> QED
      BY <2>1, <2>2, <2>4, <3>1, <3>2, ResolverStays
  <2>5. CASE t.pc = "publishing"
    <3>1. ResolvedBy(i, t.want.team) \/ TakenTwice(i)
      BY <1>1, <2>5 DEF ResolverInv
    <3> QED
      BY <2>2, <2>5, <3>1
  <2> QED
    BY <2>3, <2>4, <2>5
<1>2. CASE (Accept(w) \/ Proceed(w) \/ RequestFails(w)) /\ t.pc = "loaded"
  <2>1. t.snap = row[i] /\ row' = row
    BY <1>2, LoadIsCurrent
  <2>2. TasksFit'
    BY NextFits
  <2>3. WishFits(t)
    BY <1>2, <2>2 DEF TasksFit, TaskFits
  <2> QED
    BY <1>2, <2>1, <2>3 DEF WishFits
<1>3. CASE (Accept(w) \/ Proceed(w) \/ RequestFails(w)) /\ t.pc \in {"committed", "publishing"}
  <2>1. CASE CommitStatus(w) /\ task[w].want.status = "COZULDU"
             /\ task'[w] = [task[w] EXCEPT !.pc = "committed"]
    <3>1. t.inc = task[w].inc /\ t.by = task[w].by /\ t.pc = "committed"
      BY <1>0, <2>1 DEF Task
    <3>2. ResolvedBy(i, t.by)'
      BY <2>1, <3>1, ResolverCommits
    <3>3. task[w].pc = "loaded" /\ task[w].op = "status" /\ t.by \in Users
      BY <1>0, <2>1, <3>1 DEF CommitStatus, Loaded, Task
    <3>4. i \in stored /\ (row[i].team = t.by \/ TakenTwice(i))
      BY <2>1, <3>1, <3>3 DEF ResolverInv, RowInv, OpeningsAreExclusive
    <3>5. row'[i].team = t.by \/ TakenTwice(i)'
      BY <3>3, <3>4, ResolverStays
    <3> QED
      BY <3>1, <3>2, <3>5
  <2>2. CASE Refresh(w) /\ task[w].op = "status"
             /\ task'[w] = [task[w] EXCEPT !.pc = "publishing", !.want = row[task[w].inc]]
    <3>1. t.inc = task[w].inc /\ t.want = row[i] /\ t.pc = "publishing"
      BY <1>0, <2>2 DEF Task
    <3>2. task[w].pc = "committed" /\ i \in Incidents
      BY <2>2, <3>1 DEF Refresh, TypeOK
    <3>3. ResolvedBy(i, task[w].by) /\ (row[i].team = task[w].by \/ TakenTwice(i))
      BY <2>2, <3>1, <3>2 DEF ResolverInv
    <3>4. ResolvedBy(i, t.want.team) \/ TakenTwice(i)
      BY <3>1, <3>3
    <3> QED
      BY <3>1, <3>2, <3>4, RecordsStay
  <2>3. CASE (CommitAssign(w) \/ CommitFaultType(w) \/ CommitEvaluation(w))
             /\ task'[w] = [task[w] EXCEPT !.pc = "publishing"]
    BY <1>0, <2>3, SMTT(60) DEF Task, CommitAssign, CommitFaultType, CommitEvaluation, Loaded
  <2> QED
    BY <1>3, <2>1, <2>2, <2>3, TaskSteps
<1>4. ASSUME NEW v \in Workers, Accept(v) \/ Proceed(v) \/ RequestFails(v), v # w
      PROVE  task'[w] = task[w]
  BY <1>4, OthersRest
<1>5. ~Crash
  BY DEF Crash, Idle
<1> QED
  BY <1>1, <1>2, <1>3, <1>4, <1>5
     DEF Next, DeadlinePasses, Schedule, SchedulerSelect, SchedulerCommit, SchedulerPublish,
         SchedulerFails, vars

\* No event names somebody who did not resolve an incident that was taken once.
LEMMA NextResolverInv ==
    ASSUME TypeOK, RowInv, TasksFit, TeamsAreTaken, ResolverInv, [Next]_vars
    PROVE  ResolverInv'
<1>0. "resolved" \in Streams
  BY DEF Streams
<1>1. ASSUME NEW k \in DOMAIN streams'["resolved"]
      PROVE  \E i, t : /\ i = streams'["resolved"][k].inc /\ t = streams'["resolved"][k].team
                       /\ TakenTwice(i)' \/ ResolvedBy(i, t)'
  <2>1. CASE k \in DOMAIN streams["resolved"] /\ streams'["resolved"][k] = streams["resolved"][k]
    <3>1. PICK e \in Event : e = streams["resolved"][k]
      BY <1>0, <2>1 DEF TypeOK
    <3>2. PICK i \in Incidents : i = e.inc
      BY DEF Event
    <3>3. PICK t : t = e.team
      OBVIOUS
    <3>4. TakenTwice(i) \/ ResolvedBy(i, t)
      BY <2>1, <3>1, <3>2, <3>3 DEF ResolverInv, ResolverIsAnnounced, ResolvedBy
    <3> QED
      BY <2>1, <3>1, <3>2, <3>3, <3>4, RecordsStay
  <2>2. ASSUME NEW w \in Workers, PublishCommitted(w), StreamOf(task[w].op) = "resolved"
        PROVE  \/ /\ k \in DOMAIN streams["resolved"]
                  /\ streams'["resolved"][k] = streams["resolved"][k]
               \/ streams'["resolved"][k] = EventOf(task[w])
    <3>1. PICK n : n = Len(streams["resolved"]) + 1
      OBVIOUS
    <3>2. /\ DOMAIN streams'["resolved"] = DOMAIN streams["resolved"] \cup {n}
          /\ streams'["resolved"][n] = EventOf(task[w])
          /\ \A j \in DOMAIN streams["resolved"] : streams'["resolved"][j] = streams["resolved"][j]
      BY <1>0, <2>2, <3>1, Announcements
    <3> QED
      BY <1>1, <3>2
  <2>3. ASSUME NEW w \in Workers, PublishCommitted(w), StreamOf(task[w].op) = "resolved",
               streams'["resolved"][k] = EventOf(task[w])
        PROVE  \E i, t : /\ i = streams'["resolved"][k].inc /\ t = streams'["resolved"][k].team
                         /\ TakenTwice(i)' \/ ResolvedBy(i, t)'
    <3>1. task[w].op = "status" /\ task[w].pc = "publishing"
      BY <2>3 DEF StreamOf, PublishCommitted
    <3>2. PICK i \in Incidents : i = task[w].inc
      BY <3>1 DEF TypeOK
    <3>3. PICK t : t = task[w].want.team
      OBVIOUS
    <3>4. TakenTwice(i) \/ ResolvedBy(i, t)
      BY <3>1, <3>2, <3>3 DEF ResolverInv
    <3>5. EventOf(task[w]).inc = i /\ EventOf(task[w]).team = t
      BY <3>1, <3>2, <3>3 DEF EventOf, Announcement
    <3> QED
      BY <2>3, <3>4, <3>5, RecordsStay
  <2> QED
    BY <1>1, <2>1, <2>2, <2>3, StreamSteps
<1>2. ResolverIsAnnounced'
  BY <1>1 DEF ResolverIsAnnounced, ResolvedBy
<1>3. ASSUME NEW w \in Workers, task'[w].op = "status"
      PROVE  \E t, i : /\ t = task'[w] /\ i = t.inc
                       /\ t.pc = "loaded" /\ t.want.status = "COZULDU" =>
                              row'[i].team = t.by \/ TakenTwice(i)'
                       /\ t.pc = "committed" =>
                              ResolvedBy(i, t.by)' /\ (row'[i].team = t.by \/ TakenTwice(i)')
                       /\ t.pc = "publishing" => ResolvedBy(i, t.want.team)' \/ TakenTwice(i)'
  <2>1. PICK t : t = task'[w]
    OBVIOUS
  <2>2. PICK i : i = t.inc
    OBVIOUS
  <2> QED
    BY <1>3, <2>1, <2>2, NextResolving
<1>4. ASSUME NEW w \in Workers, task'[w].op = "status"
      PROVE  (LET t == task[w] IN
              /\ t.pc = "loaded" /\ t.want.status = "COZULDU" =>
                     row[t.inc].team = t.by \/ TakenTwice(t.inc)
              /\ t.pc = "committed" =>
                     /\ ResolvedBy(t.inc, t.by)
                     /\ row[t.inc].team = t.by \/ TakenTwice(t.inc)
              /\ t.pc = "publishing" => ResolvedBy(t.inc, t.want.team) \/ TakenTwice(t.inc))'
  <2>1. PICK t, i : /\ t = task'[w] /\ i = t.inc
                    /\ t.pc = "loaded" /\ t.want.status = "COZULDU" =>
                           row'[i].team = t.by \/ TakenTwice(i)'
                    /\ t.pc = "committed" =>
                           ResolvedBy(i, t.by)' /\ (row'[i].team = t.by \/ TakenTwice(i)')
                    /\ t.pc = "publishing" => ResolvedBy(i, t.want.team)' \/ TakenTwice(i)'
    BY <1>3, <1>4
  <2>2. TakenTwice(i)' => TakenTwice(task[w].inc)'
    BY <2>1 DEF TakenTwice
  <2>3. /\ ResolvedBy(i, t.by)' => ResolvedBy(task[w].inc, task[w].by)'
        /\ ResolvedBy(i, t.want.team)' => ResolvedBy(task[w].inc, task[w].want.team)'
    BY <2>1 DEF ResolvedBy
  <2> QED
    BY <2>1, <2>2, <2>3
<1> QED
  BY <1>2, <1>4 DEF ResolverInv

\* change_status: whatever races, fails or crashes, the technician an incident.resolved names is
\* the one who made the move, unless two requests took the incident from YENI.
THEOREM ResolversAreAnnounced == Spec => []ResolverIsAnnounced
<1>1. Init => ResolverInv
  BY DEF Init, ResolverInv, ResolverIsAnnounced, Idle, Streams
<1>2. TypeOK /\ RowInv /\ TasksFit /\ TeamsAreTaken /\ ResolverInv /\ [Next]_vars => ResolverInv'
  BY NextResolverInv
<1>3. ResolverInv => ResolverIsAnnounced
  BY DEF ResolverInv
<1> QED
  BY <1>1, <1>2, <1>3, TypeCorrect, RowInvariant, TasksAlwaysFit, TeamsAreAlwaysTaken, PTL
     DEF Spec

-----------------------------------------------------------------------------
(* The handlers and the SLA task implement the atomic lifecycle, as long   *)
(* as moves of one incident do not overlap.                                *)

\* Such a move commits on the status and the team it was validated with, and what is being
\* evaluated is still closed.
MovesAreCurrent ==
    \A w \in Workers :
        LET t == task[w] IN
        /\ Moving(w) => row[t.inc].status = t.snap.status /\ row[t.inc].team = t.snap.team
        /\ t.pc = "loaded" /\ t.op = "evaluate" => row[t.inc].status = "KAPANDI"

\* While a request holds an uncommitted move nobody moves the incident, and nobody ever moves
\* a closed one.
LEMMA NobodyMoves ==
    ASSUME TypeOK, RowInv, TasksFit, OneMoveAtATime, MovesAreCurrent, [Next]_vars,
           NEW w \in Workers, task'[w] = task[w], task[w].pc = "loaded",
           NEW i, i = task[w].inc, Moving(w) \/ row[i].status = "KAPANDI"
    PROVE  row'[i].status = row[i].status /\ row'[i].team = row[i].team
<1>0. i \in Incidents /\ row[i] \in Row /\ i \in stored
  BY DEF TypeOK, RowInv, OpeningsAreExclusive
<1>1. ASSUME NEW v \in Workers, CommitStatus(v) \/ CommitAssign(v), task[v].inc = i
      PROVE  FALSE
  <2>1. Moving(v) /\ task[v] \in Task
    BY <1>1 DEF CommitStatus, CommitAssign, Loaded, Moving, TypeOK
  <2>2. v # w
    <3>1. CASE Finish(v)
      BY <3>1 DEF Finish, TypeOK, Idle
    <3>2. ASSUME NEW pc \in {"committed", "publishing"}, Goto(v, pc)
          PROVE  v # w
      <4>1. task'[v].pc = pc
        BY <2>1, <3>2 DEF Goto, TypeOK, Task
      <4> QED
        BY <4>1
    <3> QED
      BY <1>1, <3>1, <3>2, ZenonT(60) DEF CommitStatus, CommitAssign
  <2>3. CASE Moving(w)
    BY <1>1, <2>1, <2>2, <2>3 DEF OneMoveAtATime
  <2>4. CASE row[i].status = "KAPANDI"
    <3>1. task[v].snap.status = "KAPANDI"
      BY <1>1, <2>1, <2>4 DEF MovesAreCurrent
    <3>2. WishFits(task[v])
      BY <2>1 DEF Moving, TasksFit, TaskFits
    <3>3. /\ task[v].op = "assign" => task[v].snap.status = "YENI"
          /\ task[v].op = "status" =>
                 <<task[v].snap.status, task[v].want.status>> \in Lifecycle!Graph
      BY <3>2 DEF WishFits
    <3> QED
      BY <2>1, <3>1, <3>3 DEF Moving, Lifecycle!Graph
  <2> QED
    BY <2>3, <2>4
<1>2. ASSUME NEW v \in Workers, CommitFaultType(v), task[v].inc = i,
             row'[i] = Merge(row[i], task[v].snap, task[v].want)
      PROVE  row'[i].status = row[i].status /\ row'[i].team = row[i].team
  <2>1. PICK t : t = task[v]
    OBVIOUS
  <2>2. /\ t.snap \in Row /\ t.want \in Row
        /\ t.want.status = t.snap.status /\ t.want.team = t.snap.team
    BY <1>2, <2>1 DEF CommitFaultType, Loaded, TypeOK, Task, TasksFit, TaskFits, WishFits
  <2> QED
    BY <1>0, <1>2, <2>1, <2>2, MergeColumns
<1>3. ASSUME NEW v \in Workers, CommitTelemetry(v), task[v].inc = i
      PROVE  FALSE
  BY <1>0, <1>3 DEF CommitTelemetry, RowInv, OpeningsAreExclusive, Opening
<1>4. row'[i] = [row[i] EXCEPT !.sla = "BREACHED"] =>
          row'[i].status = row[i].status /\ row'[i].team = row[i].team
  BY <1>0 DEF Row
<1> QED
  BY <1>0, <1>1, <1>2, <1>3, <1>4, RowSteps

\* No step makes the copy of an uncommitted move stale.
LEMMA NextCurrent ==
    ASSUME TypeOK, RowInv, TasksFit, OneMoveAtATime, MovesAreCurrent, [Next]_vars
    PROVE  MovesAreCurrent'
<1>1. ASSUME NEW w \in Workers, task'[w].pc = "loaded",
             NEW t, t = task'[w], NEW i, i = t.inc
      PROVE  /\ t.op \in {"status", "assign"} =>
                    row'[i].status = t.snap.status /\ row'[i].team = t.snap.team
             /\ t.op = "evaluate" => row'[i].status = "KAPANDI"
  <2>1. CASE task'[w] = task[w]
    BY <1>1, <2>1, NobodyMoves DEF MovesAreCurrent, Moving
  <2>2. CASE Accept(w) \/ Proceed(w) \/ RequestFails(w)
    <3>1. t.snap = row[i] /\ row' = row
      BY <1>1, <2>2, LoadIsCurrent
    <3>2. WishFits(t)
      BY <1>1, NextFits DEF TasksFit, TaskFits
    <3> QED
      BY <3>1, <3>2 DEF WishFits
  <2>3. ASSUME NEW v \in Workers, Accept(v) \/ Proceed(v) \/ RequestFails(v), v # w
        PROVE  task'[w] = task[w]
    BY <2>3, OthersRest
  <2>4. ~Crash
    BY <1>1 DEF Crash, Idle
  <2> QED
    BY <2>1, <2>2, <2>3, <2>4
       DEF Next, DeadlinePasses, Schedule, SchedulerSelect, SchedulerCommit, SchedulerPublish,
           SchedulerFails, vars
<1> QED
  BY <1>1 DEF MovesAreCurrent, Moving

\* OrderlySpec is Spec without the behaviours in which moves of one incident overlap.
LEMMA OrderlyIsSpec == OrderlySpec => Spec /\ []OneMoveAtATime
<1>1. Init => OneMoveAtATime
  BY DEF Init, OneMoveAtATime, Moving, Idle
<1>2. OneMoveAtATime /\ [Next /\ OneMoveAtATime']_vars => OneMoveAtATime'
  BY DEF OneMoveAtATime, Moving, vars
<1>3. [Next /\ OneMoveAtATime']_vars => [Next]_vars
  OBVIOUS
<1> QED
  BY <1>1, <1>2, <1>3, PTL DEF OrderlySpec, Spec

LEMMA MovesStayCurrent == OrderlySpec => []MovesAreCurrent
<1>1. Init => MovesAreCurrent
  BY DEF Init, MovesAreCurrent, Moving, Idle
<1>2. TypeOK /\ RowInv /\ TasksFit /\ OneMoveAtATime /\ MovesAreCurrent /\ [Next]_vars
      => MovesAreCurrent'
  BY NextCurrent
<1> QED
  BY <1>1, <1>2, OrderlyIsSpec, TypeCorrect, RowInvariant, TasksAlwaysFit, PTL DEF Spec

StatusSeen == [i \in Incidents |-> IF i \in stored THEN row[i].status ELSE "absent"]
TeamSeen == [i \in Incidents |-> row[i].team]
VerdictSeen == [i \in Incidents |-> row[i].sla]

\* A step that touches nothing the lifecycle shows.
LEMMA UnseenStep ==
    ASSUME stored' = stored, evaluated' = evaluated,
           \A i \in Incidents :
               /\ row'[i].status = row[i].status /\ row'[i].team = row[i].team
               /\ row'[i].sla = row[i].sla
    PROVE  UNCHANGED Lifecycle!vars
<1>1. StatusSeen' = StatusSeen /\ TeamSeen' = TeamSeen /\ VerdictSeen' = VerdictSeen
  BY DEF StatusSeen, TeamSeen, VerdictSeen
<1> QED
  BY <1>1 DEF StatusSeen, TeamSeen, VerdictSeen, Lifecycle!vars

\* A commit that leaves incident i with the row r.
LEMMA SeenStep ==
    ASSUME row \in [Incidents -> Row], NEW i \in Incidents, NEW r \in Row,
           row' = [row EXCEPT ![i] = r], stored' = stored \cup {i}
    PROVE  /\ StatusSeen' = [StatusSeen EXCEPT ![i] = r.status]
           /\ TeamSeen' = [TeamSeen EXCEPT ![i] = r.team]
           /\ VerdictSeen' = [VerdictSeen EXCEPT ![i] = r.sla]
           /\ r.team = row[i].team => TeamSeen' = TeamSeen
           /\ r.sla = row[i].sla => VerdictSeen' = VerdictSeen
  BY DEF StatusSeen, TeamSeen, VerdictSeen

\* What a move has read and what it writes, when its row has changed in the verdict at most.
LEMMA CommittedRow ==
    ASSUME TypeOK, RowInv, TasksFit, MovesAreCurrent, NEW w \in Workers, Moving(w),
           NEW t, t = task[w], NEW i, i = t.inc, NEW m, m = Merge(row[i], t.snap, t.want)
    PROVE  /\ i \in stored /\ i \in Incidents /\ m \in Row
           /\ row[i].status = t.snap.status /\ row[i].team = t.snap.team
           /\ m.status = t.want.status /\ m.team = t.want.team
           /\ m.sla = IF t.want.sla # t.snap.sla THEN t.want.sla ELSE row[i].sla
           /\ t.snap.sla # "ACTIVE" => row[i].sla # "ACTIVE"
           /\ WishFits(t)
<1>1. t \in Task /\ i \in Incidents /\ row[i] \in Row /\ t.pc = "loaded"
  BY DEF TypeOK, Moving
<1>2. i \in stored /\ (t.snap.sla # "ACTIVE" => row[i].sla # "ACTIVE")
  BY <1>1 DEF RowInv, OpeningsAreExclusive, SnapshotsOnlyLag
<1>3. row[i].status = t.snap.status /\ row[i].team = t.snap.team /\ WishFits(t)
  BY <1>1 DEF MovesAreCurrent, TasksFit, TaskFits
<1>4. t.snap \in Row /\ t.want \in Row
  BY <1>1 DEF Task
<1>5. m \in Row
  BY <1>1, <1>4, MergeType
<1>6. /\ m.status = IF t.want.status # t.snap.status THEN t.want.status ELSE row[i].status
      /\ m.team = IF t.want.team # t.snap.team THEN t.want.team ELSE row[i].team
      /\ m.sla = IF t.want.sla # t.snap.sla THEN t.want.sla ELSE row[i].sla
  BY <1>1, <1>4, MergeColumns, SMTT(60)
<1> QED
  BY <1>1, <1>2, <1>3, <1>5, <1>6

\* change_status is an assignment, a resolution or an advance along the graph.
LEMMA StatusRefines ==
    ASSUME TypeOK, RowInv, TasksFit, MovesAreCurrent, NEW w \in Workers, CommitStatus(w)
    PROVE  Lifecycle!Next
<1>1. PICK t : t = task[w]
  OBVIOUS
<1>2. PICK i : i = t.inc
  OBVIOUS
<1>3. PICK m : m = Merge(row[i], t.snap, t.want)
  OBVIOUS
<1>4. t.op = "status" /\ t \in Task /\ Moving(w)
  BY <1>1 DEF CommitStatus, Loaded, TypeOK, Moving
<1>5. /\ i \in stored /\ i \in Incidents /\ m \in Row
      /\ row[i].status = t.snap.status /\ row[i].team = t.snap.team
      /\ m.status = t.want.status /\ m.team = t.want.team
      /\ m.sla = IF t.want.sla # t.snap.sla THEN t.want.sla ELSE row[i].sla
      /\ t.snap.sla # "ACTIVE" => row[i].sla # "ACTIVE"
      /\ WishFits(t)
  BY <1>1, <1>2, <1>3, <1>4, CommittedRow
<1>6. row' = [row EXCEPT ![i] = m] /\ stored' = stored /\ evaluated' = evaluated
  BY <1>1, <1>2, <1>3 DEF CommitStatus
<1>7. /\ StatusSeen' = [StatusSeen EXCEPT ![i] = m.status]
      /\ TeamSeen' = [TeamSeen EXCEPT ![i] = m.team]
      /\ VerdictSeen' = [VerdictSeen EXCEPT ![i] = m.sla]
      /\ m.team = row[i].team => TeamSeen' = TeamSeen
      /\ m.sla = row[i].sla => VerdictSeen' = VerdictSeen
  <2>1. stored' = stored \cup {i} /\ row \in [Incidents -> Row]
    BY <1>5, <1>6 DEF TypeOK
  <2> QED
    BY <1>5, <1>6, <2>1, SeenStep
<1>8. StatusSeen[i] = row[i].status /\ TeamSeen[i] = row[i].team /\ VerdictSeen[i] = row[i].sla
  BY <1>5 DEF StatusSeen, TeamSeen, VerdictSeen
<1>9. m.team = row[i].team /\ <<row[i].status, m.status>> \in Lifecycle!Graph
  BY <1>4, <1>5 DEF WishFits
<1>10. CASE m.status = "COZULDU"
  <2>1. t.by = row[i].team /\ t.want.sla \in {t.snap.sla, "MET"} \ {"ACTIVE"}
    BY <1>4, <1>5, <1>10 DEF WishFits
  <2>2. TeamSeen[i] # NoTeam
    BY <1>4, <1>8, <2>1, UsersAssumption DEF Task
  <2>3. m.sla \in {VerdictSeen[i], "MET"} \ {"ACTIVE"}
    BY <1>5, <1>8, <2>1
  <2>4. Lifecycle!Resolve(i)
    BY <1>6, <1>7, <1>8, <1>9, <1>10, <2>2, <2>3
       DEF Lifecycle!Resolve, StatusSeen, TeamSeen, VerdictSeen
  <2> QED
    BY <1>5, <2>4 DEF Lifecycle!Next
<1>11. m.status # "COZULDU" => m.sla = row[i].sla
  BY <1>4, <1>5 DEF WishFits
<1>12. CASE m.status = "ATANDI"
  <2>1. StatusSeen[i] = "YENI"
    BY <1>8, <1>9, <1>12 DEF Lifecycle!Graph
  <2>2. m.team \in Teams \cup {NoTeam}
    BY <1>1, <1>5 DEF TasksFit, TaskFits, Assignable
  <2>3. Lifecycle!Assign(i)
    BY <1>6, <1>7, <1>11, <1>12, <2>1, <2>2
       DEF Lifecycle!Assign, StatusSeen, TeamSeen, VerdictSeen
  <2> QED
    BY <1>5, <2>3 DEF Lifecycle!Next
<1>13. CASE m.status \notin {"ATANDI", "COZULDU"}
  <2>1. Lifecycle!Advance(i, m.status)
    BY <1>6, <1>7, <1>8, <1>9, <1>11, <1>13
       DEF Lifecycle!Advance, StatusSeen, TeamSeen, VerdictSeen
  <2>2. PICK e \in Lifecycle!Graph : e = <<row[i].status, m.status>>
    BY <1>9
  <2>3. e[2] = m.status
    BY <2>2
  <2> QED
    BY <1>5, <2>1, <2>3 DEF Lifecycle!Next
<1> QED
  BY <1>10, <1>12, <1>13

\* manual_assign is an assignment.
LEMMA AssignRefines ==
    ASSUME TypeOK, RowInv, TasksFit, MovesAreCurrent, NEW w \in Workers, CommitAssign(w)
    PROVE  Lifecycle!Next
<1>1. PICK t : t = task[w]
  OBVIOUS
<1>2. PICK i : i = t.inc
  OBVIOUS
<1>3. PICK m : m = Merge(row[i], t.snap, t.want)
  OBVIOUS
<1>4. t.op = "assign" /\ Moving(w)
  BY <1>1 DEF CommitAssign, Loaded, Moving
<1>5. /\ i \in stored /\ i \in Incidents /\ m \in Row
      /\ row[i].status = t.snap.status /\ row[i].team = t.snap.team
      /\ m.status = t.want.status /\ m.team = t.want.team
      /\ m.sla = IF t.want.sla # t.snap.sla THEN t.want.sla ELSE row[i].sla
      /\ WishFits(t)
  BY <1>1, <1>2, <1>3, <1>4, CommittedRow
<1>6. row' = [row EXCEPT ![i] = m] /\ stored' = stored /\ evaluated' = evaluated
  BY <1>1, <1>2, <1>3 DEF CommitAssign
<1>7. /\ row[i].status = "YENI" /\ m.status = "ATANDI" /\ m.team \in Teams
      /\ m.sla = row[i].sla
  BY <1>4, <1>5 DEF WishFits
<1>8. /\ StatusSeen' = [StatusSeen EXCEPT ![i] = m.status]
      /\ TeamSeen' = [TeamSeen EXCEPT ![i] = m.team]
      /\ m.sla = row[i].sla => VerdictSeen' = VerdictSeen
  <2>1. stored' = stored \cup {i} /\ row \in [Incidents -> Row]
    BY <1>5, <1>6 DEF TypeOK
  <2> QED
    BY <1>5, <1>6, <2>1, SeenStep
<1>9. StatusSeen[i] = "YENI"
  BY <1>5, <1>7 DEF StatusSeen
<1>10. Lifecycle!Assign(i)
  BY <1>6, <1>7, <1>8, <1>9 DEF Lifecycle!Assign, StatusSeen, TeamSeen, VerdictSeen
<1> QED
  BY <1>5, <1>10 DEF Lifecycle!Next

\* change_fault_type shows nothing in the lifecycle, whatever has become of the row.
LEMMA FaultTypeRefines ==
    ASSUME TypeOK, RowInv, TasksFit, NEW w \in Workers, CommitFaultType(w)
    PROVE  UNCHANGED Lifecycle!vars
<1>1. PICK t : t = task[w]
  OBVIOUS
<1>2. PICK i \in Incidents : i = t.inc
  BY <1>1 DEF CommitFaultType, Loaded, TypeOK
<1>3. PICK m : m = Merge(row[i], t.snap, t.want)
  OBVIOUS
<1>4. t.pc = "loaded" /\ t.op = "faultType"
  BY <1>1 DEF CommitFaultType, Loaded
<1>5. row[i] \in Row /\ t.snap \in Row /\ t.want \in Row /\ WishFits(t)
  BY <1>1, <1>4 DEF TypeOK, Task, TasksFit, TaskFits
<1>6. row' = [row EXCEPT ![i] = m] /\ stored' = stored /\ evaluated' = evaluated
  BY <1>1, <1>2, <1>3 DEF CommitFaultType
<1>7. m.status = row[i].status /\ m.team = row[i].team /\ m.sla = row[i].sla
  BY <1>3, <1>4, <1>5, MergeColumns DEF WishFits
<1>8. ASSUME NEW j \in Incidents
      PROVE  /\ row'[j].status = row[j].status /\ row'[j].team = row[j].team
             /\ row'[j].sla = row[j].sla
  BY <1>6, <1>7 DEF TypeOK
<1> QED
  BY <1>6, <1>8, UnseenStep

\* create_evaluation evaluates a closed incident, or loses to an earlier evaluation.
LEMMA EvaluationRefines ==
    ASSUME TypeOK, RowInv, TasksFit, MovesAreCurrent, NEW w \in Workers, CommitEvaluation(w)
    PROVE  Lifecycle!Next \/ UNCHANGED Lifecycle!vars
<1>1. PICK t : t = task[w]
  OBVIOUS
<1>2. PICK i : i = t.inc
  OBVIOUS
<1>3. t.pc = "loaded" /\ t.op = "evaluate"
  BY <1>1 DEF CommitEvaluation, Loaded
<1>4. i \in stored /\ i \in Incidents /\ row[i].status = "KAPANDI"
  BY <1>1, <1>2, <1>3 DEF RowInv, OpeningsAreExclusive, TypeOK, MovesAreCurrent
<1>5. row' = row /\ stored' = stored /\ evaluated' = evaluated \cup {i}
  BY <1>1, <1>2 DEF CommitEvaluation
<1>6. CASE i \in evaluated
  <2>1. evaluated' = evaluated
    BY <1>5, <1>6
  <2> QED
    BY <1>5, <2>1, UnseenStep
<1>7. CASE i \notin evaluated
  <2>1. StatusSeen[i] = "KAPANDI"
    BY <1>4 DEF StatusSeen
  <2>2. StatusSeen' = StatusSeen /\ TeamSeen' = TeamSeen /\ VerdictSeen' = VerdictSeen
    BY <1>5 DEF StatusSeen, TeamSeen, VerdictSeen
  <2>3. Lifecycle!Evaluate(i)
    BY <1>5, <1>7, <2>1, <2>2 DEF Lifecycle!Evaluate, StatusSeen, TeamSeen, VerdictSeen
  <2> QED
    BY <1>4, <2>3 DEF Lifecycle!Next
<1> QED
  BY <1>6, <1>7

\* submit_telemetry opens an incident, assigned or not.
LEMMA TelemetryRefines ==
    ASSUME TypeOK, RowInv, TasksFit, NEW w \in Workers, CommitTelemetry(w)
    PROVE  Lifecycle!Next
<1>1. PICK t : t = task[w]
  OBVIOUS
<1>2. PICK i : i = t.inc
  OBVIOUS
<1>3. t.pc = "committing" /\ t \in Task /\ i \in Incidents
  BY <1>1, <1>2 DEF CommitTelemetry, TypeOK
<1>4. i \notin stored /\ t.want.sla = "ACTIVE" /\ OpeningFits(t)
  BY <1>1, <1>2, <1>3 DEF RowInv, OpeningsAreExclusive, Opening, TasksFit, TaskFits
<1>5. row[i].team = NoTeam /\ row[i].sla = "ACTIVE"
  BY <1>3, <1>4 DEF RowInv, BlankUntilStored, NewRow
<1>6. PICK r \in Row : r = t.want
  BY <1>3 DEF Task
<1>7. row' = [row EXCEPT ![i] = r] /\ stored' = stored \cup {i} /\ evaluated' = evaluated
  BY <1>1, <1>2, <1>6 DEF CommitTelemetry
<1>8. /\ StatusSeen' = [StatusSeen EXCEPT ![i] = r.status]
      /\ TeamSeen' = [TeamSeen EXCEPT ![i] = r.team]
      /\ r.team = row[i].team => TeamSeen' = TeamSeen
      /\ r.sla = row[i].sla => VerdictSeen' = VerdictSeen
  BY <1>3, <1>6, <1>7, SeenStep DEF TypeOK
<1>9. StatusSeen[i] = "absent"
  BY <1>3, <1>4 DEF StatusSeen
<1>10. r.sla = row[i].sla
  BY <1>4, <1>5, <1>6
<1>11. \/ r.status = "YENI" /\ r.team = row[i].team
       \/ r.status = "ATANDI" /\ r.team \in Teams
  BY <1>4, <1>5, <1>6 DEF OpeningFits
<1>12. Lifecycle!Open(i)
  BY <1>7, <1>8, <1>9, <1>10, <1>11 DEF Lifecycle!Open, StatusSeen, TeamSeen, VerdictSeen
<1> QED
  BY <1>3, <1>12 DEF Lifecycle!Next

\* report_incident opens an unassigned incident.
LEMMA ReportRefines ==
    ASSUME TypeOK, RowInv, NEW w \in Workers, NEW i \in Incidents, NEW c \in Callers,
           ReportIncident(w, i, c)
    PROVE  Lifecycle!Next
<1>1. i \notin stored
  BY DEF ReportIncident, RowInv, OpeningsAreExclusive
<1>2. PICK r \in Row : r = NewRow(Belirsiz)
  BY NewRowType, FaultTypesAssumption
<1>3. row[i] = r
  BY <1>1, <1>2 DEF RowInv, BlankUntilStored
<1>4. row' = [row EXCEPT ![i] = r] /\ stored' = stored \cup {i} /\ evaluated' = evaluated
  BY <1>2 DEF ReportIncident
<1>5. /\ StatusSeen' = [StatusSeen EXCEPT ![i] = r.status]
      /\ r.team = row[i].team => TeamSeen' = TeamSeen
      /\ r.sla = row[i].sla => VerdictSeen' = VerdictSeen
  BY <1>4, SeenStep DEF TypeOK
<1>6. StatusSeen[i] = "absent"
  BY <1>1 DEF StatusSeen
<1>7. r.status = "YENI"
  BY <1>2 DEF NewRow
<1>8. Lifecycle!Open(i)
  BY <1>3, <1>4, <1>5, <1>6, <1>7 DEF Lifecycle!Open, StatusSeen, TeamSeen, VerdictSeen
<1> QED
  BY <1>8 DEF Lifecycle!Next

\* A round of the SLA task is one breach of several incidents.
LEMMA BreachRefines ==
    ASSUME TypeOK, RowInv, SchedulerCommit
    PROVE  Lifecycle!Next
<1>1. PICK S \in SUBSET Incidents : S = {i \in Incidents : \E e \in scheduler.batch : e.inc = i}
  OBVIOUS
<1>2. row' = [i \in Incidents |-> IF i \in S THEN [row[i] EXCEPT !.sla = "BREACHED"] ELSE row[i]]
  BY <1>1 DEF SchedulerCommit
<1>3. stored' = stored /\ evaluated' = evaluated
  BY DEF SchedulerCommit
<1>4. ASSUME NEW i \in Incidents
      PROVE  /\ row'[i].status = row[i].status /\ row'[i].team = row[i].team
             /\ row'[i].sla = IF i \in S THEN "BREACHED" ELSE row[i].sla
             /\ i \in S => StatusSeen[i] # "absent"
  <2>1. row[i] \in Row
    BY DEF TypeOK
  <2>2. i \in S => i \in stored
    BY <1>1 DEF RowInv, OpeningsAreExclusive
  <2>3. row[i].status # "absent"
    BY <2>1 DEF Row, Statuses
  <2> QED
    BY <1>2, <2>1, <2>2, <2>3 DEF Row, StatusSeen
<1>5. StatusSeen' = StatusSeen /\ TeamSeen' = TeamSeen
  BY <1>3, <1>4 DEF StatusSeen, TeamSeen
<1>6. VerdictSeen' = [i \in Incidents |-> IF i \in S THEN "BREACHED" ELSE VerdictSeen[i]]
  BY <1>4 DEF VerdictSeen
<1>7. Lifecycle!Breach(S)
  BY <1>3, <1>4, <1>5, <1>6 DEF Lifecycle!Breach, StatusSeen, TeamSeen, VerdictSeen
<1> QED
  BY <1>7 DEF Lifecycle!Next

\* Every step is one step of the lifecycle, or none.
LEMMA NextRefines ==
    ASSUME TypeOK, RowInv, TasksFit, MovesAreCurrent, [Next]_vars
    PROVE  [Lifecycle!Next]_(Lifecycle!vars)
<1> SUFFICES Lifecycle!Next \/ UNCHANGED Lifecycle!vars
  OBVIOUS
<1>1. ASSUME row' = row, stored' = stored, evaluated' = evaluated
      PROVE  UNCHANGED Lifecycle!vars
  BY <1>1, UnseenStep
<1>2. ASSUME NEW w \in Workers, Accept(w)
      PROVE  Lifecycle!Next \/ UNCHANGED Lifecycle!vars
  <2>1. ASSUME NEW op, NEW j, NEW c, NEW want, Load(w, op, j, c, want)
        PROVE  UNCHANGED Lifecycle!vars
    BY <1>1, <2>1 DEF Load, database, ghosts
  <2>2. ASSUME SubmitTelemetry(w)
        PROVE  UNCHANGED Lifecycle!vars
    BY <1>1, <2>2 DEF SubmitTelemetry, database, ghosts
  <2> QED
    BY <1>2, <2>1, <2>2, ReportRefines, ZenonT(60)
       DEF Accept, LoadStatus, LoadAssign, LoadFaultType, LoadEvaluation, LoadMessage, LoadNote
<1>3. ASSUME NEW w \in Workers, Proceed(w)
      PROVE  Lifecycle!Next \/ UNCHANGED Lifecycle!vars
  <2>1. CASE \/ Refresh(w) \/ CommitMessage(w) \/ CommitNote(w) \/ PublishCommitted(w)
             \/ KeepWatching(w) \/ AutoAssignQueued(w)
             \/ \E i \in Incidents, ft \in FaultTypes, available \in BOOLEAN :
                    OpenIncident(w, i, ft, available)
             \/ \E t \in Teams : AutoAssign(w, t)
    <3>1. row' = row /\ stored' = stored /\ evaluated' = evaluated
      BY <2>1, ZenonT(60)
         DEF Refresh, CommitMessage, CommitNote, PublishCommitted, KeepWatching, AutoAssignQueued,
             OpenIncident, AutoAssign, database, ghosts
    <3> QED
      BY <1>1, <3>1
  <2> QED
    BY <1>3, <2>1, StatusRefines, AssignRefines, FaultTypeRefines, EvaluationRefines,
       TelemetryRefines, ZenonT(60) DEF Proceed
<1>4. CASE Schedule
  <2>1. CASE SchedulerSelect \/ \E e \in scheduler.batch : SchedulerPublish(e)
    BY <1>1, <2>1 DEF SchedulerSelect, SchedulerPublish, database, ghosts
  <2> QED
    BY <1>4, <2>1, BreachRefines DEF Schedule
<1>5. CASE \/ SchedulerFails \/ Crash \/ UNCHANGED vars
           \/ \E w \in Workers : RequestFails(w)
           \/ \E j \in Incidents : DeadlinePasses(j)
  <2>1. row' = row /\ stored' = stored /\ evaluated' = evaluated
    BY <1>5, ZenonT(60) DEF RequestFails, DeadlinePasses, SchedulerFails, Crash, vars, database, ghosts
  <2> QED
    BY <1>1, <2>1
<1> QED
  BY <1>2, <1>3, <1>4, <1>5 DEF Next

\* api/incidents.py and core/sla_scheduler.py: as long as no request loads an incident for a move
\* before the previous move of it has committed, what the database shows of an incident goes as if
\* every handler and every round of the SLA task were one atomic step along the graph of
\* core/state_machine.py, whatever else overlaps, fails or crashes.
THEOREM LifecycleImplemented == OrderlySpec => ImplementsLifecycle
<1>1. Init => Lifecycle!Init
  BY DEF Init, Lifecycle!Init, NewRow
<1>2. TypeOK /\ RowInv /\ TasksFit /\ MovesAreCurrent /\ [Next]_vars
      => [Lifecycle!Next]_(Lifecycle!vars)
  BY NextRefines
<1> QED
  BY <1>1, <1>2, OrderlyIsSpec, TypeCorrect, RowInvariant, TasksAlwaysFit, MovesStayCurrent, PTL
     DEF Spec, ImplementsLifecycle, Lifecycle!Spec

\* A request that has an event to announce can only announce it.
LEMMA PublishingSteps ==
    ASSUME NEW w \in Workers, Accept(w) \/ Proceed(w), task[w].pc = "publishing"
    PROVE  PublishCommitted(w)
<1>1. ASSUME Accept(w)
      PROVE  task[w].pc = "idle"
  <2>1. ASSUME NEW op, NEW i, NEW c, NEW want, Load(w, op, i, c, want)
        PROVE  task[w].pc = "idle"
    BY <2>1 DEF Load
  <2>2. SubmitTelemetry(w) => task[w].pc = "idle"
    BY DEF SubmitTelemetry
  <2>3. ASSUME NEW i \in Incidents, NEW c \in Callers, ReportIncident(w, i, c)
        PROVE  task[w].pc = "idle"
    BY <2>3 DEF ReportIncident
  <2> QED
    BY <1>1, <2>1, <2>2, <2>3, ZenonT(60)
       DEF Accept, LoadStatus, LoadAssign, LoadFaultType, LoadEvaluation, LoadMessage, LoadNote
<1> QED
  BY <1>1
     DEF Proceed, CommitStatus, Refresh, CommitAssign, CommitFaultType, CommitEvaluation,
         CommitMessage, CommitNote, KeepWatching, OpenIncident, AutoAssignQueued, AutoAssign,
         CommitTelemetry, Loaded

\* What was lost stays lost, and what was contested stays contested.
LEMMA GhostsGrow ==
    [Next]_vars => unsent \subseteq unsent' /\ contested \subseteq contested'
<1> SUFFICES ASSUME [Next]_vars
             PROVE  unsent \subseteq unsent' /\ contested \subseteq contested'
  BY SMTT(60)
<1>1. ASSUME NEW w \in Workers, Accept(w)
      PROVE  unsent \subseteq unsent' /\ contested \subseteq contested'
  <2>1. ASSUME NEW op, NEW j, NEW c, NEW want, Load(w, op, j, c, want)
        PROVE  unsent \subseteq unsent' /\ contested \subseteq contested'
    BY <2>1 DEF Load
  <2> QED
    BY <1>1, <2>1, ZenonT(60)
       DEF Accept, SubmitTelemetry, ReportIncident, LoadStatus, LoadAssign, LoadFaultType,
           LoadEvaluation, LoadMessage, LoadNote, ghosts
<1>2. ASSUME NEW w \in Workers, Proceed(w)
      PROVE  unsent \subseteq unsent' /\ contested \subseteq contested'
  BY <1>2, ZenonT(60)
     DEF Proceed, CommitStatus, Refresh, CommitAssign, CommitFaultType, CommitEvaluation,
         CommitMessage, CommitNote, PublishCommitted, KeepWatching, OpenIncident,
         AutoAssignQueued, AutoAssign, CommitTelemetry, ghosts
<1>3. CASE Schedule
  BY <1>3 DEF Schedule, SchedulerSelect, SchedulerCommit, SchedulerPublish, ghosts
<1> QED
  BY <1>1, <1>2, <1>3
     DEF Next, RequestFails, DeadlinePasses, SchedulerFails, Crash, vars, ghosts

-----------------------------------------------------------------------------
(* The corrections of a fault type, as the AI service reads them.          *)

Changes == streams["type_changed"]
Later(j) == {k \in DOMAIN Changes : k > j /\ Changes[k].inc = Changes[j].inc}

\* A correction that is committed and not announced yet.
Retyping(w) == task[w].pc = "publishing" /\ task[w].op = "faultType"

\* No two corrections of i were under way at once and none was lost.
Undisturbed(i) == i \notin contested /\ <<i, "type_changed">> \notin unsent

\* Corrections are of stored incidents.  The only one under way of an incident replaces the
\* fault type the row still has, and leaves the one it wanted.
CorrectionsInv ==
    /\ \A w \in Workers : task[w].op = "faultType" =>
           task[w].pc \in {"loaded", "publishing"} /\ task[w].inc \in stored
    /\ \A v, w \in Workers, i \in Incidents :
           Correcting(v, i) /\ Correcting(w, i) /\ i \notin contested => v = w
    /\ \A w \in Workers, i \in Incidents : Correcting(w, i) /\ i \notin contested =>
           /\ task[w].pc = "loaded" => task[w].snap.faultType = row[i].faultType
           /\ task[w].pc = "publishing" => task[w].want.faultType = row[i].faultType

\* The last correction announced of i was to ft: the row has it, or the one correction that is
\* still to be announced had read it.
Known(i, ft) ==
    \/ row[i].faultType = ft /\ \A w \in Workers : Retyping(w) => task[w].inc # i
    \/ \E w \in Workers : Retyping(w) /\ task[w].inc = i /\ task[w].snap.faultType = ft

ChainInv ==
    \A j \in DOMAIN Changes :
        /\ Changes[j].inc \in stored
        /\ Undisturbed(Changes[j].inc) =>
               \/ Later(j) = {} /\ Known(Changes[j].inc, Changes[j].faultType)
               \/ \E k \in Later(j) : /\ \A l \in Later(j) : k <= l
                                      /\ Changes[k].original = Changes[j].faultType

\* The column a correction writes.
LEMMA MergeFaultType ==
    ASSUME NEW db \in Row, NEW snap \in Row, NEW want \in Row
    PROVE  Merge(db, snap, want).faultType =
              IF want.faultType # snap.faultType THEN want.faultType ELSE db.faultType
BY DEF Merge, Row

\* Only a correction of it changes the fault type of a stored incident.
LEMMA FaultTypeSteps ==
    ASSUME TypeOK, RowInv, TasksFit, [Next]_vars, NEW i \in stored,
           row'[i].faultType # row[i].faultType
    PROVE  \E w \in Workers : CommitFaultType(w) /\ task[w].inc = i
<1>1. i \in Incidents /\ row[i] \in Row
  BY DEF TypeOK
<1>2. ASSUME NEW w \in Workers, CommitStatus(w) \/ CommitAssign(w),
             task[w].inc = i, row'[i] = Merge(row[i], task[w].snap, task[w].want)
      PROVE  FALSE
  <2>1. PICK t : t = task[w]
    OBVIOUS
  <2>2. t.pc = "loaded" /\ t.op # "faultType"
    BY <1>2, <2>1 DEF CommitStatus, CommitAssign, Loaded
  <2>3. t.snap \in Row /\ t.want \in Row /\ WishFits(t)
    BY <2>1, <2>2 DEF TypeOK, Task, TasksFit, TaskFits
  <2>4. row'[i].faultType = row[i].faultType
    BY <1>1, <1>2, <2>1, <2>2, <2>3, MergeFaultType DEF WishFits
  <2> QED
    BY <2>4
<1>3. ASSUME NEW w \in Workers, CommitTelemetry(w), task[w].inc = i
      PROVE  FALSE
  BY <1>3 DEF CommitTelemetry, RowInv, OpeningsAreExclusive, Opening
<1>4. row'[i] = [row[i] EXCEPT !.sla = "BREACHED"] => row'[i].faultType = row[i].faultType
  BY <1>1 DEF Row
<1> QED
  BY <1>1, <1>2, <1>3, <1>4, RowSteps

\* How a request comes to be a correction, and goes on as one.
LEMMA CorrectionSteps ==
    ASSUME TypeOK, TasksFit, NEW w \in Workers, Accept(w) \/ Proceed(w) \/ RequestFails(w),
           task'[w].op = "faultType"
    PROVE  \/ \E i \in stored :
                 /\ task'[w].pc = "loaded" /\ task'[w].inc = i /\ task'[w].snap = row[i]
                 /\ row' = row /\ stored' = stored
                 /\ (\E v \in Workers : Correcting(v, i)) => i \in contested'
           \/ CommitFaultType(w) /\ task'[w] = [task[w] EXCEPT !.pc = "publishing"]
<1>1. task[w] \in Task /\ TaskFits(task[w])
  BY DEF TypeOK, TasksFit
<1>2. ASSUME Finish(w)
      PROVE  FALSE
  BY <1>2 DEF Finish, Idle, TypeOK
<1>3. ASSUME NEW pc, Goto(w, pc), task[w].op # "faultType"
      PROVE  FALSE
  <2>1. task'[w].op = task[w].op
    BY <1>1, <1>3 DEF Goto, TypeOK, Task
  <2> QED
    BY <1>3, <2>1
<1>4. CASE CommitStatus(w) \/ CommitAssign(w) \/ CommitEvaluation(w)
  <2>1. task[w].op # "faultType"
    BY <1>4 DEF CommitStatus, CommitAssign, CommitEvaluation, Loaded
  <2> QED
    BY <1>2, <1>3, <1>4, <2>1, ZenonT(60) DEF CommitStatus, CommitAssign, CommitEvaluation
<1>5. CASE \/ CommitMessage(w) \/ CommitNote(w) \/ PublishCommitted(w) \/ KeepWatching(w)
           \/ CommitTelemetry(w) \/ RequestFails(w)
  BY <1>2, <1>5, ZenonT(60)
     DEF CommitMessage, CommitNote, PublishCommitted, KeepWatching, CommitTelemetry, RequestFails
<1>6. CASE CommitFaultType(w)
  BY <1>6 DEF CommitFaultType, Goto, TypeOK
<1>7. CASE AutoAssignQueued(w)
  <2>1. task[w].op # "faultType"
    BY <1>1, <1>7 DEF AutoAssignQueued, TaskFits
  <2> QED
    BY <1>3, <1>7, <2>1 DEF AutoAssignQueued
<1>8. ASSUME Refresh(w)
      PROVE  FALSE
  <2>1. task'[w].op = task[w].op /\ task[w].op = "status"
    BY <1>1, <1>8 DEF Refresh, TypeOK, Task, TaskFits
  <2> QED
    BY <2>1
<1>9. ASSUME NEW i \in Incidents, NEW ft \in FaultTypes, NEW available \in BOOLEAN,
             OpenIncident(w, i, ft, available)
      PROVE  FALSE
  <2>1. task'[w].op = task[w].op /\ task[w].op = "telemetry"
    BY <1>1, <1>9 DEF OpenIncident, TypeOK, Task, TaskFits
  <2> QED
    BY <2>1
<1>10. ASSUME NEW team \in Teams, AutoAssign(w, team)
       PROVE  FALSE
  <2>1. task'[w].op = task[w].op /\ task[w].op = "telemetry"
    BY <1>1, <1>10 DEF AutoAssign, TypeOK, Task, TaskFits
  <2> QED
    BY <2>1
<1>11. CASE Accept(w)
  <2>1. ASSUME NEW op, NEW i, NEW c, NEW want, Load(w, op, i, c, want)
        PROVE  /\ i \in stored
               /\ task'[w].pc = "loaded" /\ task'[w].inc = i /\ task'[w].snap = row[i]
               /\ row' = row /\ stored' = stored
               /\ (\E v \in Workers : Correcting(v, i)) => i \in contested'
    <3>1. task'[w].op = op
      BY <2>1 DEF Load, TypeOK
    <3> QED
      BY <2>1, <3>1 DEF Load, TypeOK, database
  <2>2. ASSUME SubmitTelemetry(w)
        PROVE  FALSE
    BY <2>2 DEF SubmitTelemetry, TypeOK, Idle
  <2>3. ASSUME NEW i \in Incidents, NEW c \in Callers, ReportIncident(w, i, c)
        PROVE  FALSE
    BY <2>3 DEF ReportIncident, TypeOK, Idle
  <2> QED
    BY <1>11, <2>1, <2>2, <2>3, ZenonT(60)
       DEF Accept, LoadStatus, LoadAssign, LoadFaultType, LoadEvaluation, LoadMessage, LoadNote
<1> QED
  BY <1>4, <1>5, <1>6, <1>7, <1>8, <1>9, <1>10, <1>11 DEF Proceed

\* A commit leaves the correction itself as it was, and its fault type in the row.
LEMMA CorrectionCommits ==
    ASSUME TypeOK, RowInv, CorrectionsInv, NEW w \in Workers, CommitFaultType(w),
           NEW t, t = task[w], NEW i, i = t.inc
    PROVE  /\ i \in Incidents /\ i \in stored /\ t.pc = "loaded" /\ Correcting(w, i)
           /\ task'[w].pc = "publishing" /\ task'[w].op = "faultType" /\ task'[w].inc = i
           /\ task'[w].snap = t.snap /\ task'[w].want = t.want
           /\ \A v \in Workers : v # w => task'[v] = task[v]
           /\ \A j \in Incidents : j # i => row'[j] = row[j]
           /\ streams' = streams /\ stored' = stored /\ unsent' = unsent /\ contested' = contested
           /\ i \notin contested =>
                  row[i].faultType = t.snap.faultType /\ row'[i].faultType = t.want.faultType
<1>1. /\ t \in Task /\ i \in Incidents /\ i \in stored /\ t.pc = "loaded" /\ t.op = "faultType"
      /\ Correcting(w, i)
  BY DEF CommitFaultType, Loaded, TypeOK, RowInv, OpeningsAreExclusive, Correcting
<1>2. PICK u : u = [t EXCEPT !.pc = "publishing"]
  OBVIOUS
<1>3. task'[w] = u /\ \A v \in Workers : v # w => task'[v] = task[v]
  BY <1>2 DEF CommitFaultType, Goto, TypeOK
<1>4. /\ u.pc = "publishing" /\ u.op = "faultType" /\ u.inc = i /\ u.snap = t.snap
      /\ u.want = t.want
  BY <1>1, <1>2 DEF Task
<1>5. PICK m : m = Merge(row[i], t.snap, t.want)
  OBVIOUS
<1>6. /\ row' = [row EXCEPT ![i] = m]
      /\ streams' = streams /\ stored' = stored /\ unsent' = unsent /\ contested' = contested
  BY <1>5 DEF CommitFaultType, ghosts
<1>7. row'[i] = m /\ \A j \in Incidents : j # i => row'[j] = row[j]
  BY <1>1, <1>6 DEF TypeOK
<1>8. m.faultType = IF t.want.faultType # t.snap.faultType THEN t.want.faultType
                                                           ELSE row[i].faultType
  <2>1. row[i] \in Row /\ t.snap \in Row /\ t.want \in Row
    BY <1>1 DEF TypeOK, Task
  <2> QED
    BY <1>5, <2>1, MergeFaultType
<1>9. i \notin contested => row[i].faultType = t.snap.faultType
  BY <1>1 DEF CorrectionsInv
<1> QED
  BY <1>1, <1>3, <1>4, <1>6, <1>7, <1>8, <1>9

\* Corrections of one incident stay apart unless it is contested, and their copies current.
LEMMA NextCorrections ==
    ASSUME TypeOK, RowInv, TasksFit, CorrectionsInv, [Next]_vars
    PROVE  CorrectionsInv'
<1>0. stored \subseteq stored' /\ contested \subseteq contested' /\ stored \subseteq Incidents
  BY StoredGrows, GhostsGrow DEF TypeOK
<1>1. ASSUME NEW w \in Workers, task'[w] # task[w], task'[w].op = "faultType"
      PROVE  /\ \A v \in Workers : v # w => task'[v] = task[v]
             /\ \/ \E i \in stored :
                     /\ task'[w].pc = "loaded" /\ task'[w].inc = i /\ task'[w].snap = row[i]
                     /\ row' = row /\ stored' = stored
                     /\ (\E v \in Workers : Correcting(v, i)) => i \in contested'
                \/ CommitFaultType(w)
  <2>1. ~Crash
    BY <1>1 DEF Crash, Idle
  <2>2. ASSUME NEW v \in Workers, Accept(v) \/ Proceed(v) \/ RequestFails(v)
        PROVE  v = w
    BY <1>1, <2>2, OthersRest
  <2>3. Accept(w) \/ Proceed(w) \/ RequestFails(w)
    BY <1>1, <2>1, <2>2
       DEF Next, DeadlinePasses, Schedule, SchedulerSelect, SchedulerCommit, SchedulerPublish,
           SchedulerFails, vars
  <2> QED
    BY <1>1, <2>3, OthersRest, CorrectionSteps
<1>2. ASSUME NEW w \in Workers, task'[w].op = "faultType"
      PROVE  task'[w].pc \in {"loaded", "publishing"} /\ task'[w].inc \in stored
  <2>1. CASE task'[w] = task[w]
    BY <1>2, <2>1 DEF CorrectionsInv
  <2>2. CASE CommitFaultType(w)
    BY <2>2, CorrectionCommits
  <2> QED
    BY <1>1, <1>2, <2>1, <2>2
<1>3. ASSUME NEW v \in Workers, NEW w \in Workers, NEW i \in Incidents,
             Correcting(v, i)', Correcting(w, i)', i \notin contested', v # w
      PROVE  FALSE
  <2>1. ASSUME NEW x \in Workers, Correcting(x, i)',
               CommitFaultType(x) \/ task'[x] = task[x]
        PROVE  Correcting(x, i)
    <3>1. ASSUME CommitFaultType(x)
          PROVE  task'[x].inc = task[x].inc /\ task[x].op = "faultType"
      <4>1. PICK t, j : t = task[x] /\ j = t.inc
        OBVIOUS
      <4> QED
        BY <3>1, <4>1, CorrectionCommits DEF Correcting
    <3> QED
      BY <2>1, <3>1 DEF Correcting
  <2>2. ASSUME NEW x \in Workers, NEW y \in Workers, Correcting(x, i)', Correcting(y, i)', x # y,
               task'[x] # task[x], ~CommitFaultType(x)
        PROVE  FALSE
    <3>1. task'[x].op = "faultType" /\ task'[x].inc = i
      BY <2>2 DEF Correcting
    <3>2. task'[y] = task[y] /\ ((\E z \in Workers : Correcting(z, i)) => i \in contested')
      BY <1>1, <2>2, <3>1
    <3>3. Correcting(y, i)
      BY <2>1, <2>2, <3>2
    <3> QED
      BY <1>3, <3>2, <3>3
  <2>3. Correcting(v, i) /\ Correcting(w, i)
    BY <1>3, <2>1, <2>2
  <2> QED
    BY <1>0, <1>3, <2>3 DEF CorrectionsInv
<1>4. ASSUME NEW w \in Workers, NEW i \in Incidents, Correcting(w, i)', i \notin contested'
      PROVE  /\ task'[w].pc = "loaded" => task'[w].snap.faultType = row'[i].faultType
             /\ task'[w].pc = "publishing" => task'[w].want.faultType = row'[i].faultType
  <2>0. task'[w].op = "faultType" /\ task'[w].inc = i /\ i \notin contested
    BY <1>0, <1>4 DEF Correcting
  <2>1. CASE task'[w] = task[w]
    <3>1. Correcting(w, i) /\ i \in stored
      BY <2>0, <2>1 DEF Correcting, CorrectionsInv
    <3>2. row'[i].faultType = row[i].faultType
      <4>1. ASSUME NEW v \in Workers, CommitFaultType(v), task[v].inc = i
            PROVE  FALSE
        <5>1. Correcting(v, i) /\ task[v].pc = "loaded" /\ task'[v].pc = "publishing"
          BY <4>1, CorrectionCommits
        <5>2. v = w
          BY <2>0, <3>1, <5>1 DEF CorrectionsInv
        <5> QED
          BY <2>1, <5>1, <5>2
      <4> QED
        BY <3>1, <4>1, FaultTypeSteps
    <3> QED
      BY <2>0, <2>1, <3>1, <3>2 DEF CorrectionsInv
  <2>2. CASE CommitFaultType(w)
    BY <2>0, <2>2, CorrectionCommits
  <2> QED
    BY <1>1, <2>0, <2>1, <2>2
<1> QED
  BY <1>0, <1>2, <1>3, <1>4 DEF CorrectionsInv

LEMMA CorrectionsStayApart == Spec => []CorrectionsInv
<1>1. Init => CorrectionsInv
  BY DEF Init, CorrectionsInv, Correcting, Idle
<1>2. TypeOK /\ RowInv /\ TasksFit /\ CorrectionsInv /\ [Next]_vars => CorrectionsInv'
  BY NextCorrections
<1> QED
  BY <1>1, <1>2, TypeCorrect, RowInvariant, TasksAlwaysFit, PTL DEF Spec

\* What is known of an incident and of the place of an announcement in its chain carries over.
LEMMA LinkCarries ==
    ASSUME NEW j \in DOMAIN Changes', NEW i, NEW ft,
           i = Changes'[j].inc, ft = Changes'[j].faultType, i \in stored',
           Undisturbed(i)' =>
               \/ Later(j)' = {} /\ Known(i, ft)'
               \/ \E k \in Later(j)' : /\ \A l \in Later(j)' : k <= l
                                       /\ Changes'[k].original = ft
    PROVE  /\ Changes'[j].inc \in stored'
           /\ Undisturbed(Changes[j].inc)' =>
               \/ Later(j)' = {} /\ Known(Changes[j].inc, Changes[j].faultType)'
               \/ \E k \in Later(j)' : /\ \A l \in Later(j)' : k <= l
                                       /\ Changes'[k].original = Changes'[j].faultType
<1>1. Undisturbed(Changes[j].inc)' => Undisturbed(i)'
  BY DEF Undisturbed
<1>2. Known(i, ft)' => Known(Changes[j].inc, Changes[j].faultType)'
  BY DEF Known
<1> QED
  BY <1>1, <1>2

\* A step that neither corrects a fault type nor announces a correction, but may lose one.
LEMMA ChainUndisturbed ==
    ASSUME ChainInv, streams'["type_changed"] = streams["type_changed"],
           stored \subseteq stored', unsent \subseteq unsent', contested \subseteq contested',
           \A i \in stored : row'[i].faultType = row[i].faultType,
           \A w \in Workers : \/ task'[w] = task[w]
                              \/ /\ ~Retyping(w)'
                                 /\ Retyping(w) => <<task[w].inc, "type_changed">> \in unsent'
    PROVE  ChainInv'
<1>1. Changes' = Changes /\ \A j : Later(j)' = Later(j)
  BY DEF Changes, Later
<1>2. ASSUME NEW j \in DOMAIN Changes'
      PROVE  (/\ Changes[j].inc \in stored
              /\ Undisturbed(Changes[j].inc) =>
                     \/ Later(j) = {} /\ Known(Changes[j].inc, Changes[j].faultType)
                     \/ \E k \in Later(j) : /\ \A l \in Later(j) : k <= l
                                            /\ Changes[k].original = Changes[j].faultType)'
  <2>0. j \in DOMAIN Changes
    BY <1>1
  <2>1. PICK i, ft : i = Changes[j].inc /\ ft = Changes[j].faultType /\ i \in stored
    BY <2>0 DEF ChainInv
  <2>2. Undisturbed(i)' => Undisturbed(i)
    BY DEF Undisturbed
  <2>3. ASSUME Undisturbed(i)', Known(i, ft)
        PROVE  Known(i, ft)'
    <3>1. \A w \in Workers : task'[w] = task[w] \/ (~Retyping(w)' /\ (Retyping(w) => task[w].inc # i))
      BY <2>3 DEF Undisturbed
    <3>2. row'[i].faultType = row[i].faultType
      BY <2>1
    <3>3. CASE row[i].faultType = ft /\ \A w \in Workers : Retyping(w) => task[w].inc # i
      <4>1. \A w \in Workers : Retyping(w)' => task'[w].inc # i
        BY <3>1, <3>3 DEF Retyping
      <4> QED
        BY <3>2, <3>3, <4>1 DEF Known
    <3>4. ASSUME NEW w \in Workers, Retyping(w), task[w].inc = i, task[w].snap.faultType = ft
          PROVE  Known(i, ft)'
      <4>1. task'[w] = task[w]
        BY <3>1, <3>4
      <4> QED
        BY <3>4, <4>1 DEF Known, Retyping
    <3> QED
      BY <2>3, <3>3, <3>4 DEF Known
  <2>4. Undisturbed(i)' =>
            \/ Later(j)' = {} /\ Known(i, ft)'
            \/ \E k \in Later(j)' : /\ \A l \in Later(j)' : k <= l
                                    /\ Changes'[k].original = ft
    <3>1. Undisturbed(i) =>
              \/ Later(j) = {} /\ Known(i, ft)
              \/ \E k \in Later(j) : /\ \A l \in Later(j) : k <= l
                                     /\ Changes[k].original = ft
      BY <2>0, <2>1 DEF ChainInv
    <3> QED
      BY <1>1, <2>2, <2>3, <3>1
  <2> QED
    BY <1>1, <2>1, <2>4, LinkCarries
<1> QED
  BY <1>2 DEF ChainInv

\* A correction is in the row before it is announced, and remembers what it replaced.
LEMMA RetypingWritten ==
    ASSUME TypeOK, RowInv, CorrectionsInv, ChainInv, NEW w \in Workers, CommitFaultType(w)
    PROVE  ChainInv'
<1>1. PICK t : t = task[w]
  OBVIOUS
<1>2. PICK i : i = t.inc
  OBVIOUS
<1>3. /\ i \in Incidents /\ i \in stored /\ t.pc = "loaded" /\ Correcting(w, i)
      /\ task'[w].pc = "publishing" /\ task'[w].op = "faultType" /\ task'[w].inc = i
      /\ task'[w].snap = t.snap
      /\ \A v \in Workers : v # w => task'[v] = task[v]
      /\ \A j \in Incidents : j # i => row'[j] = row[j]
      /\ streams' = streams /\ stored' = stored /\ unsent' = unsent /\ contested' = contested
      /\ i \notin contested => row[i].faultType = t.snap.faultType
  BY <1>1, <1>2, CorrectionCommits
<1>4. Changes' = Changes /\ \A j : Later(j)' = Later(j)
  BY <1>3 DEF Changes, Later
<1>5. ~Retyping(w) /\ Retyping(w)'
  BY <1>1, <1>3 DEF Retyping
<1>6. ASSUME NEW j \in Incidents, NEW ft, j \notin contested, Known(j, ft)
      PROVE  Known(j, ft)'
  <2>1. CASE j = i
    <3>1. ASSUME NEW v \in Workers, Retyping(v), task[v].inc = i
          PROVE  FALSE
      <4>1. Correcting(v, i)
        BY <3>1 DEF Retyping, Correcting
      <4>2. v = w
        BY <1>3, <1>6, <2>1, <4>1 DEF CorrectionsInv
      <4> QED
        BY <1>5, <3>1, <4>2
    <3>2. row[i].faultType = ft
      BY <1>6, <2>1, <3>1 DEF Known
    <3> QED
      BY <1>3, <1>5, <1>6, <2>1, <3>2 DEF Known
  <2>2. CASE j # i
    <3>1. row'[j] = row[j]
      BY <1>3, <2>2
    <3>2. \A v \in Workers : (Retyping(v)' /\ task'[v].inc = j)
                                <=> (Retyping(v) /\ task[v].inc = j)
      BY <1>2, <1>1, <1>3, <2>2 DEF Retyping
    <3>3. \A v \in Workers : Retyping(v) /\ task[v].inc = j => task'[v] = task[v]
      BY <1>1, <1>2, <1>3, <2>2
    <3> QED
      BY <1>6, <3>1, <3>2, <3>3 DEF Known
  <2> QED
    BY <2>1, <2>2
<1>7. ASSUME NEW j \in DOMAIN Changes'
      PROVE  (/\ Changes[j].inc \in stored
              /\ Undisturbed(Changes[j].inc) =>
                     \/ Later(j) = {} /\ Known(Changes[j].inc, Changes[j].faultType)
                     \/ \E k \in Later(j) : /\ \A l \in Later(j) : k <= l
                                            /\ Changes[k].original = Changes[j].faultType)'
  <2>0. j \in DOMAIN Changes
    BY <1>4
  <2>1. PICK k, ft : k = Changes[j].inc /\ ft = Changes[j].faultType /\ k \in stored
    BY <2>0 DEF ChainInv
  <2>2. /\ Undisturbed(k)' => Undisturbed(k) /\ k \notin contested
        /\ k \in Incidents
    BY <1>3, <2>1 DEF Undisturbed, TypeOK
  <2>3. Undisturbed(k) =>
            \/ Later(j) = {} /\ Known(k, ft)
            \/ \E m \in Later(j) : (\A l \in Later(j) : m <= l) /\ Changes[m].original = ft
    BY <2>0, <2>1 DEF ChainInv
  <2>4. Undisturbed(k)' =>
            \/ Later(j)' = {} /\ Known(k, ft)'
            \/ \E m \in Later(j)' : (\A l \in Later(j)' : m <= l) /\ Changes'[m].original = ft
    BY <1>4, <1>6, <2>2, <2>3
  <2> QED
    BY <1>3, <1>4, <2>1, <2>4, LinkCarries
<1> QED
  BY <1>7 DEF ChainInv

\* The announcement continues the chain of its incident with what it replaced.
LEMMA RetypingAnnounced ==
    ASSUME TypeOK, CorrectionsInv, ChainInv, NEW w \in Workers, PublishCommitted(w),
           task[w].op = "faultType"
    PROVE  ChainInv'
<1>1. PICK t : t = task[w]
  OBVIOUS
<1>2. PICK n \in Nat : n = Len(Changes) + 1
  BY DEF TypeOK, Streams, Changes
<1>3. PICK i \in Incidents : i = t.inc
  BY <1>1 DEF PublishCommitted, TypeOK
<1>4. PICK e : e = EventOf(t)
  OBVIOUS
<1>5. e.inc = i /\ e.faultType = t.want.faultType /\ e.original = t.snap.faultType
  BY <1>1, <1>3, <1>4 DEF EventOf, Announcement
<1>6. /\ DOMAIN Changes' = DOMAIN Changes \cup {n}
      /\ Changes'[n] = e
      /\ \A k \in DOMAIN Changes : Changes'[k] = Changes[k]
      /\ row' = row /\ stored' = stored /\ unsent' = unsent /\ contested' = contested
      /\ task'[w] = Idle /\ \A v \in Workers : v # w => task'[v] = task[v]
  <2>1. "type_changed" \in Streams /\ StreamOf(task[w].op) = "type_changed"
    BY DEF Streams, StreamOf
  <2>2. unsent' = unsent /\ contested' = contested
    BY DEF PublishCommitted, ghosts
  <2>3. \A v \in Workers : v # w => task'[v] = task[v]
    BY OthersRest DEF Proceed
  <2> QED
    BY <1>1, <1>2, <1>4, <2>1, <2>2, <2>3, Announcements DEF Changes
<1>7. \A k \in DOMAIN Changes : k \in Nat /\ k < n
  BY <1>2 DEF TypeOK, Streams, Changes
<1>8. Retyping(w) /\ ~Retyping(w)' /\ Correcting(w, i) /\ i \in stored
  BY <1>1, <1>3, <1>6 DEF PublishCommitted, Retyping, Idle, Correcting, CorrectionsInv
<1>9. i \notin contested => t.want.faultType = row[i].faultType
  BY <1>1, <1>3, <1>8 DEF CorrectionsInv, Retyping
<1>10. ASSUME NEW v \in Workers, Retyping(v), task[v].inc = i, i \notin contested
       PROVE  v = w
  BY <1>8, <1>10 DEF CorrectionsInv, Retyping, Correcting
<1>11. Later(n)' = {}
  BY <1>6, <1>7 DEF Later
<1>12. ASSUME NEW j \in DOMAIN Changes
       PROVE  Later(j)' = IF Changes[j].inc = i THEN Later(j) \cup {n} ELSE Later(j)
  BY <1>5, <1>6, <1>7 DEF Later
<1>13. ASSUME NEW ft, ft = t.want.faultType, i \notin contested
       PROVE  Known(i, ft)'
  <2>1. \A v \in Workers : Retyping(v)' => task'[v].inc # i
    BY <1>6, <1>8, <1>10, <1>13 DEF Retyping
  <2> QED
    BY <1>6, <1>9, <1>13, <2>1 DEF Known
<1>14. ASSUME NEW k, NEW ft, k # i, Known(k, ft)
       PROVE  Known(k, ft)'
  <2>1. \A v \in Workers : /\ Retyping(v)' => Retyping(v) /\ task'[v] = task[v]
                           /\ Retyping(v) /\ task[v].inc = k => Retyping(v)' /\ task'[v] = task[v]
    BY <1>1, <1>3, <1>6, <1>8, <1>14 DEF Retyping
  <2> QED
    BY <1>6, <1>14, <2>1 DEF Known
<1>15. ASSUME NEW j \in DOMAIN Changes'
       PROVE  (/\ Changes[j].inc \in stored
               /\ Undisturbed(Changes[j].inc) =>
                      \/ Later(j) = {} /\ Known(Changes[j].inc, Changes[j].faultType)
                      \/ \E k \in Later(j) : /\ \A l \in Later(j) : k <= l
                                             /\ Changes[k].original = Changes[j].faultType)'
  <2>1. CASE j = n
    <3>1. PICK ft : ft = t.want.faultType
      OBVIOUS
    <3>2. Undisturbed(i)' => i \notin contested
      BY <1>6 DEF Undisturbed
    <3> QED
      BY <1>5, <1>6, <1>8, <1>11, <1>13, <2>1, <3>1, <3>2, LinkCarries
  <2>2. CASE j \in DOMAIN Changes
    <3>1. PICK k, ft : k = Changes[j].inc /\ ft = Changes[j].faultType /\ k \in stored
      BY <2>2 DEF ChainInv
    <3>2. Undisturbed(k)' => Undisturbed(k) /\ k \notin contested
      BY <1>6 DEF Undisturbed
    <3>3. Undisturbed(k) =>
              \/ Later(j) = {} /\ Known(k, ft)
              \/ \E m \in Later(j) : (\A l \in Later(j) : m <= l) /\ Changes[m].original = ft
      BY <2>2, <3>1 DEF ChainInv
    <3>4. ASSUME NEW m \in Later(j), \A l \in Later(j) : m <= l, Changes[m].original = ft
          PROVE  /\ m \in Later(j)' /\ \A l \in Later(j)' : m <= l
                 /\ Changes'[m].original = ft
      <4>1. m \in DOMAIN Changes /\ m <= n
        BY <1>2, <1>7, <3>4 DEF Later
      <4> QED
        BY <1>6, <1>12, <2>2, <3>4, <4>1
    <3>5. ASSUME Later(j) = {}, Known(k, ft), Undisturbed(k)'
          PROVE  \/ Later(j)' = {} /\ Known(k, ft)'
                 \/ \E m \in Later(j)' : (\A l \in Later(j)' : m <= l) /\ Changes'[m].original = ft
      <4>1. CASE k # i
        BY <1>12, <1>14, <2>2, <3>1, <3>5, <4>1
      <4>2. CASE k = i
        <5>1. t.snap.faultType = ft
          BY <1>1, <1>3, <1>8, <1>10, <3>2, <3>5, <4>2 DEF Known
        <5>2. Later(j)' = {n}
          <6>1. Changes[j].inc = i
            BY <3>1, <4>2
          <6>2. Later(j)' = Later(j) \cup {n}
            BY <1>12, <2>2, <6>1
          <6> QED
            BY <3>5, <6>2
        <5>3. \A l \in Later(j)' : n <= l
          BY <1>2, <5>2
        <5>4. Changes'[n].original = ft
          BY <1>5, <1>6, <5>1
        <5> QED
          BY <5>2, <5>3, <5>4
      <4> QED
        BY <4>1, <4>2
    <3>6. Undisturbed(k)' =>
              \/ Later(j)' = {} /\ Known(k, ft)'
              \/ \E m \in Later(j)' : (\A l \in Later(j)' : m <= l) /\ Changes'[m].original = ft
      BY <3>2, <3>3, <3>4, <3>5
    <3> QED
      BY <1>6, <2>2, <3>1, <3>6, LinkCarries
  <2> QED
    BY <1>6, <2>1, <2>2
<1> QED
  BY <1>15 DEF ChainInv

\* A step other than a correction leaves it under way, or loses it, or had none.
LEMMA RetypingKept ==
    ASSUME TypeOK, TasksFit, CorrectionsInv, [Next]_vars, NEW w \in Workers,
           ~CommitFaultType(w), ~(PublishCommitted(w) /\ task[w].op = "faultType")
    PROVE  \/ task'[w] = task[w]
           \/ /\ ~Retyping(w)'
              /\ Retyping(w) => <<task[w].inc, "type_changed">> \in unsent'
<1>1. CASE Accept(w) \/ Proceed(w)
  <2>1. ~Retyping(w)
    BY <1>1, PublishingSteps DEF Retyping
  <2>2. ~Retyping(w)'
    BY <1>1, CorrectionSteps DEF Retyping
  <2> QED
    BY <2>1, <2>2
<1>2. Retyping(w) => <<task[w].inc, "type_changed">> \in Owed(w)
  BY DEF Retyping, Owed, StreamOf
<1>3. CASE RequestFails(w)
  BY <1>2, <1>3 DEF RequestFails, Finish, TypeOK, Idle, Retyping
<1>4. CASE Crash
  BY <1>2, <1>4 DEF Crash, Idle, Retyping
<1>5. ASSUME NEW v \in Workers, Accept(v) \/ Proceed(v) \/ RequestFails(v), v # w
      PROVE  task'[w] = task[w]
  BY <1>5, OthersRest
<1> QED
  BY <1>1, <1>3, <1>4, <1>5
     DEF Next, DeadlinePasses, Schedule, SchedulerSelect, SchedulerCommit, SchedulerPublish,
         SchedulerFails, vars

LEMMA NextChain ==
    ASSUME TypeOK, RowInv, TasksFit, CorrectionsInv, ChainInv, [Next]_vars
    PROVE  ChainInv'
<1>1. CASE \E w \in Workers : CommitFaultType(w)
  BY <1>1, RetypingWritten
<1>2. CASE \E w \in Workers : PublishCommitted(w) /\ task[w].op = "faultType"
  BY <1>2, RetypingAnnounced
<1>3. CASE ~ \E w \in Workers : \/ CommitFaultType(w)
                                \/ PublishCommitted(w) /\ task[w].op = "faultType"
  <2>1. streams'["type_changed"] = streams["type_changed"]
    <3>1. ASSUME NEW w \in Workers, PublishCommitted(w), StreamOf(task[w].op) = "type_changed"
          PROVE  FALSE
      <4>1. TaskFits(task[w]) /\ task[w].pc = "publishing"
        BY <3>1 DEF TasksFit, PublishCommitted
      <4>2. task[w].op = "faultType"
        BY <3>1, <4>1 DEF TaskFits, StreamOf
      <4> QED
        BY <1>3, <3>1, <4>2
    <3> QED
      BY <3>1, StreamSteps
  <2>2. \A i \in stored : row'[i].faultType = row[i].faultType
    BY <1>3, FaultTypeSteps
  <2>3. \A w \in Workers : \/ task'[w] = task[w]
                           \/ /\ ~Retyping(w)'
                              /\ Retyping(w) => <<task[w].inc, "type_changed">> \in unsent'
    BY <1>3, RetypingKept
  <2>4. stored \subseteq stored' /\ unsent \subseteq unsent' /\ contested \subseteq contested'
    BY StoredGrows, GhostsGrow
  <2> QED
    BY <2>1, <2>2, <2>3, <2>4, ChainUndisturbed
<1> QED
  BY <1>1, <1>2, <1>3

\* change_fault_type: the corrections announced of an incident form a chain that ends at its
\* current fault type, unless two of them were under way at once or one was lost after its
\* commit; requests on other columns, the SLA task and failures before a commit do not matter.
THEOREM TypeChangesAreChained == Spec => []TypeChangesChain
<1>1. Init => ChainInv
  BY DEF Init, ChainInv, Changes, Streams
<1>2. TypeOK /\ RowInv /\ TasksFit /\ CorrectionsInv /\ ChainInv /\ [Next]_vars => ChainInv'
  BY NextChain
<1>3. ChainInv => TypeChangesChain
  <2> SUFFICES ASSUME ChainInv, NEW j \in DOMAIN Changes, Undisturbed(Changes[j].inc)
               PROVE  \/ /\ Later(j) = {}
                         /\ \/ Changes[j].faultType = row[Changes[j].inc].faultType
                            \/ \E w \in Workers : /\ task[w].pc = "publishing"
                                                  /\ Correcting(w, Changes[j].inc)
                      \/ \E k \in Later(j) : /\ \A l \in Later(j) : k <= l
                                             /\ Changes[k].original = Changes[j].faultType
    BY DEF TypeChangesChain, Changes, Later, Undisturbed
  <2>1. Known(Changes[j].inc, Changes[j].faultType) =>
            \/ Changes[j].faultType = row[Changes[j].inc].faultType
            \/ \E w \in Workers : task[w].pc = "publishing" /\ Correcting(w, Changes[j].inc)
    BY DEF Known, Retyping, Correcting
  <2> QED
    BY <2>1 DEF ChainInv
<1> QED
  BY <1>1, <1>2, <1>3, TypeCorrect, RowInvariant, TasksAlwaysFit, CorrectionsStayApart, PTL
     DEF Spec

-----------------------------------------------------------------------------
(* Every team is announced as it is stored.                                *)

Assignments == streams["assigned"]

AssignmentSent(i) == \E k \in DOMAIN Assignments : Assignments[k].inc = i

\* An assignment by hand that is committed and not announced yet.
Assigning(w) == task[w].pc = "publishing" /\ task[w].op = "assign"

\* i was taken from YENI, and has team unless it was taken a second time.
TakenBy(i, team) == Taken(i) /\ (team = row[i].team \/ TakenTwice(i))

\* What is announced of a stored incident is what it has; what is announced of one that is
\* still to be stored is what will be stored.
AssignmentFits(i, team) ==
    /\ i \in used
    /\ i \in stored => TakenBy(i, team)
    /\ \A w \in Workers : Opening(w) /\ task[w].inc = i =>
          /\ task[w].pc = "committing"
          /\ task[w].want.status = "ATANDI" /\ task[w].want.team = team

AssignmentKnown(i) ==
    \/ row[i].team = NoTeam
    \/ AssignmentSent(i)
    \/ <<i, "assigned">> \in unsent
    \/ \E w \in Workers : Assigning(w) /\ task[w].inc = i

AssignmentInv ==
    /\ \A k \in DOMAIN Assignments : AssignmentFits(Assignments[k].inc, Assignments[k].team)
    /\ \A w \in Workers : Assigning(w) =>
          task[w].inc \in stored /\ TakenBy(task[w].inc, task[w].want.team)
    /\ \A w \in Workers : Opening(w) /\ task[w].want.status = "ATANDI" =>
          AssignmentSent(task[w].inc)
    /\ \A i \in stored : AssignmentKnown(i)

\* A request opens an incident with a new id and no team, and then may assign it.
LEMMA OpeningSteps ==
    ASSUME TypeOK, [Next]_vars, NEW w \in Workers, Opening(w)'
    PROVE  \/ task'[w].inc \notin used /\ task'[w].want.status = "YENI"
           \/ /\ Opening(w) /\ task'[w].inc = task[w].inc
              /\ \/ task'[w] = task[w]
                 \/ task[w].pc = "assigning" /\ task'[w].want = task[w].want
                 \/ /\ task[w].pc = "assigning"
                    /\ \E t \in Teams : /\ AutoAssign(w, t)
                                        /\ task'[w].pc = "committing"
                                        /\ task'[w].want.status = "ATANDI"
                                        /\ task'[w].want.team = t
<1> DEFINE t == task[w]
<1>1. t \in Task
  BY DEF TypeOK
<1>2. ASSUME Finish(w)
      PROVE  FALSE
  BY <1>2 DEF Finish, Idle, TypeOK, Opening
<1>3. ASSUME NEW pc \in {"committed", "publishing"}, Goto(w, pc)
      PROVE  FALSE
  BY <1>1, <1>3 DEF Goto, TypeOK, Task, Opening
<1>4. CASE CommitStatus(w) \/ CommitAssign(w) \/ CommitFaultType(w) \/ CommitEvaluation(w)
  BY <1>2, <1>3, <1>4, ZenonT(60)
     DEF CommitStatus, CommitAssign, CommitFaultType, CommitEvaluation
<1>5. CASE \/ CommitMessage(w) \/ CommitNote(w) \/ PublishCommitted(w) \/ KeepWatching(w)
           \/ CommitTelemetry(w) \/ RequestFails(w)
  BY <1>2, <1>5, ZenonT(60)
     DEF CommitMessage, CommitNote, PublishCommitted, KeepWatching, CommitTelemetry, RequestFails
<1>6. ASSUME Refresh(w)
      PROVE  FALSE
  <2>1. task'[w].pc = "publishing"
    BY <1>1, <1>6 DEF Refresh, TypeOK, Task
  <2> QED
    BY <2>1 DEF Opening
<1>7. ASSUME NEW j \in Incidents, NEW ft \in FaultTypes, NEW available \in BOOLEAN,
             OpenIncident(w, j, ft, available)
      PROVE  task'[w].inc \notin used /\ task'[w].want.status = "YENI"
  <2>1. PICK pc, r : /\ pc = (IF available THEN "assigning" ELSE "committing")
                     /\ r = NewRow(ft)
    OBVIOUS
  <2>2. PICK u : u = [t EXCEPT !.pc = pc, !.inc = j, !.want = r]
    OBVIOUS
  <2>3. task'[w] = u
    BY <1>7, <2>1, <2>2 DEF OpenIncident, TypeOK
  <2>4. u.inc = j /\ u.want = r
    BY <1>1, <2>2 DEF Task
  <2>5. r.status = "YENI"
    BY <2>1 DEF NewRow
  <2> QED
    BY <1>7, <2>3, <2>4, <2>5 DEF OpenIncident
<1>8. ASSUME AutoAssignQueued(w)
      PROVE  /\ Opening(w) /\ task'[w].inc = t.inc /\ t.pc = "assigning"
             /\ task'[w].want = t.want
  BY <1>1, <1>8 DEF AutoAssignQueued, Goto, TypeOK, Task, Opening
<1>9. ASSUME NEW team \in Teams, AutoAssign(w, team)
      PROVE  /\ Opening(w) /\ task'[w].inc = t.inc /\ t.pc = "assigning"
             /\ task'[w].pc = "committing"
             /\ task'[w].want.status = "ATANDI" /\ task'[w].want.team = team
  <2>1. PICK r : r = [t.want EXCEPT !.status = "ATANDI", !.team = team]
    OBVIOUS
  <2>2. PICK u : u = [t EXCEPT !.pc = "committing", !.want = r]
    OBVIOUS
  <2>3. t.want \in Row
    BY <1>1 DEF Task
  <2>4. task'[w] = u
    BY <1>1, <1>9, <2>1, <2>2, <2>3 DEF AutoAssign, TypeOK
  <2>5. u.pc = "committing" /\ u.inc = t.inc /\ u.want = r
    BY <1>1, <2>2 DEF Task
  <2>6. r.team = team /\ r.status = "ATANDI"
    BY <2>1, <2>3 DEF Row
  <2>7. t.pc = "assigning"
    BY <1>9 DEF AutoAssign
  <2> QED
    BY <2>4, <2>5, <2>6, <2>7 DEF Opening
<1>10. CASE Accept(w)
  <2>1. ASSUME NEW op, NEW j, NEW c, NEW want, Load(w, op, j, c, want)
        PROVE  FALSE
    BY <2>1 DEF Load, TypeOK, Opening
  <2>2. ASSUME SubmitTelemetry(w)
        PROVE  FALSE
    BY <2>2 DEF SubmitTelemetry, TypeOK, Idle, Opening
  <2>3. ASSUME NEW j \in Incidents, NEW c \in Callers, ReportIncident(w, j, c)
        PROVE  FALSE
    BY <2>3 DEF ReportIncident, TypeOK, Idle, Opening
  <2> QED
    BY <1>10, <2>1, <2>2, <2>3, ZenonT(60)
       DEF Accept, LoadStatus, LoadAssign, LoadFaultType, LoadEvaluation, LoadMessage, LoadNote
<1>11. CASE Proceed(w)
  BY <1>4, <1>5, <1>6, <1>7, <1>8, <1>9, <1>11 DEF Proceed
<1>12. ASSUME Crash
       PROVE  FALSE
  BY <1>12 DEF Crash, Idle, Opening
<1>13. task'[w] = task[w] => Opening(w) /\ task'[w].inc = task[w].inc
  BY DEF Opening
<1>14. ASSUME NEW v \in Workers, Accept(v) \/ Proceed(v) \/ RequestFails(v), v # w
       PROVE  task'[w] = task[w]
  BY <1>14, OthersRest
<1> QED
  BY <1>5, <1>10, <1>11, <1>12, <1>13, <1>14
     DEF Next, DeadlinePasses, Schedule, SchedulerSelect, SchedulerCommit, SchedulerPublish,
         SchedulerFails, vars

\* How a request comes to have an assignment to announce.
LEMMA AssigningSteps ==
    ASSUME TypeOK, TasksFit, [Next]_vars, NEW w \in Workers, Assigning(w)'
    PROVE  \/ task'[w] = task[w]
           \/ /\ CommitAssign(w)
              /\ task'[w].inc = task[w].inc /\ task'[w].want = task[w].want
<1>1. task[w] \in Task
  BY DEF TypeOK
<1>2. CASE Accept(w) \/ Proceed(w) \/ RequestFails(w)
  <2>0. task'[w].pc = "publishing" /\ task'[w].op = "assign"
    BY DEF Assigning
  <2>1. CASE /\ CommitStatus(w) /\ task[w].want.status = "COZULDU"
             /\ task'[w] = [task[w] EXCEPT !.pc = "committed"]
    BY <1>1, <2>0, <2>1 DEF Task
  <2>2. CASE /\ Refresh(w) /\ task[w].op = "status"
             /\ task'[w] = [task[w] EXCEPT !.pc = "publishing", !.want = row[task[w].inc]]
    BY <1>1, <2>0, <2>2 DEF Task
  <2>3. ASSUME CommitAssign(w) \/ CommitFaultType(w) \/ CommitEvaluation(w),
               task'[w] = [task[w] EXCEPT !.pc = "publishing"]
        PROVE  CommitAssign(w) /\ task'[w].inc = task[w].inc /\ task'[w].want = task[w].want
    <3>1. task'[w].inc = task[w].inc /\ task'[w].want = task[w].want /\ task'[w].op = task[w].op
      BY <1>1, <2>3 DEF Task
    <3> QED
      BY <2>0, <2>3, <3>1 DEF CommitFaultType, CommitEvaluation, Loaded
  <2> QED
    BY <1>2, <2>0, <2>1, <2>2, <2>3, TaskSteps
<1>3. ASSUME Crash
      PROVE  FALSE
  BY <1>3 DEF Crash, Idle, Assigning
<1>4. ASSUME NEW v \in Workers, Accept(v) \/ Proceed(v) \/ RequestFails(v), v # w
      PROVE  task'[w] = task[w]
  BY <1>4, OthersRest
<1> QED
  BY <1>2, <1>3, <1>4
     DEF Next, DeadlinePasses, Schedule, SchedulerSelect, SchedulerCommit, SchedulerPublish,
         SchedulerFails, vars

\* It announces it, or keeps it to announce, or loses it.
LEMMA AssigningKept ==
    ASSUME TypeOK, [Next]_vars, NEW w \in Workers, Assigning(w)
    PROVE  \/ task'[w] = task[w]
           \/ PublishCommitted(w)
           \/ <<task[w].inc, "assigned">> \in unsent'
<1>1. Accept(w) \/ Proceed(w) => PublishCommitted(w)
  BY PublishingSteps DEF Assigning
<1>2. <<task[w].inc, "assigned">> \in Owed(w)
  BY DEF Assigning, Owed, StreamOf
<1>3. RequestFails(w) \/ Crash => <<task[w].inc, "assigned">> \in unsent'
  BY <1>2 DEF RequestFails, Crash
<1>4. ASSUME NEW v \in Workers, Accept(v) \/ Proceed(v) \/ RequestFails(v), v # w
      PROVE  task'[w] = task[w]
  BY <1>4, OthersRest
<1> QED
  BY <1>1, <1>3, <1>4
     DEF Next, DeadlinePasses, Schedule, SchedulerSelect, SchedulerCommit, SchedulerPublish,
         SchedulerFails, vars

\* An assignment announced adds its incident and its team to what was announced.
LEMMA AssignmentAppended ==
    ASSUME TypeOK, NEW e \in Event, Publish("assigned", e)
    PROVE  /\ AssignmentSent(e.inc)'
           /\ \A i : AssignmentSent(i) => AssignmentSent(i)'
           /\ \A k \in DOMAIN Assignments' :
                 \/ k \in DOMAIN Assignments /\ Assignments'[k] = Assignments[k]
                 \/ Assignments'[k] = e
<1>1. /\ DOMAIN Assignments' = DOMAIN Assignments \cup {Len(Assignments) + 1}
      /\ Assignments'[Len(Assignments) + 1] = e
      /\ \A k \in DOMAIN Assignments : Assignments'[k] = Assignments[k]
  BY PublishAppends DEF Assignments, TypeOK, Streams
<1>2. PICK n : n = Len(Assignments) + 1
  OBVIOUS
<1>3. n \in DOMAIN Assignments' /\ Assignments'[n] = e
  BY <1>1, <1>2
<1>4. ASSUME NEW i, NEW k \in DOMAIN Assignments, Assignments[k].inc = i
      PROVE  AssignmentSent(i)'
  BY <1>1, <1>4 DEF AssignmentSent
<1>5. AssignmentSent(e.inc)'
  BY <1>3 DEF AssignmentSent
<1> QED
  BY <1>1, <1>4, <1>5 DEF AssignmentSent

\* Who announces an assignment.
LEMMA AssignmentSteps ==
    ASSUME TypeOK, TasksFit, [Next]_vars
    PROVE  /\ \A i : AssignmentSent(i) => AssignmentSent(i)'
           /\ \A w \in Workers :
                 (PublishCommitted(w) /\ task[w].op = "assign") \/ (\E t \in Teams : AutoAssign(w, t))
                     => \A i : i = task[w].inc => AssignmentSent(i)'
           /\ \A k \in DOMAIN Assignments' :
                 \/ k \in DOMAIN Assignments /\ Assignments'[k] = Assignments[k]
                 \/ \E w \in Workers : /\ PublishCommitted(w) /\ Assigning(w)
                                       /\ Assignments'[k].inc = task[w].inc
                                       /\ Assignments'[k].team = task[w].want.team
                 \/ \E w \in Workers, t \in Teams : /\ AutoAssign(w, t)
                                                    /\ Assignments'[k].inc = task[w].inc
                                                    /\ Assignments'[k].team = t
<1>1. ASSUME NEW w \in Workers, PublishCommitted(w), task[w].op = "assign"
      PROVE  /\ \A i : i = task[w].inc => AssignmentSent(i)'
             /\ \A i : AssignmentSent(i) => AssignmentSent(i)'
             /\ \A k \in DOMAIN Assignments' :
                   \/ k \in DOMAIN Assignments /\ Assignments'[k] = Assignments[k]
                   \/ /\ Assignments'[k].inc = task[w].inc
                      /\ Assignments'[k].team = task[w].want.team
  <2>1. PICK e \in Event : e = EventOf(task[w])
    BY <1>1, EventType DEF PublishCommitted, TypeOK
  <2>2. e.inc = task[w].inc /\ e.team = task[w].want.team
    BY <1>1, <2>1 DEF EventOf, Announcement
  <2>3. Publish("assigned", e)
    BY <1>1, <2>1 DEF PublishCommitted, StreamOf
  <2> QED
    BY <2>2, <2>3, AssignmentAppended
<1>2. ASSUME NEW w \in Workers, NEW t \in Teams, AutoAssign(w, t)
      PROVE  /\ \A i : i = task[w].inc => AssignmentSent(i)'
             /\ \A i : AssignmentSent(i) => AssignmentSent(i)'
             /\ \A k \in DOMAIN Assignments' :
                   \/ k \in DOMAIN Assignments /\ Assignments'[k] = Assignments[k]
                   \/ Assignments'[k].inc = task[w].inc /\ Assignments'[k].team = t
  <2>1. task[w].inc \in Incidents
    BY <1>2 DEF AutoAssign, TypeOK
  <2>2. PICK e \in Event : e = Announcement(task[w].inc, t, Belirsiz, Belirsiz)
    BY <2>1, UsersAssumption, FaultTypesAssumption DEF Announcement, Event
  <2>3. e.inc = task[w].inc /\ e.team = t
    BY <2>2 DEF Announcement
  <2>4. Publish("assigned", e)
    BY <1>2, <2>2 DEF AutoAssign
  <2> QED
    BY <2>3, <2>4, AssignmentAppended
<1>3. ASSUME NEW w \in Workers, PublishCommitted(w), StreamOf(task[w].op) = "assigned"
      PROVE  task[w].op = "assign" /\ Assigning(w)
  <2>1. TaskFits(task[w]) /\ task[w].pc = "publishing"
    BY <1>3 DEF TasksFit, PublishCommitted
  <2> QED
    BY <1>3, <2>1 DEF TaskFits, StreamOf, Assigning
<1>4. CASE streams'["assigned"] = streams["assigned"]
  <2>1. Assignments' = Assignments /\ \A i : AssignmentSent(i)' <=> AssignmentSent(i)
    BY <1>4 DEF Assignments, AssignmentSent
  <2> QED
    BY <1>1, <1>2, <2>1
<1>5. CASE \E w \in Workers : PublishCommitted(w) /\ StreamOf(task[w].op) = "assigned"
  BY <1>1, <1>2, <1>3, <1>5
<1>6. CASE \E w \in Workers, t \in Teams : AutoAssign(w, t)
  BY <1>1, <1>2, <1>6
<1> QED
  BY <1>4, <1>5, <1>6, StreamSteps

\* Ids stay used, and an incident is stored by its opening or without a team.
LEMMA StoringSteps ==
    ASSUME TypeOK, RowInv, [Next]_vars
    PROVE  /\ used \subseteq used'
           /\ \A i \in stored' \ stored :
                 \/ i \notin used /\ row'[i].team = NoTeam
                 \/ \E w \in Workers : CommitTelemetry(w) /\ task[w].inc = i
<1>1. ASSUME NEW w \in Workers, Accept(w)
      PROVE  used \subseteq used' /\ \A i \in stored' \ stored : i \notin used /\ row'[i].team = NoTeam
  <2>1. ASSUME NEW op, NEW j, NEW c, NEW want, Load(w, op, j, c, want)
        PROVE  used' = used /\ stored' = stored
    BY <2>1 DEF Load, database
  <2>2. SubmitTelemetry(w) => used' = used /\ stored' = stored
    BY DEF SubmitTelemetry, database
  <2>3. ASSUME NEW i \in Incidents, NEW c \in Callers, ReportIncident(w, i, c)
        PROVE  used \subseteq used' /\ \A j \in stored' \ stored : j \notin used /\ row'[j].team = NoTeam
    BY <2>3 DEF ReportIncident, TypeOK, NewRow
  <2> QED
    BY <1>1, <2>1, <2>2, <2>3, ZenonT(60)
       DEF Accept, LoadStatus, LoadAssign, LoadFaultType, LoadEvaluation, LoadMessage, LoadNote
<1>2. ASSUME NEW w \in Workers, Proceed(w)
      PROVE  /\ used \subseteq used'
             /\ \A i \in stored' \ stored : CommitTelemetry(w) /\ task[w].inc = i
  <2>1. CASE CommitTelemetry(w)
    BY <2>1 DEF CommitTelemetry
  <2>2. ASSUME NEW i \in Incidents, NEW ft \in FaultTypes, NEW available \in BOOLEAN,
               OpenIncident(w, i, ft, available)
        PROVE  used \subseteq used' /\ stored' = stored
    BY <2>2 DEF OpenIncident
  <2>3. CASE ~CommitTelemetry(w) /\ ~ \E i \in Incidents, ft \in FaultTypes, available \in BOOLEAN :
                                            OpenIncident(w, i, ft, available)
    BY <1>2, <2>3, ZenonT(60)
       DEF Proceed, CommitStatus, Refresh, CommitAssign, CommitFaultType, CommitEvaluation,
           CommitMessage, CommitNote, PublishCommitted, KeepWatching, AutoAssignQueued,
           AutoAssign, database
  <2> QED
    BY <2>1, <2>2, <2>3
<1>3. CASE \/ SchedulerFails \/ Crash \/ UNCHANGED vars \/ Schedule
           \/ \E w \in Workers : RequestFails(w)
           \/ \E j \in Incidents : DeadlinePasses(j)
  BY <1>3 DEF RequestFails, DeadlinePasses, SchedulerFails, Crash, vars, database, Schedule,
              SchedulerSelect, SchedulerCommit, SchedulerPublish
<1> QED
  BY <1>1, <1>2, <1>3 DEF Next

LEMMA TakenByStays ==
    ASSUME TypeOK, RowInv, TasksFit, [Next]_vars, NEW i \in stored, NEW team, TakenBy(i, team)
    PROVE  TakenBy(i, team)'
<1>1. i \in Incidents
  BY DEF TypeOK
<1>2. Taken(i)' /\ (TakenTwice(i) => TakenTwice(i)')
  BY <1>1, RecordsStay DEF TakenBy
<1>3. row'[i].team = row[i].team \/ TakenTwice(i)'
  BY TeamStays DEF TakenBy
<1> QED
  BY <1>2, <1>3 DEF TakenBy

\* The commit of telemetry stores what it announced.
LEMMA OpeningStored ==
    ASSUME TypeOK, TasksFit, TeamsAreTaken, [Next]_vars, NEW w \in Workers, CommitTelemetry(w),
           task[w].want.status = "ATANDI", NEW i, i = task[w].inc, NEW team,
           team = task[w].want.team
    PROVE  TakenBy(i, team)'
<1>1. PICK t : t = task[w]
  OBVIOUS
<1>2. t.pc = "committing" /\ i \in Incidents /\ t.snap.status = "YENI"
  BY <1>1 DEF CommitTelemetry, TypeOK, TeamsAreTaken, Opening
<1>3. row'[i].team = team
  BY <1>1, <1>2 DEF CommitTelemetry, TypeOK
<1>4. history'[i] = Append(history[i], StatusRow(t))
  BY <1>1, <1>2 DEF CommitTelemetry, TypeOK
<1> QED
  BY <1>1, <1>2, <1>3, <1>4, TakingIsRecorded DEF TakenBy

\* What was announced goes on to fit.
LEMMA FittingStays ==
    ASSUME TypeOK, RowInv, TasksFit, TeamsAreTaken, [Next]_vars, NEW i, NEW team,
           AssignmentFits(i, team)
    PROVE  AssignmentFits(i, team)'
<1>1. i \in used /\ i \in used'
  BY StoringSteps DEF AssignmentFits
<1>2. ASSUME i \in stored'
      PROVE  TakenBy(i, team)'
  <2>1. CASE i \in stored
    BY <2>1, TakenByStays DEF AssignmentFits
  <2>2. CASE i \notin stored
    <3>1. PICK w \in Workers : CommitTelemetry(w) /\ task[w].inc = i
      BY <1>1, <1>2, <2>2, StoringSteps
    <3>2. task[w].want.status = "ATANDI" /\ task[w].want.team = team
      BY <3>1 DEF CommitTelemetry, Opening, AssignmentFits
    <3> QED
      BY <3>1, <3>2, OpeningStored
  <2> QED
    BY <2>1, <2>2
<1>3. ASSUME NEW w \in Workers, Opening(w)', task'[w].inc = i
      PROVE  /\ task'[w].pc = "committing"
             /\ task'[w].want.status = "ATANDI" /\ task'[w].want.team = team
  <2>1. Opening(w) /\ task[w].inc = i /\ (task'[w] = task[w] \/ task[w].pc = "assigning")
    BY <1>1, <1>3, OpeningSteps
  <2> QED
    BY <2>1 DEF AssignmentFits
<1> QED
  BY <1>1, <1>2, <1>3 DEF AssignmentFits

\* What telemetry announces of the incident it opens fits.
LEMMA OpeningFitsAnnounced ==
    ASSUME TypeOK, RowInv, TasksFit, [Next]_vars, NEW w \in Workers, NEW team \in Teams,
           AutoAssign(w, team), NEW i, i = task[w].inc
    PROVE  AssignmentFits(i, team)'
<1>1. Opening(w) /\ task[w].pc = "assigning" /\ stored' = stored /\ used' = used
  BY DEF AutoAssign, Opening, database
<1>2. i \in used /\ i \notin stored
  BY <1>1 DEF RowInv, OpeningsAreExclusive
<1>3. \A v \in Workers : v # w => task'[v] = task[v]
  BY DEF AutoAssign, TypeOK
<1>4. task'[w].pc = "committing" /\ task'[w].want.status = "ATANDI" /\ task'[w].want.team = team
  <2>1. PICK r : r = [task[w].want EXCEPT !.status = "ATANDI", !.team = team]
    OBVIOUS
  <2>2. PICK u : u = [task[w] EXCEPT !.pc = "committing", !.want = r]
    OBVIOUS
  <2>3. task[w] \in Task /\ task[w].want \in Row
    BY DEF TypeOK, Task
  <2>4. task'[w] = u
    BY <2>1, <2>2, <2>3 DEF AutoAssign, TypeOK
  <2>5. u.pc = "committing" /\ u.want = r
    BY <2>2, <2>3 DEF Task
  <2>6. r.team = team /\ r.status = "ATANDI"
    BY <2>1, <2>3 DEF Row
  <2> QED
    BY <2>4, <2>5, <2>6
<1>5. ASSUME NEW v \in Workers, Opening(v)', task'[v].inc = i
      PROVE  v = w
  <2>1. v # w => Opening(v) /\ task[v].inc = i
    BY <1>3, <1>5 DEF Opening
  <2> QED
    BY <1>1, <2>1 DEF RowInv, OpeningsAreExclusive
<1> QED
  BY <1>1, <1>2, <1>4, <1>5 DEF AssignmentFits

\* What an operator announced of a stored incident fits.
LEMMA AssigningFits ==
    ASSUME TypeOK, RowInv, TasksFit, AssignmentInv, [Next]_vars, NEW w \in Workers,
           Assigning(w), NEW i, i = task[w].inc, NEW team, team = task[w].want.team
    PROVE  AssignmentFits(i, team)'
<1>1. i \in stored /\ TakenBy(i, team)
  BY DEF AssignmentInv
<1>2. TakenBy(i, team)' /\ i \in used'
  BY <1>1, TakenByStays, StoringSteps DEF RowInv, OpeningsAreExclusive
<1>3. ASSUME NEW v \in Workers, Opening(v)', task'[v].inc = i
      PROVE  FALSE
  <2>1. Opening(v) /\ task[v].inc = i
    BY <1>1, <1>3, OpeningSteps DEF RowInv, OpeningsAreExclusive
  <2> QED
    BY <1>1, <2>1 DEF RowInv, OpeningsAreExclusive
<1> QED
  BY <1>2, <1>3 DEF AssignmentFits

\* The commit of an assignment leaves the team it will announce, unless it takes the incident a
\* second time.
LEMMA AssigningWritten ==
    ASSUME TypeOK, RowInv, TasksFit, TeamsAreTaken, [Next]_vars, NEW w \in Workers,
           CommitAssign(w), NEW i, i = task[w].inc, NEW team, team = task[w].want.team
    PROVE  i \in stored /\ TakenBy(i, team)'
<1>1. PICK t : t = task[w]
  OBVIOUS
<1>2. /\ t.pc = "loaded" /\ t.op = "assign" /\ t \in Task /\ i \in stored /\ i \in Incidents
      /\ WishFits(t)
  BY <1>1 DEF CommitAssign, Loaded, TypeOK, RowInv, OpeningsAreExclusive, TasksFit, TaskFits
<1>3. t.snap.status = "YENI" /\ team \in Teams
  BY <1>1, <1>2 DEF WishFits
<1>4. history'[i] = Append(history[i], StatusRow(t))
  BY <1>1, <1>2 DEF CommitAssign, TypeOK
<1>5. Taken(i)' /\ (Taken(i) => TakenTwice(i)')
  BY <1>1, <1>2, <1>3, <1>4, TakingIsRecorded
<1>6. t.snap \in Row /\ t.want \in Row /\ row[i] \in Row
  BY <1>2 DEF TypeOK, Task
<1>7. row'[i] = Merge(row[i], t.snap, t.want)
  BY <1>1, <1>2 DEF CommitAssign, TypeOK
<1>8. row'[i].team = IF t.want.team # t.snap.team THEN t.want.team ELSE row[i].team
  BY <1>6, <1>7, MergeColumns
<1>9. CASE t.want.team # t.snap.team
  BY <1>1, <1>2, <1>5, <1>8, <1>9 DEF TakenBy
<1>10. CASE t.want.team = t.snap.team
  <2>1. t.snap.team # NoTeam
    BY <1>1, <1>3, <1>10, UsersAssumption
  <2>2. row[i].team # NoTeam
    BY <1>1, <1>2, <2>1 DEF RowInv, SnapshotsOnlyLag, Advances
  <2>3. Taken(i)
    BY <1>2, <2>2 DEF TeamsAreTaken
  <2> QED
    BY <1>2, <1>5, <2>3 DEF TakenBy
<1> QED
  BY <1>9, <1>10

\* The team of a stored incident was announced, is still to be, or was lost.
LEMMA NextKnown ==
    ASSUME TypeOK, RowInv, TasksFit, AssignmentInv, [Next]_vars, NEW i \in stored'
    PROVE  AssignmentKnown(i)'
<1>0. i \in Incidents \/ i \notin stored
  BY DEF TypeOK
<1>1. ASSUME NEW w \in Workers, CommitAssign(w), task[w].inc = i
      PROVE  AssignmentKnown(i)'
  <2>1. PICK t : t = task[w]
    OBVIOUS
  <2>2. t \in Task /\ t.op = "assign"
    BY <1>1, <2>1 DEF CommitAssign, Loaded, TypeOK
  <2>3. PICK u : u = [t EXCEPT !.pc = "publishing"]
    OBVIOUS
  <2>4. task'[w] = u
    BY <1>1, <2>1, <2>3 DEF CommitAssign, Goto, TypeOK
  <2>5. u.pc = "publishing" /\ u.op = "assign" /\ u.inc = i
    BY <1>1, <2>1, <2>2, <2>3 DEF Task
  <2> QED
    BY <2>4, <2>5 DEF AssignmentKnown, Assigning
<1>2. ASSUME NEW w \in Workers, Assigning(w), task[w].inc = i
      PROVE  AssignmentKnown(i)'
  <2>1. CASE task'[w] = task[w]
    BY <1>2, <2>1 DEF AssignmentKnown, Assigning
  <2>2. CASE PublishCommitted(w)
    BY <1>2, <2>2, AssignmentSteps DEF AssignmentKnown, Assigning
  <2>3. CASE <<i, "assigned">> \in unsent'
    BY <2>3 DEF AssignmentKnown
  <2> QED
    BY <1>2, <2>1, <2>2, <2>3, AssigningKept
<1>3. AssignmentSent(i) \/ <<i, "assigned">> \in unsent => AssignmentKnown(i)'
  BY AssignmentSteps, GhostsGrow DEF AssignmentKnown
<1>4. CASE i \in stored
  <2>1. CASE row'[i].team = row[i].team
    <3>1. row[i].team = NoTeam => AssignmentKnown(i)'
      BY <2>1 DEF AssignmentKnown
    <3> QED
      BY <1>2, <1>3, <1>4, <3>1 DEF AssignmentInv, AssignmentKnown
  <2>2. CASE row'[i].team # row[i].team
    BY <1>1, <1>4, <2>2, TeamSteps
  <2> QED
    BY <2>1, <2>2
<1>5. ASSUME NEW w \in Workers, CommitTelemetry(w), task[w].inc = i
      PROVE  AssignmentKnown(i)'
  <2>1. PICK t : t = task[w]
    OBVIOUS
  <2>2. t.pc = "committing" /\ i \in Incidents /\ row'[i] = t.want /\ OpeningFits(t)
    BY <1>5, <2>1 DEF CommitTelemetry, TypeOK, TasksFit, TaskFits
  <2>3. t.want.status = "ATANDI" => AssignmentSent(i)
    BY <1>5, <2>1, <2>2 DEF AssignmentInv, Opening
  <2>4. t.want.status # "ATANDI" => row'[i].team = NoTeam
    BY <2>2 DEF OpeningFits
  <2> QED
    BY <1>3, <2>3, <2>4 DEF AssignmentKnown
<1>6. CASE i \notin stored
  BY <1>5, <1>6, StoringSteps DEF AssignmentKnown
<1> QED
  BY <1>4, <1>6

LEMMA NextAssignments ==
    ASSUME TypeOK, RowInv, TasksFit, TeamsAreTaken, AssignmentInv, [Next]_vars
    PROVE  AssignmentInv'
<1>1. ASSUME NEW k \in DOMAIN Assignments', NEW i, NEW team,
             i = Assignments'[k].inc, team = Assignments'[k].team
      PROVE  AssignmentFits(i, team)'
  <2>1. CASE k \in DOMAIN Assignments /\ Assignments'[k] = Assignments[k]
    <3>1. AssignmentFits(i, team)
      BY <1>1, <2>1 DEF AssignmentInv
    <3> QED
      BY <3>1, FittingStays
  <2>2. ASSUME NEW w \in Workers, PublishCommitted(w), Assigning(w),
               i = task[w].inc, team = task[w].want.team
        PROVE  AssignmentFits(i, team)'
    BY <2>2, AssigningFits
  <2>3. ASSUME NEW w \in Workers, NEW t \in Teams, AutoAssign(w, t),
               i = task[w].inc, team = t
        PROVE  AssignmentFits(i, team)'
    BY <2>3, OpeningFitsAnnounced
  <2> QED
    BY <1>1, <2>1, <2>2, <2>3, AssignmentSteps
<1>2. ASSUME NEW w \in Workers, Assigning(w)', NEW i, NEW team,
             i = task'[w].inc, team = task'[w].want.team
      PROVE  i \in stored' /\ TakenBy(i, team)'
  <2>1. CASE task'[w] = task[w]
    <3>1. i \in stored /\ TakenBy(i, team)
      BY <1>2, <2>1 DEF AssignmentInv, Assigning
    <3> QED
      BY <3>1, TakenByStays, StoredGrows
  <2>2. CASE CommitAssign(w) /\ i = task[w].inc /\ team = task[w].want.team
    BY <2>2, AssigningWritten, StoredGrows
  <2> QED
    BY <1>2, <2>1, <2>2, AssigningSteps
<1>3. ASSUME NEW w \in Workers, Opening(w)', task'[w].want.status = "ATANDI", NEW i,
             i = task'[w].inc
      PROVE  AssignmentSent(i)'
  <2>1. Opening(w) /\ i = task[w].inc
    BY <1>3, OpeningSteps
  <2>2. CASE task[w].want.status = "ATANDI"
    <3>1. AssignmentSent(i)
      BY <2>1, <2>2 DEF AssignmentInv
    <3> QED
      BY <3>1, AssignmentSteps
  <2>3. CASE task[w].want.status # "ATANDI"
    <3>1. \E t \in Teams : AutoAssign(w, t)
      BY <1>3, <2>3, OpeningSteps
    <3> QED
      BY <2>1, <3>1, AssignmentSteps
  <2> QED
    BY <2>2, <2>3
<1>4. \A k \in DOMAIN Assignments' : AssignmentFits(Assignments[k].inc, Assignments[k].team)'
  <2> SUFFICES ASSUME NEW k \in DOMAIN Assignments'
               PROVE  AssignmentFits(Assignments[k].inc, Assignments[k].team)'
    OBVIOUS
  <2>1. PICK i, team : i = Assignments'[k].inc /\ team = Assignments'[k].team
    OBVIOUS
  <2> QED
    BY <1>1, <2>1 DEF AssignmentFits, TakenBy, Taken, TakenTwice
<1>5. \A w \in Workers : Assigning(w)' =>
          task'[w].inc \in stored' /\ TakenBy(task[w].inc, task[w].want.team)'
  <2> SUFFICES ASSUME NEW w \in Workers, Assigning(w)'
               PROVE  task'[w].inc \in stored' /\ TakenBy(task[w].inc, task[w].want.team)'
    OBVIOUS
  <2>1. PICK i, team : i = task'[w].inc /\ team = task'[w].want.team
    OBVIOUS
  <2> QED
    BY <1>2, <2>1 DEF TakenBy, Taken, TakenTwice
<1>6. \A w \in Workers : Opening(w)' /\ task'[w].want.status = "ATANDI" =>
          AssignmentSent(task[w].inc)'
  BY <1>3 DEF AssignmentSent
<1>7. \A i \in stored' : AssignmentKnown(i)'
  BY NextKnown
<1> QED
  BY <1>4, <1>5, <1>6, <1>7 DEF AssignmentInv

\* manual_assign and _create_incident: the team of a stored incident is announced, as it is
\* stored, whatever requests race and whatever fails, with two exceptions: a request that fails
\* after its commit, and an incident that two requests took from YENI.
THEOREM AssignmentsAreAnnounced == Spec => []AssignmentIsAnnounced
<1>1. Init => AssignmentInv
  BY DEF Init, AssignmentInv, Assignments, Assigning, Opening, Idle, Streams
<1>2. TypeOK /\ RowInv /\ TasksFit /\ TeamsAreTaken /\ AssignmentInv /\ [Next]_vars =>
          AssignmentInv'
  BY NextAssignments
<1>3. AssignmentInv => AssignmentIsAnnounced
  <2> SUFFICES ASSUME AssignmentInv, NEW i \in stored
               PROVE  /\ \A k \in DOMAIN Assignments : Assignments[k].inc = i =>
                            Assignments[k].team = row[i].team \/ TakenTwice(i)
                      /\ AssignmentKnown(i)
    BY DEF AssignmentIsAnnounced, Assignments, AssignmentKnown, AssignmentSent, Assigning
  <2>1. ASSUME NEW k \in DOMAIN Assignments, Assignments[k].inc = i
        PROVE  Assignments[k].team = row[i].team \/ TakenTwice(i)
    <3>1. AssignmentFits(i, Assignments[k].team)
      BY <2>1 DEF AssignmentInv
    <3> QED
      BY <3>1 DEF AssignmentFits, TakenBy
  <2> QED
    BY <2>1 DEF AssignmentInv
<1> QED
  BY <1>1, <1>2, <1>3, TypeCorrect, RowInvariant, TasksAlwaysFit, TeamsAreAlwaysTaken, PTL
     DEF Spec
=============================================================================
