-------------------------- MODULE TeamWorkloadProofs --------------------------
(***************************************************************************)
(* Theorems about the AI service's read models: the workload counter is    *)
(* exact unless something named upset it, a team gets no more incidents    *)
(* than it has room for unless somebody did not wait, and the log of       *)
(* assignments is complete.                                                *)
(***************************************************************************)
EXTENDS TeamWorkload, StreamConsumerProofs, FiniteSetTheorems

Counting == {"assigned", "resolved"}

\* What is published to s.
Message(s) ==
    CASE s = "upserted" -> [team : Teams, profile : {"active", "inactive"}]
      [] s \in Counting -> [inc : Incidents, team : Teams, by : {"ai", "hand"}]
      [] OTHER          -> [inc : Incidents, team : {NoTeam}, by : {"hand"}]

Messages == UNION {Message(s) : s \in Streams}

StreamInv ==
    /\ LoopInv(Messages)
    /\ \A s \in Streams : \A k \in 1..Len(streams[s]) : streams[s][k] \in Message(s)

Announcing == {"uncommitted", "assigned", "resolved"}
Stages == Announcing \cup {"none", "asking", "unassigned", "gone"}
Readings == UNION {[D -> Nat] : D \in SUBSET Teams}
Call == [pc : {"none", "scoring", "answered", "broken"}, unread : SUBSET Teams,
         seen : Readings, chosen : Teams \cup {NoTeam}]

\* The stages an incident may be in while it is due for s.
DueIn(s) == IF s = "resolved" THEN {"resolved"} ELSE {"assigned", "resolved"}

StagesFit ==
    /\ stage \in [Incidents -> Stages]
    /\ team \in [Incidents -> Teams \cup {NoTeam}]
    /\ \A i \in Incidents : stage[i] \in Announcing => team[i] \in Teams
    /\ outbox \in SUBSET (Counting \X Incidents)
    /\ \A s \in Counting, i \in Incidents : <<s, i>> \in outbox => stage[i] \in DueIn(s)

WorkType ==
    /\ profile \in [Teams -> {"unknown", "active", "inactive"}]
    /\ load \in [Teams -> Nat \cup {NoRow}]
    /\ feedback \in SUBSET Incidents
    /\ log \in SUBSET (Incidents \X (Teams \cup {NoTeam}))
    /\ snap \in [Streams -> Nat \cup {NoRow}]
    /\ call \in [Incidents -> [Attempts -> Call]]
    /\ StagesFit
    /\ drifted \in SUBSET Teams
    /\ rushed \in BOOLEAN

-----------------------------------------------------------------------------
(* The log of assignments.                                                 *)

LogInv ==
    /\ \A i \in Incidents, a \in Attempts :
           call[i][a].pc = "answered" => <<i, call[i][a].chosen>> \in log
    /\ AnnouncedTeamWasLogged

-----------------------------------------------------------------------------
(* The counter.                                                            *)

\* The incidents s has an entry of.
Announced(s) == {streams[s][k].inc : k \in 1..Len(streams[s])}

AnnouncedOnce(s) ==
    \A j, k \in 1..Len(streams[s]) : streams[s][j].inc = streams[s][k].inc => j = k

\* An entry names an incident that came so far, with the team it has.
EntryFits(e) ==
    /\ stage[e.inc] \in Announcing \cup {"gone"}
    /\ team[e.inc] = e.team
    /\ stage[e.inc] = "gone" => e.team \in drifted

\* What s tells of i was published, or is still due, or was lost.
ToldOrLost(s, i) == i \in Announced(s) \/ <<s, i>> \in outbox \/ team[i] \in drifted

\* An incident is announced at most once as assigned and once as resolved, with the team it has,
\* and is not announced only where its announcement is due or was lost.
AnnounceInv ==
    /\ \A s \in Counting : AnnouncedOnce(s)
    /\ \A s \in Counting : \A k \in 1..Len(streams[s]) : EntryFits(streams[s][k])
    /\ \A s \in Counting, i \in Incidents :
           <<s, i>> \in outbox => i \notin Announced(s)
    /\ \A i \in Incidents : i \in Announced("resolved") => stage[i] = "resolved"
    /\ \A i \in Incidents : stage[i] \in Announcing => ToldOrLost("assigned", i)
    /\ \A i \in Incidents : stage[i] = "resolved" => ToldOrLost("resolved", i)
    /\ IsFiniteSet({i \in Incidents : stage[i] # "none"})

\* Entry k lies behind the task of s, or its handler has ended.
Handled(s, k) == k < next[s] \/ (k = next[s] /\ phase[s] \in {"acking", "dead"})

\* The incidents of t whose entry of s lies behind the task.
Booked(s, t) ==
    {i \in Incidents : \E k \in 1..Len(streams[s]) :
        Handled(s, k) /\ streams[s][k].inc = i /\ streams[s][k].team = t}

\* A count nothing upset is what was assigned less what was resolved, of what lies behind.
LoadInv ==
    \A t \in Teams \ drifted :
        Count(load[t]) + Cardinality(Booked("resolved", t)) = Cardinality(Booked("assigned", t))

-----------------------------------------------------------------------------
(* The capacity.                                                           *)

\* What a call read of t is no less than what t has, and it does not choose t when t is full.
CallFits(c, t) ==
    /\ t \in DOMAIN c.seen => Cardinality(Open(t)) <= c.seen[t]
    /\ t = c.chosen => Cardinality(Open(t)) < Capacity

\* While i is asking and nobody rushed, no other incident is, everything assigned is counted, and
\* its calls fit what the teams have.
WaitInv(i) ==
    /\ \A j \in Incidents : stage[j] = "asking" => j = i
    /\ next["assigned"] > Len(streams["assigned"])
    /\ \A a \in Attempts, t \in Teams \ drifted : CallFits(call[i][a], t)

CapacityInv ==
    /\ \A i \in Incidents : stage[i] = "none" => \A a \in Attempts : call[i][a] = NoCall
    /\ ~rushed => \A i \in Incidents : <<"assigned", i>> \notin outbox
    /\ ~rushed => \A i \in Incidents : stage[i] = "asking" => WaitInv(i)
    /\ CapacityRespected

-----------------------------------------------------------------------------
(* The streams and the types.                                              *)

LEMMA StreamInvStarts == WInit => StreamInv /\ Delivery!Init
<1> SUFFICES ASSUME WInit
             PROVE  StreamInv /\ Delivery!Init
  OBVIOUS
<1>1. LoopInv(Messages) /\ Delivery!Init
  BY LoopStarts DEF WInit
<1>2. \A s \in Streams : Len(streams[s]) = 0
  BY DEF WInit, ConsumerInit
<1> QED
  BY <1>1, <1>2 DEF StreamInv

\* What users and answers make the services publish is a message of its stream.
LEMMA PublishersPublishMessages ==
    ASSUME WorkType, WorkloadAssumption,
           \/ \E i \in Incidents : ReceiveTeam(i) /\ streams' # streams
           \/ \E s \in Counting, i \in Incidents : Announce(s, i)
           \/ \E i \in Incidents : CorrectFaultType(i)
           \/ \E t \in Teams, active \in BOOLEAN : EditPersonnel(t, active)
    PROVE  \E s \in Streams : \E e \in Message(s) : Published(s, e) /\ UNCHANGED consumer
<1>1. "upserted" \in Streams /\ "assigned" \in Streams /\ "resolved" \in Streams
      /\ "type_changed" \in Streams
  BY DEF WorkloadAssumption
<1>2. /\ Message("assigned") = [inc : Incidents, team : Teams, by : {"ai", "hand"}]
      /\ Message("resolved") = [inc : Incidents, team : Teams, by : {"ai", "hand"}]
      /\ Message("type_changed") = [inc : Incidents, team : {NoTeam}, by : {"hand"}]
      /\ Message("upserted") = [team : Teams, profile : {"active", "inactive"}]
  BY DEF Message, Counting
<1>3. ASSUME NEW i \in Incidents, ReceiveTeam(i), streams' # streams
      PROVE  \E e \in Message("assigned") : Published("assigned", e) /\ UNCHANGED consumer
  <2>1. PICK a \in Attempts : a = Awaited(i)
    BY DEF Awaited, Attempts
  <2>2. call[i][a].chosen \in Teams \cup {NoTeam}
    BY DEF WorkType, Call
  <2>3. call[i][a].chosen # NoTeam
    BY <1>3, <2>1 DEF ReceiveTeam
  <2>4. Event(i, call[i][a].chosen, "ai") \in Message("assigned")
    BY <1>2, <2>2, <2>3 DEF Event
  <2> QED
    BY <1>3, <2>1, <2>3, <2>4 DEF ReceiveTeam
<1>4. ASSUME NEW s \in Counting, NEW i \in Incidents, Announce(s, i)
      PROVE  \E e \in Message(s) : Published(s, e) /\ UNCHANGED consumer
  <2>1. stage[i] \in Announcing
    BY <1>4 DEF Announce, WorkType, StagesFit, DueIn, Announcing
  <2>2. Event(i, team[i], "hand") \in Message(s)
    BY <1>2, <2>1 DEF Event, Counting, WorkType, StagesFit
  <2> QED
    BY <1>4, <2>2 DEF Announce
<1>5. ASSUME NEW i \in Incidents, CorrectFaultType(i)
      PROVE  \E e \in Message("type_changed") : Published("type_changed", e) /\ UNCHANGED consumer
  <2>1. Event(i, NoTeam, "hand") \in Message("type_changed")
    BY <1>2 DEF Event
  <2> QED
    BY <1>5, <2>1 DEF CorrectFaultType
<1>6. ASSUME NEW t \in Teams, NEW active \in BOOLEAN, EditPersonnel(t, active)
      PROVE  \E e \in Message("upserted") : Published("upserted", e) /\ UNCHANGED consumer
  <2>1. Upsert(t, active) \in Message("upserted")
    BY <1>2 DEF Upsert
  <2> QED
    BY <1>6, <2>1 DEF EditPersonnel
<1> QED
  BY <1>1, <1>3, <1>4, <1>5, <1>6 DEF Counting

\* A step of the service and its callers, as the loop sees it.
LEMMA StepShapes ==
    ASSUME WorkType, WorkloadAssumption, [WNext]_wvars
    PROVE  \/ \E s \in Streams : LoopStep(s)
           \/ \E s \in Streams : \E e \in Message(s) : Published(s, e) /\ UNCHANGED consumer
           \/ Restart
           \/ UNCHANGED <<streams, consumer>>
<1>1. "upserted" \in Streams /\ "assigned" \in Streams /\ "resolved" \in Streams
      /\ "type_changed" \in Streams
  BY DEF WorkloadAssumption
<1>2. ASSUME NEW s \in Streams,
             StartHandler(s) \/ HandlerFails(s) \/ Advance(s) \/ LoseAnswer(s)
      PROVE  LoopStep(s)
  BY <1>2 DEF StartHandler, HandlerFails, Advance, LoseAnswer, LoopStep, Loop
<1>3. CASE Handlers
  BY <1>1, <1>3 DEF Handlers, handle_personnel_upserted, handle_incident_assigned,
     AssignedBeforeProfile, handle_incident_resolved, handle_type_changed, LoopStep
<1>4. CASE Crash
  BY <1>4, SMTT(60) DEF Crash
<1>5. ASSUME NEW i \in Incidents, Assigning(i)
      PROVE  UNCHANGED <<streams, consumer>> \/ (ReceiveTeam(i) /\ streams' # streams)
  BY <1>5 DEF Assigning, LogChoice, ReadWorkload, TimeOut, Abort, ReceiveTeam, streamVars
<1>6. ASSUME NEW i \in Incidents, Users(i)
      PROVE  \/ UNCHANGED <<streams, consumer>>
             \/ \E s \in Counting : Announce(s, i)
             \/ CorrectFaultType(i)
  BY <1>6 DEF Users, RequestTeam, CommitTelemetry, RollBack, AssignByHand, ResolveIncident,
     LoseAnnouncement, Counting, streamVars
<1>7. CASE UNCHANGED wvars
  BY <1>7 DEF wvars, streamVars
<1> QED
  BY <1>2, <1>3, <1>4, <1>5, <1>6, <1>7, PublishersPublishMessages DEF WNext

LEMMA StreamInvKept ==
    ASSUME StreamInv, WorkType, WorkloadAssumption, [WNext]_wvars
    PROVE  StreamInv' /\ [Delivery!Next]_(Delivery!vars)
<1>1. ASSUME LoopInv(Messages)', UNCHANGED streams
      PROVE  StreamInv'
  BY <1>1 DEF StreamInv
<1>2. ASSUME NEW s \in Streams, LoopStep(s)
      PROVE  StreamInv' /\ [Delivery!Next]_(Delivery!vars)
  <2>1. streams' = streams
    BY <1>2 DEF LoopStep, Loop, Read, ReadFails, Ack, AckFails, Start, Raise
  <2> QED
    BY <1>1, <1>2, <2>1, LoopStepKeeps, LoopStepRefines DEF StreamInv
<1>3. ASSUME NEW s \in Streams, NEW e \in Message(s), Published(s, e), UNCHANGED consumer
      PROVE  StreamInv' /\ [Delivery!Next]_(Delivery!vars)
  <2>1. e \in Messages
    BY DEF Messages
  <2>2. LoopInv(Messages)' /\ [Delivery!Next]_(Delivery!vars)
    BY <1>3, <2>1, PublishingRefines DEF StreamInv
  <2>3. /\ streams[s] \in Seq(Messages) /\ streams'[s] = Append(streams[s], e)
        /\ \A r \in Streams : r # s => streams'[r] = streams[r]
    BY <1>3 DEF Published, StreamInv, LoopInv
  <2>4. ASSUME NEW k \in 1..Len(streams'[s])
        PROVE  streams'[s][k] \in Message(s)
    BY <2>1, <2>3, <2>4 DEF StreamInv
  <2> QED
    BY <2>2, <2>3, <2>4 DEF StreamInv
<1>4. CASE Restart
  <2>1. LoopInv(Messages)' /\ [Delivery!Next]_(Delivery!vars) /\ UNCHANGED streams
    BY <1>4, RestartRefines DEF StreamInv, Restart
  <2> QED
    BY <1>1, <2>1
<1>5. CASE UNCHANGED <<streams, consumer>>
  BY <1>1, <1>5, IdleRefines DEF StreamInv
<1> QED
  BY <1>2, <1>3, <1>4, <1>5, StepShapes

\* What a handler has started on is a message of its stream.
LEMMA CurrentIsPublished ==
    ASSUME StreamInv, NEW s \in Streams,
           phase[s] \in {"handling", "acking", "dead"} \/ next[s] <= delivered[s]
    PROVE  next[s] \in 1..Len(streams[s]) /\ Current(s) \in Message(s)
<1>1. /\ TaskInBatch(s) /\ streams[s] \in Seq(Messages)
      /\ next[s] \in Nat /\ delivered[s] \in Nat /\ Len(streams[s]) \in Nat
  BY DEF StreamInv, LoopInv
<1>2. next[s] \in 1..Len(streams[s])
  BY <1>1 DEF TaskInBatch
<1> QED
  BY <1>1, <1>2 DEF StreamInv, Current

LEMMA MessageNamesIncidentAndTeam ==
    ASSUME NEW s \in Counting, NEW e \in Message(s)
    PROVE  e.inc \in Incidents /\ e.team \in Teams
BY DEF Message, Counting

LEMMA ForgottenAreTeams ==
    ASSUME StreamInv, WorkloadAssumption, NEW s \in Streams,
           delivered'[s] \in Nat, delivered'[s] <= Len(streams[s])
    PROVE  Forgotten(s) \subseteq Teams
<1>1. next[s] \in Nat /\ next[s] >= 1 /\ Len(streams[s]) \in Nat
  <2>1. TaskInBatch(s) /\ next[s] \in Nat /\ streams[s] \in Seq(Messages)
    BY DEF StreamInv, LoopInv
  <2> QED
    BY <2>1 DEF TaskInBatch
<1>2. ASSUME NEW k \in next[s]..delivered'[s], s \in Counting
      PROVE  streams[s][k].team \in Teams
  <2>1. k \in 1..Len(streams[s])
    BY <1>1
  <2> QED
    BY <1>2, <2>1, MessageNamesIncidentAndTeam DEF StreamInv
<1> QED
  BY <1>2 DEF Forgotten, Counting

\* A team whose count was upset stays marked.
LEMMA DriftGrows ==
    ASSUME StreamInv, WorkType, WorkloadAssumption, [WNext]_wvars
    PROVE  drifted \subseteq drifted' /\ drifted' \subseteq Teams
<1>1. /\ "assigned" \in Streams /\ "resolved" \in Streams
      /\ drifted \subseteq Teams
  BY DEF WorkloadAssumption, WorkType
<1>2. ASSUME NEW s \in Streams, s \in Counting, phase[s] = "handling"
      PROVE  Current(s).team \in Teams
  BY <1>2, CurrentIsPublished, MessageNamesIncidentAndTeam
<1>3. ASSUME NEW s \in Streams,
             StartHandler(s) \/ HandlerFails(s) \/ Advance(s) \/ LoseAnswer(s)
      PROVE  drifted \subseteq drifted' /\ drifted' \subseteq Teams
  <2>1. CASE StartHandler(s) \/ Advance(s)
    BY <1>1, <2>1 DEF StartHandler, Advance
  <2>2. CASE HandlerFails(s)
    BY <1>1, <1>2, <2>2 DEF HandlerFails, Raise, Counting
  <2>3. CASE LoseAnswer(s)
    <3>1. delivered'[s] \in Nat /\ delivered'[s] <= Len(streams[s])
      BY <2>3, DeliverAdvances DEF LoseAnswer, ReadFails, StreamInv
    <3> QED
      BY <1>1, <2>3, <3>1, ForgottenAreTeams DEF LoseAnswer
  <2> QED
    BY <1>3, <2>1, <2>2, <2>3
<1>4. CASE Handlers
  <2>1. CASE handle_personnel_upserted \/ handle_type_changed
    BY <1>1, <2>1 DEF handle_personnel_upserted, handle_type_changed
  <2>2. CASE handle_incident_assigned \/ AssignedBeforeProfile
    BY <1>1, <1>2, <2>2 DEF handle_incident_assigned, AssignedBeforeProfile, Complete, Raise,
       DriftIfStale, Counting
  <2>3. CASE handle_incident_resolved
    BY <1>1, <1>2, <2>3 DEF handle_incident_resolved, Complete, DriftIfStale, Counting
  <2> QED
    BY <1>4, <2>1, <2>2, <2>3 DEF Handlers
<1>5. CASE Crash
  <2>1. \A s \in Streams : delivered'[s] \in Nat /\ delivered'[s] <= Len(streams[s])
    BY <1>5 DEF Crash, Restart, StreamInv, LoopInv, TaskInBatch
  <2>2. \A s \in Streams : Forgotten(s) \subseteq Teams
    BY <2>1, ForgottenAreTeams
  <2> QED
    BY <1>1, <1>5, <2>2 DEF Crash
<1>6. ASSUME NEW i \in Incidents, Assigning(i)
      PROVE  drifted' = drifted
  BY <1>6 DEF Assigning, LogChoice, ReadWorkload, TimeOut, Abort, ReceiveTeam
<1>7. ASSUME NEW i \in Incidents, Users(i)
      PROVE  drifted' = drifted \/ (team[i] \in Teams /\ drifted' = drifted \cup {team[i]})
  <2>1. RollBack(i) \/ (\E s \in Counting : LoseAnnouncement(s, i)) => stage[i] \in Announcing
    BY DEF RollBack, LoseAnnouncement, DueIn, WorkType, StagesFit, Announcing
  <2>2. stage[i] \in Announcing => team[i] \in Teams
    BY DEF WorkType, StagesFit
  <2> QED
    BY <1>7, <2>1, <2>2 DEF Users, RequestTeam, CommitTelemetry, AssignByHand, ResolveIncident,
       Announce, LoseAnnouncement, CorrectFaultType, RollBack, Counting
<1>8. (\E t \in Teams, active \in BOOLEAN : EditPersonnel(t, active)) => drifted' = drifted
  BY DEF EditPersonnel
<1>9. UNCHANGED wvars => drifted' = drifted
  BY DEF wvars
<1> QED
  BY <1>1, <1>3, <1>4, <1>5, <1>6, <1>7, <1>8, <1>9 DEF WNext

LEMMA NoCallIsACall == NoCall \in Call
<1>1. <<>> \in [{} -> Nat]
  OBVIOUS
<1> QED
  BY <1>1 DEF NoCall, Call, Readings

\* The calls of the service: asked anew, answered, or read one workload further.
LEMMA CallsAreCalls ==
    ASSUME NEW c \in Call, NEW t \in Teams, NEW n \in Nat
    PROVE  /\ [c EXCEPT !.unread = @ \ {t},
                        !.seen = [u \in DOMAIN @ \cup {t} |-> IF u = t THEN n ELSE @[u]]] \in Call
           /\ [NoCall EXCEPT !.pc = "scoring", !.unread = Active] \in Call
           /\ \A u \in Teams \cup {NoTeam} :
                [NoCall EXCEPT !.pc = "answered", !.chosen = u] \in Call
           /\ [NoCall EXCEPT !.pc = "broken"] \in Call
<1>1. PICK D \in SUBSET Teams : c.seen \in [D -> Nat]
  BY DEF Call, Readings
<1>2. [u \in D \cup {t} |-> IF u = t THEN n ELSE c.seen[u]] \in [D \cup {t} -> Nat]
  BY <1>1
<1>3. [u \in DOMAIN c.seen \cup {t} |-> IF u = t THEN n ELSE c.seen[u]] \in Readings
  <2>1. D \cup {t} \in SUBSET Teams /\ DOMAIN c.seen = D
    BY <1>1
  <2> QED
    BY <1>2, <2>1 DEF Readings
<1>4. [c EXCEPT !.unread = @ \ {t},
                !.seen = [u \in DOMAIN @ \cup {t} |-> IF u = t THEN n ELSE @[u]]] \in Call
  BY <1>3 DEF Call
<1>5. Active \in SUBSET Teams
  BY DEF Active
<1> QED
  BY <1>4, <1>5, NoCallIsACall DEF Call

LEMMA HandlersKeepType ==
    ASSUME StreamInv, WorkType, WorkloadAssumption, Handlers
    PROVE  WorkType'
<1> USE DEF WorkType, StagesFit
<1>1. "assigned" \in Streams /\ "resolved" \in Streams /\ "type_changed" \in Streams
      /\ "upserted" \in Streams
  BY DEF WorkloadAssumption
<1>2. drifted' \in SUBSET Teams
  BY DriftGrows DEF WNext
<1>3. ASSUME NEW s \in Streams, phase[s] = "handling"
      PROVE  Current(s) \in Message(s)
  BY <1>3, CurrentIsPublished
<1>4. \A s \in Streams : Count(snap[s]) \in Nat
  BY DEF Count
<1>5. CASE handle_personnel_upserted
  <2>1. PICK e \in Message("upserted") : e = Current("upserted")
    BY <1>1, <1>3, <1>5 DEF handle_personnel_upserted, Complete
  <2>2. e.profile \in {"active", "inactive"}
    BY DEF Message, Counting
  <2>3. profile' \in [Teams -> {"unknown", "active", "inactive"}]
    BY <1>5, <2>1, <2>2 DEF handle_personnel_upserted
  <2> QED
    BY <1>5, <2>3 DEF handle_personnel_upserted, assigning
<1>6. CASE handle_incident_assigned
  <2>1. PICK t : t = Current("assigned").team
    OBVIOUS
  <2>2. load' = [load EXCEPT ![t] = Count(snap["assigned"]) + 1]
    BY <1>6, <2>1 DEF handle_incident_assigned
  <2>3. Count(snap["assigned"]) + 1 \in Nat
    BY <1>1, <1>4
  <2>4. load' \in [Teams -> Nat \cup {NoRow}]
    BY <2>2, <2>3
  <2> QED
    BY <1>2, <1>6, <2>4 DEF handle_incident_assigned, assigning
<1>7. CASE AssignedBeforeProfile
  BY <1>2, <1>7 DEF AssignedBeforeProfile, readModel, assigning
<1>8. CASE handle_incident_resolved
  <2>1. PICK t, n : t = Current("resolved").team /\ n = Count(snap["resolved"])
    OBVIOUS
  <2>2. IF n > 0 THEN load' = [load EXCEPT ![t] = n - 1] ELSE load' = load
    BY <1>8, <2>1 DEF handle_incident_resolved
  <2>3. n > 0 => n - 1 \in Nat
    BY <1>1, <1>4, <2>1
  <2>4. load' \in [Teams -> Nat \cup {NoRow}]
    BY <2>2, <2>3
  <2> QED
    BY <1>2, <1>8, <2>4 DEF handle_incident_resolved, assigning
<1>9. CASE handle_type_changed
  <2>1. Current("type_changed").inc \in Incidents
    BY <1>1, <1>3, <1>9 DEF handle_type_changed, Complete, Message, Counting
  <2> QED
    BY <1>9, <2>1 DEF handle_type_changed, assigning
<1> QED
  BY <1>5, <1>6, <1>7, <1>8, <1>9 DEF Handlers

LEMMA LoopKeepsType ==
    ASSUME StreamInv, WorkType, WorkloadAssumption,
           \/ \E s \in Streams : StartHandler(s) \/ HandlerFails(s) \/ Advance(s) \/ LoseAnswer(s)
           \/ Crash
    PROVE  WorkType'
<1> USE DEF WorkType, StagesFit
<1>1. drifted' \in SUBSET Teams
  BY DriftGrows DEF WNext
<1>2. ASSUME NEW s \in Streams, StartHandler(s)
      PROVE  WorkType'
  <2>1. s \in Counting => Current(s).team \in Teams
    BY <1>2, CurrentIsPublished, MessageNamesIncidentAndTeam DEF StartHandler, Start
  <2>2. snap' \in [Streams -> Nat \cup {NoRow}]
    BY <1>2, <2>1 DEF StartHandler, Counting
  <2> QED
    BY <1>2, <2>2 DEF StartHandler, assigning
<1>3. ASSUME NEW s \in Streams, HandlerFails(s) \/ Advance(s) \/ LoseAnswer(s)
      PROVE  WorkType'
  BY <1>1, <1>3 DEF HandlerFails, Advance, LoseAnswer, readModel, assigning
<1>4. CASE Crash
  <2>1. NoCall \in Call /\ [NoCall EXCEPT !.pc = "broken"] \in Call
    BY NoCallIsACall DEF Call
  <2>2. call' \in [Incidents -> [Attempts -> Call]]
    BY <1>4, <2>1 DEF Crash
  <2> QED
    BY <1>1, <1>4, <2>2 DEF Crash, readModel
<1> QED
  BY <1>2, <1>3, <1>4

\* One call of one incident goes on.
LEMMA OneCallMoves ==
    ASSUME WorkType, NEW i \in Incidents, NEW a \in Attempts, NEW c \in Call,
           call' = [call EXCEPT ![i][a] = c]
    PROVE  /\ call' \in [Incidents -> [Attempts -> Call]]
           /\ call'[i][a] = c
           /\ \A j \in Incidents, b \in Attempts :
                  j # i \/ b # a => call'[j][b] = call[j][b]
<1>1. call[i] \in [Attempts -> Call]
  BY DEF WorkType
<1>2. [call[i] EXCEPT ![a] = c] \in [Attempts -> Call]
  BY <1>1
<1>3. call' = [call EXCEPT ![i] = [call[i] EXCEPT ![a] = c]]
  OBVIOUS
<1> QED
  BY <1>1, <1>2, <1>3 DEF WorkType

\* A call begins with all active teams still to be read.
LEMMA AskedAnew ==
    ASSUME NEW i, NEW a, Ask(i, a)
    PROVE  \E c \in Call : /\ call' = [call EXCEPT ![i][a] = c]
                           /\ c = [NoCall EXCEPT !.pc = "scoring", !.unread = Active]
<1>1. Active \in SUBSET Teams
  BY DEF Active
<1>2. [NoCall EXCEPT !.pc = "scoring", !.unread = Active] \in Call
  BY <1>1, NoCallIsACall DEF Call
<1> QED
  BY <1>2 DEF Ask

\* It learns the workload of one of them.
LEMMA WorkloadRead ==
    ASSUME WorkType, NEW i \in Incidents, NEW a \in Attempts, NEW t \in Teams, ReadWorkload(i, a, t)
    PROVE  \E c \in Call : /\ call' = [call EXCEPT ![i][a] = c]
                           /\ c.pc = call[i][a].pc /\ c.chosen = call[i][a].chosen
                           /\ DOMAIN c.seen = DOMAIN call[i][a].seen \cup {t}
                           /\ c.seen[t] = Count(load[t])
                           /\ \A u \in DOMAIN c.seen \ {t} : c.seen[u] = call[i][a].seen[u]
<1>1. call[i][a] \in Call /\ Count(load[t]) \in Nat
  BY DEF WorkType, Count
<1>2. PICK c : c = [call[i][a] EXCEPT
                      !.unread = @ \ {t},
                      !.seen = [u \in DOMAIN @ \cup {t} |-> IF u = t THEN Count(load[t]) ELSE @[u]]]
  OBVIOUS
<1>3. c \in Call
  BY <1>1, <1>2, CallsAreCalls
<1>4. call' = [call EXCEPT ![i][a] = c]
  BY <1>2, Zenon DEF ReadWorkload
<1>5. /\ c.pc = call[i][a].pc /\ c.chosen = call[i][a].chosen
      /\ c.seen = [u \in DOMAIN call[i][a].seen \cup {t} |->
                     IF u = t THEN Count(load[t]) ELSE call[i][a].seen[u]]
  BY <1>1, <1>2 DEF Call
<1> QED
  BY <1>3, <1>4, <1>5

\* It chooses one of the teams it read, or none.
LEMMA ChoiceLogged ==
    ASSUME WorkType, NEW i \in Incidents, NEW a \in Attempts, LogChoice(i, a)
    PROVE  \E t \in Teams \cup {NoTeam} : \E c \in Call :
               /\ call' = [call EXCEPT ![i][a] = c]
               /\ c = [NoCall EXCEPT !.pc = "answered", !.chosen = t]
               /\ t # NoTeam => t \in Picks(call[i][a].seen)
               /\ log' = log \cup {<<i, t>>}
<1>1. call[i][a] \in Call
  BY DEF WorkType
<1>2. Picks(call[i][a].seen) \subseteq Teams
  BY <1>1 DEF Picks, Feasible, Call, Readings
<1>3. PICK t \in IF Picks(call[i][a].seen) = {} THEN {NoTeam} ELSE Picks(call[i][a].seen) :
        /\ log' = log \cup {<<i, t>>}
        /\ call' = [call EXCEPT ![i][a] = [NoCall EXCEPT !.pc = "answered", !.chosen = t]]
  BY DEF LogChoice
<1>4. t \in Teams \cup {NoTeam}
  BY <1>2, <1>3
<1>5. [NoCall EXCEPT !.pc = "answered", !.chosen = t] \in Call
  BY <1>4, NoCallIsACall DEF Call
<1> QED
  BY <1>3, <1>4, <1>5

\* A step moves one call at most, or all of them.
LEMMA CallShapes ==
    ASSUME [WNext]_wvars
    PROVE  \/ UNCHANGED <<call, log>>
           \/ \E i \in Incidents, a \in Attempts : Ask(i, a) /\ log' = log
           \/ \E i \in Incidents, a \in Attempts, t \in Teams : ReadWorkload(i, a, t)
           \/ \E i \in Incidents, a \in Attempts : LogChoice(i, a)
           \/ Crash
<1>1. 1 \in Attempts /\ 2 \in Attempts
  BY DEF Attempts
<1>2. \A i \in Incidents : RequestTeam(i) => Ask(i, 1) /\ log' = log
  BY DEF RequestTeam
<1>3. \A i \in Incidents : TimeOut(i) => UNCHANGED <<call, log>> \/ (Ask(i, 2) /\ log' = log)
  BY DEF TimeOut
<1>4. \A i \in Incidents : \/ ReceiveTeam(i) \/ Abort(i) \/ CommitTelemetry(i) \/ RollBack(i)
                           \/ ResolveIncident(i) \/ CorrectFaultType(i)
                           \/ \E t \in Teams : AssignByHand(i, t)
                           \/ \E s \in Counting : Announce(s, i) \/ LoseAnnouncement(s, i)
                         => UNCHANGED <<call, log>>
  BY DEF ReceiveTeam, Abort, CommitTelemetry, RollBack, ResolveIncident, CorrectFaultType,
     AssignByHand, Announce, LoseAnnouncement
<1>5. (\E t \in Teams, active \in BOOLEAN : EditPersonnel(t, active)) => UNCHANGED <<call, log>>
  BY DEF EditPersonnel
<1>6. \A s \in Streams : StartHandler(s) \/ HandlerFails(s) \/ Advance(s) \/ LoseAnswer(s)
                         => UNCHANGED <<call, log>>
  BY DEF StartHandler, HandlerFails, Advance, LoseAnswer, assigning
<1>7. Handlers => UNCHANGED <<call, log>>
  BY DEF Handlers, handle_personnel_upserted, handle_incident_assigned, AssignedBeforeProfile,
     handle_incident_resolved, handle_type_changed, assigning
<1>8. UNCHANGED wvars => UNCHANGED <<call, log>>
  BY DEF wvars, assigning
<1> QED
  BY <1>1, <1>2, <1>3, <1>4, <1>5, <1>6, <1>7, <1>8 DEF WNext, Assigning, Users, Counting

LEMMA CallsKeepType ==
    ASSUME WorkType, [WNext]_wvars
    PROVE  /\ call' \in [Incidents -> [Attempts -> Call]]
           /\ log \subseteq log' /\ log' \in SUBSET (Incidents \X (Teams \cup {NoTeam}))
<1> DEFINE CallsFit == /\ call' \in [Incidents -> [Attempts -> Call]]
                       /\ log \subseteq log' /\ log' \in SUBSET (Incidents \X (Teams \cup {NoTeam}))
<1>1. CASE UNCHANGED <<call, log>>
  BY <1>1 DEF WorkType
<1>2. ASSUME NEW i \in Incidents, NEW a \in Attempts, Ask(i, a), log' = log
      PROVE  CallsFit
  <2>1. PICK c \in Call : call' = [call EXCEPT ![i][a] = c]
    BY <1>2, AskedAnew
  <2> QED
    BY <1>2, <2>1, OneCallMoves DEF WorkType
<1>3. ASSUME NEW i \in Incidents, NEW a \in Attempts, NEW t \in Teams, ReadWorkload(i, a, t)
      PROVE  CallsFit
  <2>1. log' = log
    BY <1>3 DEF ReadWorkload
  <2>2. PICK c \in Call : call' = [call EXCEPT ![i][a] = c]
    BY <1>3, WorkloadRead
  <2> QED
    BY <2>1, <2>2, OneCallMoves DEF WorkType
<1>4. ASSUME NEW i \in Incidents, NEW a \in Attempts, LogChoice(i, a)
      PROVE  CallsFit
  <2>1. PICK t \in Teams \cup {NoTeam}, c \in Call :
          call' = [call EXCEPT ![i][a] = c] /\ log' = log \cup {<<i, t>>}
    BY <1>4, ChoiceLogged
  <2> QED
    BY <2>1, OneCallMoves DEF WorkType
<1>5. CASE Crash
  <2>1. NoCall \in Call /\ [NoCall EXCEPT !.pc = "broken"] \in Call
    BY NoCallIsACall DEF Call
  <2>2. call' \in [Incidents -> [Attempts -> Call]]
    BY <1>5, <2>1 DEF Crash
  <2> QED
    BY <1>5, <2>2 DEF Crash, WorkType
<1> QED
  BY <1>1, <1>2, <1>3, <1>4, <1>5, CallShapes

LEMMA CallersLeaveReadModel ==
    ASSUME WorkType,
           \/ \E i \in Incidents : Assigning(i) \/ Users(i)
           \/ \E t \in Teams, active \in BOOLEAN : EditPersonnel(t, active)
    PROVE  readModel' = readModel /\ rushed' \in BOOLEAN
<1>1. rushed \in BOOLEAN
  BY DEF WorkType
<1>2. ASSUME NEW i \in Incidents, Assigning(i)
      PROVE  readModel' = readModel /\ rushed' = rushed
  BY <1>2 DEF Assigning, LogChoice, ReadWorkload, TimeOut, Abort, ReceiveTeam
<1>3. ASSUME NEW i \in Incidents, RequestTeam(i)
      PROVE  readModel' = readModel /\ rushed' \in BOOLEAN
  BY <1>1, <1>3, Zenon DEF RequestTeam
<1>4. ASSUME NEW i \in Incidents, NEW t \in Teams, AssignByHand(i, t)
      PROVE  readModel' = readModel /\ rushed' \in BOOLEAN
  BY <1>4 DEF AssignByHand
<1>5. ASSUME NEW i \in Incidents,
             \/ CommitTelemetry(i) \/ RollBack(i) \/ ResolveIncident(i) \/ CorrectFaultType(i)
             \/ \E s \in Counting : Announce(s, i) \/ LoseAnnouncement(s, i)
      PROVE  readModel' = readModel /\ rushed' = rushed
  BY <1>5 DEF CommitTelemetry, RollBack, ResolveIncident, CorrectFaultType, Announce,
     LoseAnnouncement
<1>6. (\E t \in Teams, active \in BOOLEAN : EditPersonnel(t, active))
        => readModel' = readModel /\ rushed' = rushed
  BY DEF EditPersonnel
<1> QED
  BY <1>1, <1>2, <1>3, <1>4, <1>5, <1>6 DEF Users, Counting

LEMMA CallersKeepType ==
    ASSUME StreamInv, WorkType, WorkloadAssumption,
           \/ \E i \in Incidents : Assigning(i) \/ Users(i)
           \/ \E t \in Teams, active \in BOOLEAN : EditPersonnel(t, active)
    PROVE  WorkType'
<1>1. drifted' \in SUBSET Teams
  BY DriftGrows DEF WNext
<1>2. readModel' = readModel /\ rushed' \in BOOLEAN
  BY CallersLeaveReadModel
<1>3. call' \in [Incidents -> [Attempts -> Call]] /\ log' \in SUBSET (Incidents \X (Teams \cup {NoTeam}))
  BY CallsKeepType DEF WNext
<1>4. StagesFit'
  <2> USE DEF StagesFit, Stages, Announcing, DueIn, Counting
  <2>1. StagesFit
    BY DEF WorkType
  <2>2. ASSUME NEW i \in Incidents, ReceiveTeam(i)
        PROVE  StagesFit'
    <3>1. PICK a \in Attempts : a = Awaited(i)
      BY DEF Awaited, Attempts
    <3>2. call[i][a].chosen \in Teams \cup {NoTeam}
      BY DEF WorkType, Call
    <3> QED
      BY <2>1, <2>2, <3>1, <3>2 DEF ReceiveTeam
  <2>3. ASSUME NEW i \in Incidents, RequestTeam(i) \/ TimeOut(i) \/ Abort(i)
        PROVE  StagesFit'
    BY <2>1, <2>3 DEF RequestTeam, TimeOut, Abort
  <2>4. ASSUME NEW i \in Incidents, CommitTelemetry(i) \/ RollBack(i)
        PROVE  StagesFit'
    BY <2>1, <2>4 DEF CommitTelemetry, RollBack
  <2>5. ASSUME NEW i \in Incidents, NEW t \in Teams, AssignByHand(i, t)
        PROVE  StagesFit'
    <3>1. /\ stage' = [stage EXCEPT ![i] = "assigned"] /\ team' = [team EXCEPT ![i] = t]
          /\ outbox' = outbox \cup {<<"assigned", i>>} /\ stage[i] = "unassigned"
      BY <2>5 DEF AssignByHand
    <3> QED
      BY <2>1, <3>1
  <2>6. ASSUME NEW i \in Incidents, ResolveIncident(i)
        PROVE  StagesFit'
    <3>1. /\ stage' = [stage EXCEPT ![i] = "resolved"] /\ team' = team
          /\ outbox' = outbox \cup {<<"resolved", i>>} /\ stage[i] = "assigned"
      BY <2>6 DEF ResolveIncident
    <3> QED
      BY <2>1, <3>1
  <2>7. ASSUME UNCHANGED <<stage, team>>, outbox' \subseteq outbox
        PROVE  StagesFit'
    BY <2>1, <2>7
  <2>8. ASSUME NEW i \in Incidents,
               CorrectFaultType(i) \/ \E s \in Counting : Announce(s, i) \/ LoseAnnouncement(s, i)
        PROVE  UNCHANGED <<stage, team>> /\ outbox' \subseteq outbox
    BY <2>8 DEF CorrectFaultType, Announce, LoseAnnouncement
  <2>9. ASSUME NEW i \in Incidents, NEW a, LogChoice(i, a) \/ \E t \in Teams : ReadWorkload(i, a, t)
        PROVE  UNCHANGED <<stage, team>> /\ outbox' \subseteq outbox
    BY <2>9 DEF LogChoice, ReadWorkload
  <2>10. (\E t \in Teams, active \in BOOLEAN : EditPersonnel(t, active))
            => UNCHANGED <<stage, team>> /\ outbox' \subseteq outbox
    BY DEF EditPersonnel
  <2> QED
    BY <2>2, <2>3, <2>4, <2>5, <2>6, <2>7, <2>8, <2>9, <2>10 DEF Assigning, Users
<1> QED
  BY <1>1, <1>2, <1>3, <1>4 DEF WorkType, readModel

LEMMA WorkTypeStarts ==
    ASSUME WInit, WorkloadAssumption
    PROVE  WorkType
<1>1. call \in [Incidents -> [Attempts -> Call]]
  BY NoCallIsACall DEF WInit
<1> QED
  BY <1>1 DEF WInit, WorkType, StagesFit, Stages, Announcing

LEMMA WorkTypeKept ==
    ASSUME StreamInv, WorkType, WorkloadAssumption, [WNext]_wvars
    PROVE  WorkType'
<1>1. CASE UNCHANGED wvars
  BY <1>1 DEF wvars, readModel, assigning, WorkType, StagesFit
<1> QED
  BY <1>1, HandlersKeepType, LoopKeepsType, CallersKeepType DEF WNext

\* consumers/handlers.py, api/ai.py: what is published to a stream is what its handler expects, and
\* tables, calls and incidents hold what they are declared to hold.
THEOREM WorkloadTypeCorrect == WSpec => [](StreamInv /\ WorkType)
<1>1. WInit => StreamInv /\ WorkType
  BY StreamInvStarts, WorkTypeStarts, WorkloadAssumption
<1>2. StreamInv /\ WorkType /\ [WNext]_wvars => (StreamInv /\ WorkType)'
  BY StreamInvKept, WorkTypeKept, WorkloadAssumption
<1> QED
  BY <1>1, <1>2, PTL DEF WSpec

\* The type invariant of the runs follows: a task never leaves its batch.
THEOREM WorkloadIsTyped == WSpec => []TypeOK
<1>1. StreamInv /\ WorkType => TypeOK
  <2> SUFFICES ASSUME StreamInv, WorkType
               PROVE  TypeOK
    OBVIOUS
  <2>1. ASSUME NEW s \in Streams
        PROVE  delivered[s] \in 0..Len(streams[s]) /\ next[s] \in 1..delivered[s] + 1
    <3>1. /\ TaskInBatch(s) /\ streams[s] \in Seq(Messages) /\ next[s] \in Nat
          /\ delivered[s] \in Nat
      BY DEF StreamInv, LoopInv
    <3> QED
      BY <3>1 DEF TaskInBatch
  <2>2. phase \in [Streams -> Phases]
    BY DEF StreamInv, LoopInv
  <2> QED
    BY <2>1, <2>2 DEF TypeOK, WorkType, StagesFit, Stages, Announcing, Counting
<1> QED
  BY <1>1, WorkloadTypeCorrect, PTL

\* consumers/runner.py: with these handlers in it, the loop still gives each event effect at most
\* once and in order.
THEOREM WorkloadImplementsAtMostOnce == WSpec => AtMostOnceInOrder
<1>1. WInit => Delivery!Init
  BY StreamInvStarts
<1>2. StreamInv /\ WorkType /\ [WNext]_wvars => [Delivery!Next]_(Delivery!vars)
  BY StreamInvKept, WorkloadAssumption
<1> QED
  BY <1>1, <1>2, WorkloadTypeCorrect, PTL DEF WSpec, AtMostOnceInOrder, Delivery!Spec

-----------------------------------------------------------------------------
(* The log of assignments.                                                 *)

\* A step of the world, as the incidents and their announcements see it.
NotAnnounced(i) ==
    /\ stage[i] \in {"none", "asking"}
    /\ \E st \in {"asking", "unassigned", "gone"} :
           /\ stage' = [stage EXCEPT ![i] = st]
           /\ st = "asking" => RequestTeam(i)
    /\ UNCHANGED <<team, outbox, streams, consumer>>

Settled(i) ==
    /\ stage[i] = "uncommitted"
    /\ \/ stage' = [stage EXCEPT ![i] = "assigned"]
       \/ stage' = [stage EXCEPT ![i] = "gone"] /\ team[i] \in drifted'
    /\ UNCHANGED <<team, outbox, streams, consumer>>

Received(i, t) ==
    /\ stage[i] = "asking"
    /\ stage' = [stage EXCEPT ![i] = "uncommitted"]
    /\ team' = [team EXCEPT ![i] = t]
    /\ Published("assigned", Event(i, t, "ai"))
    /\ UNCHANGED <<consumer, load, outbox, drifted>>

\* Nothing is announced: streams stay, and what is due stays due or is lost.
NothingAnnounced ==
    /\ UNCHANGED <<stage, team>>
    /\ \A s \in Counting : streams'[s] = streams[s]
    /\ outbox' \subseteq outbox
    /\ \A s \in Counting, i \in Incidents :
           <<s, i>> \in outbox => <<s, i>> \in outbox' \/ team[i] \in drifted'

LEMMA WorldShapes ==
    ASSUME WorkType, WorkloadAssumption, [WNext]_wvars
    PROVE  \/ NothingAnnounced
           \/ \E i \in Incidents : NotAnnounced(i) \/ Settled(i) \/ ResolveIncident(i)
           \/ \E i \in Incidents, t \in Teams : AssignByHand(i, t)
           \/ \E s \in Counting, i \in Incidents : Announce(s, i)
           \/ \E i \in Incidents, t \in Teams :
                 Received(i, t) /\ ReceiveTeam(i) /\ call[i][Awaited(i)].chosen = t
<1>1. \A s \in Streams : StartHandler(s) \/ HandlerFails(s) \/ Advance(s) \/ LoseAnswer(s)
                         => UNCHANGED <<stage, team, outbox, streams>>
  BY DEF StartHandler, HandlerFails, Advance, LoseAnswer, assigning, Start, Raise, Read, Ack,
     AckFails, ReadFails
<1>2. Handlers \/ Crash => UNCHANGED <<stage, team, outbox, streams>>
  BY DEF Handlers, handle_personnel_upserted, handle_incident_assigned, AssignedBeforeProfile,
     handle_incident_resolved, handle_type_changed, assigning, Raise, Crash, Restart
<1>3. \A i \in Incidents, a \in Attempts :
          LogChoice(i, a) \/ (\E t \in Teams : ReadWorkload(i, a, t))
            => UNCHANGED <<stage, team, outbox, streams>>
  BY ZenonT(60) DEF LogChoice, ReadWorkload, streamVars
<1>4. ASSUME NEW i \in Incidents, RequestTeam(i) \/ Abort(i)
      PROVE  NotAnnounced(i)
  <2>1. CASE RequestTeam(i)
    <3>1. /\ stage[i] = "none" /\ stage' = [stage EXCEPT ![i] = "asking"]
          /\ UNCHANGED <<team, outbox, streams, consumer>>
      BY <2>1 DEF RequestTeam, streamVars
    <3> QED
      BY <2>1, <3>1 DEF NotAnnounced
  <2>2. CASE Abort(i)
    BY <2>2 DEF Abort, NotAnnounced, streamVars
  <2> QED
    BY <1>4, <2>1, <2>2
<1>5. ASSUME NEW i \in Incidents, TimeOut(i)
      PROVE  NotAnnounced(i) \/ UNCHANGED <<stage, team, outbox, streams>>
  BY <1>5 DEF TimeOut, NotAnnounced, streamVars
<1>6. ASSUME NEW i \in Incidents, ReceiveTeam(i)
      PROVE  \/ NotAnnounced(i)
             \/ \E t \in Teams : Received(i, t) /\ call[i][Awaited(i)].chosen = t
  <2>1. PICK a \in Attempts : a = Awaited(i)
    BY DEF Awaited, Attempts
  <2>2. call[i][a].chosen \in Teams \cup {NoTeam}
    BY DEF WorkType, Call
  <2> QED
    BY <1>6, <2>1, <2>2 DEF ReceiveTeam, NotAnnounced, Received, readModel
<1>7. ASSUME NEW i \in Incidents, CommitTelemetry(i) \/ RollBack(i)
      PROVE  Settled(i)
  BY <1>7 DEF CommitTelemetry, RollBack, Settled, streamVars
<1>8. ASSUME NEW s \in Counting, NEW i \in Incidents, LoseAnnouncement(s, i)
      PROVE  NothingAnnounced
  BY <1>8 DEF LoseAnnouncement, NothingAnnounced
<1>9. ASSUME NEW i \in Incidents, CorrectFaultType(i)
      PROVE  NothingAnnounced
  BY <1>9 DEF CorrectFaultType, Published, NothingAnnounced, Counting
<1>10. ASSUME NEW t \in Teams, NEW active \in BOOLEAN, EditPersonnel(t, active)
       PROVE  NothingAnnounced
  BY <1>10 DEF EditPersonnel, Published, NothingAnnounced, Counting
<1>11. UNCHANGED wvars => UNCHANGED <<stage, team, outbox, streams>>
  BY DEF wvars, streamVars, assigning
<1>12. UNCHANGED <<stage, team, outbox, streams>> => NothingAnnounced
  BY DEF NothingAnnounced
<1> QED
  BY <1>1, <1>2, <1>3, <1>4, <1>5, <1>6, <1>7, <1>8, <1>9, <1>10, <1>11, <1>12
     DEF WNext, Assigning, Users, Counting

LEMMA AnswersAreLogged ==
    ASSUME WorkType, LogInv, [WNext]_wvars
    PROVE  \A i \in Incidents, a \in Attempts :
               call'[i][a].pc = "answered" => <<i, call'[i][a].chosen>> \in log'
<1>1. log \subseteq log'
  BY CallsKeepType
<1>2. \A i \in Incidents, a \in Attempts : call[i][a].pc = "answered" => <<i, call[i][a].chosen>> \in log
  BY DEF LogInv
<1>3. ASSUME NEW i \in Incidents, NEW a \in Attempts, NEW c \in Call,
             call' = [call EXCEPT ![i][a] = c], c.pc = "answered" => <<i, c.chosen>> \in log'
      PROVE  \A j \in Incidents, b \in Attempts :
                 call'[j][b].pc = "answered" => <<j, call'[j][b].chosen>> \in log'
  <2>1. /\ call'[i][a] = c
        /\ \A j \in Incidents, b \in Attempts : j # i \/ b # a => call'[j][b] = call[j][b]
    BY <1>3, OneCallMoves, ZenonT(60)
  <2> QED
    BY <1>1, <1>2, <1>3, <2>1
<1>4. CASE UNCHANGED <<call, log>>
  BY <1>2, <1>4
<1>5. ASSUME NEW i \in Incidents, NEW a \in Attempts, Ask(i, a)
      PROVE  \A j \in Incidents, b \in Attempts :
                 call'[j][b].pc = "answered" => <<j, call'[j][b].chosen>> \in log'
  <2>1. PICK c \in Call : /\ call' = [call EXCEPT ![i][a] = c]
                          /\ c = [NoCall EXCEPT !.pc = "scoring", !.unread = Active]
    BY <1>5, AskedAnew
  <2>2. c.pc # "answered"
    BY <2>1 DEF NoCall
  <2> QED
    BY <1>3, <2>1, <2>2
<1>6. ASSUME NEW i \in Incidents, NEW a \in Attempts, NEW t \in Teams, ReadWorkload(i, a, t)
      PROVE  \A j \in Incidents, b \in Attempts :
                 call'[j][b].pc = "answered" => <<j, call'[j][b].chosen>> \in log'
  <2>1. PICK c \in Call : /\ call' = [call EXCEPT ![i][a] = c]
                          /\ c.pc = call[i][a].pc /\ c.chosen = call[i][a].chosen
    BY <1>6, WorkloadRead
  <2> QED
    BY <1>1, <1>2, <1>3, <2>1
<1>7. ASSUME NEW i \in Incidents, NEW a \in Attempts, LogChoice(i, a)
      PROVE  \A j \in Incidents, b \in Attempts :
                 call'[j][b].pc = "answered" => <<j, call'[j][b].chosen>> \in log'
  <2>1. PICK t \in Teams \cup {NoTeam}, c \in Call :
            /\ call' = [call EXCEPT ![i][a] = c]
            /\ c = [NoCall EXCEPT !.pc = "answered", !.chosen = t]
            /\ log' = log \cup {<<i, t>>}
    BY <1>7, ChoiceLogged
  <2>2. c.chosen = t
    BY <2>1 DEF NoCall
  <2>3. <<i, c.chosen>> \in log' /\ call' = [call EXCEPT ![i][a] = c]
    BY <2>1, <2>2
  <2> QED
    BY <1>3, <2>3
<1>8. CASE Crash
  BY <1>8 DEF Crash, NoCall
<1> QED
  BY <1>4, <1>5, <1>6, <1>7, <1>8, CallShapes

\* An announced assignment is that of the answer, which is logged.
LEMMA LogKept ==
    ASSUME StreamInv, WorkType, WorkloadAssumption, LogInv, [WNext]_wvars
    PROVE  LogInv'
<1>1. log \subseteq log'
  BY CallsKeepType
<1>2. "assigned" \in Streams /\ "resolved" \in Streams
  BY DEF WorkloadAssumption
<1>3. \A k \in 1..Len(streams["assigned"]) :
          streams["assigned"][k].by = "ai" =>
              <<streams["assigned"][k].inc, streams["assigned"][k].team>> \in log'
  BY <1>1 DEF LogInv, AnnouncedTeamWasLogged
<1>4. CASE streams'["assigned"] = streams["assigned"]
  BY <1>3, <1>4, AnswersAreLogged DEF LogInv, AnnouncedTeamWasLogged
<1>5. ASSUME NEW e \in Message("assigned"), Published("assigned", e),
             e.by = "ai" => <<e.inc, e.team>> \in log'
      PROVE  LogInv'
  <2>1. e \in Messages
    BY <1>2 DEF Messages
  <2>2. PICK l \in Nat :
          /\ l = Len(streams["assigned"]) /\ Len(streams'["assigned"]) = l + 1
          /\ streams'["assigned"][l + 1] = e
          /\ \A k \in 1..l : streams'["assigned"][k] = streams["assigned"][k]
    <3>1. /\ Len(streams["assigned"]) \in Nat
          /\ Len(streams'["assigned"]) = Len(streams["assigned"]) + 1
          /\ streams'["assigned"][Len(streams["assigned"]) + 1] = e
          /\ \A k \in 1..Len(streams["assigned"]) : streams'["assigned"][k] = streams["assigned"][k]
      BY <1>2, <1>5, <2>1, PublishingAppends DEF StreamInv
    <3> QED
      BY <3>1
  <2>3. ASSUME NEW k \in 1..(l + 1)
        PROVE  streams'["assigned"][k].by = "ai" =>
                   <<streams'["assigned"][k].inc, streams'["assigned"][k].team>> \in log'
    <3>1. CASE k = l + 1
      BY <1>5, <2>2, <3>1
    <3>2. CASE k \in 1..l
      BY <1>3, <2>2, <3>2
    <3> QED
      BY <3>1, <3>2
  <2> QED
    BY <2>2, <2>3, AnswersAreLogged DEF LogInv, AnnouncedTeamWasLogged
<1>6. ASSUME NEW i \in Incidents, NEW t \in Teams,
             Received(i, t), ReceiveTeam(i), call[i][Awaited(i)].chosen = t
      PROVE  LogInv'
  <2>1. <<i, t>> \in log'
    BY <1>1, <1>6 DEF ReceiveTeam, Awaited, Attempts, LogInv
  <2>2. PICK e : e = Event(i, t, "ai")
    OBVIOUS
  <2>3. e \in Message("assigned") /\ e.inc = i /\ e.team = t
    BY <2>2 DEF Event, Message, Counting
  <2> QED
    BY <1>5, <1>6, <2>1, <2>2, <2>3 DEF Received
<1>7. ASSUME NEW s \in Counting, NEW i \in Incidents, Announce(s, i)
      PROVE  LogInv'
  <2>1. team[i] \in Teams
    BY <1>7 DEF Announce, WorkType, StagesFit, DueIn, Announcing
  <2>2. PICK e : e = Event(i, team[i], "hand")
    OBVIOUS
  <2>3. e \in Message("assigned") /\ e.by # "ai"
    BY <2>1, <2>2 DEF Event, Message, Counting
  <2>4. s # "assigned" => streams'["assigned"] = streams["assigned"]
    BY <1>7 DEF Announce, Published
  <2> QED
    BY <1>4, <1>5, <1>7, <2>2, <2>3, <2>4 DEF Announce
<1>8. \A i \in Incidents : NotAnnounced(i) \/ Settled(i) \/ ResolveIncident(i) => streams' = streams
  BY DEF NotAnnounced, Settled, ResolveIncident, streamVars
<1>9. \A i \in Incidents, t \in Teams : AssignByHand(i, t) => streams' = streams
  BY DEF AssignByHand, streamVars
<1>10. NothingAnnounced => streams'["assigned"] = streams["assigned"]
  BY DEF NothingAnnounced, Counting
<1> QED
  BY <1>4, <1>6, <1>7, <1>8, <1>9, <1>10, WorldShapes

\* api/ai.py, api/incidents.py: the choice is committed to assignment_log before the answer leaves,
\* so whatever times out, is repeated or crashes, what was announced is in the log.
THEOREM AnnouncedTeamsAreLogged == WSpec => []AnnouncedTeamWasLogged
<1>1. WInit => LogInv
  <2> SUFFICES ASSUME WInit
               PROVE  LogInv
    OBVIOUS
  <2>1. Len(streams["assigned"]) = 0
    BY WorkloadAssumption DEF WInit, ConsumerInit, WorkloadAssumption
  <2> QED
    BY <2>1 DEF WInit, LogInv, AnnouncedTeamWasLogged, NoCall
<1>2. StreamInv /\ WorkType /\ LogInv /\ [WNext]_wvars => LogInv'
  BY LogKept, WorkloadAssumption
<1>3. LogInv => AnnouncedTeamWasLogged
  BY DEF LogInv
<1> QED
  BY <1>1, <1>2, <1>3, WorkloadTypeCorrect, PTL DEF WSpec

-----------------------------------------------------------------------------
(* The announcements.                                                      *)

LEMMA NewlyAnnounced ==
    ASSUME StreamInv, WorkloadAssumption, NEW s \in Counting, NEW e \in Message(s),
           Published(s, e), AnnouncedOnce(s), e.inc \notin Announced(s)
    PROVE  /\ \A k \in 1..Len(streams'[s]) :
                  streams'[s][k] = e \/ (k \in 1..Len(streams[s]) /\ streams'[s][k] = streams[s][k])
           /\ Announced(s)' = Announced(s) \cup {e.inc}
           /\ AnnouncedOnce(s)'
           /\ \A r \in Counting : r # s => streams'[r] = streams[r] /\ Announced(r)' = Announced(r)
<1>1. s \in Streams /\ Counting \subseteq Streams /\ e \in Messages
  BY DEF WorkloadAssumption, Counting, Messages
<1>2. PICK l \in Nat :
        /\ l = Len(streams[s]) /\ Len(streams'[s]) = l + 1
        /\ streams'[s][l + 1] = e
        /\ \A k \in 1..l : streams'[s][k] = streams[s][k]
  <2>1. /\ Len(streams[s]) \in Nat /\ Len(streams'[s]) = Len(streams[s]) + 1
        /\ streams'[s][Len(streams[s]) + 1] = e
        /\ \A k \in 1..Len(streams[s]) : streams'[s][k] = streams[s][k]
    BY <1>1, PublishingAppends DEF StreamInv
  <2> QED
    BY <2>1
<1>3. \A r \in Streams : r # s => streams'[r] = streams[r]
  BY <1>1, PublishingAppends DEF StreamInv
<1>4. \A k : k \in 1..(l + 1) <=> k \in 1..l \/ k = l + 1
  OBVIOUS
<1>5. \A k \in 1..l : streams[s][k].inc # e.inc
  BY <1>2 DEF Announced
<1>6. Announced(s)' = Announced(s) \cup {e.inc}
  BY <1>2, <1>4, SMTT(60) DEF Announced
<1>7. AnnouncedOnce(s)'
  <2>1. ASSUME NEW j \in 1..(l + 1), NEW k \in 1..(l + 1), streams'[s][j].inc = streams'[s][k].inc
        PROVE  j = k
    <3>1. CASE j \in 1..l /\ k \in 1..l
      BY <1>2, <2>1, <3>1 DEF AnnouncedOnce
    <3>2. CASE j \in 1..l /\ k = l + 1
      BY <1>2, <1>5, <2>1, <3>2
    <3>3. CASE j = l + 1 /\ k \in 1..l
      BY <1>2, <1>5, <2>1, <3>3
    <3> QED
      BY <1>4, <3>1, <3>2, <3>3
  <2> QED
    BY <1>2, <2>1 DEF AnnouncedOnce
<1>8. \A r \in Counting : r # s => streams'[r] = streams[r] /\ Announced(r)' = Announced(r)
  BY <1>1, <1>3 DEF Announced
<1> QED
  BY <1>2, <1>4, <1>6, <1>7, <1>8

\* What the announcements say goes on to fit the incidents while both stay.
LEMMA FitsStay ==
    ASSUME NEW e, EntryFits(e), stage'[e.inc] = stage[e.inc], team'[e.inc] = team[e.inc],
           drifted \subseteq drifted'
    PROVE  EntryFits(e)'
BY DEF EntryFits

LEMMA QuietAnnouncements ==
    ASSUME AnnounceInv, \A s \in Counting : streams'[s] = streams[s],
           \A s \in Counting : \A k \in 1..Len(streams[s]) : EntryFits(streams[s][k])',
           \A s \in Counting, i \in Incidents : <<s, i>> \in outbox' => i \notin Announced(s),
           \A i \in Incidents : i \in Announced("resolved") => stage'[i] = "resolved",
           \A i \in Incidents : stage'[i] \in Announcing =>
               i \in Announced("assigned") \/ <<"assigned", i>> \in outbox' \/ team'[i] \in drifted',
           \A i \in Incidents : stage'[i] = "resolved" =>
               i \in Announced("resolved") \/ <<"resolved", i>> \in outbox' \/ team'[i] \in drifted',
           IsFiniteSet({i \in Incidents : stage'[i] # "none"})
    PROVE  AnnounceInv'
<1>1. \A s \in Counting : Announced(s)' = Announced(s) /\ (AnnouncedOnce(s) => AnnouncedOnce(s)')
  BY DEF Announced, AnnouncedOnce
<1>2. "assigned" \in Counting /\ "resolved" \in Counting
  BY DEF Counting
<1>3. \A s \in Counting : \A k \in 1..Len(streams'[s]) : EntryFits(streams[s][k])'
  OBVIOUS
<1> QED
  BY <1>1, <1>2, <1>3 DEF AnnounceInv, ToldOrLost

LEMMA StartedFinite ==
    ASSUME WorkType, IsFiniteSet({i \in Incidents : stage[i] # "none"}),
           NEW i \in Incidents, NEW st \in Stages \ {"none"}, stage' = [stage EXCEPT ![i] = st]
    PROVE  IsFiniteSet({j \in Incidents : stage'[j] # "none"})
<1>1. {j \in Incidents : stage'[j] # "none"} = {j \in Incidents : stage[j] # "none"} \cup {i}
  BY DEF WorkType, StagesFit
<1> QED
  BY <1>1, FS_AddElement

LEMMA AnnounceKept ==
    ASSUME StreamInv, WorkType, WorkloadAssumption, AnnounceInv, [WNext]_wvars
    PROVE  AnnounceInv'
<1> USE DEF Announcing
<1>1. "assigned" \in Counting /\ "resolved" \in Counting /\ Counting \subseteq Streams
  BY DEF Counting, WorkloadAssumption
<1>2. drifted \subseteq drifted'
  BY DriftGrows
<1>3. /\ stage \in [Incidents -> Stages] /\ team \in [Incidents -> Teams \cup {NoTeam}]
  BY DEF WorkType, StagesFit
<1>4. ASSUME NEW s \in Counting, NEW k \in 1..Len(streams[s])
      PROVE  EntryFits(streams[s][k]) /\ streams[s][k].inc \in Announced(s)
  BY <1>4 DEF AnnounceInv, Announced
<1>5. /\ \A s \in Counting, i \in Incidents : <<s, i>> \in outbox => i \notin Announced(s)
      /\ \A i \in Incidents : i \in Announced("resolved") => stage[i] = "resolved"
      /\ \A i \in Incidents : stage[i] \in Announcing =>
             i \in Announced("assigned") \/ <<"assigned", i>> \in outbox \/ team[i] \in drifted
      /\ \A i \in Incidents : stage[i] = "resolved" =>
             i \in Announced("resolved") \/ <<"resolved", i>> \in outbox \/ team[i] \in drifted
      /\ IsFiniteSet({i \in Incidents : stage[i] # "none"})
  BY DEF AnnounceInv, ToldOrLost
<1>6. CASE NothingAnnounced
  <2>1. \A s \in Counting : \A k \in 1..Len(streams[s]) : EntryFits(streams[s][k])'
    BY <1>2, <1>4, <1>6 DEF NothingAnnounced, EntryFits
  <2>2. \A i \in Incidents : stage'[i] \in Announcing =>
             i \in Announced("assigned") \/ <<"assigned", i>> \in outbox' \/ team'[i] \in drifted'
    BY <1>1, <1>2, <1>5, <1>6 DEF NothingAnnounced
  <2>3. \A i \in Incidents : stage'[i] = "resolved" =>
             i \in Announced("resolved") \/ <<"resolved", i>> \in outbox' \/ team'[i] \in drifted'
    BY <1>1, <1>2, <1>5, <1>6 DEF NothingAnnounced
  <2> QED
    BY <1>5, <1>6, <2>1, <2>2, <2>3, QuietAnnouncements DEF NothingAnnounced
<1>7. ASSUME NEW i \in Incidents, stage[i] \in {"none", "asking", "unassigned"}
      PROVE  /\ \A s \in Counting : \A k \in 1..Len(streams[s]) : streams[s][k].inc # i
             /\ \A s \in Counting : i \notin Announced(s)
  <2>1. \A s \in Counting : \A k \in 1..Len(streams[s]) : streams[s][k].inc # i
    BY <1>4, <1>7 DEF EntryFits
  <2> QED
    BY <2>1 DEF Announced
<1>8. ASSUME NEW i \in Incidents, NotAnnounced(i)
      PROVE  AnnounceInv'
  <2>1. PICK st \in {"asking", "unassigned", "gone"} : stage' = [stage EXCEPT ![i] = st]
    BY <1>8 DEF NotAnnounced
  <2>2. stage[i] \in {"none", "asking"} /\ team' = team /\ outbox' = outbox /\ streams' = streams
    BY <1>8 DEF NotAnnounced
  <2>3. \A s \in Counting : \A k \in 1..Len(streams[s]) : streams[s][k].inc # i
    BY <1>7, <2>2
  <2>4. \A s \in Counting : \A k \in 1..Len(streams[s]) : EntryFits(streams[s][k])'
    BY <1>2, <1>4, <2>1, <2>2, <2>3 DEF EntryFits
  <2>5. \A j \in Incidents : j # i => stage'[j] = stage[j]
    BY <1>3, <2>1
  <2>6. stage'[i] \notin Announcing /\ i \notin Announced("resolved")
    BY <1>1, <1>3, <1>7, <2>1, <2>2
  <2>7. IsFiniteSet({j \in Incidents : stage'[j] # "none"})
    BY <1>5, <2>1, StartedFinite DEF Stages
  <2>8. /\ \A j \in Incidents : j \in Announced("resolved") => stage'[j] = "resolved"
        /\ \A j \in Incidents : stage'[j] \in Announcing =>
             j \in Announced("assigned") \/ <<"assigned", j>> \in outbox' \/ team'[j] \in drifted'
        /\ \A j \in Incidents : stage'[j] = "resolved" =>
             j \in Announced("resolved") \/ <<"resolved", j>> \in outbox' \/ team'[j] \in drifted'
    BY <1>2, <1>5, <2>2, <2>5, <2>6
  <2> QED
    BY <1>5, <2>2, <2>4, <2>7, <2>8, QuietAnnouncements
<1>9. ASSUME NEW i \in Incidents, Settled(i)
      PROVE  AnnounceInv'
  <2>1. PICK st \in {"assigned", "gone"} :
            stage' = [stage EXCEPT ![i] = st] /\ (st = "gone" => team[i] \in drifted')
    BY <1>9 DEF Settled
  <2>2. stage[i] = "uncommitted" /\ team' = team /\ outbox' = outbox /\ streams' = streams
    BY <1>9 DEF Settled
  <2>3. \A s \in Counting : \A k \in 1..Len(streams[s]) : EntryFits(streams[s][k])'
    BY <1>2, <1>3, <1>4, <2>1, <2>2 DEF EntryFits
  <2>4. \A j \in Incidents : j # i => stage'[j] = stage[j]
    BY <1>3, <2>1
  <2>5. stage'[i] # "resolved" /\ i \notin Announced("resolved")
    BY <1>3, <1>5, <2>1, <2>2
  <2>6. IsFiniteSet({j \in Incidents : stage'[j] # "none"})
    BY <1>5, <2>1, StartedFinite DEF Stages
  <2>7. /\ \A j \in Incidents : j \in Announced("resolved") => stage'[j] = "resolved"
        /\ \A j \in Incidents : stage'[j] \in Announcing =>
             j \in Announced("assigned") \/ <<"assigned", j>> \in outbox' \/ team'[j] \in drifted'
        /\ \A j \in Incidents : stage'[j] = "resolved" =>
             j \in Announced("resolved") \/ <<"resolved", j>> \in outbox' \/ team'[j] \in drifted'
    BY <1>2, <1>5, <2>2, <2>4, <2>5
  <2> QED
    BY <1>5, <2>2, <2>3, <2>6, <2>7, QuietAnnouncements
<1>10. ASSUME NEW i \in Incidents, NEW t \in Teams, AssignByHand(i, t)
       PROVE  AnnounceInv'
  <2>1. /\ stage[i] = "unassigned" /\ stage' = [stage EXCEPT ![i] = "assigned"]
        /\ team' = [team EXCEPT ![i] = t] /\ outbox' = outbox \cup {<<"assigned", i>>}
        /\ streams' = streams
    BY <1>10 DEF AssignByHand, streamVars
  <2>2. /\ \A s \in Counting : \A k \in 1..Len(streams[s]) : streams[s][k].inc # i
        /\ \A s \in Counting : i \notin Announced(s)
    BY <1>7, <2>1
  <2>3. \A s \in Counting : \A k \in 1..Len(streams[s]) : EntryFits(streams[s][k])'
    BY <1>2, <1>3, <1>4, <2>1, <2>2 DEF EntryFits
  <2>4. \A j \in Incidents : j # i => stage'[j] = stage[j] /\ team'[j] = team[j]
    BY <1>3, <2>1
  <2>5. stage'[i] # "resolved" /\ i \notin Announced("resolved") /\ <<"assigned", i>> \in outbox'
    BY <1>1, <1>3, <2>1, <2>2
  <2>6. IsFiniteSet({j \in Incidents : stage'[j] # "none"})
    BY <1>5, <2>1, StartedFinite DEF Stages
  <2>7. \A s \in Counting, j \in Incidents : <<s, j>> \in outbox' => j \notin Announced(s)
    BY <1>5, <2>1, <2>2
  <2>8. /\ \A j \in Incidents : j \in Announced("resolved") => stage'[j] = "resolved"
        /\ \A j \in Incidents : stage'[j] \in Announcing =>
             j \in Announced("assigned") \/ <<"assigned", j>> \in outbox' \/ team'[j] \in drifted'
        /\ \A j \in Incidents : stage'[j] = "resolved" =>
             j \in Announced("resolved") \/ <<"resolved", j>> \in outbox' \/ team'[j] \in drifted'
    BY <1>2, <1>5, <2>1, <2>4, <2>5
  <2> QED
    BY <2>1, <2>3, <2>6, <2>7, <2>8, QuietAnnouncements
<1>11. ASSUME NEW i \in Incidents, ResolveIncident(i)
       PROVE  AnnounceInv'
  <2>1. /\ stage[i] = "assigned" /\ stage' = [stage EXCEPT ![i] = "resolved"] /\ team' = team
        /\ outbox' = outbox \cup {<<"resolved", i>>} /\ streams' = streams
    BY <1>11 DEF ResolveIncident, streamVars
  <2>2. i \notin Announced("resolved")
    BY <1>5, <2>1
  <2>3. \A s \in Counting : \A k \in 1..Len(streams[s]) : EntryFits(streams[s][k])'
    BY <1>2, <1>3, <1>4, <2>1 DEF EntryFits
  <2>4. stage'[i] = "resolved" /\ \A j \in Incidents : j # i => stage'[j] = stage[j]
    BY <1>3, <2>1
  <2>5. IsFiniteSet({j \in Incidents : stage'[j] # "none"})
    BY <1>5, <2>1, StartedFinite DEF Stages
  <2>6. \A s \in Counting, j \in Incidents : <<s, j>> \in outbox' => j \notin Announced(s)
    BY <1>5, <2>1, <2>2
  <2>7. /\ \A j \in Incidents : j \in Announced("resolved") => stage'[j] = "resolved"
        /\ \A j \in Incidents : stage'[j] \in Announcing =>
             j \in Announced("assigned") \/ <<"assigned", j>> \in outbox' \/ team'[j] \in drifted'
        /\ \A j \in Incidents : stage'[j] = "resolved" =>
             j \in Announced("resolved") \/ <<"resolved", j>> \in outbox' \/ team'[j] \in drifted'
    BY <1>2, <1>5, <2>1, <2>4
  <2> QED
    BY <2>1, <2>3, <2>5, <2>6, <2>7, QuietAnnouncements
<1>12. ASSUME NEW s \in Counting, NEW i \in Incidents, NEW e \in Message(s), Published(s, e),
              e.inc = i, i \notin Announced(s), EntryFits(e)',
              \A j \in Incidents : j # i => stage'[j] = stage[j] /\ team'[j] = team[j],
              \A d : EntryFits(d) /\ d.inc = i => EntryFits(d)',
              IsFiniteSet({j \in Incidents : stage'[j] # "none"}), outbox' \subseteq outbox,
              <<s, i>> \notin outbox',
              \A r \in Counting, j \in Incidents :
                  <<r, j>> \in outbox => <<r, j>> \in outbox' \/ (r = s /\ j = i),
              s = "resolved" \/ i \in Announced("resolved") => stage'[i] = "resolved",
              stage'[i] \in Announcing => s = "assigned" \/ ToldOrLost("assigned", i),
              stage'[i] = "resolved" => s = "resolved" \/ ToldOrLost("resolved", i),
              team'[i] = team[i] \/ (stage'[i] = "uncommitted" /\ s = "assigned")
       PROVE  AnnounceInv'
  <2> HIDE DEF Announcing
  <2>1. AnnouncedOnce(s)
    BY DEF AnnounceInv
  <2>2. /\ \A k \in 1..Len(streams'[s]) :
               streams'[s][k] = e \/ (k \in 1..Len(streams[s]) /\ streams'[s][k] = streams[s][k])
        /\ Announced(s)' = Announced(s) \cup {e.inc}
        /\ AnnouncedOnce(s)'
        /\ \A r \in Counting : r # s => streams'[r] = streams[r] /\ Announced(r)' = Announced(r)
    BY <1>12, <2>1, NewlyAnnounced
  <2>3. \A r \in Counting : AnnouncedOnce(r)'
    BY <2>2 DEF AnnounceInv, AnnouncedOnce
  <2>4. ASSUME NEW r \in Counting, NEW k \in 1..Len(streams[r]), NEW d, d = streams[r][k]
        PROVE  EntryFits(d)'
    <3>1. d.inc \in Incidents
      BY <1>1, <2>4, MessageNamesIncidentAndTeam DEF StreamInv
    <3> QED
      BY <1>2, <1>4, <1>12, <2>4, <3>1, FitsStay
  <2>5. ASSUME NEW r \in Counting, NEW k \in 1..Len(streams'[r]), NEW d, d = streams'[r][k]
        PROVE  EntryFits(d)'
    <3>1. d = e \/ (k \in 1..Len(streams[r]) /\ d = streams[r][k])
      BY <2>2, <2>5
    <3> QED
      BY <1>12, <2>4, <3>1
  <2>6. \A r \in Counting : \A k \in 1..Len(streams'[r]) : EntryFits(streams[r][k])'
    BY <2>5 DEF EntryFits
  <2>7. ASSUME NEW r \in Counting, NEW j \in Incidents, <<r, j>> \in outbox'
        PROVE  j \notin Announced(r)'
    <3>1. j \notin Announced(r) /\ (r = s => j # i)
      BY <1>5, <1>12, <2>7
    <3> QED
      BY <1>12, <2>2, <3>1
  <2>8. \A r \in Counting : r = s \/ Announced(r)' = Announced(r)
    BY <2>2
  <2>9. ASSUME NEW j \in Incidents, j \in Announced("resolved")'
        PROVE  stage'[j] = "resolved"
    BY <1>1, <1>5, <1>12, <2>2, <2>8, <2>9
  <2>10. ASSUME NEW r \in Counting, NEW j \in Incidents, ToldOrLost(r, j),
                j # i \/ team'[j] = team[j]
         PROVE  ToldOrLost(r, j)'
    <3>1. team'[j] = team[j]
      BY <1>12, <2>10
    <3>2. j \in Announced(r) => j \in Announced(r)'
      BY <2>2, <2>8
    <3>3. <<r, j>> \in outbox => <<r, j>> \in outbox' \/ j \in Announced(r)'
      BY <1>12, <2>2
    <3> QED
      BY <1>2, <2>10, <3>1, <3>2, <3>3 DEF ToldOrLost
  <2>11. ToldOrLost(s, i)'
    BY <1>12, <2>2 DEF ToldOrLost
  <2>12. \A j \in Incidents : stage'[j] \in Announcing => ToldOrLost("assigned", j)'
    <3>1. \A j \in Incidents : stage[j] \in Announcing => ToldOrLost("assigned", j)
      BY DEF AnnounceInv
    <3>2. team'[i] # team[i] => s = "assigned"
      BY <1>12
    <3> QED
      BY <1>1, <1>12, <2>10, <2>11, <3>1, <3>2
  <2>13. \A j \in Incidents : stage'[j] = "resolved" => ToldOrLost("resolved", j)'
    <3>1. \A j \in Incidents : stage[j] = "resolved" => ToldOrLost("resolved", j)
      BY DEF AnnounceInv
    <3> QED
      BY <1>1, <1>12, <2>10, <2>11, <3>1
  <2> QED
    BY <1>12, <2>3, <2>6, <2>7, <2>9, <2>12, <2>13 DEF AnnounceInv
<1>13. ASSUME NEW i \in Incidents, NEW t \in Teams, Received(i, t)
       PROVE  AnnounceInv'
  <2>1. /\ stage[i] = "asking" /\ stage' = [stage EXCEPT ![i] = "uncommitted"]
        /\ team' = [team EXCEPT ![i] = t] /\ outbox' = outbox
    BY <1>13 DEF Received
  <2>2. PICK e : e = Event(i, t, "ai")
    OBVIOUS
  <2>3. e.inc = i /\ e.team = t /\ e \in Message("assigned") /\ Published("assigned", e)
    BY <1>13, <2>2 DEF Received, Event, Message, Counting
  <2>4. i \notin Announced("assigned") /\ i \notin Announced("resolved")
    BY <1>1, <1>7, <2>1
  <2>5. EntryFits(e)'
    BY <1>3, <2>1, <2>3 DEF EntryFits
  <2>6. IsFiniteSet({j \in Incidents : stage'[j] # "none"})
    BY <1>5, <2>1, StartedFinite DEF Stages
  <2>7. /\ stage'[i] = "uncommitted"
        /\ \A j \in Incidents : j # i => stage'[j] = stage[j] /\ team'[j] = team[j]
    BY <1>3, <2>1
  <2>8. \A d : EntryFits(d) => d.inc # i
    BY <2>1 DEF EntryFits
  <2>9. <<"assigned", i>> \notin outbox
    BY <1>1, <2>1 DEF WorkType, StagesFit, DueIn
  <2> QED
    BY <1>1, <1>12, <2>1, <2>3, <2>4, <2>5, <2>6, <2>7, <2>8, <2>9
<1>14. ASSUME NEW s \in Counting, NEW i \in Incidents, Announce(s, i)
       PROVE  AnnounceInv'
  <2>1. /\ <<s, i>> \in outbox /\ outbox' = outbox \ {<<s, i>>}
        /\ stage' = stage /\ team' = team /\ drifted' = drifted
    BY <1>14 DEF Announce
  <2>2. PICK e : e = Event(i, team[i], "hand")
    OBVIOUS
  <2>3. stage[i] \in DueIn(s) /\ stage[i] \in Announcing /\ team[i] \in Teams
    BY <2>1 DEF WorkType, StagesFit, DueIn
  <2>4. e.inc = i /\ e.team = team[i] /\ e \in Message(s) /\ Published(s, e)
    BY <1>14, <2>2, <2>3 DEF Announce, Event, Message, Counting
  <2>5. i \notin Announced(s)
    BY <1>5, <2>1
  <2>6. EntryFits(e)'
    BY <2>1, <2>3, <2>4 DEF EntryFits
  <2>7. \A d : EntryFits(d) => EntryFits(d)'
    BY <2>1 DEF EntryFits
  <2>8. s = "resolved" \/ i \in Announced("resolved") => stage'[i] = "resolved"
    BY <1>5, <2>1, <2>3 DEF DueIn
  <2>9. /\ stage'[i] \in Announcing => ToldOrLost("assigned", i)
        /\ stage'[i] = "resolved" => ToldOrLost("resolved", i)
    BY <2>1 DEF AnnounceInv
  <2> QED
    BY <1>5, <1>12, <2>1, <2>4, <2>5, <2>6, <2>7, <2>8, <2>9
<1> QED
  BY <1>6, <1>8, <1>9, <1>10, <1>11, <1>13, <1>14, WorldShapes

-----------------------------------------------------------------------------
(* The counter.                                                            *)

LEMMA TaskPosition ==
    ASSUME StreamInv, NEW s \in Streams
    PROVE  /\ TaskInBatch(s) /\ phase[s] \in Phases
           /\ next[s] \in Nat /\ delivered[s] \in Nat /\ latest[s] \in Nat /\ Len(streams[s]) \in Nat
BY DEF StreamInv, LoopInv

LEMMA SameBooks ==
    ASSUME NEW s, NEW t, streams'[s] = streams[s],
           \A k \in 1..Len(streams[s]) :
               streams[s][k].team = t => (Handled(s, k)' <=> Handled(s, k))
    PROVE  Booked(s, t)' = Booked(s, t)
BY DEF Booked

\* A task that starts a handler, reads, or acknowledges leaves nothing behind; what it does leave
\* behind unhandled upsets the team.
LEMMA BooksStay ==
    ASSUME StreamInv, WorkloadAssumption, NEW r \in Streams,
           \/ StartHandler(r) \/ Advance(r) \/ LoseAnswer(r) \/ HandlerFails(r)
           \/ r \notin Counting /\ Complete(r) /\ UNCHANGED streams
           \/ r = "assigned" /\ AssignedBeforeProfile,
           NEW s \in Counting, NEW t \in Teams \ drifted'
    PROVE  Booked(s, t)' = Booked(s, t)
<1>1. s \in Streams /\ streams' = streams
  BY DEF Counting, WorkloadAssumption, StartHandler, Advance, LoseAnswer, HandlerFails,
     AssignedBeforeProfile, Start, Read, Ack, AckFails, ReadFails, Raise
<1>2. /\ TaskInBatch(s) /\ phase[s] \in Phases
      /\ next[s] \in Nat /\ delivered[s] \in Nat /\ latest[s] \in Nat /\ Len(streams[s]) \in Nat
  BY <1>1, TaskPosition
<1>3. phase \in [Streams -> Phases] /\ next \in [Streams -> Nat]
  BY DEF StreamInv, LoopInv
<1>4. CASE r # s
  <2>1. phase'[s] = phase[s] /\ next'[s] = next[s]
    BY <1>1, <1>3, <1>4 DEF StartHandler, Advance, LoseAnswer, HandlerFails, AssignedBeforeProfile,
       Start, Read, Ack, AckFails, ReadFails, Raise, Complete
  <2> QED
    BY <1>1, <2>1, SameBooks DEF Handled
<1>5. CASE r = s
  <2>1. CASE StartHandler(s) \/ Read(s) \/ AckFails(s) \/ Ack(s)
    <3>1. \A k \in Nat : Handled(s, k)' <=> Handled(s, k)
      BY <1>1, <1>2, <1>3, <2>1 DEF StartHandler, Start, Read, AckFails, Ack, Handled, Deliverable
    <3> QED
      BY <1>1, <3>1, SameBooks
  <2>2. CASE LoseAnswer(s)
    <3>1. /\ delivered'[s] \in Nat /\ delivered'[s] <= Len(streams[s])
          /\ next' = [next EXCEPT ![s] = delivered'[s] + 1]
          /\ phase' = phase /\ phase[s] = "loop"
          /\ drifted' = drifted \cup Forgotten(s)
      BY <1>1, <2>2, DeliverAdvances DEF LoseAnswer, ReadFails, Deliverable, StreamInv
    <3>2. \A k \in next[s]..delivered'[s] : streams[s][k].team # t
      <4>1. latest[s] < next[s]
        BY <1>2, <3>1 DEF TaskInBatch
      <4> QED
        BY <1>2, <3>1, <4>1 DEF Forgotten, Counting
    <3>3. ASSUME NEW k \in 1..Len(streams[s]), streams[s][k].team = t
          PROVE  Handled(s, k)' <=> Handled(s, k)
      <4>1. k \in Nat /\ next'[s] = delivered'[s] + 1 /\ phase'[s] = "loop"
        BY <1>1, <1>2, <1>3, <3>1
      <4>2. k \notin next[s]..delivered'[s]
        BY <3>2, <3>3
      <4>3. next[s] <= delivered'[s] + 1
        BY <1>1, <2>2, <3>1, DeliverAdvances, <1>2 DEF TaskInBatch, LoseAnswer, ReadFails, StreamInv
      <4> QED
        BY <1>2, <3>1, <4>1, <4>2, <4>3 DEF Handled
    <3> QED
      BY <1>1, <3>3, SameBooks
  <2>3. CASE Raise(s) /\ Current(s).team \in drifted'
    <3>1. ASSUME NEW k \in 1..Len(streams[s]), streams[s][k].team = t
          PROVE  Handled(s, k)' <=> Handled(s, k)
      <4>1. k # next[s]
        BY <2>3, <3>1 DEF Current
      <4> QED
        BY <1>1, <1>3, <2>3, <4>1 DEF Raise, Handled
    <3> QED
      BY <1>1, <3>1, SameBooks
  <2>4. HandlerFails(s) => Raise(s) /\ Current(s).team \in drifted'
    BY DEF HandlerFails, Counting
  <2>5. AssignedBeforeProfile => Raise("assigned") /\ Current("assigned").team \in drifted'
    BY DEF AssignedBeforeProfile
  <2> QED
    BY <1>5, <2>1, <2>2, <2>3, <2>4, <2>5 DEF Advance
<1> QED
  BY <1>4, <1>5

LEMMA CrashBooks ==
    ASSUME StreamInv, WorkloadAssumption, Crash, NEW s \in Counting, NEW t \in Teams \ drifted'
    PROVE  Booked(s, t)' = Booked(s, t)
<1>1. s \in Streams
  BY DEF Counting, WorkloadAssumption
<1>2. /\ TaskInBatch(s) /\ phase[s] \in Phases
      /\ next[s] \in Nat /\ delivered[s] \in Nat /\ latest[s] \in Nat /\ Len(streams[s]) \in Nat
  BY <1>1, TaskPosition
<1>3. /\ streams' = streams /\ delivered'[s] = delivered[s]
      /\ next'[s] = delivered[s] + 1 /\ phase'[s] = "loop"
  BY <1>1 DEF Crash, Restart
<1>4. Forgotten(s) \subseteq drifted'
  BY <1>1 DEF Crash
<1>5. \A k \in next[s]..delivered[s] : k > latest[s] => streams[s][k].team # t
  BY <1>3, <1>4 DEF Forgotten, Counting
<1>6. ASSUME NEW k \in 1..Len(streams[s]), streams[s][k].team = t
      PROVE  Handled(s, k)' <=> Handled(s, k)
  <2>1. k \in Nat /\ (k \in next[s]..delivered[s] => k <= latest[s])
    BY <1>2, <1>5, <1>6
  <2>2. Handled(s, k)' <=> k <= delivered[s]
    BY <1>2, <1>3, <2>1 DEF Handled
  <2>3. Handled(s, k) <=> k < next[s] \/ (k = next[s] /\ phase[s] \in {"acking", "dead"})
    BY DEF Handled
  <2> QED
    BY <1>2, <2>1, <2>2, <2>3 DEF TaskInBatch, Phases
<1> QED
  BY <1>3, <1>6, SameBooks

\* What is published is not handled yet.
LEMMA PublishingBooks ==
    ASSUME StreamInv, NEW r \in Streams, NEW e \in Message(r), Published(r, e), UNCHANGED consumer,
           NEW s \in Counting, NEW t, s \in Streams
    PROVE  Booked(s, t)' = Booked(s, t)
<1>1. e \in Messages
  BY DEF Messages
<1>2. CASE s # r
  <2>1. streams'[s] = streams[s]
    BY <1>1, <1>2, PublishingAppends DEF StreamInv
  <2> QED
    BY <2>1, SameBooks DEF Handled, consumer
<1>3. CASE s = r
  <2>1. PICK l \in Nat : l = Len(streams[s])
    BY TaskPosition
  <2>2. Len(streams'[s]) = l + 1 /\ \A k \in 1..l : streams'[s][k] = streams[s][k]
    BY <1>1, <1>3, <2>1, PublishingAppends DEF StreamInv
  <2>3. ~Handled(s, l + 1)
    <3>1. /\ TaskInBatch(s) /\ phase[s] \in Phases /\ next[s] \in Nat /\ delivered[s] \in Nat
      BY TaskPosition
    <3> QED
      BY <2>1, <3>1 DEF TaskInBatch, Handled
  <2>4. \A k : Handled(s, k)' <=> Handled(s, k)
    BY DEF Handled, consumer
  <2>5. \A k : k \in 1..(l + 1) <=> k \in 1..l \/ k = l + 1
    BY <2>1
  <2> QED
    BY <2>1, <2>2, <2>3, <2>4, <2>5 DEF Booked
<1> QED
  BY <1>2, <1>3

\* A handler that returns books its entry.
LEMMA CompletionBooks ==
    ASSUME StreamInv, WorkloadAssumption, AnnounceInv, NEW s \in Counting, Complete(s),
           streams' = streams, NEW t \in Teams
    PROVE  /\ Booked(s, t)' = Booked(s, t) \cup (IF Current(s).team = t THEN {Current(s).inc} ELSE {})
           /\ Current(s).inc \notin Booked(s, t)
           /\ \A r \in Counting : r # s => Booked(r, t)' = Booked(r, t)
<1>1. s \in Streams /\ Counting \subseteq Streams
  BY DEF Counting, WorkloadAssumption
<1>2. /\ TaskInBatch(s) /\ phase[s] = "handling"
      /\ next[s] \in Nat /\ delivered[s] \in Nat /\ Len(streams[s]) \in Nat
  BY <1>1, TaskPosition DEF Complete
<1>3. next[s] \in 1..Len(streams[s]) /\ Current(s) \in Message(s)
  BY <1>1, <1>2, CurrentIsPublished
<1>4. Current(s).inc \in Incidents /\ Current(s) = streams[s][next[s]]
  BY <1>3, MessageNamesIncidentAndTeam DEF Current
<1>5. \A k : Handled(s, k)' <=> Handled(s, k) \/ k = next[s]
  BY <1>1, <1>2 DEF Complete, Handled, StreamInv, LoopInv
<1>6. Booked(s, t)' = Booked(s, t) \cup (IF Current(s).team = t THEN {Current(s).inc} ELSE {})
  BY <1>3, <1>4, <1>5 DEF Booked
<1>7. ASSUME NEW k \in 1..Len(streams[s]), Handled(s, k)
      PROVE  streams[s][k].inc # Current(s).inc
  <2>1. k # next[s]
    BY <1>2, <1>7 DEF Handled
  <2> QED
    BY <1>3, <1>4, <2>1 DEF AnnounceInv, AnnouncedOnce
<1>8. Current(s).inc \notin Booked(s, t)
  BY <1>7 DEF Booked
<1>9. ASSUME NEW r \in Counting, r # s
      PROVE  Booked(r, t)' = Booked(r, t)
  <2>1. phase'[r] = phase[r] /\ next'[r] = next[r]
    BY <1>1, <1>9 DEF Complete, StreamInv, LoopInv
  <2> QED
    BY <2>1, SameBooks DEF Handled
<1> QED
  BY <1>6, <1>8, <1>9

LEMMA BookedFinite ==
    ASSUME AnnounceInv, NEW s \in Counting, NEW t
    PROVE  IsFiniteSet(Booked(s, t)) /\ Cardinality(Booked(s, t)) \in Nat
<1>1. Booked(s, t) \subseteq {i \in Incidents : stage[i] # "none"}
  BY DEF Booked, AnnounceInv, EntryFits, Announcing
<1> QED
  BY <1>1, FS_Subset, FS_CardinalityType DEF AnnounceInv

\* Users and answers touch neither the counts nor the tasks.
LEMMA CallersOnlyPublish ==
    ASSUME WorkType, WorkloadAssumption,
           \/ \E i \in Incidents : Assigning(i) \/ Users(i)
           \/ \E t \in Teams, active \in BOOLEAN : EditPersonnel(t, active)
    PROVE  /\ load' = load
           /\ \/ UNCHANGED <<streams, consumer>>
              \/ \E s \in Streams : \E e \in Message(s) : Published(s, e) /\ UNCHANGED consumer
<1>1. load' = load
  BY CallersLeaveReadModel, ZenonT(30) DEF readModel
<1>2. ASSUME NEW i \in Incidents, Assigning(i)
      PROVE  UNCHANGED <<streams, consumer>> \/ (ReceiveTeam(i) /\ streams' # streams)
  BY <1>2 DEF Assigning, LogChoice, ReadWorkload, TimeOut, Abort, ReceiveTeam, streamVars
<1>3. ASSUME NEW i \in Incidents, Users(i)
      PROVE  \/ UNCHANGED <<streams, consumer>>
             \/ \E s \in Counting : Announce(s, i)
             \/ CorrectFaultType(i)
  BY <1>3 DEF Users, RequestTeam, CommitTelemetry, RollBack, AssignByHand, ResolveIncident,
     LoseAnnouncement, Counting, streamVars
<1> QED
  BY <1>1, <1>2, <1>3, PublishersPublishMessages

LEMMA CallersKeepBooks ==
    ASSUME StreamInv, WorkType, WorkloadAssumption,
           \/ \E i \in Incidents : Assigning(i) \/ Users(i)
           \/ \E t \in Teams, active \in BOOLEAN : EditPersonnel(t, active),
           NEW s \in Counting, NEW t \in Teams
    PROVE  Booked(s, t)' = Booked(s, t)
<1>1. s \in Streams
  BY DEF Counting, WorkloadAssumption
<1>2. CASE UNCHANGED <<streams, consumer>>
  BY <1>2, SameBooks DEF Handled, consumer
<1>3. ASSUME NEW r \in Streams, NEW e \in Message(r), Published(r, e), UNCHANGED consumer
      PROVE  Booked(s, t)' = Booked(s, t)
  BY <1>1, <1>3, PublishingBooks
<1> QED
  BY <1>2, <1>3, CallersOnlyPublish

LEMMA LoadUntouched ==
    ASSUME LoadInv, load' = load, drifted \subseteq drifted',
           \A s \in Counting, t \in Teams \ drifted' : Booked(s, t)' = Booked(s, t)
    PROVE  LoadInv'
BY DEF LoadInv, Count, Counting

\* One more is assigned: the count is set to one more than what was read, and what was read is
\* the count, or the team is marked.
LEMMA AssignedIsCounted ==
    ASSUME StreamInv, WorkType, WorkloadAssumption, AnnounceInv, LoadInv,
           handle_incident_assigned
    PROVE  LoadInv'
<1>1. "assigned" \in Counting /\ "resolved" \in Counting /\ "assigned" \in Streams
  BY DEF Counting, WorkloadAssumption
<1>2. PICK t, i : t = Current("assigned").team /\ i = Current("assigned").inc
  OBVIOUS
<1>3. /\ Complete("assigned") /\ streams' = streams
      /\ load' = [load EXCEPT ![t] = Count(snap["assigned"]) + 1]
      /\ drifted' = IF load[t] = snap["assigned"] THEN drifted ELSE drifted \cup {t}
  BY <1>2 DEF handle_incident_assigned, DriftIfStale
<1>4. ASSUME NEW u \in Teams \ drifted'
      PROVE  Count(load'[u]) + Cardinality(Booked("resolved", u)') = Cardinality(Booked("assigned", u)')
  <2>1. /\ Booked("assigned", u)' = Booked("assigned", u) \cup (IF t = u THEN {i} ELSE {})
        /\ i \notin Booked("assigned", u)
        /\ Booked("resolved", u)' = Booked("resolved", u)
    BY <1>1, <1>2, <1>3, CompletionBooks
  <2>2. IsFiniteSet(Booked("assigned", u)) /\ Cardinality(Booked("assigned", u)) \in Nat
        /\ Cardinality(Booked("resolved", u)) \in Nat
    BY <1>1, BookedFinite
  <2>3. u \notin drifted
        /\ Count(load[u]) + Cardinality(Booked("resolved", u)) = Cardinality(Booked("assigned", u))
    BY <1>3 DEF LoadInv
  <2>4. CASE u # t
    <3>1. load'[u] = load[u] /\ Booked("assigned", u)' = Booked("assigned", u)
      BY <1>3, <2>1, <2>4
    <3> QED
      BY <2>1, <2>3, <3>1
  <2>5. CASE u = t
    <3>1. load[u] = snap["assigned"] /\ load[u] \in Nat \cup {NoRow}
      BY <1>3, <2>5 DEF WorkType
    <3>2. Count(load[u]) \in Nat /\ load'[u] = Count(load[u]) + 1
      BY <1>3, <2>5, <3>1 DEF Count, WorkType
    <3>3. Count(load'[u]) = Count(load[u]) + 1
      BY <3>2, WorkloadAssumption DEF Count, WorkloadAssumption
    <3>4. Cardinality(Booked("assigned", u)') = Cardinality(Booked("assigned", u)) + 1
      BY <2>1, <2>2, <2>5, FS_AddElement
    <3> QED
      BY <2>1, <2>2, <2>3, <3>2, <3>3, <3>4
  <2> QED
    BY <2>4, <2>5
<1> QED
  BY <1>4 DEF LoadInv, Count

\* One more is resolved: the same, and what cannot be subtracted marks the team.
LEMMA ResolvedIsCounted ==
    ASSUME StreamInv, WorkType, WorkloadAssumption, AnnounceInv, LoadInv,
           handle_incident_resolved
    PROVE  LoadInv'
<1>1. "assigned" \in Counting /\ "resolved" \in Counting /\ "resolved" \in Streams
  BY DEF Counting, WorkloadAssumption
<1>2. PICK t, i, n : /\ t = Current("resolved").team /\ i = Current("resolved").inc
                     /\ n = Count(snap["resolved"])
  OBVIOUS
<1>3. n \in Nat
  BY <1>1, <1>2 DEF Count, WorkType
<1>4. /\ Complete("resolved") /\ streams' = streams
      /\ IF n > 0
         THEN /\ load' = [load EXCEPT ![t] = n - 1]
              /\ drifted' = IF load[t] = snap["resolved"] THEN drifted ELSE drifted \cup {t}
         ELSE drifted' = drifted \cup {t} /\ load' = load
  BY <1>2 DEF handle_incident_resolved, DriftIfStale
<1>5. ASSUME NEW u \in Teams \ drifted'
      PROVE  Count(load'[u]) + Cardinality(Booked("resolved", u)') = Cardinality(Booked("assigned", u)')
  <2>1. /\ Booked("resolved", u)' = Booked("resolved", u) \cup (IF t = u THEN {i} ELSE {})
        /\ i \notin Booked("resolved", u)
        /\ Booked("assigned", u)' = Booked("assigned", u)
    BY <1>1, <1>2, <1>4, CompletionBooks
  <2>2. IsFiniteSet(Booked("resolved", u)) /\ Cardinality(Booked("resolved", u)) \in Nat
        /\ Cardinality(Booked("assigned", u)) \in Nat
    BY <1>1, BookedFinite
  <2>3. u \notin drifted
        /\ Count(load[u]) + Cardinality(Booked("resolved", u)) = Cardinality(Booked("assigned", u))
    BY <1>4 DEF LoadInv
  <2>4. CASE u # t
    <3>1. load'[u] = load[u]
      BY <1>3, <1>4, <2>4 DEF WorkType
    <3>2. Booked("resolved", u)' = Booked("resolved", u)
      BY <2>1, <2>4
    <3> QED
      BY <2>1, <2>3, <3>1, <3>2
  <2>5. CASE u = t
    <3>1. n > 0 /\ load[u] = snap["resolved"]
      BY <1>4, <2>5
    <3>2. Count(load[u]) = n /\ load'[u] = n - 1
      BY <1>2, <1>4, <2>5, <3>1 DEF WorkType
    <3>3. Count(load'[u]) = n - 1 /\ n - 1 \in Nat
      BY <1>3, <3>1, <3>2, WorkloadAssumption DEF Count, WorkloadAssumption
    <3>4. Cardinality(Booked("resolved", u)') = Cardinality(Booked("resolved", u)) + 1
      BY <2>1, <2>2, <2>5, FS_AddElement
    <3> QED
      BY <1>3, <2>1, <2>2, <2>3, <3>2, <3>3, <3>4
  <2> QED
    BY <2>4, <2>5
<1> QED
  BY <1>5 DEF LoadInv, Count

LEMMA LoadKept ==
    ASSUME StreamInv, WorkType, WorkloadAssumption, AnnounceInv, LoadInv, [WNext]_wvars
    PROVE  LoadInv'
<1>1. drifted \subseteq drifted'
  BY DriftGrows
<1>2. "upserted" \in Streams \ Counting /\ "type_changed" \in Streams \ Counting /\ "assigned" \in Streams
  BY DEF WorkloadAssumption, Counting
<1>3. ASSUME NEW r \in Streams,
             StartHandler(r) \/ HandlerFails(r) \/ Advance(r) \/ LoseAnswer(r)
      PROVE  LoadInv'
  <2>1. load' = load
    BY <1>3 DEF StartHandler, HandlerFails, Advance, LoseAnswer, readModel
  <2>2. \A s \in Counting, t \in Teams \ drifted' : Booked(s, t)' = Booked(s, t)
    BY <1>3, BooksStay
  <2> QED
    BY <1>1, <2>1, <2>2, LoadUntouched
<1>4. CASE handle_personnel_upserted \/ handle_type_changed \/ AssignedBeforeProfile
  <2>1. load' = load
    BY <1>4 DEF handle_personnel_upserted, handle_type_changed, AssignedBeforeProfile, readModel
  <2>2. handle_personnel_upserted => Complete("upserted") /\ UNCHANGED streams
    BY DEF handle_personnel_upserted
  <2>3. handle_type_changed => Complete("type_changed") /\ UNCHANGED streams
    BY DEF handle_type_changed
  <2>4. \A s \in Counting, t \in Teams \ drifted' : Booked(s, t)' = Booked(s, t)
    BY <1>2, <1>4, <2>2, <2>3, BooksStay
  <2> QED
    BY <1>1, <2>1, <2>4, LoadUntouched
<1>5. CASE Crash
  <2>1. load' = load
    BY <1>5 DEF Crash, readModel
  <2> QED
    BY <1>1, <1>5, <2>1, CrashBooks, LoadUntouched
<1>6. CASE \/ \E i \in Incidents : Assigning(i) \/ Users(i)
           \/ \E t \in Teams, active \in BOOLEAN : EditPersonnel(t, active)
  BY <1>1, <1>6, CallersOnlyPublish, CallersKeepBooks, LoadUntouched
<1>7. CASE UNCHANGED wvars
  <2>1. /\ load' = load /\ streams' = streams /\ phase' = phase /\ next' = next
    BY <1>7 DEF wvars, streamVars, consumer, readModel
  <2>2. \A s, t : Booked(s, t)' = Booked(s, t)
    BY <2>1 DEF Booked, Handled
  <2> QED
    BY <1>1, <2>1, <2>2, LoadUntouched
<1> QED
  BY <1>3, <1>4, <1>5, <1>6, <1>7, AssignedIsCounted, ResolvedIsCounted DEF WNext, Handlers

\* Once all assignments are announced and lie behind the task, the open incidents of a team nothing
\* upset are among those assigned and not resolved, and its count is no less.
LEMMA OpenAreBooked ==
    ASSUME StreamInv, WorkType, WorkloadAssumption, AnnounceInv, LoadInv, NEW t \in Teams \ drifted,
           next["assigned"] > Len(streams["assigned"]),
           \A i \in Incidents : <<"assigned", i>> \notin outbox
    PROVE  /\ IsFiniteSet(Open(t)) /\ Cardinality(Open(t)) <= Count(load[t])
           /\ Counted /\ outbox = {} => Count(load[t]) = Cardinality(Open(t))
<1> USE DEF Announcing
<1>1. "assigned" \in Counting /\ "resolved" \in Counting /\ Counting \subseteq Streams
  BY DEF Counting, WorkloadAssumption
<1>2. ASSUME NEW s \in Counting, NEW k \in 1..Len(streams[s])
      PROVE  EntryFits(streams[s][k]) /\ streams[s][k].inc \in Announced(s)
             /\ streams[s][k].inc \in Incidents
  BY <1>1, <1>2, MessageNamesIncidentAndTeam DEF AnnounceInv, Announced, StreamInv
<1>3. ASSUME NEW s \in Counting, next[s] > Len(streams[s])
      PROVE  \A i : i \in Booked(s, t) <=> i \in Announced(s) /\ team[i] = t
  <2>1. next[s] \in Nat /\ Len(streams[s]) \in Nat
    BY <1>1, TaskPosition
  <2>2. \A k \in 1..Len(streams[s]) : Handled(s, k)
    BY <1>3, <2>1 DEF Handled
  <2>3. \A k \in 1..Len(streams[s]) : streams[s][k].team = team[streams[s][k].inc]
    BY <1>2 DEF EntryFits
  <2>4. ASSUME NEW i, i \in Announced(s), team[i] = t
        PROVE  i \in Booked(s, t)
    <3>1. PICK k \in 1..Len(streams[s]) : streams[s][k].inc = i
      BY <2>4 DEF Announced
    <3> QED
      BY <1>2, <2>2, <2>3, <2>4, <3>1 DEF Booked
  <2>5. ASSUME NEW i \in Booked(s, t)
        PROVE  i \in Announced(s) /\ team[i] = t
    BY <2>3 DEF Booked, Announced
  <2> QED
    BY <2>4, <2>5
<1>4. \A i : i \in Booked("assigned", t) <=> i \in Incidents /\ stage[i] \in Announcing /\ team[i] = t
  <2>1. \A i \in Announced("assigned") : i \in Incidents /\
            (team[i] = t => stage[i] \in Announcing)
    BY <1>1, <1>2 DEF Announced, EntryFits
  <2>2. ASSUME NEW i \in Incidents, stage[i] \in Announcing, team[i] = t
        PROVE  i \in Announced("assigned")
    <3>1. ToldOrLost("assigned", i)
      BY <2>2 DEF AnnounceInv
    <3> QED
      BY <2>2, <3>1 DEF ToldOrLost
  <2> QED
    BY <1>1, <1>3, <2>1, <2>2
<1>5. \A i \in Booked("resolved", t) : i \in Incidents /\ stage[i] = "resolved" /\ team[i] = t
  <2>1. \A i \in Booked("resolved", t) : i \in Announced("resolved") /\ team[i] = t
    BY <1>1, <1>2 DEF Booked, Announced, EntryFits
  <2> QED
    BY <2>1 DEF AnnounceInv, Booked
<1>6. Booked("resolved", t) \subseteq Booked("assigned", t)
  BY <1>4, <1>5
<1>7. PICK D : D = Booked("assigned", t) \ Booked("resolved", t)
  OBVIOUS
<1>8. /\ IsFiniteSet(Booked("assigned", t)) /\ Cardinality(Booked("assigned", t)) \in Nat
      /\ Cardinality(Booked("resolved", t)) \in Nat
  BY <1>1, BookedFinite
<1>9. /\ IsFiniteSet(D)
      /\ Cardinality(D) = Cardinality(Booked("assigned", t)) - Cardinality(Booked("resolved", t))
  <2>1. Booked("assigned", t) \cap Booked("resolved", t) = Booked("resolved", t)
    BY <1>6
  <2> QED
    BY <1>7, <1>8, <2>1, FS_Difference
<1>10. Cardinality(D) = Count(load[t])
  <2>1. Count(load[t]) + Cardinality(Booked("resolved", t)) = Cardinality(Booked("assigned", t))
    BY DEF LoadInv
  <2>2. Count(load[t]) \in Nat
    BY DEF WorkType, Count
  <2> QED
    BY <1>8, <1>9, <2>1, <2>2
<1>11. Open(t) \subseteq D
  BY <1>4, <1>5, <1>7 DEF Open
<1>12. Counted /\ outbox = {} => Open(t) = D
  <2>1. ASSUME Counted, outbox = {}, NEW i \in Incidents, stage[i] = "resolved", team[i] = t
        PROVE  i \in Booked("resolved", t)
    <3>1. i \in Announced("resolved")
      BY <2>1 DEF AnnounceInv, ToldOrLost
    <3> QED
      BY <1>1, <1>3, <2>1, <3>1 DEF Counted, Counting
  <2> QED
    BY <1>4, <1>5, <1>7, <2>1 DEF Open
<1> QED
  BY <1>9, <1>10, <1>11, <1>12, FS_Subset

\* handle_incident_assigned, handle_incident_resolved: at any moment, also between two events, the
\* count of a team nothing upset is what was assigned less what was resolved of the entries that
\* lie behind the two tasks; each incident is announced at most once to each stream, and what is
\* missing there is still to be published by its request or upset the team it names.
THEOREM WorkloadIsExact == WSpec => [](AnnounceInv /\ LoadInv)
<1>1. WInit => AnnounceInv /\ LoadInv
  <2> SUFFICES ASSUME WInit
               PROVE  AnnounceInv /\ LoadInv
    OBVIOUS
  <2>1. \A s \in Counting : Len(streams[s]) = 0
    BY WorkloadAssumption DEF WInit, ConsumerInit, WorkloadAssumption, Counting
  <2>2. {i \in Incidents : stage[i] # "none"} = {}
    BY DEF WInit
  <2>3. \A s \in Counting : Announced(s) = {} /\ \A t : Booked(s, t) = {}
    BY <2>1 DEF Announced, Booked
  <2>4. AnnounceInv
    <3>1. \A s \in Counting : AnnouncedOnce(s) /\ \A k \in 1..Len(streams[s]) : EntryFits(streams[s][k])
      BY <2>1 DEF AnnouncedOnce
    <3>2. outbox = {} /\ \A i \in Incidents : stage[i] = "none" /\ i \notin Announced("resolved")
      BY <2>3 DEF WInit, Counting
    <3>3. IsFiniteSet({i \in Incidents : stage[i] # "none"})
      BY <2>2, FS_EmptySet
    <3> QED
      BY <3>1, <3>2, <3>3 DEF AnnounceInv, Announcing
  <2>5. \A t \in Teams : Count(load[t]) = 0
    BY DEF WInit, Count
  <2> QED
    BY <2>3, <2>4, <2>5, FS_EmptySet DEF LoadInv, Counting
<1>2. StreamInv /\ WorkType /\ AnnounceInv /\ LoadInv /\ [WNext]_wvars => (AnnounceInv /\ LoadInv)'
  BY AnnounceKept, LoadKept, WorkloadAssumption
<1> QED
  BY <1>1, <1>2, WorkloadTypeCorrect, PTL DEF WSpec

\* consumers/handlers.py: the counters are read, changed and written by two tasks without a lock,
\* entries are lost and come out of order, requests fail between their commit and their
\* publication, and still, once nothing is left to publish or to consume, a count is the number of
\* open incidents unless one of the named things happened to the team.
THEOREM SettledLoadsAreExact == WSpec => []SettledLoadIsExact
<1>1. StreamInv /\ WorkType /\ AnnounceInv /\ LoadInv => SettledLoadIsExact
  <2>1. /\ Counted => next["assigned"] > Len(streams["assigned"])
        /\ outbox = {} => \A i \in Incidents : <<"assigned", i>> \notin outbox
    BY DEF Counted
  <2> QED
    BY <2>1, OpenAreBooked, WorkloadAssumption DEF SettledLoadIsExact
<1> QED
  BY <1>1, WorkloadTypeCorrect, WorkloadIsExact, PTL

-----------------------------------------------------------------------------
(* The capacity.                                                           *)

\* A task never goes back.
LEMMA TasksGoOn ==
    ASSUME StreamInv, WorkType, WorkloadAssumption, [WNext]_wvars, NEW s \in Streams
    PROVE  next'[s] >= next[s]
<1>1. TaskInBatch(s) /\ next[s] \in Nat /\ delivered[s] \in Nat
  BY TaskPosition
<1>2. next \in [Streams -> Nat]
  BY DEF StreamInv, LoopInv
<1>3. ASSUME NEW r \in Streams, LoopStep(r)
      PROVE  next'[s] >= next[s]
  <2>1. CASE ReadFails(r)
    <3>1. next' = [next EXCEPT ![r] = delivered'[r] + 1]
      BY <2>1 DEF ReadFails
    <3>2. delivered'[r] \in Nat /\ delivered'[r] > delivered[r] /\ delivered[r] \in Nat
      BY <2>1, DeliverAdvances DEF ReadFails, StreamInv, LoopInv
    <3>3. next[r] = delivered[r] + 1
      BY <2>1 DEF ReadFails, Deliverable
    <3> QED
      BY <1>1, <1>2, <3>1, <3>2, <3>3
  <2>2. CASE Ack(r)
    BY <1>1, <1>2, <2>2 DEF Ack
  <2> QED
    BY <1>1, <1>3, <2>1, <2>2 DEF LoopStep, Loop, Read, AckFails, Start, Complete, Raise
<1>4. CASE Restart
  BY <1>1, <1>4 DEF Restart, TaskInBatch
<1> QED
  BY <1>1, <1>3, <1>4, StepShapes DEF consumer

\* Who rushed once has rushed; who does not rush waits for what is being asked and counted.
LEMMA NobodyRushed ==
    ASSUME WorkType, [WNext]_wvars, ~rushed'
    PROVE  /\ ~rushed
           /\ \A i \in Incidents : RequestTeam(i) =>
                 Counted /\ \A j \in Incidents : stage[j] # "asking"
           /\ \A i \in Incidents, t \in Teams : ~AssignByHand(i, t)
<1>1. \A i \in Incidents : RequestTeam(i) =>
          (rushed' <=> rushed \/ ~Counted \/ \E j \in Incidents : stage[j] = "asking")
  BY Zenon DEF RequestTeam
<1>2. \A i \in Incidents, t \in Teams : AssignByHand(i, t) => rushed' = TRUE
  BY SMTT(60) DEF AssignByHand
<1>3. \A i \in Incidents : Assigning(i) => rushed' = rushed
  BY ZenonT(60) DEF Assigning, LogChoice, ReadWorkload, TimeOut, Abort, ReceiveTeam
<1>4. \A i \in Incidents :
          \/ CommitTelemetry(i) \/ RollBack(i) \/ ResolveIncident(i) \/ CorrectFaultType(i)
          \/ \E s \in Counting : Announce(s, i) \/ LoseAnnouncement(s, i)
          => rushed' = rushed
  BY DEF CommitTelemetry, RollBack, ResolveIncident, CorrectFaultType, Announce, LoseAnnouncement
<1>5. (\E t \in Teams, active \in BOOLEAN : EditPersonnel(t, active)) => rushed' = rushed
  BY DEF EditPersonnel
<1>6. \A s \in Streams : StartHandler(s) \/ HandlerFails(s) \/ Advance(s) \/ LoseAnswer(s)
          => rushed' = rushed
  BY DEF StartHandler, HandlerFails, Advance, LoseAnswer, assigning
<1>7. Handlers \/ Crash => rushed' = rushed
  BY DEF Handlers, handle_personnel_upserted, handle_incident_assigned, AssignedBeforeProfile,
     handle_incident_resolved, handle_type_changed, Crash, assigning
<1>8. UNCHANGED wvars => rushed' = rushed
  BY DEF wvars, assigning
<1> QED
  BY <1>1, <1>2, <1>3, <1>4, <1>5, <1>6, <1>7, <1>8 DEF WNext, Users, Counting

\* An incident that is not announced in a step adds to no team.
LEMMA OpenShrinks ==
    ASSUME WorkType, NEW t \in Teams,
           \/ NothingAnnounced
           \/ \E i \in Incidents : NotAnnounced(i) \/ Settled(i) \/ ResolveIncident(i)
           \/ \E s \in Counting, i \in Incidents : Announce(s, i)
    PROVE  Open(t)' \subseteq Open(t)
<1>1. stage \in [Incidents -> Stages] /\ team \in [Incidents -> Teams \cup {NoTeam}]
  BY DEF WorkType, StagesFit
<1>2. CASE NothingAnnounced
  BY <1>2 DEF NothingAnnounced, Open
<1>3. ASSUME NEW i \in Incidents, NotAnnounced(i)
      PROVE  Open(t)' \subseteq Open(t)
  BY <1>1, <1>3 DEF NotAnnounced, Open
<1>4. ASSUME NEW i \in Incidents, Settled(i)
      PROVE  Open(t)' \subseteq Open(t)
  BY <1>1, <1>4 DEF Settled, Open
<1>5. ASSUME NEW i \in Incidents, ResolveIncident(i)
      PROVE  Open(t)' \subseteq Open(t)
  BY <1>1, <1>5 DEF ResolveIncident, Open
<1>6. \A s, i : Announce(s, i) => Open(t)' = Open(t)
  BY DEF Announce, Open
<1> QED
  BY <1>2, <1>3, <1>4, <1>5, <1>6

LEMMA OpenFinite ==
    ASSUME AnnounceInv, NEW t
    PROVE  IsFiniteSet(Open(t)) /\ Cardinality(Open(t)) \in Nat
<1>1. Open(t) \subseteq {i \in Incidents : stage[i] # "none"}
  BY DEF Open
<1> QED
  BY <1>1, FS_Subset, FS_CardinalityType DEF AnnounceInv

\* How an incident comes to be asking or to have none of its calls.
LEMMA AskingBegins ==
    ASSUME WorkType, WorkloadAssumption, [WNext]_wvars, NEW i \in Incidents
    PROVE  /\ stage'[i] = "asking" => stage[i] = "asking" \/ RequestTeam(i)
           /\ stage'[i] = "none" => stage[i] = "none"
<1>1. stage \in [Incidents -> Stages]
  BY DEF WorkType, StagesFit
<1>2. CASE NothingAnnounced
  BY <1>2 DEF NothingAnnounced
<1>3. ASSUME NEW j \in Incidents, NotAnnounced(j)
      PROVE  /\ stage'[i] = "asking" => stage[i] = "asking" \/ RequestTeam(i)
             /\ stage'[i] = "none" => stage[i] = "none"
  BY <1>1, <1>3 DEF NotAnnounced
<1>4. ASSUME NEW j \in Incidents, Settled(j) \/ ResolveIncident(j)
      PROVE  /\ stage'[i] = "asking" => stage[i] = "asking"
             /\ stage'[i] = "none" => stage[i] = "none"
  BY <1>1, <1>4 DEF Settled, ResolveIncident
<1>5. ASSUME NEW j \in Incidents, NEW t, Received(j, t) \/ AssignByHand(j, t)
      PROVE  /\ stage'[i] = "asking" => stage[i] = "asking"
             /\ stage'[i] = "none" => stage[i] = "none"
  BY <1>1, <1>5 DEF Received, AssignByHand
<1>6. \A s, j : Announce(s, j) => stage' = stage
  BY DEF Announce
<1> QED
  BY <1>2, <1>3, <1>4, <1>5, <1>6, WorldShapes

\* While no incident is announced to t, the calls of an incident that is asking go on to fit.
LEMMA CallsStayFit ==
    ASSUME StreamInv, WorkType, WorkloadAssumption, AnnounceInv, LoadInv, CapacityInv, [WNext]_wvars,
           ~rushed', NEW i \in Incidents, stage[i] = "asking", NEW a \in Attempts,
           NEW t \in Teams \ drifted', Open(t)' \subseteq Open(t),
           NEW c, c = call'[i][a]
    PROVE  CallFits(c, t)'
<1>1. WaitInv(i)
  BY NobodyRushed DEF CapacityInv
<1>2. t \in Teams \ drifted
  BY DriftGrows
<1>3. PICK n \in Nat, m \in Nat : n = Cardinality(Open(t)) /\ m = Cardinality(Open(t)') /\ m <= n
  <2>1. IsFiniteSet(Open(t)) /\ Cardinality(Open(t)) \in Nat
    BY OpenFinite
  <2>2. IsFiniteSet(Open(t)') /\ Cardinality(Open(t)') <= Cardinality(Open(t))
    BY <2>1, FS_Subset
  <2>3. Cardinality(Open(t)') \in Nat
    BY <2>2, FS_CardinalityType
  <2> QED
    BY <2>1, <2>2, <2>3
<1>4. \A d : CallFits(d, t) <=> /\ t \in DOMAIN d.seen => n <= d.seen[t]
                                /\ t = d.chosen => n < Capacity
  BY <1>3 DEF CallFits
<1>5. \A d : CallFits(d, t)' <=> /\ t \in DOMAIN d.seen => m <= d.seen[t]
                                 /\ t = d.chosen => m < Capacity
  BY <1>3 DEF CallFits
<1>6. Capacity \in Nat /\ t # NoTeam /\ t \in Teams
  BY <1>2 DEF WorkloadAssumption
<1>7. \A d \in Call : t \in DOMAIN d.seen => d.seen[t] \in Nat
  BY DEF Call, Readings
<1>8. \A d \in Call : CallFits(d, t) => CallFits(d, t)'
  BY <1>3, <1>4, <1>5, <1>6, <1>7
<1>9. call[i][a] \in Call /\ CallFits(call[i][a], t)
  BY <1>1, <1>2 DEF WaitInv, WorkType
<1>10. CASE call' = call
  BY <1>8, <1>9, <1>10
<1>11. ASSUME NEW j \in Incidents, NEW b \in Attempts, NEW d \in Call,
              call' = [call EXCEPT ![j][b] = d], j = i /\ b = a => CallFits(d, t)'
       PROVE  CallFits(c, t)'
  <2>1. call \in [Incidents -> [Attempts -> Call]]
    BY DEF WorkType
  <2>2. CASE j = i /\ b = a
    <3>1. c = d
      BY <1>11, <2>1, <2>2
    <3> QED
      BY <1>11, <2>2, <3>1
  <2>3. CASE ~(j = i /\ b = a)
    <3>1. c = call[i][a]
      BY <1>11, <2>1, <2>3
    <3> QED
      BY <1>8, <1>9, <3>1
  <2> QED
    BY <2>2, <2>3
<1>12. ASSUME NEW d, d.seen = <<>>, d.chosen = NoTeam
       PROVE  CallFits(d, t)'
  BY <1>5, <1>6, <1>12
<1>13. ASSUME NEW j \in Incidents, NEW b \in Attempts, Ask(j, b)
       PROVE  CallFits(c, t)'
  <2>1. PICK d \in Call : /\ call' = [call EXCEPT ![j][b] = d]
                          /\ d = [NoCall EXCEPT !.pc = "scoring", !.unread = Active]
    BY <1>13, AskedAnew
  <2>2. d.seen = <<>> /\ d.chosen = NoTeam
    BY <2>1 DEF NoCall
  <2>3. CallFits(d, t)' /\ call' = [call EXCEPT ![j][b] = d]
    BY <1>12, <2>1, <2>2
  <2> QED
    BY <1>11, <2>3
<1>14. ASSUME NEW j \in Incidents, NEW b \in Attempts, NEW u \in Teams, ReadWorkload(j, b, u)
       PROVE  CallFits(c, t)'
  <2>1. PICK d \in Call : /\ call' = [call EXCEPT ![j][b] = d]
                          /\ d.chosen = call[j][b].chosen
                          /\ DOMAIN d.seen = DOMAIN call[j][b].seen \cup {u}
                          /\ d.seen[u] = Count(load[u])
                          /\ \A v \in DOMAIN d.seen \ {u} : d.seen[v] = call[j][b].seen[v]
    BY <1>14, WorkloadRead
  <2>2. n <= Count(load[t])
    <3>1. \A k \in Incidents : <<"assigned", k>> \notin outbox
      BY NobodyRushed DEF CapacityInv
    <3> QED
      BY <1>1, <1>2, <1>3, <3>1, OpenAreBooked DEF WaitInv
  <2>3. j = i /\ b = a => CallFits(d, t)
    BY <1>4, <1>9, <2>1, <2>2
  <2> QED
    BY <1>8, <1>11, <2>1, <2>3
<1>15. ASSUME NEW j \in Incidents, NEW b \in Attempts, LogChoice(j, b)
       PROVE  CallFits(c, t)'
  <2>1. PICK u \in Teams \cup {NoTeam}, d \in Call :
            /\ call' = [call EXCEPT ![j][b] = d]
            /\ d = [NoCall EXCEPT !.pc = "answered", !.chosen = u]
            /\ u # NoTeam => u \in Picks(call[j][b].seen)
    BY <1>15, ChoiceLogged
  <2>2. d.seen = <<>> /\ d.chosen = u
    BY <2>1 DEF NoCall
  <2>3. u = t => t \in DOMAIN call[j][b].seen /\ call[j][b].seen[t] < Capacity
    BY <1>6, <2>1 DEF Picks, Feasible
  <2>4. j = i /\ b = a /\ u = t => n < Capacity
    BY <1>3, <1>4, <1>6, <1>7, <1>9, <2>3
  <2>5. j = i /\ b = a => CallFits(d, t)
    BY <1>4, <2>2, <2>4
  <2>6. call' = [call EXCEPT ![j][b] = d]
    BY <2>1
  <2> QED
    BY <1>8, <1>11, <2>5, <2>6
<1>16. CASE Crash
  <2>1. c.seen = <<>> /\ c.chosen = NoTeam
    BY <1>16 DEF Crash, NoCall
  <2> QED
    BY <1>12, <2>1
<1> QED
  BY <1>10, <1>13, <1>14, <1>15, <1>16, CallShapes

\* An incident that was never asked for has no calls.
LEMMA NoCallsBeforeAsking ==
    ASSUME WorkType, WorkloadAssumption, CapacityInv, [WNext]_wvars,
           NEW i \in Incidents, stage'[i] = "none", NEW a \in Attempts
    PROVE  call'[i][a] = NoCall
<1>1. stage[i] = "none"
  BY AskingBegins
<1>2. \A b \in Attempts : call[i][b] = NoCall
  BY <1>1 DEF CapacityInv
<1>3. ASSUME NEW j \in Incidents, NEW b \in Attempts, NEW d \in Call,
             call' = [call EXCEPT ![j][b] = d], j # i
      PROVE  call'[i][a] = NoCall
  BY <1>2, <1>3, OneCallMoves
<1>4. ASSUME NEW j \in Incidents, NEW b \in Attempts, NEW t \in Teams, ReadWorkload(j, b, t)
      PROVE  call'[i][a] = NoCall
  <2>1. j # i
    BY <1>2, <1>4 DEF ReadWorkload, NoCall
  <2>2. PICK d \in Call : call' = [call EXCEPT ![j][b] = d]
    BY <1>4, WorkloadRead
  <2> QED
    BY <1>3, <2>1, <2>2
<1>5. ASSUME NEW j \in Incidents, NEW b \in Attempts, LogChoice(j, b)
      PROVE  call'[i][a] = NoCall
  <2>1. j # i
    BY <1>2, <1>5 DEF LogChoice, NoCall
  <2>2. PICK d \in Call : call' = [call EXCEPT ![j][b] = d]
    BY <1>5, ChoiceLogged
  <2> QED
    BY <1>3, <2>1, <2>2
<1>6. CASE Crash
  BY <1>2, <1>6 DEF Crash, NoCall
<1>7. CASE call' = call
  BY <1>2, <1>7
<1>8. ASSUME NEW j \in Incidents, RequestTeam(j) \/ TimeOut(j)
      PROVE  call'[i][a] = NoCall
  <2>1. CASE call' = call
    BY <1>2, <2>1
  <2>2. CASE \E b \in Attempts : Ask(j, b)
    <3>1. PICK b \in Attempts : Ask(j, b)
      BY <2>2
    <3>2. PICK d \in Call : call' = [call EXCEPT ![j][b] = d]
      BY <3>1, AskedAnew
    <3>3. j # i
      BY <1>1, <1>8 DEF RequestTeam, TimeOut, WorkType, StagesFit
    <3> QED
      BY <1>3, <3>2, <3>3
  <2> QED
    BY <1>8, <2>1, <2>2 DEF RequestTeam, TimeOut, Attempts
<1>9. \A j \in Incidents : \/ ReceiveTeam(j) \/ Abort(j) \/ CommitTelemetry(j) \/ RollBack(j)
                           \/ ResolveIncident(j) \/ CorrectFaultType(j)
                           \/ \E t \in Teams : AssignByHand(j, t)
                           \/ \E s \in Counting : Announce(s, j) \/ LoseAnnouncement(s, j)
                         => call' = call
  BY DEF ReceiveTeam, Abort, CommitTelemetry, RollBack, ResolveIncident, CorrectFaultType,
     AssignByHand, Announce, LoseAnnouncement
<1>10. (\E t \in Teams, active \in BOOLEAN : EditPersonnel(t, active)) => call' = call
  BY DEF EditPersonnel
<1>11. \A s \in Streams : StartHandler(s) \/ HandlerFails(s) \/ Advance(s) \/ LoseAnswer(s)
                          => call' = call
  BY DEF StartHandler, HandlerFails, Advance, LoseAnswer, assigning
<1>12. Handlers \/ UNCHANGED wvars => call' = call
  BY DEF Handlers, handle_personnel_upserted, handle_incident_assigned, AssignedBeforeProfile,
     handle_incident_resolved, handle_type_changed, wvars, assigning
<1> QED
  BY <1>4, <1>5, <1>6, <1>7, <1>8, <1>9, <1>10, <1>11, <1>12
     DEF WNext, Assigning, Users, Counting

\* An answer that is received finds room: its call fits, for nothing was announced since.
LEMMA RoomWhenReceived ==
    ASSUME WorkType, WorkloadAssumption, AnnounceInv, CapacityInv, [WNext]_wvars, ~rushed',
           NEW i \in Incidents, NEW t \in Teams, Received(i, t), ReceiveTeam(i),
           call[i][Awaited(i)].chosen = t, NEW u \in Teams \ drifted'
    PROVE  Cardinality(Open(u)') <= Capacity
<1>1. /\ stage \in [Incidents -> Stages] /\ team \in [Incidents -> Teams \cup {NoTeam}]
  BY DEF WorkType, StagesFit
<1>2. ~rushed /\ stage[i] = "asking"
  BY NobodyRushed DEF ReceiveTeam
<1>3. IsFiniteSet(Open(u)) /\ Cardinality(Open(u)) \in Nat /\ Capacity \in Nat
  BY OpenFinite DEF WorkloadAssumption
<1>4. u \in Teams \ drifted
  BY DEF Received
<1>5. CASE u = t
  <2>1. Awaited(i) \in Attempts
    BY DEF Awaited, Attempts
  <2>2. Cardinality(Open(u)) < Capacity
    BY <1>2, <1>4, <1>5, <2>1 DEF CapacityInv, WaitInv, CallFits
  <2>3. Open(u)' = Open(u) \cup {i} /\ i \notin Open(u)
    BY <1>1, <1>2, <1>5 DEF Received, Open
  <2>4. Cardinality(Open(u)') = Cardinality(Open(u)) + 1
    BY <1>3, <2>3, FS_AddElement
  <2> QED
    BY <1>3, <2>2, <2>4
<1>6. CASE u # t
  <2>1. Open(u)' \subseteq Open(u)
    BY <1>1, <1>2, <1>6 DEF Received, Open
  <2>2. Cardinality(Open(u)') <= Cardinality(Open(u)) /\ IsFiniteSet(Open(u)')
    BY <1>3, <2>1, FS_Subset
  <2>3. Cardinality(Open(u)) <= Capacity
    BY <1>2, <1>4 DEF CapacityInv, CapacityRespected
  <2> QED
    BY <1>3, <2>2, <2>3, FS_CardinalityType
<1> QED
  BY <1>5, <1>6

LEMMA CapacityKept ==
    ASSUME StreamInv, WorkType, WorkloadAssumption, AnnounceInv, LoadInv, CapacityInv, [WNext]_wvars
    PROVE  CapacityInv'
<1> DEFINE Shrinking == \/ NothingAnnounced
                        \/ \E i \in Incidents : NotAnnounced(i) \/ Settled(i) \/ ResolveIncident(i)
                        \/ \E s \in Counting, i \in Incidents : Announce(s, i)
<1>1. \A i \in Incidents : stage'[i] = "none" => \A a \in Attempts : call'[i][a] = NoCall
  BY NoCallsBeforeAsking
<1>2. drifted \subseteq drifted' /\ "assigned" \in Streams
  BY DriftGrows DEF WorkloadAssumption
<1>3. ASSUME ~rushed'
      PROVE  \/ Shrinking
             \/ \E i \in Incidents, t \in Teams :
                   Received(i, t) /\ ReceiveTeam(i) /\ call[i][Awaited(i)].chosen = t
  BY <1>3, WorldShapes, NobodyRushed
<1>4. ASSUME ~rushed', NEW t \in Teams \ drifted'
      PROVE  Cardinality(Open(t)') <= Capacity
  <2>1. CASE Shrinking
    <3>1. Open(t)' \subseteq Open(t)
      BY <2>1, OpenShrinks
    <3>2. IsFiniteSet(Open(t)) /\ Cardinality(Open(t)) \in Nat /\ Cardinality(Open(t)) <= Capacity
      BY <1>2, <1>4, NobodyRushed, OpenFinite DEF CapacityInv, CapacityRespected
    <3>3. IsFiniteSet(Open(t)') /\ Cardinality(Open(t)') <= Cardinality(Open(t))
      BY <3>1, <3>2, FS_Subset
    <3> QED
      BY <3>2, <3>3, FS_CardinalityType DEF WorkloadAssumption
  <2> QED
    BY <1>3, <1>4, <2>1, RoomWhenReceived
<1>5. ASSUME ~rushed', NEW i \in Incidents, stage'[i] = "asking"
      PROVE  WaitInv(i)'
  <2>1. ~rushed
    BY <1>5, NobodyRushed
  <2>2. Shrinking
    <3>1. ASSUME NEW j \in Incidents, NEW t \in Teams, Received(j, t), ReceiveTeam(j)
          PROVE  FALSE
      <4>1. stage[j] = "asking" /\ stage'[j] # "asking"
        BY <3>1 DEF Received, ReceiveTeam, WorkType, StagesFit
      <4>2. stage[i] = "asking"
        <5>1. i # j /\ stage \in [Incidents -> Stages]
          BY <1>5, <4>1 DEF WorkType, StagesFit
        <5> QED
          BY <1>5, <3>1, <5>1 DEF Received
      <4>3. \A k \in Incidents : stage[k] = "asking" => k = i
        BY <2>1, <4>2 DEF CapacityInv, WaitInv
      <4> QED
        BY <1>5, <4>1, <4>3
    <3> QED
      BY <1>3, <1>5, <3>1
  <2>3. /\ streams'["assigned"] = streams["assigned"]
        /\ next'["assigned"] >= next["assigned"]
        /\ next["assigned"] \in Nat /\ next'["assigned"] \in Nat /\ Len(streams["assigned"]) \in Nat
    <3>1. streams'["assigned"] = streams["assigned"]
      <4>1. NothingAnnounced => streams'["assigned"] = streams["assigned"]
        BY DEF NothingAnnounced, Counting
      <4>2. \A j \in Incidents : NotAnnounced(j) \/ Settled(j) => streams' = streams
        BY DEF NotAnnounced, Settled
      <4>3. \A j \in Incidents : ResolveIncident(j) => streams' = streams
        BY DEF ResolveIncident, streamVars
      <4>4. ASSUME NEW s \in Counting, NEW j \in Incidents, Announce(s, j)
            PROVE  streams'["assigned"] = streams["assigned"]
        BY <2>1, <4>4 DEF Announce, Published, CapacityInv
      <4> QED
        BY <2>2, <4>1, <4>2, <4>3, <4>4
    <3>2. StreamInv'
      BY StreamInvKept
    <3> QED
      BY <1>2, <3>1, <3>2, TasksGoOn, TaskPosition DEF StreamInv, LoopInv
  <2>4. \A t \in Teams : Open(t)' \subseteq Open(t)
    BY <2>2, OpenShrinks
  <2>5. CASE stage[i] = "asking"
    <3>1. WaitInv(i)
      BY <2>1, <2>5 DEF CapacityInv
    <3>2. \A j \in Incidents : stage'[j] = "asking" => j = i
      BY <1>5, <2>5, <3>1, AskingBegins, NobodyRushed DEF WaitInv
    <3>3. next'["assigned"] > Len(streams'["assigned"])
      BY <2>3, <3>1 DEF WaitInv
    <3>4. ASSUME NEW a \in Attempts, NEW t \in Teams \ drifted'
          PROVE  CallFits(call[i][a], t)'
      <4>1. PICK c : c = call'[i][a]
        OBVIOUS
      <4>2. CallFits(c, t)'
        BY <1>5, <2>4, <2>5, <4>1, CallsStayFit
      <4> QED
        BY <4>1, <4>2 DEF CallFits
    <3> QED
      BY <3>2, <3>3, <3>4 DEF WaitInv
  <2>6. CASE RequestTeam(i)
    <3>1. Counted /\ \A j \in Incidents : stage[j] # "asking"
      BY <1>5, <2>6, NobodyRushed
    <3>2. \A j \in Incidents : stage'[j] = "asking" => j = i
      BY <2>6, <3>1 DEF RequestTeam, WorkType, StagesFit
    <3>3. next'["assigned"] > Len(streams'["assigned"])
      BY <2>3, <3>1 DEF Counted
    <3>4. ASSUME NEW a \in Attempts, NEW t \in Teams \ drifted'
          PROVE  CallFits(call[i][a], t)'
      <4>1. \A b \in Attempts : call[i][b] = NoCall
        BY <2>6 DEF RequestTeam, CapacityInv
      <4>2. 1 \in Attempts /\ Ask(i, 1)
        BY <2>6 DEF RequestTeam, Attempts
      <4>3. PICK d \in Call : /\ call' = [call EXCEPT ![i][1] = d]
                              /\ d = [NoCall EXCEPT !.pc = "scoring", !.unread = Active]
        BY <4>2, AskedAnew
      <4>4. PICK c : c = call'[i][a]
        OBVIOUS
      <4>5. c = d \/ c = NoCall
        BY <4>1, <4>3, <4>4 DEF WorkType
      <4>6. c.seen = <<>> /\ c.chosen = NoTeam
        <5>1. d.seen = <<>> /\ d.chosen = NoTeam
          BY <4>3 DEF NoCall
        <5>2. NoCall.seen = <<>> /\ NoCall.chosen = NoTeam
          BY DEF NoCall
        <5> QED
          BY <4>5, <5>1, <5>2
      <4>7. t # NoTeam
        BY DEF WorkloadAssumption
      <4> QED
        BY <4>4, <4>6, <4>7 DEF CallFits
    <3> QED
      BY <3>2, <3>3, <3>4 DEF WaitInv
  <2> QED
    BY <1>5, <2>5, <2>6, AskingBegins
<1>6. ASSUME ~rushed', NEW i \in Incidents
      PROVE  <<"assigned", i>> \notin outbox'
  <2>1. <<"assigned", i>> \notin outbox
    BY <1>6, NobodyRushed DEF CapacityInv
  <2>2. \A j \in Incidents : NotAnnounced(j) \/ Settled(j) => outbox' = outbox
    BY DEF NotAnnounced, Settled
  <2>3. \A j \in Incidents : ResolveIncident(j) => <<"assigned", i>> \notin outbox'
    BY <2>1 DEF ResolveIncident
  <2>4. \A s, j : Announce(s, j) => outbox' \subseteq outbox
    BY DEF Announce
  <2>5. NothingAnnounced => outbox' \subseteq outbox
    BY DEF NothingAnnounced
  <2>6. \A j, t : Received(j, t) => outbox' = outbox
    BY DEF Received
  <2> QED
    BY <1>3, <1>6, <2>1, <2>2, <2>3, <2>4, <2>5, <2>6
<1> QED
  BY <1>1, <1>4, <1>5, <1>6 DEF CapacityInv, CapacityRespected

\* core/assignment.py: every incident a team gets was given to it by a call that read a count no
\* less than what the team had until the answer was announced, so none gets more than it has room
\* for; this is false of hasty requests, assignments by hand and counts that drifted.
THEOREM CapacityIsRespected == WSpec => []CapacityRespected
<1>1. WInit => CapacityInv
  <2> SUFFICES ASSUME WInit
               PROVE  CapacityInv
    OBVIOUS
  <2>1. \A t \in Teams : Open(t) = {}
    BY DEF WInit, Open
  <2>2. Capacity \in Nat /\ Cardinality({}) = 0
    BY FS_EmptySet, WorkloadAssumption DEF WorkloadAssumption
  <2>3. CapacityRespected
    BY <2>1, <2>2 DEF CapacityRespected
  <2>4. /\ outbox = {}
        /\ \A i \in Incidents : stage[i] = "none" /\ \A a \in Attempts : call[i][a] = NoCall
    BY DEF WInit
  <2> QED
    BY <2>3, <2>4 DEF CapacityInv
<1>2. StreamInv /\ WorkType /\ AnnounceInv /\ LoadInv /\ CapacityInv /\ [WNext]_wvars => CapacityInv'
  BY CapacityKept, WorkloadAssumption
<1>3. CapacityInv => CapacityRespected
  BY DEF CapacityInv
<1> QED
  BY <1>1, <1>2, <1>3, WorkloadTypeCorrect, WorkloadIsExact, PTL DEF WSpec
=============================================================================
