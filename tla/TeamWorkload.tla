----------------------------- MODULE TeamWorkload -----------------------------
(***************************************************************************)
(* The AI service's copy of who is on the road and how busy they are: the  *)
(* team_profile and team_workload tables its four consumers maintain from  *)
(* events (consumers/handlers.py), the endpoint that assigns a team from   *)
(* them (api/ai.py, core/assignment.py), and their callers: the telemetry  *)
(* handler of the incident service, with its timeout and its one retry,    *)
(* and the users who move incidents and edit personnel.                    *)
(*                                                                         *)
(* A handler reads with db.get, changes the object, and commits: other     *)
(* tasks run in between, and the UPDATE writes the value computed from     *)
(* what was read.  The incident service announces after it has committed:  *)
(* until then an assignment or a resolution is in the outbox, and may be   *)
(* lost there.  The commits on one incident come one at a time here; their *)
(* races are those of IncidentService.                                     *)
(***************************************************************************)
EXTENDS StreamConsumer, FiniteSets

CONSTANTS
    Teams,
    NoTeam,
    NoRow,       \* a team without a team_workload row
    Incidents,
    Capacity,    \* team_profile.capacity
    Specialists, \* the teams specialised in the fault at hand
    Proximity,   \* per team, its nearness to the station in tenths
    Scenarios    \* bounds: what a behaviour starts from and how much happens in it

Attempts == {1, 2}

ASSUME WorkloadAssumption ==
    /\ Streams = {"upserted", "assigned", "resolved", "type_changed"}
    /\ NoTeam \notin Teams
    /\ NoRow \notin Nat
    /\ Capacity \in Nat \ {0}
    /\ Specialists \subseteq Teams
    /\ Proximity \in [Teams -> 0..10]
    /\ \A c \in Scenarios : /\ c.roster \subseteq Teams
                            /\ {c.requests, c.upserts, c.edits, c.faults} \subseteq Nat

VARIABLES
    profile,   \* team_profile: unknown (no row), active or inactive
    load,      \* team_workload.active_incident_count
    feedback,  \* accuracy_feedback: the incidents corrected
    log,       \* assignment_log: <<incident, chosen team>>
    snap,      \* per stream, the count its handler read
    call,      \* the two POST /ai/assign an incident may cost
    stage,     \* where the incident is, as the incident service sees it
    team,      \* incidents.assigned_team_id
    outbox,    \* <<stream, incident>>: committed by a user's request and not announced yet
    roster,    \* the teams already active when the behaviour starts
    budget,    \* bounds: requests, personnel events and corrections still to come
    drifted,   \* history: the teams whose count a race, a loss or a rollback upset
    rushed     \* history: some assignment did not wait for the one before to be counted

readModel == <<profile, load, feedback, snap>>
bounds == <<roster, budget>>
assigning == <<log, call, stage, team, outbox, rushed, bounds>>
wvars == <<streamVars, readModel, assigning, drifted>>

\* unread and seen: the active teams whose workload is still to be read, and what was read.
NoCall == [pc |-> "none", unread |-> {}, seen |-> <<>>, chosen |-> NoTeam]

WInit ==
    /\ ConsumerInit
    /\ \E c \in Scenarios :
          /\ roster = c.roster
          /\ budget = [requests |-> c.requests, upserts |-> c.upserts, edits |-> c.edits]
          /\ faults = c.faults
    /\ profile = [t \in Teams |-> IF t \in roster THEN "active" ELSE "unknown"]
    /\ load = [t \in Teams |-> NoRow]
    /\ feedback = {}
    /\ log = {}
    /\ snap = [s \in Streams |-> NoRow]
    /\ call = [i \in Incidents |-> [a \in Attempts |-> NoCall]]
    /\ stage = [i \in Incidents |-> "none"]
    /\ team = [i \in Incidents |-> NoTeam]
    /\ outbox = {}
    /\ drifted = {}
    /\ rushed = FALSE

Spend(what) == budget[what] > 0 /\ budget' = [budget EXCEPT ![what] = @ - 1]

Count(n) == IF n = NoRow THEN 0 ELSE n

Event(i, t, by) == [inc |-> i, team |-> t, by |-> by]
Upsert(t, active) == [team |-> t, profile |-> IF active THEN "active" ELSE "inactive"]

-----------------------------------------------------------------------------
(* The handlers.                                                           *)

\* db.get of the workload, for the two handlers that change it.
StartHandler(s) ==
    /\ Start(s)
    /\ snap' = IF s \in {"assigned", "resolved"}
               THEN [snap EXCEPT ![s] = load[Current(s).team]] ELSE snap
    /\ UNCHANGED <<profile, load, feedback, assigning, drifted>>

\* Mutant: a known team is left as it is.
handle_personnel_upserted_insertOnly ==
    LET e == Current("upserted") IN
    /\ Complete("upserted")
    /\ profile' = [profile EXCEPT ![e.team] = IF @ = "unknown" THEN e.profile ELSE @]
    /\ UNCHANGED <<streams, faults, load, feedback, snap, assigning, drifted>>

handle_personnel_upserted ==
    LET e == Current("upserted") IN
    /\ Complete("upserted")
    /\ profile' = [profile EXCEPT ![e.team] = e.profile]
    /\ UNCHANGED <<streams, faults, load, feedback, snap, assigning, drifted>>

\* What a commit computed from a stale count does to the team.
DriftIfStale(s, t) == drifted' = IF load[t] = snap[s] THEN drifted ELSE drifted \cup {t}

\* Mutant: the row is created with the column's default.
handle_incident_assigned_default ==
    LET t == Current("assigned").team IN
    /\ Complete("assigned")
    /\ snap["assigned"] = NoRow => profile[t] # "unknown"
    /\ load' = [load EXCEPT ![t] = IF snap["assigned"] = NoRow THEN 0 ELSE snap["assigned"] + 1]
    /\ DriftIfStale("assigned", t)
    /\ UNCHANGED <<streams, faults, profile, feedback, snap, assigning>>

handle_incident_assigned ==
    LET t == Current("assigned").team IN
    /\ Complete("assigned")
    /\ snap["assigned"] = NoRow => profile[t] # "unknown"
    /\ load' = [load EXCEPT ![t] = Count(snap["assigned"]) + 1]
    /\ DriftIfStale("assigned", t)
    /\ UNCHANGED <<streams, faults, profile, feedback, snap, assigning>>

\* team_workload.team_id references team_profile.id: the insert is refused.
AssignedBeforeProfile ==
    LET t == Current("assigned").team IN
    /\ Raise("assigned")
    /\ snap["assigned"] = NoRow
    /\ profile[t] = "unknown"
    /\ drifted' = drifted \cup {t}
    /\ UNCHANGED <<faults, readModel, assigning>>

\* Mutant: whatever the count, it is decremented.
handle_incident_resolved_unguarded ==
    LET t == Current("resolved").team
        n == Count(snap["resolved"]) IN
    /\ Complete("resolved")
    /\ load' = [load EXCEPT ![t] = n - 1]
    /\ DriftIfStale("resolved", t)
    /\ UNCHANGED <<streams, faults, profile, feedback, snap, assigning>>

\* Never below zero: a resolution nobody counted an assignment for is dropped.
handle_incident_resolved ==
    LET t == Current("resolved").team
        n == Count(snap["resolved"]) IN
    /\ Complete("resolved")
    /\ IF n > 0 THEN load' = [load EXCEPT ![t] = n - 1] /\ DriftIfStale("resolved", t)
                ELSE drifted' = drifted \cup {t} /\ UNCHANGED load
    /\ UNCHANGED <<streams, faults, profile, feedback, snap, assigning>>

handle_type_changed ==
    /\ Complete("type_changed")
    /\ feedback' = feedback \cup {Current("type_changed").inc}
    /\ UNCHANGED <<streams, faults, profile, load, snap, assigning, drifted>>

\* The database fails the handler.
HandlerFails(s) ==
    /\ Raise(s)
    /\ Fail
    /\ drifted' = drifted \cup (IF s \in {"assigned", "resolved"} THEN {Current(s).team} ELSE {})
    /\ UNCHANGED <<readModel, assigning>>

-----------------------------------------------------------------------------
(* The loop around them.                                                   *)

\* The teams with an entry of s that was delivered and that no handler will see.
Forgotten(s) ==
    IF s \in {"assigned", "resolved"}
    THEN {streams[s][k].team : k \in {k \in next[s]..delivered'[s] : k > latest[s]}}
    ELSE {}

Advance(s) ==
    /\ Read(s) \/ Ack(s) \/ AckFails(s)
    /\ UNCHANGED <<readModel, assigning, drifted>>

LoseAnswer(s) ==
    /\ ReadFails(s)
    /\ drifted' = drifted \cup Forgotten(s)
    /\ UNCHANGED <<readModel, assigning>>

\* Assignments being computed die with the service.
Crash ==
    /\ Restart
    /\ drifted' = drifted \cup UNION {Forgotten(s) : s \in Streams}
    /\ call' = [i \in Incidents |-> [a \in Attempts |->
                  IF call[i][a].pc = "none" THEN NoCall ELSE [NoCall EXCEPT !.pc = "broken"]]]
    /\ UNCHANGED <<readModel, log, stage, team, outbox, rushed, bounds>>

-----------------------------------------------------------------------------
(* POST /ai/assign.                                                        *)

Active == {t \in Teams : profile[t] = "active"}

\* Everything published about assignments has been counted.
Counted == \A s \in {"assigned", "resolved"} : next[s] > Len(streams[s])

\* The request reaches the AI service, which selects the active teams.
Ask(i, a) == call' = [call EXCEPT ![i][a] = [NoCall EXCEPT !.pc = "scoring", !.unread = Active]]

\* Telemetry opened the incident, uncommitted as yet, and asks for a team.
RequestTeam(i) ==
    /\ stage[i] = "none"
    /\ Spend("requests")
    /\ Ask(i, 1)
    /\ stage' = [stage EXCEPT ![i] = "asking"]
    /\ rushed' = (rushed \/ ~Counted \/ \E j \in Incidents : stage[j] = "asking")
    /\ UNCHANGED <<streamVars, readModel, roster, log, team, outbox, drifted>>

\* score_candidates reads the workloads one db.get at a time.
ReadWorkload(i, a, t) ==
    /\ t \in call[i][a].unread
    /\ call' = [call EXCEPT ![i][a].unread = @ \ {t},
                            ![i][a].seen = [u \in DOMAIN @ \cup {t} |->
                                              IF u = t THEN Count(load[t]) ELSE @[u]]]
    /\ UNCHANGED <<streamVars, readModel, bounds, log, stage, team, outbox, rushed, drifted>>

\* 0.4 expertise + 0.3 proximity + 0.3 free capacity, in units of 1/(100 Capacity).
Score(t, n) ==
    (IF t \in Specialists THEN 40 * Capacity ELSE 0)
    + 3 * Capacity * Proximity[t]
    + 30 * (Capacity - Smaller(n, Capacity))

Feasible(seen) == {t \in DOMAIN seen : seen[t] < Capacity}

\* Mutant: the full teams are not filtered out.
PicksAmongAll(seen) ==
    {t \in DOMAIN seen : \A u \in DOMAIN seen : Score(u, seen[u]) <= Score(t, seen[t])}

\* The first feasible candidate of the sorted list; teams with equal scores come in any order.
Picks(seen) ==
    {t \in Feasible(seen) : \A u \in Feasible(seen) : Score(u, seen[u]) <= Score(t, seen[t])}

\* Mutant: one row per incident, a repeated call adds none.
LogFirstChoice(i, a) ==
    /\ call[i][a].pc = "scoring"
    /\ call[i][a].unread = {}
    /\ LET picks == Picks(call[i][a].seen) IN
       \E t \in IF picks = {} THEN {NoTeam} ELSE picks :
          /\ log' = IF \E u \in Teams : <<i, u>> \in log THEN log ELSE log \cup {<<i, t>>}
          /\ call' = [call EXCEPT ![i][a] = [NoCall EXCEPT !.pc = "answered", !.chosen = t]]
    /\ UNCHANGED <<streamVars, readModel, bounds, stage, team, outbox, rushed, drifted>>

\* The choice is logged and committed before it is returned.
LogChoice(i, a) ==
    /\ call[i][a].pc = "scoring"
    /\ call[i][a].unread = {}
    /\ LET picks == Picks(call[i][a].seen) IN
       \E t \in IF picks = {} THEN {NoTeam} ELSE picks :
          /\ log' = log \cup {<<i, t>>}
          /\ call' = [call EXCEPT ![i][a] = [NoCall EXCEPT !.pc = "answered", !.chosen = t]]
    /\ UNCHANGED <<streamVars, readModel, bounds, stage, team, outbox, rushed, drifted>>

-----------------------------------------------------------------------------
(* Its caller, and the life of the incident.                               *)

Awaited(i) == IF call[i][2].pc = "none" THEN 1 ELSE 2

\* A team: the row is flushed and the event published before the commit.  None: queued.
ReceiveTeam(i) ==
    LET answer == call[i][Awaited(i)] IN
    /\ stage[i] = "asking"
    /\ answer.pc = "answered"
    /\ IF answer.chosen = NoTeam
       THEN /\ stage' = [stage EXCEPT ![i] = "unassigned"]
            /\ UNCHANGED <<streams, team>>
       ELSE /\ stage' = [stage EXCEPT ![i] = "uncommitted"]
            /\ team' = [team EXCEPT ![i] = answer.chosen]
            /\ Published("assigned", Event(i, answer.chosen, "ai"))
    /\ UNCHANGED <<consumer, faults, readModel, bounds, log, call, outbox, rushed, drifted>>

\* Two seconds pass: the first time the call is repeated, whatever became of it.
TimeOut(i) ==
    /\ stage[i] = "asking"
    /\ call[i][Awaited(i)].pc # "broken"
    /\ Fail
    /\ IF Awaited(i) = 1
       THEN Ask(i, 2) /\ UNCHANGED stage
       ELSE stage' = [stage EXCEPT ![i] = "unassigned"] /\ UNCHANGED call
    /\ UNCHANGED <<streams, consumer, readModel, bounds, log, team, outbox, rushed, drifted>>

\* A connection broken while the answer is awaited is not among the retried errors.
Abort(i) ==
    /\ stage[i] = "asking"
    /\ call[i][Awaited(i)].pc = "broken"
    /\ stage' = [stage EXCEPT ![i] = "gone"]
    /\ UNCHANGED <<streamVars, readModel, bounds, log, call, team, outbox, rushed, drifted>>

CommitTelemetry(i) ==
    /\ stage[i] = "uncommitted"
    /\ stage' = [stage EXCEPT ![i] = "assigned"]
    /\ UNCHANGED <<streamVars, readModel, bounds, log, call, team, outbox, rushed, drifted>>

\* The incident never existed, but its assignment was announced.
RollBack(i) ==
    /\ stage[i] = "uncommitted"
    /\ Fail
    /\ stage' = [stage EXCEPT ![i] = "gone"]
    /\ drifted' = drifted \cup {team[i]}
    /\ UNCHANGED <<streams, consumer, readModel, bounds, log, call, team, outbox, rushed>>

\* PATCH /assign by a supervisor commits: any team, full, inactive or unknown to the AI service.
AssignByHand(i, t) ==
    /\ stage[i] = "unassigned"
    /\ stage' = [stage EXCEPT ![i] = "assigned"]
    /\ team' = [team EXCEPT ![i] = t]
    /\ outbox' = outbox \cup {<<"assigned", i>>}
    /\ rushed' = TRUE
    /\ UNCHANGED <<streamVars, readModel, bounds, log, call, drifted>>

ResolveIncident(i) ==
    /\ stage[i] = "assigned"
    /\ stage' = [stage EXCEPT ![i] = "resolved"]
    /\ outbox' = outbox \cup {<<"resolved", i>>}
    /\ UNCHANGED <<streamVars, readModel, bounds, log, call, team, rushed, drifted>>

\* The request refreshes its row and publishes.
Announce(s, i) ==
    /\ <<s, i>> \in outbox
    /\ outbox' = outbox \ {<<s, i>>}
    /\ Published(s, Event(i, team[i], "hand"))
    /\ UNCHANGED <<consumer, faults, readModel, bounds, log, call, stage, team, rushed, drifted>>

\* It fails between its commit and the end of its XADD, or dies there: nobody publishes again.
LoseAnnouncement(s, i) ==
    /\ <<s, i>> \in outbox
    /\ Fail
    /\ outbox' = outbox \ {<<s, i>>}
    /\ drifted' = drifted \cup {team[i]}
    /\ UNCHANGED <<streams, consumer, readModel, bounds, log, call, stage, team, rushed>>

CorrectFaultType(i) ==
    /\ stage[i] \in {"unassigned", "assigned", "resolved"}
    /\ Spend("edits")
    /\ Published("type_changed", Event(i, NoTeam, "hand"))
    /\ UNCHANGED <<consumer, faults, readModel, roster, log, call, stage, team, outbox>>
    /\ UNCHANGED <<rushed, drifted>>

\* The identity service created or changed a technician.
EditPersonnel(t, active) ==
    /\ Spend("upserts")
    /\ Published("upserted", Upsert(t, active))
    /\ UNCHANGED <<consumer, faults, readModel, roster, log, call, stage, team, outbox>>
    /\ UNCHANGED <<rushed, drifted>>

-----------------------------------------------------------------------------

Handlers ==
    \/ handle_personnel_upserted
    \/ handle_incident_assigned
    \/ AssignedBeforeProfile
    \/ handle_incident_resolved
    \/ handle_type_changed

Assigning(i) ==
    \/ \E a \in Attempts : LogChoice(i, a) \/ \E t \in Teams : ReadWorkload(i, a, t)
    \/ ReceiveTeam(i) \/ TimeOut(i) \/ Abort(i)

Users(i) ==
    \/ RequestTeam(i)
    \/ CommitTelemetry(i) \/ RollBack(i)
    \/ \E t \in Teams : AssignByHand(i, t)
    \/ ResolveIncident(i)
    \/ \E s \in {"assigned", "resolved"} : Announce(s, i) \/ LoseAnnouncement(s, i)
    \/ CorrectFaultType(i)

WNext ==
    \/ \E s \in Streams : StartHandler(s) \/ HandlerFails(s) \/ Advance(s) \/ LoseAnswer(s)
    \/ Handlers
    \/ Crash
    \/ \E i \in Incidents : Assigning(i) \/ Users(i)
    \/ \E t \in Teams, active \in BOOLEAN : EditPersonnel(t, active)

WSpec == WInit /\ [][WNext]_wvars

\* A task that is alive keeps going: every await of its iteration returns or raises.
Progress(s) ==
    \/ Advance(s)
    \/ StartHandler(s)
    \/ phase[s] = "handling" /\ Handlers /\ phase'[s] # "handling"

WFairSpec == WSpec /\ \A s \in Streams : WF_wvars(Progress(s))

-----------------------------------------------------------------------------
(* Properties.                                                             *)

TypeOK ==
    /\ profile \in [Teams -> {"unknown", "active", "inactive"}]
    /\ load \in [Teams -> Nat \cup {NoRow}]
    /\ feedback \subseteq Incidents
    /\ log \subseteq Incidents \X (Teams \cup {NoTeam})
    /\ snap \in [Streams -> Nat \cup {NoRow}]
    /\ stage \in [Incidents -> {"none", "asking", "uncommitted", "unassigned",
                                "assigned", "resolved", "gone"}]
    /\ team \in [Incidents -> Teams \cup {NoTeam}]
    /\ outbox \subseteq {"assigned", "resolved"} \X Incidents
    /\ drifted \subseteq Teams
    /\ phase \in [Streams -> Phases]
    /\ \A s \in Streams : delivered[s] \in 0..Len(streams[s]) /\ next[s] \in 1..delivered[s] + 1

Open(t) == {i \in Incidents : stage[i] \in {"uncommitted", "assigned"} /\ team[i] = t}

\* consumers/handlers.py: once everything committed is announced or lost and the events are
\* consumed, a team's count is the number of its open incidents, unless two handlers overlapped on
\* it, one of its events was lost, failed or came out of order, a request failed between its
\* commit and its publication, or telemetry announced an assignment and rolled back: nothing
\* else makes the counter drift.
SettledLoadIsExact ==
    Counted /\ outbox = {} => \A t \in Teams \ drifted : Count(load[t]) = Cardinality(Open(t))

\* core/assignment.py: a team gets no more incidents than it has capacity for, as long as each
\* automatic assignment waits until the one before it is counted, nobody assigns by hand, and
\* its count has not drifted.
CapacityRespected ==
    ~rushed => \A t \in Teams \ drifted : Cardinality(Open(t)) <= Capacity

\* api/ai.py: every automatic assignment that was announced is in assignment_log, retries and
\* crashes included (the log may hold more: the choice of a call nobody waited for).
AnnouncedTeamWasLogged ==
    \A k \in 1..Len(streams["assigned"]) :
        LET e == streams["assigned"][k] IN e.by = "ai" => <<e.inc, e.team>> \in log

Latest(t) == LET ks == {k \in 1..Len(streams["upserted"]) : streams["upserted"][k].team = t} IN
    IF ks = {} THEN IF t \in roster THEN "active" ELSE "unknown"
    ELSE streams["upserted"][CHOOSE k \in ks : \A j \in ks : j <= k].profile

\* handle_personnel_upserted: however often a technician is edited, the roster catches up with
\* the identity service again and again, unless an event was lost or the task ended.
RosterConverges ==
    []<>(\/ \A t \in Teams : profile[t] = Latest(t)
         \/ effects["upserted"] + 1 < next["upserted"]
         \/ phase["upserted"] = "dead")

\* consumers/runner.py: again and again every stream is drained, also past an entry whose
\* handler raises, unless its task ended on an XACK error.
StreamsAreDrained ==
    []<>(\A s \in Streams : next[s] > Len(streams[s]) \/ phase[s] = "dead")
=============================================================================
