----------------------------- MODULE Gamification -----------------------------
(***************************************************************************)
(* The gamification service: five consumer tasks that turn the events of   *)
(* an incident into points (consumers/handlers.py), the tables they share, *)
(* and what the leaderboard and a profile show of them (api/game.py).      *)
(*                                                                         *)
(* Every handler that gives or takes points goes the same way: find the    *)
(* user, db.get the user_stats row (or insert and flush one), change the   *)
(* object, publish game.points_awarded, commit.  The ledger row, the stats *)
(* and the rest are one transaction; rows are neither locked while they    *)
(* are read nor versioned, and an UPDATE writes the changed columns.       *)
(***************************************************************************)
EXTENDS StreamConsumer, Integers, FiniteSets, FiniteSetsExt

CONSTANTS
    Technicians,
    NoUser,      \* no team in an event, nobody to credit
    NoStats,     \* a user without a user_stats row
    NoLog,       \* a station nobody has resolved an incident of
    Incidents,   \* numbered in the order they are opened
    FaultOf,     \* the fault type of each incident; all are of one station
    Thresholds,  \* the counts at which the badges are earned
    SilverAt,    \* points of the first level above BRONZ (the next ones lie higher)
    Window,      \* REPEAT_FAULT_WINDOW, in days
    Scenarios    \* bounds: what may happen in a behaviour and how often

Badges == {"ilk_mudahale", "hiz_ustasi", "kriz_yoneticisi", "maratoncu", "uzman", "kalici_cozum"}
Paying == {"created", "resolved", "evaluated", "sla_breached"}

\* A user_stats row. The average is only told from another one.
StatsRow == [total : Int, level : {"BRONZ", "GUMUS"}, resolved : Nat, average : Int,
             streak : Nat, fast : Nat, critical : Nat]

ASSUME GamificationAssumption ==
    /\ Streams = Paying \cup {"upserted"}
    /\ NoUser \notin Technicians
    /\ NoStats \notin StatsRow
    /\ Thresholds \in [Badges \ {"ilk_mudahale"} -> Nat]
    /\ {SilverAt, Window} \cup Incidents \subseteq Nat
    /\ SilverAt > 0

VARIABLES
    ledger,     \* point_ledger; a row is keyed by the entry it stands for
    stats,      \* user_stats
    badges,     \* user_badges: <<user, badge>>
    stationLog, \* station_resolution_log of the station
    solved,     \* fault_type_resolution_counts
    names,      \* personnel_name: the users with a row
    awarded,    \* game.points_awarded: the entries it was published for
    earned,     \* badge.earned: <<user, badge, entry of resolved>>
    job,        \* per stream, how far its handler is and what it read
    stage,      \* the incidents, as the incident service has them
    team,       \* their technician
    today,      \* the clock, in days
    budget,     \* bounds: how often each thing may still happen
    scope,      \* bounds: the technicians sent to an incident, the <<fast, critical>> of its
                \* resolution, the faults at the start
    raced,      \* history: users whose stats were written from a stale total
    due         \* history: evaluations published when the resolution had been paid once

tables == <<ledger, stats, badges, stationLog, solved, names>>
world == <<stage, team, today, budget, scope, due>>
gvars == <<streamVars, tables, awarded, earned, job, world, raced>>

\* The user, the row read for it, the day the transaction began, the badges decided on.
NoJob == [pc |-> "idle", user |-> NoUser, snap |-> NoStats, day |-> 0, won |-> {}]

GInit ==
    /\ ConsumerInit
    /\ ledger = {}
    /\ stats = [u \in Technicians |-> NoStats]
    /\ badges = {}
    /\ stationLog = NoLog
    /\ solved = [u \in Technicians |-> [f \in {FaultOf[i] : i \in Incidents} |-> 0]]
    /\ names = {}
    /\ awarded = {}
    /\ earned = {}
    /\ job = [s \in Streams |-> NoJob]
    /\ stage = [i \in Incidents |-> "none"]
    /\ team = [i \in Incidents |-> NoUser]
    /\ today = 0
    /\ \E c \in Scenarios : budget = c.budget /\ scope = c.scope /\ faults = c.scope.faults
    /\ raced = {}
    /\ due = {}

Goto(s, pc) == job' = [job EXCEPT ![s].pc = pc]
\* Mutant: what a handler read outlives it.
RestKeepingRow(s) == Goto(s, "idle")

Rest(s) == job' = [job EXCEPT ![s] = NoJob]

-----------------------------------------------------------------------------
(* Points.                                                                 *)

_compute_level(total) == IF total >= SilverAt THEN "GUMUS" ELSE "BRONZ"

Points(s, e) ==
    CASE s = "resolved" -> 10 + (IF e.fast THEN 5 ELSE 0) + (IF e.critical THEN 10 ELSE 0)
      [] s = "evaluated" -> IF e.permanent THEN 15 ELSE -3
      [] s = "created" -> -3
      [] s = "sla_breached" -> -5

ResolvedRows(i) == {r \in ledger : r.inc = i /\ r.stream = "resolved"}

\* Mutant: the evaluation goes to whoever resolved the station's last incident.
UserOfLastResolution(s, e) ==
    CASE s = "created" -> IF stationLog = NoLog THEN {}
                          ELSE IF e.at - stationLog.at > Window THEN {} ELSE {stationLog.user}
      [] s = "evaluated" -> IF stationLog = NoLog THEN {} ELSE {stationLog.user}
      [] OTHER -> {e.team} \ {NoUser}

\* Whom the entry concerns: the resolver of the station's previous incident if it is recent
\* (or still to come: the difference may be negative), the user of the ledger row the
\* evaluated incident was paid with, the team the event names.
UsersFor(s, e) ==
    CASE s = "created" -> IF stationLog = NoLog THEN {}
                          ELSE IF e.at - stationLog.at > Window THEN {} ELSE {stationLog.user}
      [] s = "evaluated" -> {r.user : r \in ResolvedRows(e.inc)}
      [] OTHER -> {e.team} \ {NoUser}

\* Mutant: the rows of all incidents are looked up.
AmbiguousOverall(s, e) ==
    s = "evaluated" /\ Cardinality({r \in ledger : r.stream = "resolved"}) > 1

\* scalar_one_or_none raises when the incident was paid twice.
Ambiguous(s, e) == s = "evaluated" /\ Cardinality(ResolvedRows(e.inc)) > 1

Begin(s) ==
    /\ s \in Paying
    /\ Start(s)
    /\ LET e == Current(s)
           users == UsersFor(s, e) IN
       job' = [job EXCEPT ![s] =
                 IF Ambiguous(s, e) THEN [NoJob EXCEPT !.pc = "ambiguous"]
                 ELSE IF users = {} THEN [NoJob EXCEPT !.pc = "nothing"]
                 ELSE [NoJob EXCEPT !.pc = "stats", !.user = CHOOSE u \in users : TRUE,
                                    !.day = today]]
    /\ UNCHANGED <<tables, awarded, earned, world, raced>>

\* Nobody to credit: the handler returns.
NothingToDo(s) ==
    /\ job[s].pc = "nothing"
    /\ Complete(s)
    /\ Rest(s)
    /\ UNCHANGED <<streams, faults, tables, awarded, earned, world, raced>>

RaiseAmbiguous(s) ==
    /\ job[s].pc = "ambiguous"
    /\ Raise(s)
    /\ Rest(s)
    /\ UNCHANGED <<faults, tables, awarded, earned, world, raced>>

-----------------------------------------------------------------------------
(* _add_points.                                                            *)

NewStats == [total |-> 0, level |-> "BRONZ", resolved |-> 0, average |-> 0,
             streak |-> 0, fast |-> 0, critical |-> 0]

\* The object the handler works on: the row it read, or the one it inserted.
Loaded(s) == IF job[s].snap = NoStats THEN NewStats ELSE job[s].snap

ReadStats(s) ==
    /\ job[s].pc = "stats"
    /\ LET row == stats[job[s].user] IN
       job' = [job EXCEPT ![s].snap = row, ![s].pc = IF row = NoStats THEN "insert" ELSE "publish"]
    /\ UNCHANGED <<streamVars, tables, awarded, earned, world, raced>>

\* The flushed and uncommitted insert of another task makes this one wait on the primary key.
Inserted(s) == job[s].snap = NoStats /\ job[s].pc \in {"publish", "badges", "commit"}

InsertStats(s) ==
    /\ job[s].pc = "insert"
    /\ ~ \E o \in Streams : Inserted(o) /\ job[o].user = job[s].user
    /\ stats[job[s].user] = NoStats
    /\ Goto(s, "publish")
    /\ UNCHANGED <<streamVars, tables, awarded, earned, world, raced>>

\* The row has been committed since it was looked for: IntegrityError, the points are lost.
InsertRefused(s) ==
    /\ job[s].pc = "insert"
    /\ stats[job[s].user] # NoStats
    /\ Raise(s)
    /\ Rest(s)
    /\ UNCHANGED <<faults, tables, awarded, earned, world, raced>>

PublishPoints(s) ==
    /\ job[s].pc = "publish"
    /\ awarded' = awarded \cup {<<s, next[s]>>}
    /\ Goto(s, IF s = "resolved" THEN "badges" ELSE "commit")
    /\ UNCHANGED <<streamVars, tables, earned, world, raced>>

\* Mutant: a row just created keeps its defaults.
CreditExisting(s, e) ==
    IF job[s].snap = NoStats THEN NewStats
    ELSE LET total == Loaded(s).total + Points(s, e) IN
         [Loaded(s) EXCEPT !.total = total, !.level = _compute_level(total)]

Credit(s, e) ==
    LET total == Loaded(s).total + Points(s, e) IN
    [Loaded(s) EXCEPT !.total = total, !.level = _compute_level(total)]

\* What the handler makes of the row; a resolution counts, a repeated fault ends the streak.
Wanted(s, e) ==
    LET credited == Credit(s, e) IN
    CASE s = "resolved" ->
            [credited EXCEPT !.resolved = @ + 1, !.average = credited.total, !.streak = @ + 1,
                             !.fast = IF e.fast THEN @ + 1 ELSE @,
                             !.critical = IF e.critical THEN @ + 1 ELSE @]
      [] s = "created" -> [credited EXCEPT !.streak = 0]
      [] OTHER -> credited

\* Mutant: the object is written back as a whole.
WriteWholeRow(row, snap, want) == want

\* Only the columns that differ from what was loaded are written.
Write(row, snap, want) ==
    IF row = NoStats THEN want
    ELSE [f \in DOMAIN row |-> IF want[f] # snap[f] THEN want[f] ELSE row[f]]

-----------------------------------------------------------------------------
(* The handlers' ends.                                                     *)

ResolvedOn(u, day) == {r \in ledger : r.user = u /\ r.stream = "resolved" /\ r.day = day}

\* The conditions after a resolution; the marathoner's query sees the new row if it is of
\* that day.
BadgesEarned(u, e, want) ==
    LET new == IF job["resolved"].day = e.at THEN 1 ELSE 0
        reached == [hiz_ustasi |-> want.fast,
                    kriz_yoneticisi |-> want.critical,
                    maratoncu |-> Cardinality(ResolvedOn(u, e.at)) + new,
                    uzman |-> solved[u][FaultOf[e.inc]] + 1,
                    kalici_cozum |-> want.streak] IN
    {b \in DOMAIN reached : reached[b] >= Thresholds[b]}
    \cup {b \in {"ilk_mudahale"} : want.resolved = 1}

NewBadges(s) ==
    LET u == job[s].user IN
    {b \in BadgesEarned(u, Current(s), Wanted(s, Current(s))) : <<u, b>> \notin badges}

\* badge.earned goes out before the commit, like game.points_awarded.
PublishBadges ==
    LET s == "resolved" IN
    /\ job[s].pc = "badges"
    /\ earned' = earned \cup {<<job[s].user, b, next[s]>> : b \in NewBadges(s)}
    /\ job' = [job EXCEPT ![s].pc = "commit", ![s].won = NewBadges(s)]
    /\ UNCHANGED <<streamVars, tables, awarded, world, raced>>

CommitPoints(s) ==
    LET u == job[s].user
        e == Current(s)
        want == Wanted(s, e) IN
    /\ job[s].pc = "commit"
    /\ Complete(s)
    /\ ledger' = ledger \cup {[stream |-> s, entry |-> next[s], user |-> u, inc |-> e.inc,
                               points |-> Points(s, e), day |-> job[s].day]}
    /\ stats' = [stats EXCEPT ![u] = Write(@, Loaded(s), want)]
    /\ raced' = IF stats[u] # NoStats /\ stats[u].total # Loaded(s).total
                THEN raced \cup {u} ELSE raced
    /\ IF s = "resolved"
       THEN /\ stationLog' = [user |-> u, at |-> e.at]
            /\ solved' = [solved EXCEPT ![u][FaultOf[e.inc]] = @ + 1]
            /\ badges' = badges \cup {<<u, b>> : b \in job[s].won}
       ELSE UNCHANGED <<stationLog, solved, badges>>
    /\ Rest(s)
    /\ UNCHANGED <<streams, faults, names, awarded, earned, world>>

StartUpsert ==
    /\ Start("upserted")
    /\ UNCHANGED <<tables, awarded, earned, job, world, raced>>

handle_personnel_upserted ==
    /\ Complete("upserted")
    /\ names' = names \cup {Current("upserted").team}
    /\ UNCHANGED <<streams, faults, ledger, stats, badges, stationLog, solved,
                   awarded, earned, job, world, raced>>

\* Redis or the database fails the handler: the session is rolled back.
HandlerFails(s) ==
    /\ Raise(s)
    /\ Fail
    /\ Rest(s)
    /\ UNCHANGED <<tables, awarded, earned, world, raced>>

Advance(s) ==
    /\ Loop(s)
    /\ UNCHANGED <<tables, awarded, earned, job, world, raced>>

Crash ==
    /\ Restart
    /\ job' = [s \in Streams |-> NoJob]
    /\ UNCHANGED <<tables, awarded, earned, world, raced>>

-----------------------------------------------------------------------------
(* The publishers: the incident and the identity service.                  *)

Spend(what) == budget[what] > 0 /\ budget' = [budget EXCEPT ![what] = @ - 1]
Elsewhere == UNCHANGED <<consumer, faults, tables, awarded, earned, job, raced, scope>>

OpenIncident(i, u) ==
    /\ stage[i] = "none"
    /\ \A j \in Incidents : j < i => stage[j] # "none"
    /\ u \in scope.crew[i]
    /\ Spend("incidents")
    /\ stage' = [stage EXCEPT ![i] = "open"]
    /\ team' = [team EXCEPT ![i] = u]
    /\ Published("created", [inc |-> i, at |-> today])
    /\ Elsewhere /\ UNCHANGED <<today, due>>

BreachSla(i) ==
    /\ stage[i] = "open"
    /\ Spend("breaches")
    /\ Published("sla_breached", [inc |-> i, team |-> team[i]])
    /\ Elsewhere /\ UNCHANGED <<stage, team, today, due>>

ResolveIncident(i, fast, critical) ==
    /\ stage[i] = "open"
    /\ team[i] # NoUser
    /\ <<fast, critical>> \in scope.outcomes
    /\ stage' = [stage EXCEPT ![i] = "resolved"]
    /\ Published("resolved", [inc |-> i, team |-> team[i], fast |-> fast,
                              critical |-> critical, at |-> today])
    /\ Elsewhere /\ UNCHANGED <<team, today, budget, due>>

\* A second request of the technician that raced the first one.
ResolveTwice(i) ==
    /\ stage[i] \in {"resolved", "evaluated"}
    /\ Spend("repeats")
    /\ Published("resolved", [inc |-> i, team |-> team[i], fast |-> FALSE,
                              critical |-> FALSE, at |-> today])
    /\ Elsewhere /\ UNCHANGED <<stage, team, today, due>>

\* For the properties: how often the incident's resolution has been paid.
Resolutions(i) == {r \in ledger : r.stream = "resolved" /\ r.inc = i}

EvaluateIncident(i, permanent) ==
    /\ stage[i] = "resolved"
    /\ Spend("evaluations")
    /\ stage' = [stage EXCEPT ![i] = "evaluated"]
    /\ Published("evaluated", [inc |-> i, permanent |-> permanent])
    /\ due' = IF Cardinality(Resolutions(i)) = 1 THEN due \cup {i} ELSE due
    /\ Elsewhere /\ UNCHANGED <<team, today>>

EditPersonnel(u) ==
    /\ Spend("upserts")
    /\ Published("upserted", [team |-> u])
    /\ Elsewhere /\ UNCHANGED <<stage, team, today, due>>

NextDay ==
    /\ Spend("days")
    /\ today' = today + 1
    /\ UNCHANGED <<streamVars, tables, awarded, earned, job, raced, scope, stage, team, due>>

-----------------------------------------------------------------------------

Paid(s) ==
    \/ Begin(s) \/ NothingToDo(s) \/ RaiseAmbiguous(s)
    \/ ReadStats(s) \/ InsertStats(s) \/ InsertRefused(s)
    \/ PublishPoints(s) \/ CommitPoints(s)

Handlers == StartUpsert \/ handle_personnel_upserted \/ PublishBadges

Publishers ==
    \/ \E i \in Incidents :
        \/ \E u \in Technicians \cup {NoUser} : OpenIncident(i, u)
        \/ BreachSla(i)
        \/ \E fast, critical \in BOOLEAN : ResolveIncident(i, fast, critical)
        \/ ResolveTwice(i)
        \/ \E permanent \in BOOLEAN : EvaluateIncident(i, permanent)
    \/ \E u \in Technicians : EditPersonnel(u)
    \/ NextDay

GNext ==
    \/ \E s \in Streams : Advance(s) \/ HandlerFails(s)
    \/ \E s \in Paying : Paid(s)
    \/ Handlers
    \/ Crash
    \/ Publishers

GSpec == GInit /\ [][GNext]_gvars

GFairSpec ==
    /\ GSpec
    /\ \A s \in Streams : WF_gvars(Advance(s))
    /\ \A s \in Paying : WF_gvars(Paid(s))
    /\ WF_gvars(Handlers)

-----------------------------------------------------------------------------
(* What is shown.                                                          *)

RowsOf(u) == {r \in ledger : r.user = u}
Sum(rows) == MapThenSumSet(LAMBDA r : r.points, rows)

\* GET /leaderboard: the sum of the rows since the cutoff; the users without rows are absent.
leaderboard(cutoff) ==
    LET rows == {r \in ledger : r.day >= cutoff} IN
    [u \in {r.user : r \in rows} |-> Sum({r \in rows : r.user = u})]

\* GET /profile: the accumulated row.
profile(u) == IF stats[u] = NoStats THEN NewStats ELSE stats[u]

-----------------------------------------------------------------------------
(* Properties.                                                             *)

TypeOK ==
    /\ stats \in [Technicians -> StatsRow \cup {NoStats}]
    /\ badges \subseteq Technicians \X Badges
    /\ names \subseteq Technicians
    /\ stationLog # NoLog => stationLog.user \in Technicians
    /\ \A r \in ledger : r.stream \in Paying /\ r.entry \in 1..Len(streams[r.stream])
                         /\ r.user \in Technicians /\ r.points \in -5..25
    /\ \A s \in Streams : (job[s] = NoJob \/ phase[s] = "handling") /\ phase[s] \in Phases
    /\ raced \subseteq Technicians

\* _add_points: a user's total is the sum of the ledger rows and the level follows from it, for
\* every user whose row no two consumer tasks changed at once: no failure, restart or repeated
\* event makes them differ.
StatsFollowLedger ==
    \A u \in Technicians \ raced :
        /\ profile(u).total = Sum(RowsOf(u))
        /\ profile(u).level = _compute_level(profile(u).total)

\* handle_incident_resolved: resolutions are counted and the first one is rewarded exactly,
\* even when the total of the same row is overwritten by another task; and no badge is given
\* that was not announced.
CountsAreExact ==
    \A u \in Technicians :
        LET resolutions == {r \in RowsOf(u) : r.stream = "resolved"} IN
        /\ profile(u).resolved = Cardinality(resolutions)
        /\ <<u, "ilk_mudahale">> \in badges <=> resolutions # {}
        /\ \A b \in Badges : <<u, b>> \in badges =>
               \E r \in resolutions : <<u, b, r.entry>> \in earned

\* handle_incident_evaluated, handle_sla_breached: points go to the user the incident was paid
\* to or the event names, also when others resolved at the station since; each was announced.
PointsAreBacked ==
    \A r \in ledger :
        LET e == streams[r.stream][r.entry] IN
        /\ r.inc = e.inc
        /\ <<r.stream, r.entry>> \in awarded
        /\ r.stream \in {"resolved", "sla_breached"} => r.user = e.team
        /\ r.stream = "evaluated" =>
              \E paid \in ledger : paid.stream = "resolved" /\ paid.inc = r.inc /\ paid.user = r.user

Evaluated(i) == \E r \in ledger : r.stream = "evaluated" /\ r.inc = i

\* handle_incident_evaluated: an evaluation published when the resolution had been paid once is
\* paid too, unless a repeated resolution makes the lookup ambiguous, a failure loses it, or the
\* task ended.
EvaluationIsPaid ==
    []<>(\A i \in due : \/ Evaluated(i)
                        \/ Cardinality(Resolutions(i)) > 1
                        \/ faults < scope.faults /\ effects["evaluated"] + 1 < next["evaluated"]
                        \/ phase["evaluated"] = "dead")

\* ARCHITECTURE.md: the ledger gets a row per event and the totals are updated in the same
\* transaction, so the two views of a user's points always agree.  It takes a row that is there
\* already: of two tasks that both insert one the second is refused, ledger row and all.
ProfileAgreesWithLeaderboard ==
    \A u \in DOMAIN leaderboard(0) : profile(u).total = leaderboard(0)[u]
=============================================================================
