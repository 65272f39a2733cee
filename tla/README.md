# Verification of NetOpsCell in TLA+

NetOpsCell detects faults of telecom base stations from telemetry, opens incidents, assigns a
field technician, tracks an SLA deadline and rewards the technicians. It is four FastAPI
services, a gateway and a React front end; each service owns a Postgres database, and they talk
over REST and Redis streams. This directory holds TLA+ models of the system, the TLC runs that
check them and TLAPS proofs about them.

Run inside this directory:

    tlc -workers 2 -config MCIncidentRaces.cfg MCIncidentService
    tlc -workers 2 -config MCTeamWorkload.cfg MCTeamWorkload
    tlapm AnnouncementProofs.tla

and the other modules and `...Proofs` in the same way (`PROJECT.json` names the module and the
`.cfg` of each run).

## 1. Inventory of the system

Every service is one process with one asyncio event loop: a handler or background task runs
alone until its next `await`, and at each `await` (database, Redis, HTTP) any other may run.
Database sessions are READ COMMITTED; no row is locked (`SELECT ... FOR UPDATE` occurs nowhere)
and none is versioned.

| Component | State it keeps | Operations | Talks to |
|---|---|---|---|
| incident-service | incidents, status history, messages, resolution notes, evaluations, telemetry readings | `POST /telemetry`, `POST /incidents/report`, `PATCH .../status`, `.../assign`, `.../fault-type`, `POST .../messages`, `.../resolution-note`, `.../evaluation`; SLA task every 30 s | ai-service by REST with one retry; publishes six `incident.*` streams |
| ai-service | predictions, assignment log, team profiles, team workload, accuracy feedback; circuit breaker in memory | `/ai/predict`, `/ai/assign`, `/ai/teams`, `/ai/accuracy`; consumers of personnel, assigned, resolved, type_changed | LLM provider; Redis |
| gamification-service | point ledger, user stats, badges, per-type counts, last resolver of a station | consumers of resolved, created, evaluated, sla_breached, personnel; leaderboards | Redis; publishes points and badges |
| identity-service | users, refresh tokens, OTP codes, audit log | register, OTP, login, refresh, logout, personnel administration | publishes `identity.personnel.upserted` |
| gateway | cached public key, rate counters in Redis, open web sockets | proxy with JWT check and rate limit; notification hub | all services; consumes four streams |
| front end | tokens and user in the browser | pages; one API client with a shared refresh | gateway |

What is hard in each of them, and what makes it correct:

* **incident-service** - handlers read, validate, wait and commit without locks, beside each
  other and the SLA task; telemetry publishes before its commit, the rest after. Correct means:
  the status follows the graph and the history, a resolution is recorded and settles the SLA
  verdict, nothing committed is taken back, and the events tell what was committed.
* **ai-service** - the workload counter is fed by two independent consumers and read by
  assignment. Correct means: it counts the open incidents of a team, never exceeds the capacity
  through automatic assignment, and the prediction chain always answers.
* **gamification-service** - four consumers over one stats row, with no order between streams.
  Correct means: totals equal the ledger, each resolution, breach and evaluation counts once.
* **identity-service** - refresh rotation with reuse detection, lockout. Correct means: at most
  one live token per login, a reused token ends the sessions of its user, lockout after five.
* **gateway** - fixed-window counters, key rotation, sockets. Correct means: no more than the
  limit per window, a valid token is not refused after a key change.
* **front end** - one refresh in flight. Correct means: it never replays a token it has rotated,
  and offers only the transitions the service accepts.

`PROJECT.json` lists every component with its status and every hazard with the line where it
bites and the properties that would catch it.

## 2. Modules

| Module | Models | Notes |
|---|---|---|
| `IncidentService` | the incident service, whole | `api/incidents.py`, `core/state_machine.py`, `core/sla_scheduler.py` |
| `IncidentLifecycle` | what it promises, with atomic requests | abstract specification |
| `StreamConsumer` | the loop of one consumer task per Redis stream | `consumers/runner.py`, `consumers/skeleton.py`, the gateway's loop; a library the next three extend |
| `AtMostOnce` | what that loop promises of a stream | abstract specification |
| `TeamWorkload` | consumers of the AI service, `/ai/assign` and its caller | extends `StreamConsumer` |
| `Gamification` | the gamification service, whole but for read-only lists | extends `StreamConsumer` |
| `Gateway` | rate limit, key cache, proxy, notification hub | extends `StreamConsumer` |
| `Sessions` | login, refresh, logout of the identity service, and the browser tabs | two components, composed |
| `Diagnosis` | `/ai/predict`, its caller, the breaker and fallbacks, the accuracy metric | two components, composed |
| `MC...` | values of the constants for TLC | one per module, with its `.cfg` files |
| `IncidentServiceProofs`, `AnnouncementProofs` | theorems about `IncidentService` | TLAPS |
| `StreamConsumerProofs` | theorems about the loop, for every handler | TLAPS |
| `TeamWorkloadProofs`, `GamificationProofs`, `GatewayProofs` | theorems about the module named, over the loop's | TLAPS |
| `SessionsProofs`, `DiagnosisProofs` | theorems about the module named | TLAPS |

The services meet at the streams and at REST calls, and that is where the modules compose:
`IncidentService` writes the streams; `TeamWorkload`, `Gamification` and `Gateway` take
`StreamConsumer`'s loop step by step and put their handlers between its `Start` and its
`Complete` or `Raise`, with as much of the publishers as decides what the streams may hold;
`Sessions` puts the tabs beside the endpoints they call, `TeamWorkload` and `Diagnosis` put the
incident service's `_post_with_retry` beside the endpoint it calls.

### How IncidentService corresponds to the code

`row`, `history`, `notes`, `messages`, `evaluated` are the tables; `stored` says which incidents
are committed, `used` which ids have been handed out. `streams` are the Redis streams. `task[w]`
is one request in progress: `snap` is what `db.get` returned, `want` the same object after the
handler's assignments. `scheduler` is the round of the SLA task, `overdue` the incidents whose
`sla_due_at` has passed. `clock` is the database's, as far as it orders history rows. `unsent`
(what was committed and lost before it was announced) and `contested` (incidents two corrections
of the fault type were under way on at once) are history variables: no action reads them.

A handler is cut at its awaits and nowhere else:

| Code | Actions |
|---|---|
| `change_status` | `LoadStatus` (get, validate, assign), `CommitStatus`, and after a resolution `Refresh` and `PublishCommitted` |
| `manual_assign`, `change_fault_type`, `create_evaluation` | `LoadAssign`/`LoadFaultType`/`LoadEvaluation`, the matching `Commit...`, `PublishCommitted` |
| `create_message`, `add_resolution_note` | `Load...`, `Commit...` |
| `report_incident` | `ReportIncident`, `PublishCommitted` |
| `submit_telemetry` | `SubmitTelemetry`, then `KeepWatching`, or `OpenIncident` (which publishes `incident.created` before any commit), `AutoAssignQueued` or `AutoAssign`, `CommitTelemetry` |
| `_check_once` | `SchedulerSelect`, `SchedulerCommit`, one `SchedulerPublish` per event |

Points of the code that the model keeps exactly:

* `Merge`: SQLAlchemy writes only the attributes that differ from what it loaded, so a stale
  handler overwrites the columns it changed and no others. The scheduler's `UPDATE` is by
  primary key: it does not look at the row again.
* A history row carries `changed_at`, whose default `now()` is the start of the transaction
  (models/incident.py:86), here `at`: the clock when the request loaded the incident. A request
  that began first and commits last leaves a row that looks older than what it replaced, and
  the table has no other order.
* A resolution refreshes its object after the commit, so its event carries the team of that
  moment; the other events carry what the request asked for.
* `incident_evaluations.incident_id` is unique, so the loser of a race fails at the commit.
* `change_status` and `manual_assign` consult the same graph; neither sets the other's columns.

Abstracted: names, texts, coordinates, numbers of incidents, probabilities and priorities (no
control depends on them here; a deadline may pass at any time), the telemetry reading itself,
the read-only GET handlers, and refusals (403, 404, 409, 422 change nothing, so a refused
request is a disabled action; the fire-and-forget audit call on a 403 is left out).

### Failures

`RequestFails` is any exception at an await: the session rolls back what is not committed and
what is not yet published stays unpublished. It stands for a lost database or Redis connection
and for the httpx errors `_post_with_retry` does not catch. `SchedulerFails` is the same in the
SLA task, whose loop logs it and goes on. `Crash` ends everything in flight at once. The three
share the bound `MaxFailures`, and add to `unsent` what was committed and not announced.

### How StreamConsumer corresponds to the code

`streams` are the entries in Redis, `delivered` the group's last-delivered-id, `next` the position
of the task in the batch it holds, `phase` where it stands.

| Code | Actions |
|---|---|
| `xreadgroup(..., ">", count=...)` | `Read`; `ReadFails` when the answer is lost after Redis moved the group on |
| the call of the handler, its return, its exception | `Start`, `Complete`, `Raise` |
| `xack`, outside the `try` | `Ack`; `AckFails` ends the task |
| a restart of the service | `Restart`: `BUSYGROUP` keeps the group, the batch is forgotten |

The effects of a handler become visible at its `Complete`, which is its commit. `latest` and
`effects` are history variables, for `AtMostOnce`.

### How TeamWorkload corresponds to the code

`profile`, `load`, `feedback` and `log` are the tables `team_profile`, `team_workload`,
`accuracy_feedback`, `assignment_log`. The handlers of assigned and resolved read the counter in
`StartHandler` and write what they computed from it in their own action. `/ai/assign` selects the
active teams (`Ask`), reads their workloads one by one (`ReadWorkload`) and logs its choice
(`LogChoice`). The caller side: `RequestTeam`, `TimeOut` (which starts the second call and leaves
the first one running), `Abort`, `ReceiveTeam`, `CommitTelemetry`, `RollBack`. The weights 0.4,
0.3, 0.3 of the score are exact integers; the great-circle distance is the constant `Proximity`.
An assignment by hand and a resolution commit first (`AssignByHand`, `ResolveIncident`) and put
their announcement into the `outbox`; `Announce` is the XADD that follows, `LoseAnnouncement` the
failure or crash between the two, after which nobody publishes it any more.
`drifted` collects the teams whose count was upset by a named cause (an overlap of two handlers,
a lost or failed entry, an order the code drops, a rollback after the announcement, an
announcement lost after its commit); `rushed` says that an assignment did not wait until the one
before was counted. The properties say that nothing else goes wrong.

### How Gamification corresponds to the code

`ledger`, `stats`, `badges`, `stationLog`, `solved`, `names` are the tables, `job` the handler in
progress of each stream. A paying handler goes `Begin` (find whom it concerns), `ReadStats`,
`InsertStats` (the flush, which waits on the primary key; `InsertRefused` is its IntegrityError),
`PublishPoints`, for a resolution `PublishBadges`, and `CommitPoints`, the whole transaction.
`Write` is SQLAlchemy's column-wise UPDATE. `leaderboard` and `profile` are the two queries.
`raced` holds the users whose total was overwritten from a stale one, `due` the evaluations
published when their incident had been paid once. There is one station, and of the levels the
first threshold; badge thresholds are a constant.

### How Sessions corresponds to the code

`tokens` and `account` are the rows of `refresh_tokens` and `users`, `request` the requests on
their way with their handlers' program counters, `mem` and `stored` a tab's session store and the
`localStorage` all tabs share. `refresh` is `SelectToken`, then `StartRevoking` and
`CommitRevoking` (reuse), or `GetUser` and `Rotate`; `login` is `ReadAccount`, `CountFailure` or
`ResetFailures`, `_issue_token_pair`; `logout` is `TurnAway` or `RevokeOne`. A tab's `tryRefresh`
joins the refresh in flight, if any. `Lose` loses the request, its handler or the answer.
`shared` are pairs a page took from `localStorage` when it was loaded (another tab, or the same one
reloaded: a refresh it had on the way may use the token after all) or a tab logs out with, `misused`
the tokens presented when revoked or rotated twice, `wrong` the wrong passwords since the last
login, `overlapped` that two logins were between read and commit at once.

### How Gateway corresponds to the code

`counter` are the Redis counters with their expiry, `cached` is `_public_key_pem`, `registry` and
`roles` are the dictionaries of `ws_manager.py`. A request goes `Arrive`, `Increment`, `Expire`
(a call of its own), `Verify`, `FetchKey`, `StoreKey` and `Decode`, `Forward`; one for a public
route is forwarded without `Verify`. `get_public_key` assigns the global inside the `async with`
of its HTTP client, waits for the client to close and returns the global (public_key.py:14-18):
between `StoreKey` and `Decode` another request may store an older answer, which is then decoded
with; `overtaken` remembers such requests. A socket goes `Dial`, `Verify`, `connect`,
`disconnect`. The hub's handler copies its addressees (`StartSending`) and writes to one after the
other (`SendJson`). A token is the number of the key that signed it. `passed`, `tardy`,
`overtaken`, `inbox`, `handled` are history. A missing token
is one of no key. Unknown routes (404), answered before anything is counted, and expired tokens,
which are refused whatever key is cached, are left out.

### How Diagnosis corresponds to the code

`breaker` is the circuit breaker, with the time since it opened; `handler` the predict requests,
`reading` their callers. `Admitted`/`Refused` is `is_open`, `Diagnosed`, `NoToolUse`, `CallFails`
and `Malformed` are what a call may end in, `Commit` stores the prediction before the answer. An
error that `_post_with_retry` lists is retried once and then ends in an incident of unknown type
(`GiveUp`); any other ends the reading without an incident (`Refusal`).
`derive_suggestion`, `derive_priority` and `rule_based_predict` are the functions of
`thresholds.py` and `rule_fallback.py` in thousandths, with the one place where the floating-point
sum differs from the exact one (`AboveByRounding`). What LLM and trained model say is chosen from
the constants. `outage` keeps the ages of the diagnoses that failed in a row, `recorrected` the
incidents corrected more than once.

## 3. Runs

| Run | Instance | Shows |
|---|---|---|
| `inc_races` | 1 incident, 2 technicians, 2 concurrent requests, 1 failure or crash, 4 scenarios | what survives any interleaving: tables, events, `NothingWithdrawn` |
| `inc_orderly` | 1 incident, 1 technician, 2 concurrent requests that are not both moves, 1 failure or crash, 3 scenarios with every operation; `OrderlyFairSpec` | refinement of `IncidentLifecycle`, and liveness |
| `inc_offgraph` | 2 concurrent requests | finding: a stale commit leaves the graph |
| `inc_verdict` | 1 request at a time | finding: the verdict changes after the resolution |
| `inc_assigned_no_team` | 1 request at a time | finding: ATANDI without a team |
| `inc_autoclose` | 1 request at a time; `FairSpec` | finding: nobody closes a resolved incident |
| `workload` | 2 incidents, 2 teams with room for one each, 6 scenarios; `WFairSpec` | the counter is exact but for the causes named, lost announcements among them; capacity; logged choices; at-most-once delivery; convergence |
| `gamification` | 2 technicians, 2 incidents of one station, 7 scenarios; `GFairSpec` | totals, counts, badges, who is paid, and that evaluations are |
| `leaderboard` | one incident, one breach | finding: profile and leaderboard disagree after two entries of one incident are consumed at once |
| `sessions` | 2 tabs with 2 calls each, 3 requests at a time, lock after 2 failures, 6 scenarios | single-flight refresh, reuse detection, lockout, no call hangs |
| `gateway` | 3 requests, 2 sockets, 2 users, 3 windows, 5 scenarios; `HFairSpec` | the limit, key changes, delivery to open sockets, every request ends |
| `diagnosis` | 4 readings, breaker of 2 failures and 2 ticks, 3 scenarios | breaker, thresholds, stored predictions, accuracy |

**Why these bounds are enough.** Of `IncidentService`: rows do not interact except through the
scheduler's batch, so one incident shows every race about a row; the proofs cover any number. Two
workers show every pairwise race, and no handler waits for another. A behaviour starts from one of
the scenarios of `MCIncidentService`, which say how many requests of each operation may come:

* `RacingScenarios`: telemetry, five moves and two evaluations bring an incident to its evaluation
  with a race on the way; two more supervisors assign an incident that is being resolved; two
  corrections, an assignment and a move meet on a customer's report; a message and a note are
  written while an incident is resolved. With one failure or crash.
* `OrderlyScenarios`: the whole graph with the wait for a part; assignments, a move and a correction
  of one report; messages and notes of its team. They too have one failure or crash, so a round of
  the SLA task that raises, and an announcement lost after its commit, are among the behaviours.
* `MovingScenarios`, for the counterexamples: telemetry, a report, assignments and moves.

Two technicians distinguish the assigned one from another; `inc_orderly`, whose properties do not
compare teams, has one. Workers and technicians are interchangeable, hence the symmetry set of
`inc_races`, which checks no liveness; `inc_orderly`, which does, uses none. `inc_races` visits some
482 thousand states, `inc_orderly` 109, `workload` 294, `gateway` 503 and `diagnosis` 283 thousand.

In the other modules, too, a behaviour starts from one of a few *scenarios* (`Scenarios`, listed
with a comment in each `MC` module): a record that says how often each thing from outside may
happen - requests, personnel events, breaches, days, faults. A scenario is the smallest one in which a
hazard, or two together, can bite; between them every action fires. Full products would multiply
independent things without letting new ones meet.

* `workload`: capacity 1 makes the second incident meet a full team; proximity and expertise are
  such that the order of the scores changes as teams fill up; batches of two leave an entry behind
  in a crash. Two faults are needed for two timeouts of one call.
* `gamification`: at most two entries of a stream, so that every pair of tasks overlaps on a row;
  the level and all badges but the first are reached with the second event; `Window` of one day
  and two days put an incident inside and outside it.
* `sessions`: the single-flight property needs two calls of a tab; two tabs share one
  `localStorage`; three requests let a refresh, a logout and a login overlap. Lockout is per
  account and counts to any threshold the same way.
* `gateway`: limits 1 and 2 and three requests reach 429; four ticks with windows of two cross two
  boundaries, `TTL` one longer than a window as 65 s is longer than 60; two key changes let answers
  about the key overtake each other, before they are stored and between store and use.
* `diagnosis`: the breaker needs as many readings as its threshold to open and two more to see it
  half open; the telemetry sets reach each threshold from both sides, including the sum on which
  floating point and exact arithmetic differ.

`CHECK_DEADLOCK FALSE` is set where the budgets of a scenario run out: the system does not stop
then, it has nothing to do.

**Properties.** `StatusFollowsHistory`, `ResolutionIsRecorded` and `ResolvedHasVerdict` relate
tables that are written by different handlers from stale copies. `BreachAnnouncedOnce`,
`ResolvedEventsBacked` and `EvaluatedOnce` bound what the consumers may be told.
`NothingWithdrawn` is what the column-wise `UPDATE` buys. `ResolverIsAnnounced`,
`AssignmentIsAnnounced` and `TypeChangesChain` compare events with rows that others change
between the read, the commit, the refresh and the publication. They hold under races and failures
too, but for what each names: an incident two requests took from YENI (`TakenTwice`), two
corrections under way at once (`contested`), an event lost after its commit (`unsent`).
Only `ImplementsLifecycle` restricts the interleavings: `OrderlySpec` has those in which
two moves of one incident do not overlap. What happens when they do is what `inc_offgraph`
shows; all else - other incidents, corrections, evaluations, messages, the SLA task - overlaps
freely.

`StatusFollowsHistory` says what the table can say: the status is the target of the newest row by
`changed_at`, or of a row whose request began earlier and committed later than those that look
newer. A reader of the history that sorts by `changed_at` may therefore see another last move
than the one that stands.

The properties of the other runs relate tables that different tasks maintain: the workload
counter to the incidents (`SettledLoadIsExact`, `CapacityRespected`), totals and counts to the
ledger (`StatsFollowLedger`, `CountsAreExact`), ledger rows to events (`PointsAreBacked`), the
account to the passwords tried (`LockFollowsFailures`), inboxes to streams
(`OpenSocketsGetEachEventOnce`), predictions to incidents (`IncidentsHavePredictions`), the breaker
to the calls that really failed (`OutageSparesTheLLM`, `HealthyLLMIsAsked`). Where the code has a
race that loses something, the property names the race through a history variable and claims
everything else: that the counter drifts *only* for those causes is what a maintainer wants to
know, and what a new cause would break. The history variables guard nothing and are read by no
action.

**Fairness.** `FairSpec` assumes that the event loop keeps resuming an accepted request
(`WF(Proceed(w))`) and the scheduler's `while True` loop (`WF(Schedule)`). Nothing is assumed of
callers, of deadlines or of failures, and no action needs strong fairness. Under it
`OverdueIsDecided`, `BreachIsAnnounced` and `ResolutionIsAnnounced` are checked (as
`OrderlyFairSpec`), with a failed request, a failed round or a crash: an overdue incident is decided
by a later round. An announcement can be lost between commit and publication, by design of the
code; the last two name that loss (`unsent`) and claim every other.

`WFairSpec`, `GFairSpec` and `HFairSpec` assume weak fairness of each live consumer task: every
await of the loop and of a handler returns or raises, and the event loop resumes it. A task that
ended on an XACK error has no enabled step, so nothing is assumed of it, and the liveness
properties name that end. `SSpec` and `HFairSpec` assume it also of request handlers, which await
only the database and other services, and `SSpec` of a tab receiving an answer (a `fetch` is
settled in the end, by an error at the latest). Nothing is assumed of users, clocks, publishers or
failures; a liveness property of these runs has the form `[]<>`, so it must be reached again and
again whatever they do.

Each property of a passing run has a mutant in `PROJECT.json`: a variant of one definition that
a plausible slip would produce (the operators marked `Mutant` in the modules; no action uses
them). With it in place TLC finds the property violated.

## 4. Findings

1. `inc_offgraph`: ARCHITECTURE.md:282 promises 422 for a move the graph lacks; two requests on
   one row make one (incidents.py:527 and 585).
2. `inc_verdict`: ARCHITECTURE.md:296 says the verdict does not change after COZULDU; the
   scheduler overwrites it (sla_scheduler.py:33).
3. `inc_assigned_no_team`: ARCHITECTURE.md:272 and stateMachine.ts:31 say ATANDI means a team and
   that a supervisor moves nothing through `PATCH /status`; the code lets him, without a team.
4. `inc_autoclose`: ARCHITECTURE.md:285 describes a task closing incidents after 24 hours; there
   is none.
5. `leaderboard`: ARCHITECTURE.md:353 and :355 promise totals that are always right; two consumer
   tasks that add to one row at once lose one of the sums (handlers.py:80-82). The run needs a stats
   row first, so a resolution is paid; then `incident.created` of that same incident, consumed late,
   fines its resolver while the task of `incident.sla_breached` writes the same row. (With no row
   yet, both would insert, and the one refused loses its ledger row as well: both views agree.)

Seen while modelling and kept as the code has it, without a run of their own:

* ARCHITECTURE.md:276 lets the system resume an incident that waits for parts, and
  state_machine.py:10-12 names a background task for it; there is none, and no user may: such an
  incident stays PARCA_BEKLENIYOR for ever (like the missing closing task of finding 4).
* llm_client.py:133 records a success before the block is parsed, so an LLM whose answers are
  malformed never opens the breaker; the docstring at :70 speaks of failures in a row.
* ai-approach.md:96 says the LLM is not tried at all while the breaker is open; a diagnosis that was
  admitted before makes its second try then.
* predictor.py:14 answers `ML_MODEL` also when the rules answered for lack of a model file;
  ai-approach.md:99 expects `RULE_FALLBACK`.
* The incident service waits 2 s per attempt, the LLM may take 4 s twice: a reading may leave two
  rows in `predictions`, which the accuracy metric counts.
* Per category the share of incorrect predictions is none when an incident is corrected twice or
  an incident nobody predicted is corrected (`AccuracyIsAShare` states when it is one).
* 0.2 + 0.35 + 0.15 is 0.7000000000000001, above the threshold of 0.7, while 0.35 + 0.35 is not:
  two symptom sets of equal weight get different priorities (rule_fallback.py:49).
* useNotifications.ts:45 switches on `event_type`, notification_consumer.py:17 sends `type`.
* A logout while a refresh is in flight clears the session, and the refresh restores it
  (authApi.ts:72, client.ts:76).
* A failure between INCR and EXPIRE leaves a counter without an end: the next window has a key of
  its own, so it refuses nobody later, but it stays in Redis (rate_limit.py:13-16).
* A request can decode with an older key than it fetched itself, if another one stores that while
  it closes its HTTP client (public_key.py:14-18), and answer a current token with 401.
* incident_status_history has no order but changed_at, the start of a transaction: of two
  overlapping moves the one that counts may look the older (models/incident.py:86).
* ARCHITECTURE.md:367 calls the rate limit a sliding window; rate_limit.py and the gateway's own
  README have a fixed one.
* handlers.py:219 of the gamification service takes a negative difference of dates for a recent
  resolution.

## 5. Proofs

Every theorem holds for all values of the constants that satisfy the named assumptions of its
module: any number of incidents, requests, workers, tabs, sockets, teams or readings, any limits,
thresholds and failure budgets. The assumptions only say what the names mean (`NoTeam` is no team,
a threshold is a positive number) except where noted. Types are proved first, then each property
through an inductive invariant that was checked by TLC before it was proved.

### The incident service

`IncidentServiceProofs` and, for what is published, `AnnouncementProofs`, from the four assumptions
named in `IncidentService`:

| Theorem | Statement |
|---|---|
| `TypeCorrect` | `Spec => []TypeOK` |
| `RowInvariant` | `Spec => []RowInv` |
| `StatusCorrect` | `Spec => []StatusFollowsHistory` |
| `ResolutionCorrect` | `Spec => []ResolutionIsRecorded` |
| `VerdictCorrect` | `Spec => []ResolvedHasVerdict` |
| `NothingWithdrawnCorrect` | `Spec => NothingWithdrawn` |
| `BreachAnnouncedOnceCorrect` | `Spec => []BreachAnnouncedOnce` |
| `EvaluatedOnceCorrect` | `Spec => []EvaluatedOnce` |
| `ResolvedEventsAreBacked` | `Spec => []ResolvedEventsBacked` |
| `ResolversAreAnnounced` | `Spec => []ResolverIsAnnounced` |
| `LifecycleImplemented` | `OrderlySpec => ImplementsLifecycle` |
| `TypeChangesAreChained` | `Spec => []TypeChangesChain` |
| `AssignmentsAreAnnounced` | `Spec => []AssignmentIsAnnounced` |

The three safety invariants are not inductive: whether a commit keeps them depends on what the
committing request saw. `RowInv` adds

* `SnapshotsOnlyLag` - a loaded copy is stale in one direction only: a verdict, a team or a
  resolution it shows is still in the row, and what the request wants is what its checks allowed;
* `OpeningsAreExclusive` - a telemetry request owns its id until it commits, all others and the
  scheduler work on stored incidents;
* `BlankUntilStored` - an uncommitted row has no history.

`MergeAdvances` is the heart: committing such a copy column by column never withdraws anything
and leaves no resolved row without a verdict. `MoveRowInv`, `OpeningRowInv` and `QuietStep` carry
it through the actions, `NextRowInv` collects them, and `NothingWithdrawnCorrect` follows from
`StepAdvances`.

The theorems about announcements stand on `RowInv` and have an invariant each.

* `BreachInv`: an announced incident is stored and decided (`AnnouncedIsDecided`), so no later
  round selects it; and what a round still has to announce was announced by nobody and, once the
  round has committed, is decided too (`BatchIsPending`). A round that fails after its commit
  loses announcements; it never repeats one, since its incidents are BREACHED by then. That a
  verdict is never withdrawn (`StepAdvances`) is what carries this over all other steps.
* `EvaluationInv`: the request whose insert passed the unique `incident_id` is the only one that
  will announce the evaluation, and has not yet (`ReportIsExclusive`); an evaluation is only ever
  loaded for an incident whose history has KAPANDI (`EvaluationIsOfClosed`), which follows from
  `StatusFollowsHistory`, and histories only grow (`ClosedStays`).
* `TasksFit`: every request in flight carries what its handler may write, e.g. a status change an
  edge of the graph and a resolution its own team's name. It holds in any interleaving, since a
  handler decides on one copy of the row; the theorems below all stand on it.
* `ResolutionsAreCounted`: the events announced for an incident *plus* the requests that
  committed a resolution and have still to announce it are at most the moves in its history.
  Counting the events alone is not inductive. A commit adds one move and at most one such request
  (`CommitIsCounted`), the announcement turns the request into an event (`AnnouncementIsCounted`),
  a failure or crash drops it, and every other step leaves the events and adds no request
  (`CountUndisturbed`). `ResolversAreTeams` gives the second half, that each event names a team:
  the caller was checked against the team, and a team is never taken away.

* `ResolverInv` carries the resolver from the check over the commit and the refresh to the event:
  the request that resolves is of the team, the row keeps that team (`ResolverStays`), and the
  history keeps the move. A team is written only by a request that loaded the incident as YENI, and
  an incident that has a team was taken from YENI once already (`TeamsAreTaken`); so another team
  can appear only on one that is `TakenTwice`.
* `CorrectionsInv` says that of an incident nobody contests one correction at most is under way, and
  it still replaces the fault type the row has. `ChainInv` then says that the last announced fault
  type is the row's, or the one the correction still to be announced had read (`Known`).
* `AssignmentInv` follows the two orders of the code: an automatic assignment is announced first and
  written next, one by hand is written first. It says what an event of an incident that is not
  stored yet promises (`AssignmentFits`) and where the team of a stored one was, will be or cannot
  be announced any more (`AssignmentKnown`).
* `LifecycleImplemented` is the refinement, of the behaviours in which two moves of one incident do
  not overlap. `MovesAreCurrent` is what this buys: a move commits on the status and team it was
  validated with, and what is being evaluated is still closed; verdict and fault type may be stale.
  The mapping shows status, team and verdict of the committed rows
  (`StatusSeen`, `TeamSeen`, `VerdictSeen`); reading, flushing, publishing, failing and crashing are
  stuttering (`UnseenStep`), and each commit is one abstract step: `StatusRefines` (Assign, Resolve
  or Advance), `AssignRefines`, `EvaluationRefines`, `TelemetryRefines` and `ReportRefines` (Open),
  `BreachRefines` (a whole round of the SLA task is one Breach). A resolution that raced a breach
  shows why `Resolve` must allow both verdicts.

### The consumer loop

`StreamConsumerProofs`, from `ConsumerAssumption` (the batch size is a positive number):

| Theorem | Statement |
|---|---|
| `LoopCorrect` | `ConsumerSpec => []LoopInv(Entries)` |
| `ConsumerIsAtMostOnce` | `ConsumerSpec => AtMostOnceInOrder` |

`LoopInv` places a task: inside the batch the group has delivered to it or just past it
(`TaskInBatch`), with everything that took effect behind the entry it still has to handle. That
is what makes `Complete` a `TakeEffect` of `AtMostOnce`: the entry was published and is newer than
the last one that took effect. Lost answers, failed XACKs and restarts only ever move a task
forward. The lemmas speak of single steps and of any set of entries, and the three modules that
put handlers into the loop cite them: each of their steps is a step of the loop, a publication, a
restart or none, which gives `WorkloadImplementsAtMostOnce`, `GameImplementsAtMostOnce` and
`HubImplementsAtMostOnce` with the real handlers and publishers in place.

### Team workload

`TeamWorkloadProofs`, from `WorkloadAssumption` (among it: a capacity is positive):

| Theorem | Statement |
|---|---|
| `WorkloadTypeCorrect`, `WorkloadIsTyped` | `WSpec => [](StreamInv /\ WorkType)`, `[]TypeOK` |
| `WorkloadImplementsAtMostOnce` | `WSpec => AtMostOnceInOrder` |
| `AnnouncedTeamsAreLogged` | `WSpec => []AnnouncedTeamWasLogged` |
| `WorkloadIsExact` | `WSpec => [](AnnounceInv /\ LoadInv)` |
| `SettledLoadsAreExact` | `WSpec => []SettledLoadIsExact` |
| `CapacityIsRespected` | `WSpec => []CapacityRespected` |

* `LogInv`: an answer that has left `/ai/assign` is in the log, so whatever the caller takes up is.
* `AnnounceInv`: an incident has at most one entry in each of the two streams, with the team it
  has, and only once its stage is committed. A stage that is to be announced has been, is still in
  the `outbox`, or its team is on record as `drifted` (`ToldOrLost`). Without it the counter could
  be exact for the wrong incidents.
* `LoadInv` states what `SettledLoadIsExact` says at *every* moment: the count of a team nothing
  upset, plus the resolutions behind the resolved task, equals the assignments behind the assigned
  task (`Booked`). Two handlers that overlap put the team among `drifted`, so a handler that
  commits has the count it read. When both tasks have caught up and the outbox is empty, what is
  booked is what is open.
* `CapacityInv`: while an unhurried request asks, no other asks and everything assigned is counted
  (`WaitInv`), so what the call reads of a team is at least what the team has (`CallFits`), and it
  chooses none that is full.

### Gamification

`GamificationProofs`, from `GamificationAssumption` (the threshold of the level is positive,
`NoStats` is not a row):

| Theorem | Statement |
|---|---|
| `GameTypeCorrect`, `GameIsTyped` | `GSpec => [](StreamInv /\ GameType)`, `[]TypeOK` |
| `GameImplementsAtMostOnce` | `GSpec => AtMostOnceInOrder` |
| `PointsGoToTheRightUser` | `GSpec => []PointsAreBacked` |
| `ResolutionsAreCountedExactly` | `GSpec => []CountsAreExact` |
| `TotalsFollowTheLedger` | `GSpec => []StatsFollowLedger` |

* `GameType` has `JobFits`: a handler credits its user on an entry that was delivered and has not
  taken effect, and inserts a row only when there was none to read. So the ledger row it commits is
  new, and an insert that meets a row in the meantime is refused.
* `BackedInv` adds `JobBacked`, the same for what a handler is about to commit.
* `CountInv` adds `CountFits`: resolutions are handled by one task only, so the count a resolution
  handler read is still there when it commits, although other tasks rewrite other columns of the
  row meanwhile: that `Write` touches changed columns only is what the proof turns on. The number
  of rows is `Cardinality` of a subset of a finite ledger.
* `TotalInv` adds `LevelFits`: a user nobody raced for has, in the handler's copy, the total the row
  has now, so the sum written is the sum of the ledger with the new row, and the level follows it.

The sum over the ledger is a fold, and the prover can instantiate no induction theorem with an
operator. The lemmas about it (`SumsExist`, `SumsAgree`, `SumStep`, `SumAdds`) go through the
well-foundedness of strict inclusion between finite sets instead: `SmallestSubset` takes a minimal
counterexample, which has no parameter.

### Gateway

`GatewayProofs`, from `GatewayAssumption`, of which `TTL >= Minute` matters (65 s and 60 s): a
counter that ended before its window would start the count again.

| Theorem | Statement |
|---|---|
| `GatewayTypeCorrect`, `GatewayIsTyped` | `HSpec => [](StreamInv /\ GatewayType)`, `[]TypeOK` |
| `HubImplementsAtMostOnce` | `HSpec => AtMostOnceInOrder` |
| `LimitHolds` | `HSpec => []LimitPerMinute` |
| `CurrentTokensAreAccepted` | `HSpec => []CurrentTokensPass` |
| `SocketsGetEachEventOnce` | `HSpec => []OpenSocketsGetEachEventOnce` |

* `LimitInv`: in every window without a late EXPIRE the requests passed are no more than the
  counter and than the limit; of the first request, which still has to set the end, there is one,
  and it is counted but not passed (`WindowInv`). An end that is set lies beyond the window, so the
  counter is not forgotten in it.
* `KeyInv`: keys are fetched from the present or the past, never before the request came, so an
  answer is no older than the token's key; and until the request decodes, what is stored is no older
  than its answer, unless the request is `overtaken` (`KeyFits`). `StoringKeepsKey` and
  `OneMovesKeepsKey` carry this over the stores and the other steps of other requests.
* `RegistryInv` ties the dictionaries of `ws_manager.py` to each other and to the sockets.
* `InboxInv`: what a socket got lies behind the task or is what it is at, and there is no
  duplicate; of the event in progress a socket that is concerned has got it or is in the copy still
  to be written to; of an event handled to the end it has got it.

### Sessions

`SessionsProofs`, from `SessionsAssumption` (a lock threshold is positive):

| Theorem | Statement |
|---|---|
| `SessionsTypeCorrect` | `SSpec => []SessionsType` |
| `LockoutCountsFailures` | `SSpec => []LockFollowsFailures` |
| `OnlySharedTokensTripReuseDetection` | `SSpec => []OnlySharedTokensAreMisused` |

* `LockInv`: while logins do not overlap, the one between its read and its commit has read what is
  still stored.
* `MisuseInv`: either a shared token has been misused already, or no token has (`Unmisused`). Then
  every token nobody shares is `Sole`: in one tab at most, carried only by that tab's own refresh,
  of which one may still rotate it; while its answer is on the way nobody else has it; and once it is
  used nobody is left to present it.

### Diagnosis

`DiagnosisProofs`, from `DiagnosisAssumption` (threshold and cooldown are positive, the LLM may
answer any number, the trained model a probability):

| Theorem | Statement |
|---|---|
| `DiagnosisTypeCorrect` | `DSpec => []DiagnosisType` |
| `OutagesSpareTheLLM` | `DSpec => OutageSparesTheLLM` |
| `HealthyLLMsAreAsked` | `DSpec => HealthyLLMIsAsked` |
| `SuggestionsAreStored` | `DSpec => []IncidentsHavePredictions` |
| `AccuracyIsAlwaysAShare` | `DSpec => []AccuracyIsAShare` |

The two action properties follow from `BreakerInv`: a closed breaker has counted every recent
failure in a row, an open one is as old as the last of them. `AnswerInv` says that an answer was
stored before it left and that suggestion and priority follow from its probability. `LedgerInv`
says of each incident which prediction it was made from, and of its first correction that it
replaces the type that was predicted: this is why the incorrect predictions of a category are among
its predictions unless an incident was corrected twice.

### Only model-checked

All liveness properties (`OverdueIsDecided`, `BreachIsAnnounced`, `ResolutionIsAnnounced` and those
under `WFairSpec`, `GFairSpec`, `HFairSpec` and `SSpec`'s fairness): the prover does not reason
about fairness and ENABLED. The refusals of the five findings are counterexamples, not theorems.
Every safety invariant, action property and refinement of the runs is a theorem of this section.

## 6. Plan

Done: the modules of section 2, their runs, and the theorems of section 5. Of the theorems about
the incident service only the refinement restricts the behaviours, and it must: overlapping moves
of one incident leave the graph (finding 1).

### Not modelled

* **Front end: status graph of the UI.** Two constant tables that decide which buttons are shown;
  `IncidentService` lets every caller try every move.
* **Front end: pages and mocks**, **migrations and deployment**: no behaviour to check.
* **Model training**: numerical and offline; its result is the constant `MLAnswers`.
* **Registration of customers and one-time codes**: the code is a constant, the handlers touch
  nothing the sessions depend on but issue a pair like a login does.
* **Audit log**: written, never read by a decision.
* **Ranks, lists, statistics, badge catalogue, health, the gateway's route table and header
  rewriting**: read-only or stateless.
