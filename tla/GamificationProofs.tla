-------------------------- MODULE GamificationProofs --------------------------
(***************************************************************************)
(* Theorems about the gamification service: points are backed by the       *)
(* events they were given for, resolutions are counted exactly although    *)
(* four tasks write the same rows, and totals move with the ledger unless  *)
(* they were written from a stale one.                                     *)
(***************************************************************************)
EXTENDS Gamification, StreamConsumerProofs, FiniteSetTheorems

\* What is published to s.
Message(s) ==
    CASE s = "created"      -> [inc : Incidents, at : Nat]
      [] s = "resolved"     -> [inc : Incidents, team : Technicians, fast : BOOLEAN,
                                critical : BOOLEAN, at : Nat]
      [] s = "sla_breached" -> [inc : Incidents, team : Technicians \cup {NoUser}]
      [] s = "evaluated"    -> [inc : Incidents, permanent : BOOLEAN]
      [] OTHER              -> [team : Technicians]

Messages == UNION {Message(s) : s \in Streams}

StreamInv ==
    /\ LoopInv(Messages)
    /\ \A s \in Streams : \A k \in 1..Len(streams[s]) : streams[s][k] \in Message(s)

Job == [pc : {"idle", "ambiguous", "nothing", "stats", "insert", "publish", "badges", "commit"},
        user : Technicians \cup {NoUser}, snap : StatsRow \cup {NoStats}, day : Nat,
        won : SUBSET Badges]
LedgerRow == [stream : Paying, entry : Nat, user : Technicians, inc : Incidents, points : -5..25,
              day : Nat]

\* Where a handler has a user, and where it has loaded the user's row.
Crediting == {"stats", "insert", "publish", "badges", "commit"}
Holding == {"publish", "badges", "commit"}

\* A handler that is under way; the row it inserts was not there when it looked.
JobFits(s) ==
    /\ job[s] # NoJob => s \in Paying /\ phase[s] = "handling"
    /\ job[s].pc \in Crediting => s \in Paying /\ phase[s] = "handling" /\ job[s].user \in Technicians
    /\ job[s].pc = "badges" => s = "resolved"
    /\ job[s].pc = "insert" => job[s].snap = NoStats
    /\ job[s].pc \in Holding /\ stats[job[s].user] = NoStats => job[s].snap = NoStats

GameType ==
    /\ ledger \in SUBSET LedgerRow
    /\ stats \in [Technicians -> StatsRow \cup {NoStats}]
    /\ badges \in SUBSET (Technicians \X Badges)
    /\ names \in SUBSET Technicians
    /\ stationLog # NoLog => stationLog \in [user : Technicians, at : Nat]
    /\ job \in [Streams -> Job]
    /\ stage \in [Incidents -> {"none", "open", "resolved", "evaluated"}]
    /\ team \in [Incidents -> Technicians \cup {NoUser}]
    /\ \A i \in Incidents : stage[i] \in {"resolved", "evaluated"} => team[i] \in Technicians
    /\ today \in Nat
    /\ raced \in SUBSET Technicians
    /\ \A s \in Streams : JobFits(s)
    /\ \A r \in ledger : r.entry \in 1..latest[r.stream]

-----------------------------------------------------------------------------
(* The points.                                                             *)

\* The user a handler credits is the one its entry concerns, and what it commits it announced.
JobBacked(s) ==
    LET e == streams[s][next[s]] IN
    /\ job[s].pc \in Crediting /\ s \in {"resolved", "sla_breached"} => job[s].user = e.team
    /\ job[s].pc \in Crediting /\ s = "evaluated" =>
           \E paid \in ledger : paid.stream = "resolved" /\ paid.inc = e.inc /\ paid.user = job[s].user
    /\ job[s].pc \in {"badges", "commit"} => <<s, next[s]>> \in awarded

BackedInv == PointsAreBacked /\ \A s \in Streams : JobBacked(s)

-----------------------------------------------------------------------------
(* The counts.                                                             *)

ResolutionsOf(u) == {r \in RowsOf(u) : r.stream = "resolved"}

\* The handler of a resolution works on the count the row has, decides on the first badge by it,
\* and announces the badges it is going to give.
CountFits ==
    LET j == job["resolved"] IN
    /\ j.pc \in Holding => Loaded("resolved").resolved = profile(j.user).resolved
    /\ j.pc = "commit" =>
           /\ profile(j.user).resolved = 0 => "ilk_mudahale" \in j.won
           /\ \A b \in j.won : <<j.user, b, next["resolved"]>> \in earned

CountInv == CountsAreExact /\ CountFits /\ IsFiniteSet(ledger)

-----------------------------------------------------------------------------
(* The totals.                                                             *)

\* The row a handler holds of a user nobody raced for has the level of its total.
LevelFits(s) ==
    job[s].user \in Technicians \ raced /\ job[s].pc \in Holding =>
        Loaded(s).level = _compute_level(Loaded(s).total)

TotalInv == StatsFollowLedger /\ \A s \in Streams : LevelFits(s)

-----------------------------------------------------------------------------
(* What a handler makes of a row.                                          *)

LEMMA PointsAreSmall ==
    ASSUME NEW s \in Paying, NEW e \in Message(s)
    PROVE  Points(s, e) \in -5..25
<1>1. CASE s = "resolved"
  BY <1>1 DEF Points, Message
<1>2. CASE s = "evaluated"
  BY <1>2 DEF Points, Message
<1>3. CASE s = "created" \/ s = "sla_breached"
  BY <1>3 DEF Points
<1> QED
  BY <1>1, <1>2, <1>3 DEF Paying

LEMMA NewStatsIsARow == NewStats \in StatsRow
BY DEF NewStats, StatsRow

\* The row a handler wants: the points more, the level of the new total, a resolution counted.
LEMMA WantedRow ==
    ASSUME NEW s \in Paying, NEW e \in Message(s), job[s].snap \in StatsRow \cup {NoStats}
    PROVE  /\ Loaded(s) \in StatsRow /\ Wanted(s, e) \in StatsRow
           /\ Wanted(s, e).total = Loaded(s).total + Points(s, e)
           /\ Wanted(s, e).level = _compute_level(Wanted(s, e).total)
           /\ Wanted(s, e).resolved = Loaded(s).resolved + (IF s = "resolved" THEN 1 ELSE 0)
<1>1. Loaded(s) \in StatsRow
  BY NewStatsIsARow DEF Loaded
<1>2. Points(s, e) \in Int
  BY PointsAreSmall
<1>3. PICK l \in StatsRow : l = Loaded(s)
  BY <1>1
<1>4. PICK c : c = Credit(s, e)
  OBVIOUS
<1>5. /\ c \in StatsRow /\ c.total = l.total + Points(s, e)
      /\ c.level = _compute_level(c.total) /\ c.resolved = l.resolved
  <2>1. PICK t \in Int : t = l.total + Points(s, e)
    BY <1>2, <1>3, <1>4 DEF StatsRow
  <2>2. c = [l EXCEPT !.total = t, !.level = _compute_level(t)]
    BY <1>3, <1>4, <2>1 DEF Credit
  <2>3. _compute_level(t) \in {"BRONZ", "GUMUS"}
    BY DEF _compute_level
  <2> QED
    BY <2>1, <2>2, <2>3 DEF StatsRow
<1>6. CASE s = "resolved"
  <2>1. e.fast \in BOOLEAN /\ e.critical \in BOOLEAN
    BY <1>6 DEF Message
  <2>2. PICK fast \in Nat, critical \in Nat :
          /\ fast = IF e.fast THEN c.fast + 1 ELSE c.fast
          /\ critical = IF e.critical THEN c.critical + 1 ELSE c.critical
    BY <1>5, <2>1 DEF StatsRow
  <2>3. PICK n, k : n = c.resolved + 1 /\ k = c.streak + 1
    OBVIOUS
  <2>4. PICK w : w = [c EXCEPT !.resolved = n, !.average = c.total, !.streak = k,
                               !.fast = fast, !.critical = critical]
    OBVIOUS
  <2>5. Wanted(s, e) = w
    BY <1>3, <1>4, <1>6, <2>2, <2>3, <2>4 DEF Wanted
  <2>6. n \in Nat /\ k \in Nat /\ c.total \in Int
    BY <1>5, <2>3 DEF StatsRow
  <2>7. w \in StatsRow /\ w.total = c.total /\ w.level = c.level /\ w.resolved = n
    BY <1>5, <2>2, <2>4, <2>6 DEF StatsRow
  <2> QED
    BY <1>3, <1>4, <1>5, <1>6, <2>3, <2>5, <2>7
<1>7. CASE s = "created"
  <2>1. Wanted(s, e) = [c EXCEPT !.streak = 0]
    BY <1>3, <1>4, <1>7 DEF Wanted
  <2> QED
    BY <1>3, <1>4, <1>5, <1>7, <2>1 DEF StatsRow
<1>8. CASE s = "evaluated" \/ s = "sla_breached"
  <2>1. Wanted(s, e) = c
    BY <1>3, <1>4, <1>8 DEF Wanted
  <2> QED
    BY <1>3, <1>4, <1>5, <1>8, <2>1 DEF StatsRow
<1> QED
  BY <1>6, <1>7, <1>8 DEF Paying

\* What the UPDATE leaves in the row.
LEMMA WrittenRow ==
    ASSUME NEW row \in StatsRow \cup {NoStats}, NEW snap \in StatsRow, NEW want \in StatsRow
    PROVE  /\ Write(row, snap, want) \in StatsRow
           /\ row = NoStats => Write(row, snap, want) = want
           /\ row # NoStats => \A f \in {"total", "level", "resolved"} :
                 Write(row, snap, want)[f] = IF want[f] # snap[f] THEN want[f] ELSE row[f]
<1>1. CASE row = NoStats
  BY <1>1 DEF Write
<1>2. CASE row # NoStats
  <2>1. PICK w : w = [f \in DOMAIN row |-> IF want[f] # snap[f] THEN want[f] ELSE row[f]]
    OBVIOUS
  <2>2. Write(row, snap, want) = w
    BY <1>2, <2>1 DEF Write
  <2>3. DOMAIN row = {"total", "level", "resolved", "average", "streak", "fast", "critical"}
    BY <1>2 DEF StatsRow
  <2>4. w \in StatsRow
    BY <1>2, <2>1, <2>3 DEF StatsRow
  <2> QED
    BY <1>2, <2>1, <2>2, <2>3, <2>4
<1> QED
  BY <1>1, <1>2

-----------------------------------------------------------------------------
(* The streams.                                                            *)

LEMMA StreamInvStarts == GInit => StreamInv /\ Delivery!Init
<1> SUFFICES ASSUME GInit
             PROVE  StreamInv /\ Delivery!Init
  OBVIOUS
<1>1. LoopInv(Messages) /\ Delivery!Init
  BY LoopStarts DEF GInit
<1>2. \A s \in Streams : Len(streams[s]) = 0
  BY DEF GInit, ConsumerInit
<1> QED
  BY <1>1, <1>2 DEF StreamInv

LEMMA AllStreams ==
    ASSUME GamificationAssumption
    PROVE  /\ Paying \subseteq Streams /\ "resolved" \in Paying /\ "created" \in Paying
           /\ "evaluated" \in Paying /\ "sla_breached" \in Paying
           /\ "upserted" \in Streams /\ "upserted" \notin Paying
           /\ \A s \in Streams : s \in Paying \/ s = "upserted"
BY DEF GamificationAssumption, Paying

\* What the incident and the identity service publish is a message of its stream.
LEMMA PublishersPublishMessages ==
    ASSUME GameType, GamificationAssumption, Publishers
    PROVE  \/ \E s \in Streams : \E e \in Message(s) : Published(s, e) /\ UNCHANGED consumer
           \/ NextDay
<1>1. /\ Message("created") = [inc : Incidents, at : Nat]
      /\ Message("resolved") = [inc : Incidents, team : Technicians, fast : BOOLEAN,
                                critical : BOOLEAN, at : Nat]
      /\ Message("sla_breached") = [inc : Incidents, team : Technicians \cup {NoUser}]
      /\ Message("evaluated") = [inc : Incidents, permanent : BOOLEAN]
      /\ Message("upserted") = [team : Technicians]
  BY DEF Message
<1>2. today \in Nat /\ \A i \in Incidents : team[i] \in Technicians \cup {NoUser}
  BY DEF GameType
<1>3. ASSUME NEW i \in Incidents, NEW u \in Technicians \cup {NoUser}, OpenIncident(i, u)
      PROVE  \E e \in Message("created") : Published("created", e) /\ UNCHANGED consumer
  <2>1. [inc |-> i, at |-> today] \in Message("created")
    BY <1>1, <1>2
  <2> QED
    BY <1>3, <2>1 DEF OpenIncident, Elsewhere
<1>4. ASSUME NEW i \in Incidents, BreachSla(i)
      PROVE  \E e \in Message("sla_breached") : Published("sla_breached", e) /\ UNCHANGED consumer
  <2>1. [inc |-> i, team |-> team[i]] \in Message("sla_breached")
    BY <1>1, <1>2
  <2> QED
    BY <1>4, <2>1 DEF BreachSla, Elsewhere
<1>5. ASSUME NEW i \in Incidents, NEW fast \in BOOLEAN, NEW critical \in BOOLEAN,
             ResolveIncident(i, fast, critical)
      PROVE  \E e \in Message("resolved") : Published("resolved", e) /\ UNCHANGED consumer
  <2>1. team[i] \in Technicians
    BY <1>2, <1>5 DEF ResolveIncident
  <2>2. [inc |-> i, team |-> team[i], fast |-> fast, critical |-> critical, at |-> today]
            \in Message("resolved")
    BY <1>1, <1>2, <2>1
  <2> QED
    BY <1>5, <2>2 DEF ResolveIncident, Elsewhere
<1>6. ASSUME NEW i \in Incidents, ResolveTwice(i)
      PROVE  \E e \in Message("resolved") : Published("resolved", e) /\ UNCHANGED consumer
  <2>1. team[i] \in Technicians
    BY <1>6 DEF ResolveTwice, GameType
  <2>2. [inc |-> i, team |-> team[i], fast |-> FALSE, critical |-> FALSE, at |-> today]
            \in Message("resolved")
    BY <1>1, <1>2, <2>1
  <2> QED
    BY <1>6, <2>2 DEF ResolveTwice, Elsewhere
<1>7. ASSUME NEW i \in Incidents, NEW permanent \in BOOLEAN, EvaluateIncident(i, permanent)
      PROVE  \E e \in Message("evaluated") : Published("evaluated", e) /\ UNCHANGED consumer
  <2>1. [inc |-> i, permanent |-> permanent] \in Message("evaluated")
    BY <1>1
  <2> QED
    BY <1>7, <2>1 DEF EvaluateIncident, Elsewhere
<1>8. ASSUME NEW u \in Technicians, EditPersonnel(u)
      PROVE  \E e \in Message("upserted") : Published("upserted", e) /\ UNCHANGED consumer
  <2>1. [team |-> u] \in Message("upserted")
    BY <1>1
  <2> QED
    BY <1>8, <2>1 DEF EditPersonnel, Elsewhere
<1> QED
  BY <1>3, <1>4, <1>5, <1>6, <1>7, <1>8, AllStreams DEF Publishers

\* A step of the service and its publishers, as the loop sees it.
LEMMA StepShapes ==
    ASSUME GameType, GamificationAssumption, [GNext]_gvars
    PROVE  \/ \E s \in Streams : LoopStep(s)
           \/ \E s \in Streams : \E e \in Message(s) : Published(s, e) /\ UNCHANGED consumer
           \/ Restart
           \/ UNCHANGED <<streams, consumer>>
<1>1. ASSUME NEW s \in Streams, Advance(s) \/ HandlerFails(s)
      PROVE  LoopStep(s)
  BY <1>1 DEF Advance, HandlerFails, LoopStep
<1>2. ASSUME NEW s \in Paying, Paid(s)
      PROVE  LoopStep(s) \/ UNCHANGED <<streams, consumer>>
  BY <1>2 DEF Paid, Begin, NothingToDo, RaiseAmbiguous, ReadStats, InsertStats, InsertRefused,
     PublishPoints, CommitPoints, LoopStep, streamVars
<1>3. CASE Handlers
  BY <1>3, AllStreams DEF Handlers, StartUpsert, handle_personnel_upserted, PublishBadges,
     LoopStep, streamVars
<1>4. CASE Crash
  BY <1>4 DEF Crash
<1>5. CASE NextDay
  BY <1>5 DEF NextDay, streamVars
<1>6. CASE UNCHANGED gvars
  BY <1>6 DEF gvars, streamVars
<1> QED
  BY <1>1, <1>2, <1>3, <1>4, <1>5, <1>6, AllStreams, PublishersPublishMessages DEF GNext

LEMMA StreamInvKept ==
    ASSUME StreamInv, GameType, GamificationAssumption, [GNext]_gvars
    PROVE  StreamInv' /\ [Delivery!Next]_(Delivery!vars)
<1>1. ASSUME LoopInv(Messages)', UNCHANGED streams
      PROVE  StreamInv'
  BY <1>1 DEF StreamInv
<1>2. ASSUME NEW s \in Streams, LoopStep(s)
      PROVE  StreamInv' /\ [Delivery!Next]_(Delivery!vars)
  <2>1. streams' = streams
    BY <1>2 DEF LoopStep, Loop, Read, ReadFails, Ack, AckFails, Start, Raise
  <2> QED
    BY <1>1, <1>2, <2>1, LoopStepKeeps, LoopStepRefines DEF StreamInv
<1>3. ASSUME NEW s \in Streams, NEW e \in Message(s), Published(s, e), UNCHANGED consumer
      PROVE  StreamInv' /\ [Delivery!Next]_(Delivery!vars)
  <2>1. e \in Messages
    BY DEF Messages
  <2>2. LoopInv(Messages)' /\ [Delivery!Next]_(Delivery!vars)
    BY <1>3, <2>1, PublishingRefines DEF StreamInv
  <2>3. /\ streams[s] \in Seq(Messages) /\ streams'[s] = Append(streams[s], e)
        /\ \A r \in Streams : r # s => streams'[r] = streams[r]
    BY <1>3 DEF Published, StreamInv, LoopInv
  <2>4. ASSUME NEW k \in 1..Len(streams'[s])
        PROVE  streams'[s][k] \in Message(s)
    BY <2>1, <2>3, <2>4 DEF StreamInv
  <2> QED
    BY <2>2, <2>3, <2>4 DEF StreamInv
<1>4. CASE Restart
  <2>1. LoopInv(Messages)' /\ [Delivery!Next]_(Delivery!vars) /\ UNCHANGED streams
    BY <1>4, RestartRefines DEF StreamInv, Restart
  <2> QED
    BY <1>1, <2>1
<1>5. CASE UNCHANGED <<streams, consumer>>
  BY <1>1, <1>5, IdleRefines DEF StreamInv
<1> QED
  BY <1>2, <1>3, <1>4, <1>5, StepShapes

\* What a handler has started on is a message of its stream.
LEMMA CurrentIsPublished ==
    ASSUME StreamInv, NEW s \in Streams, phase[s] = "handling" \/ next[s] <= delivered[s]
    PROVE  next[s] \in 1..Len(streams[s]) /\ Current(s) \in Message(s)
<1>1. /\ TaskInBatch(s) /\ streams[s] \in Seq(Messages)
      /\ next[s] \in Nat /\ delivered[s] \in Nat /\ Len(streams[s]) \in Nat
  BY DEF StreamInv, LoopInv
<1>2. next[s] \in 1..Len(streams[s])
  BY <1>1 DEF TaskInBatch
<1> QED
  BY <1>1, <1>2 DEF StreamInv, Current

-----------------------------------------------------------------------------
(* The types.                                                              *)

\* What took effect stays so.
LEMMA LatestGrows ==
    ASSUME StreamInv, GameType, GamificationAssumption, [GNext]_gvars
    PROVE  \A s \in Streams : latest[s] \in Nat /\ latest'[s] \in Nat /\ latest[s] <= latest'[s]
<1>1. /\ latest \in [Streams -> Nat] /\ latest' \in [Streams -> Nat] /\ next \in [Streams -> Nat]
      /\ \A s \in Streams : TaskInBatch(s)
  BY StreamInvKept DEF StreamInv, LoopInv
<1>2. ASSUME NEW s \in Streams, LoopStep(s)
      PROVE  latest' = latest \/ (phase[s] = "handling" /\ latest' = [latest EXCEPT ![s] = next[s]])
  BY <1>2 DEF LoopStep, Loop, Read, ReadFails, Ack, AckFails, Start, Raise, Complete
<1>3. \/ latest' = latest
      \/ \E s \in Streams : phase[s] = "handling" /\ latest' = [latest EXCEPT ![s] = next[s]]
  BY <1>2, StepShapes DEF Restart, consumer
<1> QED
  BY <1>1, <1>3 DEF TaskInBatch

LEMMA NoJobIsAJob == NoJob \in Job
BY DEF NoJob, Job

\* The handlers of the other streams are not concerned by what one of them does: no row is taken
\* away.
LEMMA OthersFit ==
    ASSUME GameType, NEW s \in Streams, NEW r \in Streams, r # s,
           job'[r] = job[r], phase'[r] = phase[r],
           \A u \in Technicians : stats'[u] = NoStats => stats[u] = NoStats
    PROVE  JobFits(r)'
<1>1. JobFits(r)
  BY DEF GameType
<1>2. PICK c, p : c = job[r] /\ c = job'[r] /\ p = phase[r] /\ p = phase'[r]
  OBVIOUS
<1>3. c.pc \in Holding => c.user \in Technicians
  BY <1>1, <1>2 DEF JobFits, Holding, Crediting
<1>4. c.pc \in Holding /\ stats'[c.user] = NoStats => c.snap = NoStats
  BY <1>1, <1>2, <1>3 DEF JobFits
<1> QED
  BY <1>1, <1>2, <1>4 DEF JobFits

\* A step of one handler that leaves the tables alone.
LEMMA OneJobMoves ==
    ASSUME StreamInv, GameType, GamificationAssumption, [GNext]_gvars,
           NEW s \in Streams, NEW j \in Job, job' = [job EXCEPT ![s] = j],
           \A r \in Streams : r # s => phase'[r] = phase[r],
           UNCHANGED <<tables, world, raced>>, JobFits(s)'
    PROVE  GameType'
<1>1. \A r \in Streams : r # s => job'[r] = job[r]
  BY DEF GameType
<1>2. \A r \in Streams : JobFits(r)'
  BY <1>1, OthersFit DEF tables
<1>3. \A r \in ledger : r.stream \in Streams /\ r.entry \in 1..latest'[r.stream]
  <2>1. \A r \in ledger : r.stream \in Streams /\ r.entry \in Nat
    BY AllStreams DEF GameType, LedgerRow
  <2> QED
    BY <2>1, LatestGrows DEF GameType
<1>4. job' \in [Streams -> Job]
  BY DEF GameType
<1> QED
  BY <1>2, <1>3, <1>4 DEF GameType, tables, world

\* What CommitPoints writes.
LEMMA Committed ==
    ASSUME StreamInv, GameType, GamificationAssumption, NEW s \in Paying, CommitPoints(s)
    PROVE  /\ s \in Streams /\ phase[s] = "handling" /\ job[s].user \in Technicians
           /\ next[s] \in 1..Len(streams[s]) /\ Current(s) \in Message(s)
           /\ Loaded(s) \in StatsRow /\ Wanted(s, Current(s)) \in StatsRow
           /\ Write(stats[job[s].user], Loaded(s), Wanted(s, Current(s))) \in StatsRow
           /\ stats' = [stats EXCEPT ![job[s].user] =
                           Write(stats[job[s].user], Loaded(s), Wanted(s, Current(s)))]
           /\ latest'[s] = next[s]
<1>1. s \in Streams /\ JobFits(s) /\ job[s] \in Job /\ job[s].pc = "commit"
  BY AllStreams DEF GameType, CommitPoints
<1>2. phase[s] = "handling" /\ job[s].user \in Technicians
  BY <1>1 DEF JobFits, Crediting
<1>3. next[s] \in 1..Len(streams[s]) /\ Current(s) \in Message(s)
  BY <1>1, <1>2, CurrentIsPublished
<1>4. job[s].snap \in StatsRow \cup {NoStats}
  BY <1>1 DEF Job
<1>5. Loaded(s) \in StatsRow /\ Wanted(s, Current(s)) \in StatsRow
  BY <1>3, <1>4, WantedRow
<1>6. stats[job[s].user] \in StatsRow \cup {NoStats}
  BY <1>2 DEF GameType
<1>7. Write(stats[job[s].user], Loaded(s), Wanted(s, Current(s))) \in StatsRow
  BY <1>5, <1>6, WrittenRow
<1>8. latest'[s] = next[s]
  BY <1>1 DEF CommitPoints, Complete, StreamInv, LoopInv
<1> QED
  BY <1>1, <1>2, <1>3, <1>5, <1>7, <1>8 DEF CommitPoints

LEMMA CommitKeepsType ==
    ASSUME StreamInv, GameType, GamificationAssumption, [GNext]_gvars,
           NEW s \in Paying, CommitPoints(s)
    PROVE  GameType'
<1>1. PICK u \in Technicians, e \in Message(s) : u = job[s].user /\ e = Current(s)
  BY Committed
<1>2. s \in Streams /\ phase[s] = "handling" /\ next[s] \in Nat /\ job[s] \in Job /\ job[s].pc = "commit"
  <2>1. s \in Streams /\ phase[s] = "handling"
    BY Committed
  <2>2. next[s] \in Nat /\ job[s] \in Job
    BY <2>1 DEF GameType, StreamInv, LoopInv
  <2> QED
    BY <2>1, <2>2 DEF CommitPoints
<1>3. e.inc \in Incidents /\ (s = "resolved" => e.at \in Nat)
  BY DEF Message, Paying
<1>4. PICK row : row = [stream |-> s, entry |-> next[s], user |-> u, inc |-> e.inc,
                        points |-> Points(s, e), day |-> job[s].day]
  OBVIOUS
<1>5. row \in LedgerRow /\ row.stream = s /\ row.entry = next[s] /\ ledger' = ledger \cup {row}
  <2>1. Points(s, e) \in -5..25
    BY PointsAreSmall
  <2>2. job[s].day \in Nat
    BY <1>2 DEF Job
  <2>3. row \in LedgerRow /\ row.stream = s /\ row.entry = next[s]
    BY <1>2, <1>3, <1>4, <2>1, <2>2 DEF LedgerRow
  <2> QED
    BY <1>1, <1>4, <2>3 DEF CommitPoints
<1>6. /\ stats' \in [Technicians -> StatsRow \cup {NoStats}]
      /\ \A v \in Technicians : stats'[v] = NoStats => stats[v] = NoStats
  <2>1. PICK w \in StatsRow : stats' = [stats EXCEPT ![u] = w]
    BY <1>1, Committed
  <2>2. w # NoStats /\ stats \in [Technicians -> StatsRow \cup {NoStats}]
    BY DEF GameType, GamificationAssumption
  <2> QED
    BY <2>1, <2>2
<1>7. job' = [job EXCEPT ![s] = NoJob] /\ job' \in [Streams -> Job]
  BY <1>2, NoJobIsAJob DEF CommitPoints, Rest, GameType
<1>8. \A r \in Streams : JobFits(r)'
  <2>1. \A r \in Streams : r # s => JobFits(r)'
    <3>1. \A r \in Streams : r # s => phase'[r] = phase[r] /\ job'[r] = job[r]
      BY <1>7 DEF CommitPoints, Complete, StreamInv, LoopInv, GameType
    <3> QED
      BY <1>2, <1>6, <3>1, OthersFit
  <2>2. JobFits(s)'
    <3>1. job'[s] = NoJob
      BY <1>2, <1>7 DEF GameType
    <3> QED
      BY <3>1 DEF JobFits, NoJob, Crediting, Holding
  <2> QED
    BY <2>1, <2>2
<1>9. \A r \in ledger' : r.entry \in 1..latest'[r.stream]
  <2>1. \A r \in ledger : r.stream \in Streams /\ r.entry \in 1..latest[r.stream]
    BY AllStreams DEF GameType, LedgerRow
  <2>2. \A r \in ledger : r.entry \in 1..latest'[r.stream]
    BY <2>1, LatestGrows
  <2>3. next[s] >= 1 /\ latest'[s] = next[s]
    BY Committed
  <2> QED
    BY <1>2, <1>5, <2>2, <2>3
<1>10. /\ badges' \in SUBSET (Technicians \X Badges)
       /\ stationLog' # NoLog => stationLog' \in [user : Technicians, at : Nat]
  <2>1. job[s].won \subseteq Badges
    BY <1>2 DEF Job
  <2>2. CASE s = "resolved"
    BY <1>1, <1>3, <2>1, <2>2 DEF CommitPoints, GameType
  <2>3. CASE s # "resolved"
    BY <2>3 DEF CommitPoints, GameType
  <2> QED
    BY <2>2, <2>3
<1>11. raced' \in SUBSET Technicians
  BY <1>1 DEF CommitPoints, GameType
<1> QED
  BY <1>5, <1>6, <1>7, <1>8, <1>9, <1>10, <1>11 DEF GameType, CommitPoints, world

\* Whom an entry concerns are technicians.
LEMMA UsersAreTechnicians ==
    ASSUME GameType, NEW s \in Paying, NEW e \in Message(s)
    PROVE  UsersFor(s, e) \subseteq Technicians
<1>1. CASE s = "created"
  BY <1>1 DEF UsersFor, GameType
<1>2. CASE s = "evaluated"
  BY <1>2 DEF UsersFor, GameType, LedgerRow, ResolvedRows
<1>3. CASE s = "resolved" \/ s = "sla_breached"
  BY <1>3 DEF UsersFor, Message
<1> QED
  BY <1>1, <1>2, <1>3 DEF Paying

\* What Begin finds: nobody, too many, or one whom the entry concerns.
LEMMA Begun ==
    ASSUME StreamInv, GameType, GamificationAssumption, NEW s \in Paying, Begin(s)
    PROVE  \E j \in Job :
              /\ job' = [job EXCEPT ![s] = j]
              /\ phase' = [phase EXCEPT ![s] = "handling"]
              /\ \/ j.pc \in {"ambiguous", "nothing"}
                 \/ /\ j.pc = "stats" /\ j.user \in UsersFor(s, Current(s))
                    /\ j.user \in Technicians
<1>1. PICK e \in Message(s) : e = Current(s)
  BY AllStreams, CurrentIsPublished DEF Begin, Start
<1>2. PICK users : users = UsersFor(s, e)
  OBVIOUS
<1>3. users \subseteq Technicians
  BY <1>2, UsersAreTechnicians
<1>4. PICK j : j = IF Ambiguous(s, e) THEN [NoJob EXCEPT !.pc = "ambiguous"]
                   ELSE IF users = {} THEN [NoJob EXCEPT !.pc = "nothing"]
                   ELSE [NoJob EXCEPT !.pc = "stats", !.user = CHOOSE u \in users : TRUE,
                                      !.day = today]
  OBVIOUS
<1>5. job' = [job EXCEPT ![s] = j] /\ phase' = [phase EXCEPT ![s] = "handling"]
  BY <1>1, <1>2, <1>4 DEF Begin, Start
<1>6. CASE Ambiguous(s, e) \/ users = {}
  <2>1. j \in Job /\ j.pc \in {"ambiguous", "nothing"}
    BY <1>4, <1>6 DEF Job, NoJob
  <2> QED
    BY <1>5, <2>1
<1>7. CASE ~Ambiguous(s, e) /\ users # {}
  <2>1. PICK u \in users : u = CHOOSE v \in users : TRUE
    BY <1>7
  <2>2. today \in Nat
    BY DEF GameType
  <2>3. j = [NoJob EXCEPT !.pc = "stats", !.user = u, !.day = today]
    BY <1>4, <1>7, <2>1
  <2>4. j \in Job /\ j.pc = "stats" /\ j.user = u
    BY <1>3, <2>1, <2>2, <2>3 DEF Job, NoJob
  <2> QED
    BY <1>1, <1>2, <1>3, <1>5, <2>1, <2>4
<1> QED
  BY <1>6, <1>7

LEMMA HandlersKeepType ==
    ASSUME StreamInv, GameType, GamificationAssumption, [GNext]_gvars,
           NEW s \in Paying, Paid(s) \/ HandlerFails(s) \/ (s = "resolved" /\ PublishBadges)
    PROVE  GameType'
<1>1. s \in Streams /\ job[s] \in Job /\ JobFits(s) /\ job \in [Streams -> Job]
      /\ phase \in [Streams -> Phases]
  BY AllStreams DEF GameType, StreamInv, LoopInv
<1>2. PICK c \in Job : c = job[s]
  BY <1>1
<1>3. CASE NothingToDo(s) \/ RaiseAmbiguous(s) \/ InsertRefused(s) \/ HandlerFails(s)
  <2>1. job' = [job EXCEPT ![s] = NoJob] /\ UNCHANGED <<tables, world, raced>>
        /\ \A r \in Streams : r # s => phase'[r] = phase[r]
    BY <1>1, <1>3 DEF NothingToDo, RaiseAmbiguous, InsertRefused, HandlerFails, Rest, Complete, Raise,
       tables, world
  <2>2. JobFits(s)'
    BY <1>1, <2>1 DEF JobFits, NoJob, Crediting, Holding
  <2> QED
    BY <1>1, <2>1, <2>2, NoJobIsAJob, OneJobMoves
<1>4. CASE Begin(s)
  <2>1. PICK j \in Job :
          /\ job' = [job EXCEPT ![s] = j] /\ phase' = [phase EXCEPT ![s] = "handling"]
          /\ j.pc \in {"ambiguous", "nothing"} \/ (j.pc = "stats" /\ j.user \in Technicians)
    BY <1>4, Begun
  <2>2. job'[s] = j /\ phase'[s] = "handling" /\ \A r \in Streams : r # s => phase'[r] = phase[r]
    BY <1>1, <2>1
  <2>3. JobFits(s)'
    BY <2>1, <2>2 DEF JobFits, Crediting, Holding
  <2>4. UNCHANGED <<tables, world, raced>>
    BY <1>4 DEF Begin
  <2> QED
    BY <1>1, <2>1, <2>2, <2>3, <2>4, OneJobMoves
<1>5. CASE ReadStats(s)
  <2>1. c.user \in Technicians /\ phase[s] = "handling"
    BY <1>1, <1>2, <1>5 DEF ReadStats, JobFits, Crediting
  <2>2. PICK row \in StatsRow \cup {NoStats} : row = stats[c.user]
    BY <2>1 DEF GameType
  <2>3. PICK pc \in {"insert", "publish"} : pc = IF row = NoStats THEN "insert" ELSE "publish"
    OBVIOUS
  <2>4. PICK j : j = [c EXCEPT !.snap = row, !.pc = pc]
    OBVIOUS
  <2>5. j \in Job /\ j.snap = row /\ j.pc = pc /\ j.user = c.user
    BY <2>2, <2>3, <2>4 DEF Job
  <2>6. job' = [job EXCEPT ![s] = j]
    BY <1>1, <1>2, <1>5, <2>2, <2>3, <2>4 DEF ReadStats
  <2>7. job'[s] = j /\ phase' = phase /\ UNCHANGED <<tables, world, raced>>
    BY <1>1, <1>5, <2>6 DEF ReadStats, streamVars, consumer
  <2>8. JobFits(s)'
    BY <2>1, <2>2, <2>3, <2>5, <2>7 DEF JobFits, Crediting, Holding, tables
  <2> QED
    BY <1>1, <2>5, <2>6, <2>7, <2>8, OneJobMoves
<1>6. CASE InsertStats(s) \/ PublishPoints(s)
  <2>1. /\ c.user \in Technicians /\ phase[s] = "handling" /\ c.pc \in {"insert", "publish"}
        /\ c.pc = "insert" => c.snap = NoStats
        /\ c.pc = "publish" /\ stats[c.user] = NoStats => c.snap = NoStats
    BY <1>1, <1>2, <1>6 DEF InsertStats, PublishPoints, JobFits, Crediting, Holding
  <2>2. PICK pc \in {"publish", "badges", "commit"} :
          job' = [job EXCEPT ![s].pc = pc] /\ (pc = "badges" => s = "resolved")
    BY <1>6 DEF InsertStats, PublishPoints, Goto
  <2>3. PICK j : j = [c EXCEPT !.pc = pc]
    OBVIOUS
  <2>4. j \in Job /\ j.snap = c.snap /\ j.pc = pc /\ j.user = c.user
    BY <2>2, <2>3 DEF Job
  <2>5. job' = [job EXCEPT ![s] = j]
    BY <1>1, <1>2, <2>2, <2>3
  <2>6. job'[s] = j /\ phase' = phase /\ UNCHANGED <<tables, world, raced>>
    BY <1>1, <1>6, <2>5 DEF InsertStats, PublishPoints, streamVars, consumer, tables
  <2>7. JobFits(s)'
    BY <2>1, <2>2, <2>4, <2>6 DEF JobFits, Crediting, Holding, tables
  <2> QED
    BY <1>1, <2>4, <2>5, <2>6, <2>7, OneJobMoves
<1>7. CASE s = "resolved" /\ PublishBadges
  <2>1. /\ c.user \in Technicians /\ phase[s] = "handling" /\ c.pc = "badges"
        /\ stats[c.user] = NoStats => c.snap = NoStats
    BY <1>1, <1>2, <1>7 DEF PublishBadges, JobFits, Crediting, Holding
  <2>2. PICK won \in SUBSET Badges : won = NewBadges(s)
    <3>1. \A b : b \in NewBadges(s) => b \in Badges
      BY DEF NewBadges, BadgesEarned, Badges
    <3> QED
      BY <3>1
  <2>3. PICK j : j = [c EXCEPT !.pc = "commit", !.won = won]
    OBVIOUS
  <2>4. j \in Job /\ j.snap = c.snap /\ j.pc = "commit" /\ j.user = c.user
    BY <2>2, <2>3 DEF Job
  <2>5. job' = [job EXCEPT ![s] = j]
    BY <1>1, <1>2, <1>7, <2>2, <2>3 DEF PublishBadges
  <2>6. job'[s] = j /\ phase' = phase /\ UNCHANGED <<tables, world, raced>>
    BY <1>1, <1>7, <2>5 DEF PublishBadges, streamVars, consumer, tables
  <2>7. JobFits(s)'
    BY <2>1, <2>4, <2>6 DEF JobFits, Crediting, Holding, tables
  <2> QED
    BY <1>1, <2>4, <2>5, <2>6, <2>7, OneJobMoves
<1>8. CASE CommitPoints(s)
  BY <1>8, CommitKeepsType
<1> QED
  BY <1>3, <1>4, <1>5, <1>6, <1>7, <1>8 DEF Paid

\* The loop moves only tasks whose handler is done.
LEMMA LoopKeepsType ==
    ASSUME StreamInv, GameType, GamificationAssumption, [GNext]_gvars,
           \/ \E s \in Streams : Advance(s)
           \/ HandlerFails("upserted") \/ StartUpsert \/ handle_personnel_upserted
           \/ Crash
    PROVE  GameType'
<1>1. /\ UNCHANGED <<ledger, stats, badges, stationLog, raced, world>>
      /\ names' \in SUBSET Technicians
  <2>1. handle_personnel_upserted => Current("upserted").team \in Technicians
    <3>1. handle_personnel_upserted => Current("upserted") \in Message("upserted")
      BY AllStreams, CurrentIsPublished DEF handle_personnel_upserted, Complete
    <3>2. Message("upserted") = [team : Technicians]
      BY DEF Message
    <3> QED
      BY <3>1, <3>2
  <2> QED
    BY <2>1 DEF Advance, HandlerFails, StartUpsert, handle_personnel_upserted, Crash, tables, world, GameType
<1>2. \A r \in ledger : r.entry \in 1..latest'[r.stream]
  <2>1. \A r \in ledger : r.stream \in Streams /\ r.entry \in 1..latest[r.stream]
    BY AllStreams DEF GameType, LedgerRow
  <2> QED
    BY <2>1, LatestGrows
<1>3. /\ job \in [Streams -> Job] /\ phase \in [Streams -> Phases] /\ \A s \in Streams : JobFits(s)
      /\ "upserted" \in Streams
  BY AllStreams DEF GameType, StreamInv, LoopInv
<1>4. CASE Crash
  <2>1. job' = [s \in Streams |-> NoJob]
    BY <1>4 DEF Crash
  <2>2. job' \in [Streams -> Job] /\ \A s \in Streams : job'[s] = NoJob
    BY <2>1, NoJobIsAJob
  <2>3. \A s \in Streams : JobFits(s)'
    BY <2>2 DEF JobFits, NoJob, Crediting, Holding
  <2> QED
    BY <1>1, <1>2, <2>2, <2>3 DEF GameType, world
<1>5. CASE ~Crash
  <2>1. job["upserted"] = NoJob
    BY <1>3, AllStreams DEF JobFits
  <2>2. PICK s \in Streams :
          /\ job' = job /\ job[s] = NoJob
          /\ \A r \in Streams : r # s => phase'[r] = phase[r]
    <3>1. CASE \E s \in Streams : Advance(s)
      <4>1. PICK s \in Streams : Advance(s)
        BY <3>1
      <4>2. /\ job' = job /\ phase[s] # "handling"
            /\ \A r \in Streams : r # s => phase'[r] = phase[r]
        BY <1>3, <4>1 DEF Advance, Loop, Read, ReadFails, Ack, AckFails, Deliverable
      <4>3. job[s] = NoJob
        BY <1>3, <4>2 DEF JobFits
      <4> QED
        BY <4>2, <4>3
    <3>2. CASE HandlerFails("upserted")
      <4>1. job' = job
        BY <1>3, <2>1, <3>2 DEF HandlerFails, Rest
      <4> QED
        BY <1>3, <2>1, <3>2, <4>1 DEF HandlerFails, Raise
    <3>3. CASE StartUpsert \/ handle_personnel_upserted
      BY <1>3, <2>1, <3>3 DEF StartUpsert, handle_personnel_upserted, Start, Complete
    <3> QED
      BY <1>5, <3>1, <3>2, <3>3
  <2>3. \A r \in Streams : r # s => JobFits(r)'
    BY <1>1, <2>2, OthersFit
  <2>4. JobFits(s)'
    BY <2>2 DEF JobFits, NoJob, Crediting, Holding
  <2>5. \A r \in Streams : JobFits(r)'
    BY <2>3, <2>4
  <2> QED
    BY <1>1, <1>2, <1>3, <2>2, <2>5 DEF GameType, world
<1> QED
  BY <1>4, <1>5

LEMMA PublishersKeepType ==
    ASSUME StreamInv, GameType, GamificationAssumption, [GNext]_gvars,
           Publishers \/ UNCHANGED gvars
    PROVE  GameType'
<1> DEFINE WorldFits ==
      /\ stage \in [Incidents -> {"none", "open", "resolved", "evaluated"}]
      /\ team \in [Incidents -> Technicians \cup {NoUser}]
      /\ \A i \in Incidents : stage[i] \in {"resolved", "evaluated"} => team[i] \in Technicians
      /\ today \in Nat
<1>1. UNCHANGED <<consumer, ledger, stats, badges, names, stationLog, job, raced>>
  BY DEF Publishers, OpenIncident, BreachSla, ResolveIncident, ResolveTwice, EvaluateIncident,
     EditPersonnel, NextDay, Elsewhere, tables, gvars, streamVars
<1>2. \A s \in Streams : JobFits(s)'
  BY <1>1 DEF GameType, JobFits, consumer
<1>3. latest' = latest
  BY <1>1 DEF consumer
<1>4. WorldFits'
  <2>1. WorldFits
    BY DEF GameType
  <2>2. ASSUME NEW i \in Incidents, NEW u \in Technicians \cup {NoUser}, OpenIncident(i, u)
        PROVE  WorldFits'
    BY <2>1, <2>2 DEF OpenIncident
  <2>3. ASSUME NEW i \in Incidents, BreachSla(i) \/ ResolveTwice(i)
        PROVE  WorldFits'
    BY <2>1, <2>3 DEF BreachSla, ResolveTwice
  <2>4. ASSUME NEW i \in Incidents, NEW fast \in BOOLEAN, NEW critical \in BOOLEAN,
               ResolveIncident(i, fast, critical)
        PROVE  WorldFits'
    BY <2>1, <2>4 DEF ResolveIncident
  <2>5. ASSUME NEW i \in Incidents, NEW permanent \in BOOLEAN, EvaluateIncident(i, permanent)
        PROVE  WorldFits'
    BY <2>1, <2>5 DEF EvaluateIncident
  <2>6. ASSUME NEW u \in Technicians, EditPersonnel(u)
        PROVE  WorldFits'
    BY <2>1, <2>6 DEF EditPersonnel
  <2>7. CASE NextDay \/ UNCHANGED gvars
    BY <2>1, <2>7 DEF NextDay, gvars, world
  <2> QED
    BY <2>2, <2>3, <2>4, <2>5, <2>6, <2>7 DEF Publishers
<1> QED
  BY <1>1, <1>2, <1>3, <1>4 DEF GameType

LEMMA StepKeepsType ==
    ASSUME StreamInv, GameType, GamificationAssumption, [GNext]_gvars
    PROVE  GameType'
<1>1. ASSUME NEW s \in Paying, Paid(s) \/ HandlerFails(s) \/ (s = "resolved" /\ PublishBadges)
      PROVE  GameType'
  BY <1>1, HandlersKeepType
<1>2. CASE \/ \E s \in Streams : Advance(s)
           \/ HandlerFails("upserted") \/ StartUpsert \/ handle_personnel_upserted
           \/ Crash
  BY <1>2, LoopKeepsType
<1>3. CASE Publishers \/ UNCHANGED gvars
  BY <1>3, PublishersKeepType
<1> QED
  BY <1>1, <1>2, <1>3, AllStreams DEF GNext, Handlers

LEMMA GameTypeStarts == GInit => GameType
<1> SUFFICES ASSUME GInit
             PROVE  GameType
  OBVIOUS
<1>1. job \in [Streams -> Job] /\ \A s \in Streams : job[s] = NoJob
  BY NoJobIsAJob DEF GInit
<1>2. ASSUME NEW s \in Streams
      PROVE  JobFits(s)
  <2>1. job[s] = NoJob
    BY <1>1
  <2> QED
    BY <2>1 DEF JobFits, NoJob, Crediting, Holding
<1>3. /\ ledger = {} /\ stats = [u \in Technicians |-> NoStats] /\ badges = {} /\ names = {}
      /\ stationLog = NoLog /\ stage = [i \in Incidents |-> "none"]
      /\ team = [i \in Incidents |-> NoUser] /\ today = 0 /\ raced = {}
  BY DEF GInit
<1> QED
  BY <1>1, <1>2, <1>3 DEF GameType

\* consumers/handlers.py: whatever fails or restarts, a handler works on a row of its own user, on
\* an entry it was delivered, and inserts only what was not there when it looked; every ledger row
\* stands for an entry that was handled, once. For any number of technicians, incidents and days.
THEOREM GameTypeCorrect == GSpec => [](StreamInv /\ GameType)
<1>1. GInit => StreamInv /\ GameType
  BY StreamInvStarts, GameTypeStarts
<1>2. StreamInv /\ GameType /\ [GNext]_gvars => (StreamInv /\ GameType)'
  BY StreamInvKept, StepKeepsType, GamificationAssumption
<1> QED
  BY <1>1, <1>2, PTL DEF GSpec

\* The tables of gamification-service/app/models: a row names its user, its stream and an entry
\* published there; a handler holds a user's row only while it handles an entry.
THEOREM GameIsTyped == GSpec => []TypeOK
<1>1. StreamInv /\ GameType => TypeOK
  <2> SUFFICES ASSUME StreamInv, GameType
               PROVE  TypeOK
    OBVIOUS
  <2>1. ASSUME NEW r \in ledger
        PROVE  r.stream \in Paying /\ r.entry \in 1..Len(streams[r.stream])
               /\ r.user \in Technicians /\ r.points \in -5..25
    <3>1. r \in LedgerRow /\ r.entry \in 1..latest[r.stream] /\ r.stream \in Streams
      BY AllStreams, GamificationAssumption DEF GameType, LedgerRow
    <3>2. PICK s \in Streams : s = r.stream
      BY <3>1
    <3>3. latest[s] \in Nat /\ Len(streams[s]) \in Nat /\ latest[s] <= Len(streams[s])
      <4>1. TaskInBatch(s) /\ streams[s] \in Seq(Messages) /\ delivered[s] \in Nat /\ latest[s] \in Nat
        BY DEF StreamInv, LoopInv
      <4> QED
        BY <4>1 DEF TaskInBatch
    <3> QED
      BY <3>1, <3>2, <3>3 DEF LedgerRow
  <2>2. \A s \in Streams : (job[s] = NoJob \/ phase[s] = "handling") /\ phase[s] \in Phases
    BY DEF GameType, JobFits, StreamInv, LoopInv
  <2>3. stationLog # NoLog => stationLog.user \in Technicians
    BY DEF GameType
  <2> QED
    BY <2>1, <2>2, <2>3 DEF TypeOK, GameType
<1> QED
  BY <1>1, GameTypeCorrect, PTL

\* consumers/runner.py under consumers/handlers.py: the gamification service's handlers take
\* effect at most once per event and in the order of the events of a stream.
THEOREM GameImplementsAtMostOnce == GSpec => AtMostOnceInOrder
<1>1. GInit => Delivery!Init
  BY StreamInvStarts
<1>2. StreamInv /\ GameType /\ [GNext]_gvars => [Delivery!Next]_(Delivery!vars)
  BY StreamInvKept, GamificationAssumption, SMTT(60)
<1> QED
  BY <1>1, <1>2, GameTypeCorrect, PTL DEF GSpec, AtMostOnceInOrder, Delivery!Spec

-----------------------------------------------------------------------------
(* The steps of the handlers, as the invariants below see them.            *)

\* A handler that reads, decides or announces.
Working(s) ==
    \/ Begin(s) \/ ReadStats(s) \/ InsertStats(s) \/ PublishPoints(s)
    \/ s = "resolved" /\ PublishBadges

\* Only a commit changes the tables the properties are about.
LEMMA OnlyCommitsWrite ==
    ASSUME [GNext]_gvars, \A r \in Paying : ~CommitPoints(r)
    PROVE  UNCHANGED <<ledger, stats, badges, solved, stationLog, raced>>
BY ZenonT(60) DEF GNext, Advance, HandlerFails, Paid, Begin, NothingToDo, RaiseAmbiguous, ReadStats, InsertStats,
   InsertRefused, PublishPoints, Handlers, StartUpsert, handle_personnel_upserted, PublishBadges, Crash,
   Publishers, OpenIncident, BreachSla, ResolveIncident, ResolveTwice, EvaluateIncident, EditPersonnel,
   NextDay, Elsewhere, gvars, tables

LEMMA PublishedStays ==
    ASSUME [GNext]_gvars
    PROVE  awarded \subseteq awarded' /\ earned \subseteq earned'
BY DEF GNext, Advance, HandlerFails, Paid, Begin, NothingToDo, RaiseAmbiguous, ReadStats, InsertStats,
   InsertRefused, PublishPoints, CommitPoints, Handlers, StartUpsert, handle_personnel_upserted,
   PublishBadges, Crash, Publishers, OpenIncident, BreachSla, ResolveIncident, ResolveTwice,
   EvaluateIncident, EditPersonnel, NextDay, Elsewhere, gvars, tables

LEMMA LedgerGrows ==
    ASSUME [GNext]_gvars
    PROVE  ledger \subseteq ledger'
BY OnlyCommitsWrite DEF CommitPoints

\* What was published is not changed.
LEMMA EntriesStay ==
    ASSUME StreamInv, GameType, GamificationAssumption, [GNext]_gvars,
           NEW s \in Streams, NEW k \in 1..Len(streams[s])
    PROVE  streams'[s][k] = streams[s][k]
<1>1. ASSUME NEW r \in Streams, NEW e \in Message(r), Published(r, e)
      PROVE  streams'[s][k] = streams[s][k]
  <2>1. e \in Messages /\ LoopInv(Messages)
    BY DEF Messages, StreamInv
  <2> QED
    BY <1>1, <2>1, PublishingAppends
<1>2. ASSUME NEW r \in Streams, LoopStep(r)
      PROVE  streams' = streams
  BY <1>2 DEF LoopStep, Loop, Read, ReadFails, Ack, AckFails, Start, Raise
<1> QED
  BY <1>1, <1>2, StepShapes DEF Restart

\* A handler goes on, ends, works, or is not concerned.
LEMMA JobMoves ==
    ASSUME StreamInv, GameType, GamificationAssumption, [GNext]_gvars, NEW s \in Streams
    PROVE  \/ job'[s] = job[s] /\ (next'[s] = next[s] \/ job[s] = NoJob)
           \/ job'[s] = NoJob
           \/ s \in Paying /\ Working(s)
<1>1. /\ job \in [Streams -> Job] /\ next \in [Streams -> Nat] /\ JobFits(s)
      /\ \A r \in Streams : r \in Paying \/ r = "upserted"
      /\ "resolved" \in Paying /\ "upserted" \in Streams /\ Paying \subseteq Streams
  BY AllStreams DEF GameType, StreamInv, LoopInv
<1>2. ASSUME NEW r \in Streams, Advance(r)
      PROVE  job'[s] = job[s] /\ (next'[s] = next[s] \/ job[s] = NoJob)
  BY <1>1, <1>2 DEF Advance, Loop, Read, ReadFails, Ack, AckFails, Deliverable, JobFits
<1>3. ASSUME NEW r \in Streams, \/ HandlerFails(r) \/ NothingToDo(r) \/ RaiseAmbiguous(r)
                                \/ InsertRefused(r) \/ CommitPoints(r)
      PROVE  job'[s] = NoJob \/ (job'[s] = job[s] /\ next'[s] = next[s])
  <2>1. job' = [job EXCEPT ![r] = NoJob] /\ next' = next
    BY <1>3 DEF HandlerFails, NothingToDo, RaiseAmbiguous, InsertRefused, CommitPoints, Rest, Raise, Complete
  <2> QED
    BY <1>1, <2>1
<1>4. ASSUME NEW r \in Paying, Working(r), r # s
      PROVE  job'[s] = job[s] /\ next'[s] = next[s]
  <2>1. (\E j : job' = [job EXCEPT ![r] = j]) /\ next' = next
    BY <1>1, <1>4 DEF Working, Begin, ReadStats, InsertStats, PublishPoints, PublishBadges, Goto, Start,
       streamVars, consumer
  <2> QED
    BY <1>1, <1>4, <2>1
<1>5. CASE Crash
  <2>1. job' = [r \in Streams |-> NoJob]
    BY <1>5 DEF Crash
  <2> QED
    BY <2>1
<1>6. CASE StartUpsert \/ handle_personnel_upserted
  BY <1>6 DEF StartUpsert, handle_personnel_upserted, Start, Complete
<1>7. CASE Publishers \/ UNCHANGED gvars
  BY <1>7 DEF Publishers, OpenIncident, BreachSla, ResolveIncident, ResolveTwice, EvaluateIncident,
     EditPersonnel, NextDay, Elsewhere, gvars, streamVars, consumer
<1>8. PublishBadges => Working("resolved")
  BY DEF Working
<1> QED
  BY <1>1, <1>2, <1>3, <1>4, <1>5, <1>6, <1>7, <1>8 DEF GNext, Paid, Handlers, Working

\* A handler with a user is on an entry published to its stream.
LEMMA CreditsAnEntry ==
    ASSUME StreamInv, GameType, GamificationAssumption, NEW s \in Streams, job[s].pc \in Crediting
    PROVE  /\ s \in Paying /\ phase[s] = "handling" /\ job[s].user \in Technicians
           /\ next[s] \in 1..Len(streams[s]) /\ streams[s][next[s]] \in Message(s)
BY CurrentIsPublished DEF GameType, JobFits, Current

-----------------------------------------------------------------------------
(* The points.                                                             *)

LEMMA WorkingKeepsBacked ==
    ASSUME StreamInv, GameType, GamificationAssumption, BackedInv, [GNext]_gvars,
           NEW s \in Paying, Working(s)
    PROVE  JobBacked(s)'
<1>1. /\ s \in Streams /\ job[s] \in Job /\ job \in [Streams -> Job] /\ JobBacked(s)
      /\ streams' = streams /\ next' = next /\ ledger \subseteq ledger' /\ awarded \subseteq awarded'
  BY AllStreams, PublishedStays, LedgerGrows DEF GameType, BackedInv, Working, Begin, ReadStats,
     InsertStats, PublishPoints, PublishBadges, Start, streamVars, consumer
<1>2. PICK e : e = streams[s][next[s]] /\ e = streams'[s][next'[s]]
  BY <1>1
<1>3. CASE Begin(s)
  <2>1. PICK j \in Job :
          /\ job' = [job EXCEPT ![s] = j]
          /\ j.pc \in {"ambiguous", "nothing"} \/ (j.pc = "stats" /\ j.user \in UsersFor(s, e))
    BY <1>2, <1>3, Begun DEF Current
  <2>2. job'[s] = j
    BY <1>1, <2>1
  <2>3. s \in {"resolved", "sla_breached"} /\ j.pc = "stats" => j.user = e.team
    BY <2>1 DEF UsersFor
  <2>4. s = "evaluated" /\ j.pc = "stats" =>
            \E paid \in ledger' : paid.stream = "resolved" /\ paid.inc = e.inc /\ paid.user = j.user
    BY <1>1, <2>1 DEF UsersFor, ResolvedRows
  <2>5. j.pc \in Crediting => j.pc = "stats"
    BY <2>1 DEF Crediting
  <2> QED
    BY <1>2, <2>2, <2>3, <2>4, <2>5, <2>1 DEF JobBacked
<1>4. CASE ~Begin(s)
  <2>1. /\ job[s].pc \in Crediting /\ job'[s].user = job[s].user
        /\ job'[s].pc \in {"badges", "commit"} => <<s, next[s]>> \in awarded'
    <3>1. PICK c \in Job : c = job[s]
      BY <1>1
    <3>2. CASE ReadStats(s)
      <4>1. PICK j, row, pc : /\ j = [c EXCEPT !.snap = row, !.pc = pc] /\ pc \in {"insert", "publish"}
                              /\ job' = [job EXCEPT ![s] = j]
        BY <1>1, <3>1, <3>2 DEF ReadStats
      <4>2. job'[s] = j /\ j.pc = pc /\ j.user = c.user
        BY <1>1, <4>1 DEF Job
      <4> QED
        BY <3>1, <3>2, <4>1, <4>2 DEF ReadStats, Crediting
    <3>3. CASE InsertStats(s)
      <4>1. PICK j : j = [c EXCEPT !.pc = "publish"] /\ job' = [job EXCEPT ![s] = j]
        BY <1>1, <3>1, <3>3 DEF InsertStats, Goto
      <4>2. job'[s] = j /\ j.pc = "publish" /\ j.user = c.user
        BY <1>1, <4>1 DEF Job
      <4> QED
        BY <3>1, <3>3, <4>2 DEF InsertStats, Crediting
    <3>4. CASE PublishPoints(s)
      <4>1. PICK j, pc : j = [c EXCEPT !.pc = pc] /\ job' = [job EXCEPT ![s] = j]
        BY <1>1, <3>1, <3>4 DEF PublishPoints, Goto
      <4>2. job'[s] = j /\ j.user = c.user
        BY <1>1, <4>1 DEF Job
      <4>3. <<s, next[s]>> \in awarded' /\ c.pc = "publish"
        BY <3>1, <3>4 DEF PublishPoints
      <4> QED
        BY <3>1, <4>2, <4>3 DEF Crediting
    <3>5. CASE s = "resolved" /\ PublishBadges
      <4>1. PICK j, won : j = [c EXCEPT !.pc = "commit", !.won = won] /\ job' = [job EXCEPT ![s] = j]
        BY <1>1, <3>1, <3>5 DEF PublishBadges
      <4>2. job'[s] = j /\ j.user = c.user
        BY <1>1, <4>1 DEF Job
      <4>3. c.pc = "badges" /\ <<s, next[s]>> \in awarded
        BY <1>1, <3>1, <3>5 DEF PublishBadges, JobBacked
      <4> QED
        BY <1>1, <3>1, <4>2, <4>3 DEF Crediting
    <3> QED
      BY <1>4, <3>2, <3>3, <3>4, <3>5 DEF Working
  <2>2. s = "evaluated" =>
            \E paid \in ledger' : paid.stream = "resolved" /\ paid.inc = e.inc /\ paid.user = job[s].user
    BY <1>1, <1>2, <2>1 DEF JobBacked
  <2>3. s \in {"resolved", "sla_breached"} => job[s].user = e.team
    BY <1>1, <1>2, <2>1 DEF JobBacked
  <2> QED
    BY <1>1, <1>2, <2>1, <2>2, <2>3 DEF JobBacked
<1> QED
  BY <1>3, <1>4

LEMMA JobsStayBacked ==
    ASSUME StreamInv, GameType, GamificationAssumption, BackedInv, [GNext]_gvars, NEW s \in Streams
    PROVE  JobBacked(s)'
<1>1. CASE job'[s] = job[s] /\ (next'[s] = next[s] \/ job[s] = NoJob) /\ job[s].pc \in Crediting
  <2>1. next[s] \in 1..Len(streams[s]) /\ next'[s] = next[s]
    BY <1>1, CreditsAnEntry DEF NoJob, Crediting
  <2>2. PICK e, c : /\ e = streams[s][next[s]] /\ e = streams'[s][next'[s]]
                    /\ c = job[s] /\ c = job'[s]
    BY <1>1, <2>1, EntriesStay
  <2>3. JobBacked(s) /\ ledger \subseteq ledger' /\ awarded \subseteq awarded'
    BY LedgerGrows, PublishedStays DEF BackedInv
  <2>4. c.pc \in Crediting /\ s = "evaluated" =>
            \E paid \in ledger' : paid.stream = "resolved" /\ paid.inc = e.inc /\ paid.user = c.user
    BY <2>2, <2>3 DEF JobBacked
  <2>5. c.pc \in {"badges", "commit"} => <<s, next'[s]>> \in awarded'
    BY <2>1, <2>2, <2>3 DEF JobBacked
  <2>6. c.pc \in Crediting /\ s \in {"resolved", "sla_breached"} => c.user = e.team
    BY <2>2, <2>3 DEF JobBacked
  <2> QED
    BY <2>2, <2>4, <2>5, <2>6 DEF JobBacked
<1>2. CASE job'[s].pc \notin Crediting
  BY <1>2 DEF JobBacked, Crediting
<1>3. CASE s \in Paying /\ Working(s)
  BY <1>3, WorkingKeepsBacked
<1>4. NoJob.pc \notin Crediting
  BY DEF NoJob, Crediting
<1> QED
  BY <1>1, <1>2, <1>3, <1>4, JobMoves

LEMMA RowsStayBacked ==
    ASSUME StreamInv, GameType, GamificationAssumption, BackedInv, [GNext]_gvars, NEW r \in ledger'
    PROVE  LET e == streams'[r.stream][r.entry] IN
           /\ r.inc = e.inc
           /\ <<r.stream, r.entry>> \in awarded'
           /\ r.stream \in {"resolved", "sla_breached"} => r.user = e.team
           /\ r.stream = "evaluated" =>
                 \E paid \in ledger' :
                     paid.stream = "resolved" /\ paid.inc = r.inc /\ paid.user = r.user
<1>1. ledger \subseteq ledger' /\ awarded \subseteq awarded'
  BY AllStreams, LedgerGrows, PublishedStays
<1>2. CASE r \in ledger
  <2>1. r.stream \in Streams /\ r.entry \in 1..latest[r.stream]
    BY <1>2, AllStreams DEF GameType, LedgerRow
  <2>2. PICK s \in Streams : s = r.stream
    BY <2>1
  <2>3. r.entry \in 1..Len(streams[s])
    <3>1. TaskInBatch(s) /\ streams[s] \in Seq(Messages) /\ delivered[s] \in Nat /\ latest[s] \in Nat
      BY DEF StreamInv, LoopInv
    <3> QED
      BY <2>1, <2>2, <3>1 DEF TaskInBatch
  <2>4. PICK e : e = streams[s][r.entry] /\ e = streams'[s][r.entry]
    BY <2>3, EntriesStay
  <2> QED
    BY <1>1, <1>2, <2>2, <2>4, ZenonT(60) DEF BackedInv, PointsAreBacked
<1>3. CASE r \notin ledger
  <2>1. PICK s \in Paying : CommitPoints(s)
    BY <1>3, AllStreams, OnlyCommitsWrite
  <2>2. PICK u, e, n : u = job[s].user /\ e = Current(s) /\ n = next[s]
    OBVIOUS
  <2>3. PICK p, d : r = [stream |-> s, entry |-> n, user |-> u, inc |-> e.inc, points |-> p, day |-> d]
    BY <1>3, <2>1, <2>2 DEF CommitPoints
  <2>4. r.stream = s /\ r.entry = n /\ r.user = u /\ r.inc = e.inc
    BY <2>3, SMTT(60)
  <2>5. streams' = streams /\ e = streams'[s][n] /\ JobBacked(s) /\ job[s].pc = "commit"
    BY <2>1, <2>2, AllStreams DEF CommitPoints, Current, BackedInv
  <2>6. <<s, n>> \in awarded'
    BY <1>1, <2>2, <2>5 DEF JobBacked
  <2>7. s = "evaluated" =>
           \E paid \in ledger' : paid.stream = "resolved" /\ paid.inc = e.inc /\ paid.user = u
    BY <1>1, <2>2, <2>5 DEF JobBacked, Crediting, Current
  <2>8. s \in {"resolved", "sla_breached"} => u = e.team
    BY <2>2, <2>5 DEF JobBacked, Crediting, Current
  <2> QED
    BY <2>4, <2>5, <2>6, <2>7, <2>8
<1> QED
  BY <1>2, <1>3

LEMMA StepKeepsBacked ==
    ASSUME StreamInv, GameType, GamificationAssumption, BackedInv, [GNext]_gvars
    PROVE  BackedInv'
BY JobsStayBacked, RowsStayBacked DEF BackedInv, PointsAreBacked

\* handle_incident_evaluated, handle_sla_breached, handle_incident_resolved: every row of the
\* ledger goes to the user its event names or, for an evaluation, to the one the incident was paid
\* to, and was announced; in any interleaving of the tasks, with any failures and restarts.
THEOREM PointsGoToTheRightUser == GSpec => []PointsAreBacked
<1>1. GInit => BackedInv
  <2> SUFFICES ASSUME GInit
               PROVE  BackedInv
    OBVIOUS
  <2>1. ASSUME NEW s \in Streams
        PROVE  JobBacked(s)
    <3>1. job[s] = NoJob
      BY DEF GInit
    <3> QED
      BY <3>1 DEF JobBacked, NoJob, Crediting
  <2>2. ledger = {}
    BY DEF GInit
  <2> QED
    BY <2>1, <2>2 DEF BackedInv, PointsAreBacked
<1>2. StreamInv /\ GameType /\ BackedInv /\ [GNext]_gvars => BackedInv'
  BY StepKeepsBacked, GamificationAssumption
<1>3. BackedInv => PointsAreBacked
  BY DEF BackedInv
<1> QED
  BY <1>1, <1>2, <1>3, GameTypeCorrect, PTL DEF GSpec

-----------------------------------------------------------------------------
(* The counts.                                                             *)

\* A profile is a row.
LEMMA ProfileIsARow ==
    ASSUME GameType, NEW u \in Technicians
    PROVE  profile(u) \in StatsRow
BY NewStatsIsARow DEF profile, GameType

\* A commit counts a resolution of its user and nothing else, whatever it read of the totals.
LEMMA CommitCounts ==
    ASSUME StreamInv, GameType, GamificationAssumption, CountInv, NEW s \in Paying, CommitPoints(s),
           NEW v \in Technicians
    PROVE  profile(v)'.resolved =
               profile(v).resolved + (IF s = "resolved" /\ v = job[s].user THEN 1 ELSE 0)
<1>1. PICK u, l, w, x : /\ u = job[s].user /\ l = Loaded(s) /\ w = Wanted(s, Current(s))
                        /\ x = Write(stats[u], l, w)
  OBVIOUS
<1>2. /\ s \in Streams /\ u \in Technicians /\ l \in StatsRow /\ w \in StatsRow /\ x \in StatsRow
      /\ stats' = [stats EXCEPT ![u] = x]
  BY <1>1, Committed
<1>3. stats \in [Technicians -> StatsRow \cup {NoStats}] /\ NoStats \notin StatsRow
  BY DEF GameType, GamificationAssumption
<1>4. w.resolved = l.resolved + (IF s = "resolved" THEN 1 ELSE 0)
  <2>1. job[s].snap \in StatsRow \cup {NoStats}
    BY <1>2 DEF GameType, Job
  <2>2. Current(s) \in Message(s)
    BY Committed
  <2> QED
    BY <1>1, <2>1, <2>2, WantedRow
<1>5. CASE v # u
  <2>1. profile(v)' = profile(v)
    BY <1>2, <1>3, <1>5 DEF profile
  <2>2. profile(v).resolved \in Nat
    BY ProfileIsARow DEF StatsRow
  <2> QED
    BY <1>1, <1>5, <2>1, <2>2
<1>6. CASE v = u
  <2>1. stats'[u] = x /\ x # NoStats
    BY <1>2, <1>3
  <2>2. profile(u)' = x
    BY <2>1 DEF profile
  <2>3. x.resolved = profile(u).resolved + (IF s = "resolved" THEN 1 ELSE 0)
    <3>1. CASE stats[u] = NoStats
      <4>1. job[s].snap = NoStats
        BY <1>1, <1>2, <3>1 DEF GameType, JobFits, CommitPoints, Holding
      <4>2. l = NewStats /\ profile(u) = NewStats
        BY <1>1, <3>1, <4>1 DEF Loaded, profile
      <4>3. x = w
        BY <1>1, <1>2, <3>1, WrittenRow
      <4> QED
        BY <1>4, <4>2, <4>3
    <3>2. CASE stats[u] # NoStats
      <4>1. x.resolved = IF w.resolved # l.resolved THEN w.resolved ELSE stats[u].resolved
        <5>1. stats[u] \in StatsRow \cup {NoStats}
          BY <1>2, <1>3
        <5>2. Write(stats[u], l, w)["resolved"] =
                  IF w["resolved"] # l["resolved"] THEN w["resolved"] ELSE stats[u]["resolved"]
          BY <1>2, <3>2, <5>1, WrittenRow
        <5> QED
          BY <1>1, <5>2
      <4>2. profile(u) = stats[u]
        BY <3>2 DEF profile
      <4>3. CASE s = "resolved"
        <5>1. l.resolved = profile(u).resolved
          BY <1>1, <4>3 DEF CountInv, CountFits, CommitPoints, Holding
        <5> QED
          BY <1>2, <1>4, <4>1, <4>2, <4>3, <5>1 DEF StatsRow
      <4>4. CASE s # "resolved"
        <5>1. w.resolved = l.resolved /\ profile(u).resolved \in Nat
          BY <1>2, <1>4, <4>4, ProfileIsARow DEF StatsRow
        <5> QED
          BY <4>1, <4>2, <4>4, <5>1
      <4> QED
        BY <4>3, <4>4
    <3> QED
      BY <3>1, <3>2
  <2> QED
    BY <1>1, <1>6, <2>2, <2>3
<1> QED
  BY <1>5, <1>6

\* A commit adds a row that was not there: its entry lies ahead of all that took effect.
LEMMA CommitAddsARow ==
    ASSUME StreamInv, GameType, GamificationAssumption, NEW s \in Paying, CommitPoints(s)
    PROVE  \E r : /\ r.stream = s /\ r.user = job[s].user /\ r.entry = next[s]
                  /\ r.points = Points(s, Current(s))
                  /\ r \notin ledger /\ ledger' = ledger \cup {r}
<1>1. PICK u, i, p, d, n : /\ u = job[s].user /\ i = Current(s).inc /\ p = Points(s, Current(s))
                           /\ d = job[s].day /\ n = next[s]
  OBVIOUS
<1>2. PICK r : r = [stream |-> s, entry |-> n, user |-> u, inc |-> i, points |-> p, day |-> d]
  OBVIOUS
<1>3. r.stream = s /\ r.user = u /\ r.entry = n /\ r.points = p /\ ledger' = ledger \cup {r}
  BY <1>1, <1>2 DEF CommitPoints
<1>4. s \in Streams /\ phase[s] = "handling"
  BY Committed
<1>5. latest[s] \in Nat /\ n \in Nat /\ latest[s] < n
  BY <1>1, <1>4 DEF StreamInv, LoopInv, TaskInBatch
<1>6. r \notin ledger
  <2>1. r \in ledger => n \in 1..latest[s]
    BY <1>3 DEF GameType
  <2> QED
    BY <1>5, <2>1
<1> QED
  BY <1>1, <1>3, <1>6

LEMMA ResolutionsAreFinite ==
    ASSUME IsFiniteSet(ledger), NEW u
    PROVE  IsFiniteSet(ResolutionsOf(u)) /\ Cardinality(ResolutionsOf(u)) \in Nat
<1>1. ResolutionsOf(u) \subseteq ledger
  BY DEF ResolutionsOf, RowsOf
<1> QED
  BY <1>1, FS_Subset, FS_CardinalityType

\* What a resolution brings its user: one row more, the first one's badge, and what was announced.
LEMMA ResolutionIsCounted ==
    ASSUME StreamInv, GameType, GamificationAssumption, CountInv, [GNext]_gvars,
           CommitPoints("resolved"), NEW v \in Technicians
    PROVE  /\ profile(v)'.resolved = Cardinality(ResolutionsOf(v)')
           /\ <<v, "ilk_mudahale">> \in badges' <=> ResolutionsOf(v)' # {}
           /\ \A b \in Badges : <<v, b>> \in badges' =>
                  \E r \in ResolutionsOf(v)' : <<v, b, r.entry>> \in earned'
<1>1. PICK u, won, n : u = job["resolved"].user /\ won = job["resolved"].won /\ n = next["resolved"]
  OBVIOUS
<1>2. PICK r : /\ r.stream = "resolved" /\ r.user = u /\ r.entry = n
               /\ r \notin ledger /\ ledger' = ledger \cup {r}
  BY <1>1, CommitAddsARow, AllStreams
<1>3. /\ badges' = badges \cup {<<u, b>> : b \in won} /\ earned' = earned
      /\ u \in Technicians /\ job["resolved"].pc = "commit"
  <2>1. "resolved" \in Paying
    BY DEF Paying
  <2>2. u \in Technicians
    BY <1>1, <2>1, Committed
  <2>3. badges' = badges \cup {<<u, b>> : b \in won} /\ earned' = earned
    BY <1>1 DEF CommitPoints
  <2>4. job["resolved"].pc = "commit"
    BY DEF CommitPoints
  <2> QED
    BY <2>2, <2>3, <2>4
<1>4. /\ profile(v).resolved = Cardinality(ResolutionsOf(v))
      /\ <<v, "ilk_mudahale">> \in badges <=> ResolutionsOf(v) # {}
      /\ \A b \in Badges : <<v, b>> \in badges =>
             \E q \in ResolutionsOf(v) : <<v, b, q.entry>> \in earned
      /\ IsFiniteSet(ResolutionsOf(v)) /\ Cardinality(ResolutionsOf(v)) \in Nat
  BY ResolutionsAreFinite DEF CountInv, CountsAreExact, ResolutionsOf
<1>5. profile(v)'.resolved = profile(v).resolved + (IF v = u THEN 1 ELSE 0)
  BY <1>1, CommitCounts, AllStreams
<1>6. CASE v # u
  <2>1. ResolutionsOf(v)' = ResolutionsOf(v)
    BY <1>2, <1>6 DEF ResolutionsOf, RowsOf
  <2>2. \A b : <<v, b>> \in badges' <=> <<v, b>> \in badges
    BY <1>3, <1>6
  <2> QED
    BY <1>3, <1>4, <1>5, <1>6, <2>1, <2>2
<1>7. CASE v = u
  <2>1. ResolutionsOf(v)' = ResolutionsOf(v) \cup {r} /\ r \notin ResolutionsOf(v)
    BY <1>2, <1>7 DEF ResolutionsOf, RowsOf
  <2>2. Cardinality(ResolutionsOf(v)') = Cardinality(ResolutionsOf(v)) + 1
    <3>1. PICK A, B : A = ResolutionsOf(v) /\ B = ResolutionsOf(v)'
      OBVIOUS
    <3>2. IsFiniteSet(A) /\ r \notin A /\ B = A \cup {r}
      BY <1>4, <2>1, <3>1
    <3>3. Cardinality(B) = Cardinality(A) + 1
      BY <3>2, FS_AddElement
    <3> QED
      BY <3>1, <3>3
  <2>3. <<v, "ilk_mudahale">> \in badges'
    <3>1. CASE ResolutionsOf(v) = {}
      <4>1. profile(u).resolved = 0
        BY <1>4, <1>7, <3>1, FS_EmptySet
      <4>2. "ilk_mudahale" \in won
        BY <1>1, <1>3, <4>1 DEF CountInv, CountFits
      <4> QED
        BY <1>3, <1>7, <4>2
    <3>2. CASE ResolutionsOf(v) # {}
      BY <1>3, <1>4, <3>2
    <3> QED
      BY <3>1, <3>2
  <2>4. ASSUME NEW b \in Badges, <<v, b>> \in badges'
        PROVE  \E q \in ResolutionsOf(v)' : <<v, b, q.entry>> \in earned'
    <3>1. CASE <<v, b>> \in badges
      BY <1>3, <1>4, <2>1, <3>1
    <3>2. CASE b \in won
      <4>1. <<u, b, n>> \in earned
        BY <1>1, <1>3, <3>2 DEF CountInv, CountFits
      <4> QED
        BY <1>2, <1>3, <1>7, <2>1, <4>1
    <3> QED
      BY <1>3, <1>7, <2>4, <3>1, <3>2
  <2> QED
    BY <1>4, <1>5, <1>7, <2>1, <2>2, <2>3, <2>4
<1> QED
  BY <1>6, <1>7

LEMMA CountsStayExact ==
    ASSUME StreamInv, GameType, GamificationAssumption, CountInv, [GNext]_gvars
    PROVE  CountsAreExact' /\ IsFiniteSet(ledger')
<1>1. CASE CommitPoints("resolved")
  <2>1. IsFiniteSet(ledger')
    BY <1>1, CommitAddsARow, AllStreams, FS_AddElement DEF CountInv
  <2> QED
    BY <1>1, <2>1, ResolutionIsCounted DEF CountsAreExact, ResolutionsOf
<1>2. ASSUME NEW s \in Paying, CommitPoints(s), s # "resolved"
      PROVE  CountsAreExact' /\ IsFiniteSet(ledger')
  <2>1. PICK r : r.stream = s /\ ledger' = ledger \cup {r}
    BY <1>2, CommitAddsARow
  <2>2. \A v \in Technicians : ResolutionsOf(v)' = ResolutionsOf(v)
    BY <1>2, <2>1 DEF ResolutionsOf, RowsOf
  <2>3. \A v \in Technicians : profile(v)'.resolved = profile(v).resolved
    BY <1>2, CommitCounts, ProfileIsARow DEF StatsRow
  <2>4. badges' = badges /\ earned' = earned
    BY <1>2 DEF CommitPoints
  <2>5. IsFiniteSet(ledger')
    BY <2>1, FS_AddElement DEF CountInv
  <2>6. CountsAreExact
    BY DEF CountInv
  <2> QED
    BY <2>2, <2>3, <2>4, <2>5, <2>6 DEF CountsAreExact, ResolutionsOf
<1>3. CASE \A s \in Paying : ~CommitPoints(s)
  <2>1. UNCHANGED <<ledger, stats, badges>> /\ earned \subseteq earned'
    BY <1>3, OnlyCommitsWrite, PublishedStays
  <2>2. \A v : ResolutionsOf(v)' = ResolutionsOf(v) /\ profile(v)' = profile(v)
    BY <2>1 DEF ResolutionsOf, RowsOf, profile
  <2> QED
    BY <2>1, <2>2 DEF CountInv, CountsAreExact, ResolutionsOf
<1> QED
  BY <1>1, <1>2, <1>3

\* The handler of a resolution goes on from a count nobody else touches.
LEMMA ResolvingKeepsCountFits ==
    ASSUME StreamInv, GameType, GamificationAssumption, CountInv, [GNext]_gvars, Working("resolved")
    PROVE  CountFits'
<1> DEFINE s == "resolved"
<1>1. /\ s \in Streams /\ s \in Paying /\ job[s] \in Job /\ job \in [Streams -> Job] /\ JobFits(s)
  BY AllStreams DEF GameType
<1>2. PICK c \in Job : c = job[s]
  BY <1>1
<1>3. UNCHANGED <<stats, next, ledger, badges>> /\ earned \subseteq earned'
  BY PublishedStays DEF Working, Begin, ReadStats, InsertStats, PublishPoints, PublishBadges, Start,
     streamVars, consumer, tables
<1>4. \A u : profile(u)' = profile(u)
  BY <1>3 DEF profile
<1>5. CASE Begin(s)
  <2>1. job'[s].pc \notin Holding /\ job'[s].pc # "commit"
    BY <1>1, <1>5, Begun DEF Holding
  <2> QED
    BY <2>1 DEF CountFits
<1>6. CASE ReadStats(s)
  <2>1. PICK row, pc, j : /\ row = stats[c.user] /\ pc = (IF row = NoStats THEN "insert" ELSE "publish")
                          /\ j = [c EXCEPT !.snap = row, !.pc = pc]
    OBVIOUS
  <2>2. job' = [job EXCEPT ![s] = j]
    BY <1>1, <1>2, <1>6, <2>1 DEF ReadStats
  <2>3. job'[s] = j /\ j.pc = pc /\ j.user = c.user /\ j.snap = row
    BY <1>1, <2>1, <2>2 DEF Job
  <2>4. pc \in Holding => Loaded(s)' = profile(c.user)
    BY <2>1, <2>3 DEF Loaded, profile, Holding
  <2>5. pc # "commit"
    BY <2>1
  <2> QED
    BY <1>3, <1>4, <2>3, <2>4, <2>5 DEF CountFits, profile
<1>7. CASE InsertStats(s) \/ PublishPoints(s)
  <2>1. PICK pc, j : /\ pc = (IF InsertStats(s) THEN "publish" ELSE "badges")
                     /\ j = [c EXCEPT !.pc = pc]
    OBVIOUS
  <2>2. job' = [job EXCEPT ![s] = j] /\ (c.pc = "insert" <=> InsertStats(s))
    BY <1>1, <1>2, <1>7, <2>1 DEF InsertStats, PublishPoints, Goto
  <2>3. job'[s] = j /\ j.pc = pc /\ j.user = c.user /\ j.snap = c.snap
    BY <1>1, <2>1, <2>2 DEF Job
  <2>4. Loaded(s)' = Loaded(s)
    BY <1>2, <2>3 DEF Loaded
  <2>5. CASE InsertStats(s)
    <3>1. c.snap = NoStats /\ stats[c.user] = NoStats
      BY <1>1, <1>2, <2>5 DEF InsertStats, JobFits
    <3>2. Loaded(s)' = profile(c.user)
      BY <1>2, <2>4, <3>1 DEF Loaded, profile
    <3> QED
      BY <1>3, <1>4, <2>1, <2>3, <2>5, <3>2 DEF CountFits, profile
  <2>6. CASE ~InsertStats(s)
    <3>1. c.pc = "publish" /\ Loaded(s).resolved = profile(c.user).resolved
      BY <1>2, <1>7, <2>6 DEF PublishPoints, CountInv, CountFits, Holding
    <3> QED
      BY <1>3, <1>4, <2>1, <2>3, <2>4, <2>6, <3>1 DEF CountFits, profile
  <2> QED
    BY <2>5, <2>6
<1>8. CASE PublishBadges
  <2>1. PICK won, j : won = NewBadges(s) /\ j = [c EXCEPT !.pc = "commit", !.won = won]
    OBVIOUS
  <2>2. job' = [job EXCEPT ![s] = j] /\ c.pc = "badges"
        /\ earned' = earned \cup {<<c.user, b, next[s]>> : b \in won}
    BY <1>1, <1>2, <1>8, <2>1 DEF PublishBadges
  <2>3. job'[s] = j /\ j.pc = "commit" /\ j.user = c.user /\ j.snap = c.snap /\ j.won = won
    BY <1>1, <2>1, <2>2 DEF Job
  <2>4. Loaded(s)' = Loaded(s) /\ Loaded(s).resolved = profile(c.user).resolved
    BY <1>2, <2>2, <2>3 DEF Loaded, CountInv, CountFits, Holding
  <2>5. profile(c.user).resolved = 0 => "ilk_mudahale" \in won
    <3> SUFFICES ASSUME profile(c.user).resolved = 0
                 PROVE  "ilk_mudahale" \in won
      OBVIOUS
    <3>1. c.user \in Technicians /\ Current(s) \in Message(s)
      BY <1>1, <1>2, <2>2, CreditsAnEntry DEF Crediting, Current
    <3>2. Wanted(s, Current(s)).resolved = 1
      <4>1. c.snap \in StatsRow \cup {NoStats}
        BY DEF Job
      <4> QED
        BY <1>1, <1>2, <2>4, <3>1, <4>1, WantedRow
    <3>3. <<c.user, "ilk_mudahale">> \notin badges
      <4>1. /\ Cardinality(ResolutionsOf(c.user)) = 0 /\ IsFiniteSet(ResolutionsOf(c.user))
            /\ <<c.user, "ilk_mudahale">> \in badges <=> ResolutionsOf(c.user) # {}
        BY <3>1, ResolutionsAreFinite DEF CountInv, CountsAreExact, ResolutionsOf
      <4> QED
        BY <4>1, FS_EmptySet
    <3>4. "ilk_mudahale" \in BadgesEarned(c.user, Current(s), Wanted(s, Current(s)))
      BY <3>2 DEF BadgesEarned
    <3> QED
      BY <1>2, <2>1, <3>3, <3>4 DEF NewBadges
  <2>6. \A b \in won : <<c.user, b, next[s]>> \in earned'
    BY <2>2
  <2> QED
    BY <1>3, <1>4, <2>3, <2>4, <2>5, <2>6 DEF CountFits, profile
<1> QED
  BY <1>5, <1>6, <1>7, <1>8 DEF Working

LEMMA StepKeepsCounts ==
    ASSUME StreamInv, GameType, GamificationAssumption, CountInv, [GNext]_gvars
    PROVE  CountInv'
<1>1. CountsAreExact' /\ IsFiniteSet(ledger')
  BY CountsStayExact
<1>2. "resolved" \in Streams /\ "resolved" \in Paying
  BY AllStreams
<1>3. CASE Working("resolved")
  BY <1>1, <1>3, ResolvingKeepsCountFits DEF CountInv
<1>4. CASE job'["resolved"] = NoJob
  <2>1. CountFits'
    BY <1>4 DEF CountFits, NoJob, Holding
  <2> QED
    BY <1>1, <2>1 DEF CountInv
<1>5. CASE ~Working("resolved") /\ job'["resolved"] # NoJob
  <2>1. job'["resolved"] = job["resolved"] /\ next'["resolved"] = next["resolved"]
    BY <1>2, <1>5, JobMoves
  <2>2. PICK c, n : /\ c = job["resolved"] /\ c = job'["resolved"]
                    /\ n = next["resolved"] /\ n = next'["resolved"]
    BY <2>1
  <2>3. Loaded("resolved")' = Loaded("resolved")
    BY <2>2 DEF Loaded
  <2>4. ~CommitPoints("resolved")
    BY <1>2, <1>5 DEF CommitPoints, Rest, GameType
  <2>5. c.pc \in Holding => profile(c.user)'.resolved = profile(c.user).resolved
    <3> SUFFICES ASSUME c.pc \in Holding
                 PROVE  profile(c.user)'.resolved = profile(c.user).resolved
      OBVIOUS
    <3>1. c.user \in Technicians
      BY <1>2, <2>2, CreditsAnEntry DEF Holding, Crediting
    <3>2. PICK v \in Technicians : v = c.user
      BY <3>1
    <3>3. profile(v)'.resolved = profile(v).resolved
      <4>1. CASE \A s \in Paying : ~CommitPoints(s)
        BY <4>1, OnlyCommitsWrite DEF profile
      <4>2. ASSUME NEW s \in Paying, CommitPoints(s)
            PROVE  profile(v)'.resolved = profile(v).resolved
        BY <2>4, <4>2, CommitCounts, ProfileIsARow DEF StatsRow
      <4> QED
        BY <4>1, <4>2
    <3> QED
      BY <3>2, <3>3 DEF profile
  <2>6. earned \subseteq earned' /\ CountFits
    BY PublishedStays DEF CountInv
  <2>7. c.pc \in Holding => Loaded("resolved")'.resolved = profile(c.user)'.resolved
    BY <2>2, <2>3, <2>5, <2>6 DEF CountFits
  <2>8. c.pc = "commit" =>
            /\ profile(c.user)'.resolved = 0 => "ilk_mudahale" \in c.won
            /\ \A b \in c.won : <<c.user, b, n>> \in earned'
    BY <2>2, <2>5, <2>6 DEF CountFits, Holding
  <2>9. CountFits'
    BY <2>2, <2>7, <2>8 DEF CountFits, profile
  <2> QED
    BY <1>1, <2>9 DEF CountInv
<1> QED
  BY <1>3, <1>4, <1>5

LEMMA CountsStartExact == GInit => CountInv
<1> SUFFICES ASSUME GInit
             PROVE  CountInv
  OBVIOUS
<1>1. /\ ledger = {} /\ badges = {} /\ IsFiniteSet(ledger)
      /\ \A u \in Technicians : stats[u] = NoStats
  BY FS_EmptySet DEF GInit
<1>2. \A u \in Technicians : ResolutionsOf(u) = {} /\ profile(u).resolved = 0
  BY <1>1 DEF ResolutionsOf, RowsOf, profile, NewStats
<1>3. CountsAreExact
  <2>1. Cardinality({}) = 0
    BY FS_EmptySet
  <2> QED
    BY <1>1, <1>2, <2>1 DEF CountsAreExact, ResolutionsOf
<1>4. CountFits
  <2>1. job["resolved"] = NoJob
    BY AllStreams, GamificationAssumption DEF GInit
  <2> QED
    BY <2>1 DEF CountFits, NoJob, Holding
<1> QED
  BY <1>1, <1>3, <1>4 DEF CountInv

\* handle_incident_resolved: although four tasks read and write the same user_stats rows without a
\* lock or a version, the count of resolutions is that of the ledger's rows, the first resolution
\* has its badge and every badge was announced; for any number of technicians and incidents, in
\* any interleaving, with any failures, restarts and repeated events.
THEOREM ResolutionsAreCountedExactly == GSpec => []CountsAreExact
<1>1. GInit => CountInv
  BY CountsStartExact
<1>2. StreamInv /\ GameType /\ CountInv /\ [GNext]_gvars => CountInv'
  BY StepKeepsCounts, GamificationAssumption
<1>3. CountInv => CountsAreExact
  BY DEF CountInv
<1> QED
  BY <1>1, <1>2, <1>3, GameTypeCorrect, PTL DEF GSpec

-----------------------------------------------------------------------------
(* The sum of the points of a set of rows.                                 *)

Picked(rows) == CHOOSE r \in rows : TRUE

\* f adds up the points of every subset of S, in the order the fold takes them.
SumsUp(f, S) ==
    f = [A \in SUBSET S |-> IF A = {} THEN 0 ELSE Picked(A).points + f[A \ {Picked(A)}]]

\* What holds of some subsets of a finite set holds of a smallest one.
LEMMA SmallestSubset ==
    ASSUME NEW S, IsFiniteSet(S), NEW T \in SUBSET SUBSET S, T # {}
    PROVE  \E A \in T : \A B \in T : B \subseteq A => B = A
<1>1. IsWellFoundedOn(StrictSubsetOrdering(S), SUBSET S)
  BY FS_StrictSubsetOrderingWellFounded, FS_FiniteSubsetsOfFinite
<1>2. PICK A \in T : \A B \in T : ~ (<<B, A>> \in StrictSubsetOrdering(S))
  <2>1. T \subseteq SUBSET S
    OBVIOUS
  <2> QED
    BY <1>1, <2>1, WFMin
<1>3. ASSUME NEW B \in T, B \subseteq A, B # A
      PROVE  FALSE
  <2>1. <<B, A>> \in (SUBSET S) \X (SUBSET S)
    OBVIOUS
  <2>2. <<B, A>> \in StrictSubsetOrdering(S)
    BY <1>3, <2>1 DEF StrictSubsetOrdering
  <2> QED
    BY <1>2, <2>2
<1> QED
  BY <1>3

LEMMA PickedIsOne ==
    ASSUME NEW A, A # {}
    PROVE  Picked(A) \in A
BY DEF Picked

\* Two functions that add up agree where both are defined.
LEMMA SumsAgree ==
    ASSUME NEW S, IsFiniteSet(S), NEW f, SumsUp(f, S), NEW T, NEW g, SumsUp(g, T),
           NEW A \in SUBSET S, A \in SUBSET T
    PROVE  f[A] = g[A]
<1> DEFINE Differ == {B \in SUBSET S : B \in SUBSET T /\ f[B] # g[B]}
<1>1. ASSUME NEW B \in SUBSET S, B \in SUBSET T
      PROVE  /\ f[B] = IF B = {} THEN 0 ELSE Picked(B).points + f[B \ {Picked(B)}]
             /\ g[B] = IF B = {} THEN 0 ELSE Picked(B).points + g[B \ {Picked(B)}]
  BY <1>1 DEF SumsUp
<1>2. CASE Differ # {}
  <2>1. PICK B \in Differ : \A C \in Differ : C \subseteq B => C = B
    <3>1. Differ \in SUBSET SUBSET S
      OBVIOUS
    <3> HIDE DEF Differ
    <3> QED
      BY <1>2, <3>1, SmallestSubset
  <2>2. B # {}
    BY <1>1
  <2>3. PICK C : C = B \ {Picked(B)}
    OBVIOUS
  <2>4. C \in SUBSET S /\ C \in SUBSET T /\ C \subseteq B /\ C # B
    BY <2>2, <2>3, PickedIsOne
  <2>5. f[C] = g[C]
    BY <2>1, <2>4
  <2> QED
    BY <1>1, <2>2, <2>3, <2>5
<1> QED
  BY <1>2

LEMMA SumsExist ==
    ASSUME NEW S, IsFiniteSet(S)
    PROVE  \E f : SumsUp(f, S)
<1> DEFINE Missing == {A \in SUBSET S : ~ \E f : SumsUp(f, A)}
<1>1. CASE Missing # {}
  <2>1. PICK A \in Missing : \A B \in Missing : B \subseteq A => B = A
    <3>1. Missing \in SUBSET SUBSET S
      OBVIOUS
    <3> HIDE DEF Missing
    <3> QED
      BY <1>1, <3>1, SmallestSubset
  <2> DEFINE G(B) == CHOOSE g : SumsUp(g, B)
  <2>2. A \in SUBSET S /\ ~ \E f : SumsUp(f, A)
    OBVIOUS
  <2>3. ASSUME NEW B \in SUBSET A, B # A
        PROVE  SumsUp(G(B), B) /\ IsFiniteSet(B)
    <3>1. B \in SUBSET S /\ B \notin Missing
      BY <2>1, <2>2, <2>3
    <3>2. \E g : SumsUp(g, B)
      BY <3>1
    <3> QED
      BY <3>1, <3>2, FS_Subset
  <2>4. PICK f : f = [B \in SUBSET A |->
                        IF B = {} THEN 0
                        ELSE Picked(B).points + G(B \ {Picked(B)})[B \ {Picked(B)}]]
    OBVIOUS
  <2> HIDE DEF G, Missing
  <2>5. ASSUME NEW B \in SUBSET A, B # A
        PROVE  f[B] = G(B)[B]
    <3>1. SumsUp(G(B), B) /\ IsFiniteSet(B)
      BY <2>3, <2>5
    <3>2. G(B)[B] = IF B = {} THEN 0 ELSE Picked(B).points + G(B)[B \ {Picked(B)}]
      BY <3>1 DEF SumsUp
    <3>3. CASE B = {}
      BY <2>4, <3>2, <3>3
    <3>4. CASE B # {}
      <4>1. PICK C : C = B \ {Picked(B)}
        OBVIOUS
      <4>2. C \in SUBSET A /\ C # A /\ C \in SUBSET B
        BY <2>5, <3>4, <4>1, PickedIsOne
      <4>3. SumsUp(G(C), C) /\ C \in SUBSET C
        BY <2>3, <4>2
      <4>4. G(B)[C] = G(C)[C]
        BY <3>1, <4>2, <4>3, SumsAgree
      <4> QED
        BY <2>4, <3>2, <3>4, <4>1, <4>4
    <3> QED
      BY <3>3, <3>4
  <2>6. ASSUME NEW B \in SUBSET A
        PROVE  f[B] = IF B = {} THEN 0 ELSE Picked(B).points + f[B \ {Picked(B)}]
    <3>1. CASE B = {}
      BY <2>4, <3>1
    <3>2. CASE B # {}
      <4>1. PICK C : C = B \ {Picked(B)}
        OBVIOUS
      <4>2. C \in SUBSET A /\ C # A
        BY <3>2, <4>1, PickedIsOne
      <4> QED
        BY <2>4, <2>5, <3>2, <4>1, <4>2
    <3> QED
      BY <3>1, <3>2
  <2>7. f = [B \in SUBSET A |-> f[B]]
    BY <2>4
  <2>8. SumsUp(f, A)
    BY <2>6, <2>7 DEF SumsUp
  <2> QED
    BY <2>2, <2>8
<1>2. CASE Missing = {}
  <2>1. S \in SUBSET S
    OBVIOUS
  <2> QED
    BY <1>2, <2>1
<1> QED
  BY <1>1, <1>2

\* The fold is the function that adds up.
LEMMA SumOfSubset ==
    ASSUME NEW S, IsFiniteSet(S), NEW f, SumsUp(f, S), NEW A \in SUBSET S
    PROVE  Sum(A) = f[A]
<1>1. PICK g : SumsUp(g, A)
  BY FS_Subset, SumsExist
<1>2. ASSUME NEW h, SumsUp(h, A)
      PROVE  h = g
  <2>1. \A B \in SUBSET A : h[B] = g[B]
    BY <1>1, <1>2, FS_Subset, SumsAgree
  <2> QED
    BY <1>1, <1>2, <2>1 DEF SumsUp
<1>3. Sum(A) = (CHOOSE h : SumsUp(h, A))[A]
  BY DEF Sum, MapThenSumSet, MapThenFoldSet, SumsUp, Picked
<1>4. Sum(A) = g[A]
  BY <1>1, <1>2, <1>3
<1>5. g[A] = f[A]
  <2>1. IsFiniteSet(A) /\ A \in SUBSET A
    BY FS_Subset
  <2> QED
    BY <1>1, <2>1, SumsAgree
<1> QED
  BY <1>4, <1>5

LEMMA SumStep ==
    ASSUME NEW S, IsFiniteSet(S)
    PROVE  Sum(S) = IF S = {} THEN 0 ELSE Picked(S).points + Sum(S \ {Picked(S)})
<1>1. PICK f : SumsUp(f, S)
  BY SumsExist
<1>2. \A A \in SUBSET S : Sum(A) = f[A]
  BY <1>1, SumOfSubset
<1>3. S \in SUBSET S /\ S \ {Picked(S)} \in SUBSET S
  OBVIOUS
<1>4. f[S] = IF S = {} THEN 0 ELSE Picked(S).points + f[S \ {Picked(S)}]
  BY <1>1, <1>3 DEF SumsUp
<1> QED
  BY <1>2, <1>3, <1>4

LEMMA SumIsAnInteger ==
    ASSUME NEW S, IsFiniteSet(S), \A r \in S : r.points \in Int
    PROVE  Sum(S) \in Int
<1> DEFINE Broken == {A \in SUBSET S : Sum(A) \notin Int}
<1>1. CASE Broken # {}
  <2>1. PICK A \in Broken : \A B \in Broken : B \subseteq A => B = A
    <3>1. Broken \in SUBSET SUBSET S
      OBVIOUS
    <3> HIDE DEF Broken
    <3> QED
      BY <1>1, <3>1, SmallestSubset
  <2>2. PICK B : B = A \ {Picked(A)}
    OBVIOUS
  <2>3. Sum(A) = IF A = {} THEN 0 ELSE Picked(A).points + Sum(B)
    BY <2>2, FS_Subset, SumStep
  <2>4. A # {} => Picked(A) \in S /\ B \in SUBSET S /\ B \subseteq A /\ B # A
    BY <2>2, PickedIsOne
  <2>5. A # {} => Sum(B) \in Int
    BY <2>1, <2>4
  <2> QED
    BY <2>3, <2>4, <2>5
<1>2. CASE Broken = {}
  <2>1. S \in SUBSET S
    OBVIOUS
  <2> QED
    BY <1>2, <2>1
<1> QED
  BY <1>1, <1>2

\* The order in which the rows are taken does not matter.
LEMMA SumSplits ==
    ASSUME NEW S, IsFiniteSet(S), \A r \in S : r.points \in Int, NEW x \in S
    PROVE  Sum(S) = x.points + Sum(S \ {x})
<1> DEFINE Broken == {A \in SUBSET S : \E y \in A : Sum(A) # y.points + Sum(A \ {y})}
<1>1. CASE Broken # {}
  <2>1. PICK A \in Broken : \A B \in Broken : B \subseteq A => B = A
    <3>1. Broken \in SUBSET SUBSET S
      OBVIOUS
    <3> HIDE DEF Broken
    <3> QED
      BY <1>1, <3>1, SmallestSubset
  <2>2. PICK y \in A : Sum(A) # y.points + Sum(A \ {y})
    OBVIOUS
  <2>3. PICK c \in A : c = Picked(A)
    BY <2>2, PickedIsOne
  <2>4. PICK B, C, D : B = A \ {c} /\ C = A \ {y} /\ D = A \ {c, y}
    OBVIOUS
  <2>5. /\ B \in SUBSET S /\ C \in SUBSET S /\ D \in SUBSET S /\ A \in SUBSET S
        /\ B \notin Broken /\ C \notin Broken
    BY <2>1, <2>4
  <2>6. Sum(A) = c.points + Sum(B)
    BY <2>2, <2>3, <2>4, <2>5, FS_Subset, SumStep
  <2>7. CASE y # c
    <3>1. y \in B /\ c \in C /\ B \ {y} = D /\ C \ {c} = D
      BY <2>4, <2>7
    <3>2. Sum(B) = y.points + Sum(D) /\ Sum(C) = c.points + Sum(D)
      BY <2>5, <3>1
    <3>3. Sum(D) \in Int /\ y.points \in Int /\ c.points \in Int
      BY <2>5, FS_Subset, SumIsAnInteger
    <3> QED
      BY <2>2, <2>4, <2>6, <3>2, <3>3
  <2> QED
    BY <2>2, <2>4, <2>6, <2>7
<1>2. CASE Broken = {}
  <2>1. S \in SUBSET S
    OBVIOUS
  <2> QED
    BY <1>2, <2>1
<1> QED
  BY <1>1, <1>2

LEMMA SumAdds ==
    ASSUME NEW S, IsFiniteSet(S), \A r \in S : r.points \in Int, NEW x, x \notin S, x.points \in Int
    PROVE  Sum(S \cup {x}) = Sum(S) + x.points
<1>1. PICK T : T = S \cup {x}
  OBVIOUS
<1>2. IsFiniteSet(T) /\ T \ {x} = S /\ x \in T /\ \A r \in T : r.points \in Int
  BY <1>1, FS_AddElement
<1>3. Sum(T) = x.points + Sum(S)
  BY <1>2, SumSplits
<1>4. Sum(S) \in Int
  BY SumIsAnInteger
<1> QED
  BY <1>1, <1>3, <1>4

-----------------------------------------------------------------------------
(* The totals.                                                             *)

LEMMA RowsHavePoints ==
    ASSUME GameType, CountInv, NEW u
    PROVE  IsFiniteSet(RowsOf(u)) /\ \A r \in RowsOf(u) : r.points \in Int
<1>1. RowsOf(u) \subseteq ledger
  BY DEF RowsOf
<1>2. \A r \in ledger : r.points \in Int
  BY DEF GameType, LedgerRow
<1> QED
  BY <1>1, <1>2, FS_Subset DEF CountInv

LEMMA RacedGrows ==
    ASSUME [GNext]_gvars
    PROVE  raced \subseteq raced'
BY OnlyCommitsWrite DEF CommitPoints

\* What is committed of a total nobody changed meanwhile: the points more, and their level.
LEMMA CommitMovesTotal ==
    ASSUME StreamInv, GameType, GamificationAssumption, TotalInv, NEW s \in Paying, CommitPoints(s),
           NEW u \in Technicians \ raced', u = job[s].user
    PROVE  /\ profile(u)'.total = profile(u).total + Points(s, Current(s))
           /\ profile(u)'.level = _compute_level(profile(u)'.total)
<1>1. PICK l, w, x, p : /\ l = Loaded(s) /\ w = Wanted(s, Current(s))
                        /\ x = Write(stats[u], l, w) /\ p = Points(s, Current(s))
  OBVIOUS
<1>2. /\ s \in Streams /\ l \in StatsRow /\ w \in StatsRow /\ x \in StatsRow
      /\ stats' = [stats EXCEPT ![u] = x] /\ Current(s) \in Message(s)
  BY <1>1, Committed
<1>3. stats \in [Technicians -> StatsRow \cup {NoStats}] /\ NoStats \notin StatsRow
  BY DEF GameType, GamificationAssumption
<1>4. w.total = l.total + p /\ w.level = _compute_level(w.total)
  <2>1. job[s].snap \in StatsRow \cup {NoStats}
    BY <1>2 DEF GameType, Job
  <2> QED
    BY <1>1, <1>2, <2>1, WantedRow
<1>5. u \notin raced /\ (stats[u] = NoStats \/ stats[u].total = l.total)
  BY <1>1, <1>2 DEF CommitPoints
<1>6. PICK before : before = profile(u)
  OBVIOUS
<1>7. profile(u)' = x
  <2>1. stats'[u] = x /\ x # NoStats
    BY <1>2, <1>3
  <2> QED
    BY <2>1 DEF profile
<1>8. CASE stats[u] = NoStats
  <2>1. job[s].snap = NoStats
    BY <1>1, <1>2, <1>8 DEF GameType, JobFits, CommitPoints, Holding
  <2>2. l = before
    BY <1>1, <1>6, <1>8, <2>1 DEF Loaded, profile
  <2>3. x = w
    BY <1>1, <1>2, <1>8, WrittenRow
  <2> QED
    BY <1>1, <1>4, <1>6, <1>7, <2>2, <2>3
<1>9. CASE stats[u] # NoStats
  <2>1. stats[u] \in StatsRow /\ before = stats[u] /\ before.total = l.total
    BY <1>2, <1>3, <1>5, <1>6, <1>9 DEF profile
  <2>2. /\ x.total = IF w.total # l.total THEN w.total ELSE before.total
        /\ x.level = IF w.level # l.level THEN w.level ELSE before.level
    <3>1. \A f \in {"total", "level", "resolved"} :
              Write(before, l, w)[f] = IF w[f] # l[f] THEN w[f] ELSE before[f]
      BY <1>2, <1>3, <2>1, WrittenRow
    <3>2. x = Write(before, l, w)
      BY <1>1, <2>1
    <3> QED
      BY <3>1, <3>2
  <2>3. before.level = _compute_level(before.total)
    BY <1>2, <1>5, <1>6 DEF TotalInv, StatsFollowLedger
  <2>4. l.level = _compute_level(l.total)
    BY <1>1, <1>2, <1>5 DEF TotalInv, LevelFits, CommitPoints, Holding
  <2>5. x.total = w.total /\ x.level = w.level
    BY <2>1, <2>2, <2>3, <2>4
  <2> QED
    BY <1>1, <1>4, <1>6, <1>7, <2>1, <2>5
<1> QED
  BY <1>8, <1>9

LEMMA StatsKeepFollowing ==
    ASSUME StreamInv, GameType, GamificationAssumption, CountInv, TotalInv, [GNext]_gvars
    PROVE  StatsFollowLedger'
<1>1. ASSUME NEW s \in Paying, CommitPoints(s), NEW v \in Technicians \ raced'
      PROVE  /\ profile(v)'.total = Sum(RowsOf(v)')
             /\ profile(v)'.level = _compute_level(profile(v)'.total)
  <2>1. PICK r : /\ r.stream = s /\ r.user = job[s].user /\ r.points = Points(s, Current(s))
                 /\ r \notin ledger /\ ledger' = ledger \cup {r}
    BY <1>1, CommitAddsARow
  <2>2. v \in Technicians \ raced /\ profile(v).total = Sum(RowsOf(v))
        /\ profile(v).level = _compute_level(profile(v).total)
    BY <1>1, RacedGrows DEF TotalInv, StatsFollowLedger
  <2>3. CASE v # job[s].user
    <3>1. RowsOf(v)' = RowsOf(v)
      BY <2>1, <2>3 DEF RowsOf
    <3>2. profile(v)' = profile(v)
      BY <1>1, <2>3, Committed DEF profile, GameType
    <3> QED
      BY <2>2, <3>1, <3>2
  <2>4. CASE v = job[s].user
    <3>1. PICK A, B : A = RowsOf(v) /\ B = RowsOf(v)'
      OBVIOUS
    <3>2. B = A \cup {r} /\ r \notin A
      BY <2>1, <2>4, <3>1 DEF RowsOf
    <3>3. IsFiniteSet(A) /\ \A q \in A : q.points \in Int
      BY <3>1, RowsHavePoints
    <3>4. r.points \in Int
      <4>1. Current(s) \in Message(s)
        BY <1>1, Committed
      <4> QED
        BY <2>1, <4>1, PointsAreSmall
    <3>5. Sum(B) = Sum(A) + r.points
      BY <3>2, <3>3, <3>4, SumAdds
    <3>6. /\ profile(v)'.total = profile(v).total + Points(s, Current(s))
          /\ profile(v)'.level = _compute_level(profile(v)'.total)
      BY <1>1, <2>4, CommitMovesTotal
    <3> QED
      BY <2>1, <2>2, <3>1, <3>5, <3>6
  <2> QED
    BY <2>3, <2>4
<1>2. CASE \A s \in Paying : ~CommitPoints(s)
  <2>1. UNCHANGED <<ledger, stats, raced>>
    BY <1>2, OnlyCommitsWrite
  <2> QED
    BY <2>1 DEF TotalInv, StatsFollowLedger, profile, RowsOf
<1>3. CASE \E s \in Paying : CommitPoints(s)
  BY <1>1, <1>3 DEF StatsFollowLedger
<1> QED
  BY <1>2, <1>3

LEMMA LevelsKeepFitting ==
    ASSUME StreamInv, GameType, GamificationAssumption, TotalInv, [GNext]_gvars, NEW s \in Streams
    PROVE  LevelFits(s)'
<1>1. raced \subseteq raced' /\ LevelFits(s) /\ job[s] \in Job /\ job \in [Streams -> Job] /\ JobFits(s)
  BY RacedGrows DEF TotalInv, GameType
<1>2. PICK c \in Job : c = job[s]
  BY <1>1
<1>3. CASE job'[s] = c
  <2>1. Loaded(s)' = Loaded(s)
    BY <1>2, <1>3 DEF Loaded
  <2> QED
    BY <1>1, <1>2, <1>3, <2>1 DEF LevelFits
<1>4. CASE job'[s] = NoJob
  BY <1>4 DEF LevelFits, NoJob, Holding
<1>5. CASE s \in Paying /\ Begin(s)
  <2>1. job'[s].pc \notin Holding
    BY <1>1, <1>5, Begun DEF Holding
  <2> QED
    BY <2>1 DEF LevelFits
<1>6. CASE ReadStats(s)
  <2>1. PICK row, pc, j : /\ row = stats[c.user] /\ pc = (IF row = NoStats THEN "insert" ELSE "publish")
                          /\ j = [c EXCEPT !.snap = row, !.pc = pc]
    OBVIOUS
  <2>2. job' = [job EXCEPT ![s] = j]
    BY <1>1, <1>2, <1>6, <2>1 DEF ReadStats
  <2>3. job'[s] = j /\ j.pc = pc /\ j.user = c.user /\ j.snap = row
    BY <1>1, <2>1, <2>2 DEF Job
  <2>4. pc \in Holding => Loaded(s)' = profile(c.user)
    BY <2>1, <2>3 DEF Loaded, profile, Holding
  <2>5. c.user \in Technicians \ raced => profile(c.user).level = _compute_level(profile(c.user).total)
    BY DEF TotalInv, StatsFollowLedger
  <2> QED
    BY <1>1, <2>3, <2>4, <2>5 DEF LevelFits
<1>7. CASE InsertStats(s)
  <2>1. PICK j : j = [c EXCEPT !.pc = "publish"]
    OBVIOUS
  <2>2. job' = [job EXCEPT ![s] = j] /\ c.snap = NoStats
    BY <1>1, <1>2, <1>7, <2>1 DEF InsertStats, Goto, JobFits
  <2>3. job'[s] = j /\ j.snap = NoStats
    BY <1>1, <2>1, <2>2 DEF Job
  <2>4. Loaded(s)' = NewStats
    BY <2>3 DEF Loaded
  <2>5. NewStats.level = _compute_level(NewStats.total)
    BY DEF NewStats, _compute_level, GamificationAssumption
  <2> QED
    BY <2>4, <2>5 DEF LevelFits
<1>8. CASE PublishPoints(s) \/ (s = "resolved" /\ PublishBadges)
  <2>1. PICK won, pc, j, k : /\ won = NewBadges(s) /\ pc = (IF s = "resolved" THEN "badges" ELSE "commit")
                             /\ j = [c EXCEPT !.pc = pc]
                             /\ k = [c EXCEPT !.pc = "commit", !.won = won]
    OBVIOUS
  <2>2. job'[s].snap = c.snap /\ job'[s].user = c.user
    <3>1. job' = [job EXCEPT ![s] = j] \/ job' = [job EXCEPT ![s] = k]
      <4>1. CASE PublishPoints(s)
        BY <1>1, <1>2, <2>1, <4>1 DEF PublishPoints, Goto
      <4>2. CASE s = "resolved" /\ PublishBadges
        BY <1>1, <1>2, <2>1, <4>2 DEF PublishBadges
      <4> QED
        BY <1>8, <4>1, <4>2
    <3>2. j.snap = c.snap /\ j.user = c.user /\ k.snap = c.snap /\ k.user = c.user
      BY <2>1 DEF Job
    <3> QED
      BY <1>1, <3>1, <3>2
  <2>3. Loaded(s)' = Loaded(s)
    BY <1>2, <2>2 DEF Loaded
  <2>4. c.pc \in Holding
    BY <1>2, <1>8 DEF PublishPoints, PublishBadges, Holding
  <2> QED
    BY <1>1, <1>2, <2>2, <2>3, <2>4 DEF LevelFits
<1> QED
  BY <1>2, <1>3, <1>4, <1>5, <1>6, <1>7, <1>8, JobMoves DEF Working

\* _add_points, _compute_level: a profile's total is the sum of the user's ledger rows and its
\* level the one of that total, for every user no two tasks raced for; whatever fails, restarts or
\* is repeated, and for any number of rows.
THEOREM TotalsFollowTheLedger == GSpec => []StatsFollowLedger
<1>1. GInit => CountInv /\ TotalInv
  <2> SUFFICES ASSUME GInit
               PROVE  CountInv /\ TotalInv
    OBVIOUS
  <2>1. CountInv
    BY CountsStartExact
  <2>2. /\ ledger = {} /\ \A u \in Technicians : stats[u] = NoStats
        /\ \A s \in Streams : job[s] = NoJob
    BY DEF GInit
  <2>3. ASSUME NEW u \in Technicians
        PROVE  profile(u).total = Sum(RowsOf(u)) /\ profile(u).level = _compute_level(profile(u).total)
    <3>1. RowsOf(u) = {} /\ IsFiniteSet({})
      BY <2>2, FS_EmptySet DEF RowsOf
    <3>2. Sum(RowsOf(u)) = 0
      BY <3>1, SumStep
    <3>3. profile(u).total = 0 /\ profile(u).level = "BRONZ"
      BY <2>2 DEF profile, NewStats
    <3> QED
      BY <3>2, <3>3, GamificationAssumption DEF _compute_level, GamificationAssumption
  <2>4. \A s \in Streams : LevelFits(s)
    BY <2>2 DEF LevelFits, NoJob, Holding
  <2> QED
    BY <2>1, <2>3, <2>4 DEF TotalInv, StatsFollowLedger
<1>2. StreamInv /\ GameType /\ CountInv /\ TotalInv /\ [GNext]_gvars => (CountInv /\ TotalInv)'
  BY StepKeepsCounts, StatsKeepFollowing, LevelsKeepFitting, GamificationAssumption DEF TotalInv
<1>3. TotalInv => StatsFollowLedger
  BY DEF TotalInv
<1> QED
  BY <1>1, <1>2, <1>3, GameTypeCorrect, PTL DEF GSpec
=============================================================================
