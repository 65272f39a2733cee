---------------------------- MODULE DiagnosisProofs ----------------------------
(***************************************************************************)
(* Theorems about the diagnosis: when the circuit breaker lets a call      *)
(* through and when it does not, that an incident's suggestion was stored  *)
(* before it was answered, and that the accuracy metric is a share.        *)
(***************************************************************************)
EXTENDS Diagnosis, FiniteSetTheorems, TLAPS

Types == FaultTypes \cup {"none"}
Priorities == {"KRITIK", "YUKSEK", "ORTA", "DUSUK", "none"}
Suggestions == {"IZLE", "VAKA_AC", "ACIL", "none"}

Verdict == [p : 0..1000, fault : FaultTypes]
Answer == [p : 0..1000, fault : Types, priority : Priorities, suggestion : Suggestions,
           method : {"LLM", "ML_MODEL", "none"}]
Handler == [pc : {"none", "arrived", "calling", "committing", "answered", "failed"}, try : 0..2,
            answer : Answer]
Reading == [pc : {"none", "asking", "settled"}, symptoms : SUBSET Symptoms, attempt : 0..2]
Incident == [fault : Types, priority : Priorities, suggestion : Suggestions,
             is_manual_override : BOOLEAN]
Correction == [incident : Readings, from : FaultTypes]
Row == [id : Handlers, answer : Answer]

-----------------------------------------------------------------------------
(* The circuit breaker.                                                    *)

Recent == {n \in DOMAIN outage : outage[n] < Cooldown}

\* While the breaker is closed it has counted every recent failure in a row and fewer than it
\* tolerates; once it is open it is as old as the last of them, and none is younger.
BreakerInv ==
    /\ breaker \in [failures : Nat, since : {Never} \cup 0..Cooldown]
    /\ outage \in Seq(0..Cooldown)
    /\ breaker.failures <= Len(outage)
    /\ breaker.since = Never => /\ breaker.failures < Threshold
                                /\ Cardinality(Recent) <= breaker.failures
    /\ breaker.since # Never => /\ breaker.failures >= Threshold
                                /\ outage[Len(outage)] = breaker.since
                                /\ \A n \in 1..Len(outage) : outage[n] >= breaker.since

-----------------------------------------------------------------------------
(* Predictions, incidents and corrections.                                 *)

DiagnosisType ==
    /\ reading \in [Readings -> Reading]
    /\ \A r \in Readings : reading[r].pc = "asking" => reading[r].attempt \in {1, 2}
    /\ handler \in [Handlers -> Handler]
    /\ predictions \in SUBSET Row /\ IsFiniteSet(predictions)
    /\ incident \in [Readings -> Incident]
    /\ corrections \in Seq(Correction)
    /\ feedback \subseteq 1..Len(corrections)

Derived(a) == a.priority = derive_priority(a.p) /\ a.suggestion = derive_suggestion(a.p)

\* What is answered follows from the probability, and has been stored.
AnswerInv ==
    \A h \in Handlers :
        /\ handler[h].pc \in {"committing", "answered"} => Derived(handler[h].answer)
        /\ handler[h].pc = "answered" => [id |-> h, answer |-> handler[h].answer] \in predictions

\* A row of r predicted the type f and what its incident carries.
Backed(r, f) ==
    \E row \in Evaluated : /\ row.id[1] = r
                           /\ row.answer.suggestion = incident[r].suggestion
                           /\ row.answer.priority = incident[r].priority
                           /\ row.answer.fault = f

\* Only a settled reading has an incident; the type it has until it is corrected was predicted.
IncidentFits(r) ==
    /\ reading[r].pc # "settled" => incident[r] = NoIncident
    /\ incident[r].suggestion # "none" =>
          /\ incident[r].priority = "KRITIK" <=> incident[r].suggestion = "ACIL"
          /\ \E f \in Types : Backed(r, f)
          /\ ~incident[r].is_manual_override => Backed(r, incident[r].fault)

\* The first correction of an incident replaces the type that was predicted.
CorrectionFits(r, f) ==
    /\ incident[r].is_manual_override
    /\ incident[r].suggestion # "none" /\ r \notin recorrected => Backed(r, f)

LedgerInv ==
    /\ \A r \in Readings : IncidentFits(r)
    /\ \A k \in 1..Len(corrections) : CorrectionFits(corrections[k].incident, corrections[k].from)

-----------------------------------------------------------------------------
(* What the rules answer.                                                  *)

LEMMA PointsAreNatural ==
    ASSUME NEW t, NEW Signs
    PROVE  Points(t, Signs) \in Nat
BY DEF Points, Weight

\* There is a first one among the greatest of four numbers.
LEMMA FirstOfTheGreatest ==
    ASSUME NEW w \in [1..4 -> Nat]
    PROVE  \E n \in 1..4 : \A m \in 1..4 : IF m < n THEN w[m] < w[n] ELSE w[m] <= w[n]
<1>1. /\ w[1] \in Nat /\ w[2] \in Nat /\ w[3] \in Nat /\ w[4] \in Nat
      /\ \A m \in 1..4 : m = 1 \/ m = 2 \/ m = 3 \/ m = 4
  OBVIOUS
<1>2. CASE w[1] >= w[2] /\ w[1] >= w[3] /\ w[1] >= w[4]
  <2>1. \A m \in 1..4 : IF m < 1 THEN w[m] < w[1] ELSE w[m] <= w[1]
    BY <1>1, <1>2
  <2> QED
    BY <2>1
<1>3. CASE w[2] > w[1] /\ w[2] >= w[3] /\ w[2] >= w[4]
  <2>1. \A m \in 1..4 : IF m < 2 THEN w[m] < w[2] ELSE w[m] <= w[2]
    BY <1>1, <1>3
  <2> QED
    BY <2>1
<1>4. CASE w[3] > w[1] /\ w[3] > w[2] /\ w[3] >= w[4]
  <2>1. \A m \in 1..4 : IF m < 3 THEN w[m] < w[3] ELSE w[m] <= w[3]
    BY <1>1, <1>4
  <2> QED
    BY <2>1
<1>5. CASE w[4] > w[1] /\ w[4] > w[2] /\ w[4] > w[3]
  <2>1. \A m \in 1..4 : IF m < 4 THEN w[m] < w[4] ELSE w[m] <= w[4]
    BY <1>1, <1>5
  <2> QED
    BY <2>1
<1> QED
  BY <1>1, <1>2, <1>3, <1>4, <1>5

LEMMA DominantIsAType ==
    ASSUME NEW t
    PROVE  Dominant(t) \in FaultTypes
<1> DEFINE w == [n \in 1..4 |-> Contribution(t)[n].w]
<1>1. \A n \in 1..4 : Contribution(t)[n].w \in Nat /\ Contribution(t)[n].fault \in FaultTypes
  <2>1. \A n \in 1..4 : n = 1 \/ n = 2 \/ n = 3 \/ n = 4
    OBVIOUS
  <2>2. /\ Points(t, {"hot"}) \in Nat /\ Points(t, {"lossy", "weak"}) \in Nat
        /\ Points(t, {"outage"}) \in Nat /\ Points(t, {"recurring"}) \in Nat
    <3>1. \A Signs : Points(t, Signs) \in Nat
      BY PointsAreNatural
    <3> QED
      BY <3>1
  <2>3. /\ Contribution(t)[1].w \in Nat /\ Contribution(t)[1].fault \in FaultTypes
        /\ Contribution(t)[2].w \in Nat /\ Contribution(t)[2].fault \in FaultTypes
        /\ Contribution(t)[3].w \in Nat /\ Contribution(t)[3].fault \in FaultTypes
        /\ Contribution(t)[4].w \in Nat /\ Contribution(t)[4].fault \in FaultTypes
    BY <2>2 DEF Contribution, FaultTypes
  <2> QED
    BY <2>1, <2>3
<1>2. w \in [1..4 -> Nat]
  BY <1>1
<1>3. \E n \in 1..4 : \A m \in 1..4 : IF m < n THEN w[m] < w[n] ELSE w[m] <= w[n]
  BY <1>2, FirstOfTheGreatest
<1>4. \E n \in 1..4 : \A m \in 1..4 : IF m < n THEN Contribution(t)[m].w < Contribution(t)[n].w
                                      ELSE Contribution(t)[m].w <= Contribution(t)[n].w
  BY <1>3
<1> QED
  BY <1>1, <1>4 DEF Dominant

\* rule_based_predict: whatever the telemetry says, a probability below 1 and a type there is.
LEMMA RulesAnswer ==
    ASSUME NEW t
    PROVE  rule_based_predict(t) \in Verdict
<1>1. Dominant(t) \in FaultTypes /\ "BELIRSIZ" \in FaultTypes
  BY DominantIsAType DEF FaultTypes
<1>2. CASE t = {}
  BY <1>1, <1>2 DEF rule_based_predict, Verdict
<1>3. CASE t # {}
  <2>1. PICK sum \in Nat :
          sum = Points(t, Symptoms) + (IF AboveByRounding(t) THEN 1 ELSE 0)
    <3>1. PICK n \in Nat : n = Points(t, Symptoms)
      BY PointsAreNatural
    <3>2. n + 1 \in Nat /\ n + 0 \in Nat
      OBVIOUS
    <3> QED
      BY <3>1, <3>2
  <2>2. rule_based_predict(t) = [p |-> IF sum < 990 THEN sum ELSE 990, fault |-> Dominant(t)]
    BY <1>3, <2>1 DEF rule_based_predict
  <2> QED
    BY <1>1, <2>2 DEF Verdict
<1> QED
  BY <1>2, <1>3

LEMMA ModelAnswers ==
    ASSUME DiagnosisAssumption, NEW t
    PROVE  ml_predict(t) \subseteq Verdict
BY RulesAnswer DEF ml_predict, DiagnosisAssumption, Verdict

-----------------------------------------------------------------------------
(* The breaker, step by step.                                              *)

LEMMA BreakerUndisturbed ==
    ASSUME BreakerInv, UNCHANGED <<breaker, outage>>
    PROVE  BreakerInv'
BY DEF BreakerInv, Recent

LEMMA AppendingAges ==
    ASSUME NEW q \in Seq(0..Cooldown), Cooldown \in Nat \ {0}
    PROVE  /\ Append(q, 0) \in Seq(0..Cooldown)
           /\ Len(Append(q, 0)) = Len(q) + 1
           /\ Append(q, 0)[Len(q) + 1] = 0
           /\ \A n \in 1..Len(q) : Append(q, 0)[n] = q[n]
OBVIOUS

LEMMA RecentIsFinite ==
    ASSUME BreakerInv
    PROVE  IsFiniteSet(Recent) /\ Cardinality(Recent) \in Nat
<1>1. Len(outage) \in Nat /\ Recent \subseteq 1..Len(outage)
  BY DEF BreakerInv, Recent
<1>2. IsFiniteSet(1..Len(outage))
  BY <1>1, FS_Interval
<1> QED
  BY <1>1, <1>2, FS_Subset, FS_CardinalityType

\* A well-formed answer, or one that is malformed: the count starts anew.
LEMMA SuccessResets ==
    ASSUME DiagnosisAssumption, breaker' = Closed, outage' = <<>>
    PROVE  BreakerInv'
<1>1. Recent' = {} /\ Len(outage') = 0 /\ outage' \in Seq(0..Cooldown)
  BY DEF Recent
<1>2. Cardinality(Recent') = 0
  BY <1>1, FS_EmptySet
<1> QED
  BY <1>1, <1>2 DEF BreakerInv, Closed, Never, DiagnosisAssumption

\* One failure more.
LEMMA FailureCounts ==
    ASSUME DiagnosisAssumption, BreakerInv,
           breaker' = record_failure(breaker), outage' = Append(outage, 0)
    PROVE  BreakerInv'
<1> USE DEF DiagnosisAssumption
<1>1. PICK l \in Nat : l = Len(outage)
  BY DEF BreakerInv
<1>2. /\ outage' \in Seq(0..Cooldown) /\ Len(outage') = l + 1
      /\ outage'[l + 1] = 0
      /\ \A n \in 1..l : outage'[n] = outage[n]
  BY <1>1, AppendingAges DEF BreakerInv
<1>3. \A n \in 1..(l + 1) : outage'[n] \in 0..Cooldown
  BY <1>2
<1>4. /\ breaker'.failures = breaker.failures + 1 /\ breaker.failures \in Nat
      /\ breaker' \in [failures : Nat, since : {Never} \cup 0..Cooldown]
      /\ breaker'.since = IF breaker.failures + 1 >= Threshold THEN 0 ELSE breaker.since
  BY DEF BreakerInv, record_failure
<1>5. CASE breaker.failures + 1 >= Threshold
  BY <1>1, <1>2, <1>3, <1>4, <1>5, SMTT(60) DEF BreakerInv, Never
<1>6. CASE breaker.failures + 1 < Threshold
  <2>1. breaker.since = Never /\ breaker'.since = Never
    BY <1>4, <1>6 DEF BreakerInv
  <2>2. Recent' = Recent \cup {l + 1}
    BY <1>1, <1>2 DEF BreakerInv, Recent
  <2>3. l + 1 \notin Recent
    BY <1>1 DEF BreakerInv, Recent
  <2>4. Cardinality(Recent') = Cardinality(Recent) + 1
    BY <2>2, <2>3, RecentIsFinite, FS_AddElement, ZenonT(60)
  <2> QED
    BY <1>1, <1>2, <1>4, <1>6, <2>1, <2>4, RecentIsFinite DEF BreakerInv
<1> QED
  BY <1>4, <1>5, <1>6

\* The failures age with the breaker.
LEMMA TickAges ==
    ASSUME DiagnosisAssumption, BreakerInv, Tick
    PROVE  BreakerInv'
<1> USE DEF DiagnosisAssumption
<1>1. PICK l \in Nat : l = Len(outage)
  BY DEF BreakerInv
<1>2. DOMAIN outage = 1..l /\ \A n \in 1..l : outage[n] \in 0..Cooldown
  BY <1>1 DEF BreakerInv
<1>3. /\ outage' = [n \in 1..l |-> IF outage[n] < Cooldown THEN outage[n] + 1 ELSE Cooldown]
      /\ breaker' = [breaker EXCEPT !.since = IF @ \in 0 .. Cooldown - 1 THEN @ + 1 ELSE @]
  BY <1>2 DEF Tick
<1>4. \A n \in 1..l : outage'[n] \in 0..Cooldown
  BY <1>2, <1>3
<1>5. outage' \in Seq(0..Cooldown) /\ Len(outage') = l /\ DOMAIN outage' = 1..l
  BY <1>1, <1>3, <1>4
<1>6. /\ breaker' \in [failures : Nat, since : {Never} \cup 0..Cooldown]
      /\ breaker'.failures = breaker.failures
      /\ breaker.since = Never => breaker'.since = Never
      /\ breaker.since # Never => /\ breaker.since \in 0..Cooldown /\ breaker'.since # Never
                                  /\ breaker'.since = IF breaker.since < Cooldown
                                                      THEN breaker.since + 1 ELSE Cooldown
  <2>1. PICK f \in Nat, a \in {Never} \cup 0..Cooldown : breaker = [failures |-> f, since |-> a]
    BY DEF BreakerInv
  <2>2. breaker' = [failures |-> f, since |-> IF a \in 0 .. Cooldown - 1 THEN a + 1 ELSE a]
    BY <1>3, <2>1
  <2>3. (IF a \in 0 .. Cooldown - 1 THEN a + 1 ELSE a) \in {Never} \cup 0..Cooldown
    BY DEF Never
  <2> QED
    BY <2>1, <2>2, <2>3 DEF Never
<1>7. Recent' \subseteq Recent
  BY <1>2, <1>3, <1>5 DEF Recent
<1>8. Cardinality(Recent') <= Cardinality(Recent) /\ Cardinality(Recent') \in Nat
  BY <1>7, RecentIsFinite, FS_Subset, FS_CardinalityType
<1>9. CASE breaker.since = Never
  BY <1>1, <1>5, <1>6, <1>8, <1>9, RecentIsFinite DEF BreakerInv
<1>10. CASE breaker.since # Never
  <2>1. l >= 1 /\ outage[l] = breaker.since /\ \A n \in 1..l : outage[n] >= breaker.since
    BY <1>1, <1>10 DEF BreakerInv
  <2>2. outage'[l] = breaker'.since /\ \A n \in 1..l : outage'[n] >= breaker'.since
    BY <1>2, <1>3, <1>6, <1>10, <2>1
  <2> QED
    BY <1>1, <1>5, <1>6, <1>10, <2>1, <2>2 DEF BreakerInv
<1> QED
  BY <1>9, <1>10

\* An open breaker that has rested starts anew: the failures it counted are all old.
LEMMA RestIsSafe ==
    ASSUME DiagnosisAssumption, BreakerInv, ~Refuses
    PROVE  /\ Cardinality(Recent) < Threshold
           /\ breaker' = Rested /\ UNCHANGED outage => BreakerInv'
<1> USE DEF DiagnosisAssumption
<1>1. CASE breaker.since = Never
  <2>1. Rested = breaker
    BY <1>1 DEF Rested, Never
  <2>2. Cardinality(Recent) < Threshold
    BY <1>1, RecentIsFinite DEF BreakerInv
  <2> QED
    BY <2>1, <2>2, BreakerUndisturbed
<1>2. CASE breaker.since # Never
  <2>1. breaker.since = Cooldown
    BY <1>2 DEF BreakerInv, Refuses
  <2>2. Recent = {}
    BY <1>2, <2>1 DEF BreakerInv, Recent
  <2>3. Cardinality(Recent) = 0
    BY <2>2, FS_EmptySet
  <2>4. ASSUME breaker' = Rested, UNCHANGED outage
        PROVE  BreakerInv'
    <3>1. breaker' = Closed /\ Recent' = Recent
      BY <2>1, <2>4 DEF Rested, Recent
    <3> QED
      BY <2>3, <2>4, <3>1 DEF BreakerInv, Closed, Never
  <2> QED
    BY <2>3, <2>4
<1> QED
  BY <1>1, <1>2

LEMMA BreakerKept ==
    ASSUME DiagnosisAssumption, BreakerInv, [DNext]_dvars
    PROVE  BreakerInv'
<1>1. ASSUME NEW h \in Handlers, Admitted(h)
      PROVE  BreakerInv'
  BY <1>1, RestIsSafe DEF Admitted
<1>2. ASSUME NEW h \in Handlers, Diagnosed(h)
      PROVE  BreakerInv'
  BY <1>2, SuccessResets DEF Diagnosed, record_success
<1>3. ASSUME NEW h \in Handlers, CallFails(h)
      PROVE  BreakerInv'
  BY <1>3, FailureCounts, BreakerUndisturbed DEF CallFails, NotDiagnosed
<1>4. ASSUME NEW h \in Handlers, Malformed(h)
      PROVE  BreakerInv'
  <2>1. CASE handler[h].try = 1
    BY <1>4, <2>1, SuccessResets DEF Malformed, NotDiagnosed, record_success
  <2>2. CASE handler[h].try # 1
    <3>1. breaker' = record_failure(Closed) /\ outage' = Append(<<>>, 0)
      BY <1>4, <2>2 DEF Malformed, NotDiagnosed, record_success
    <3>2. /\ outage' \in Seq(0..Cooldown) /\ Len(outage') = 1 /\ outage'[1] = 0
          /\ DOMAIN outage' = 1..1 /\ \A n \in 1..1 : n = 1
      BY <3>1 DEF DiagnosisAssumption
    <3>3. Recent' = {1}
      BY <3>2 DEF Recent, DiagnosisAssumption
    <3>4. Cardinality(Recent') = 1
      BY <3>3, FS_Singleton, ZenonT(60)
    <3> QED
      BY <3>1, <3>2, <3>4 DEF BreakerInv, record_failure, Closed, Never, DiagnosisAssumption
  <2> QED
    BY <2>1, <2>2
<1>5. CASE Tick
  BY <1>5, TickAges
<1>6. ASSUME NEW h \in Handlers,
             NotConfigured(h) \/ Refused(h) \/ NoToolUse(h) \/ Commit(h) \/ Broken(h)
      PROVE  BreakerInv'
  BY <1>6, BreakerUndisturbed DEF NotConfigured, Refused, NoToolUse, Commit, Broken
<1>7. CASE \/ \E r \in Readings : submit_telemetry(r) \/ TimeOut(r) \/ Refusal(r) \/ Receive(r)
           \/ \E r \in Readings, f \in NewTypes : change_fault_type(r, f)
           \/ \E k \in 1..Len(corrections) : handle_type_changed(k)
           \/ UNCHANGED dvars
  BY <1>7, BreakerUndisturbed
     DEF submit_telemetry, TimeOut, Refusal, Receive, change_fault_type, handle_type_changed,
         AITables, dvars
<1> QED
  BY <1>1, <1>2, <1>3, <1>4, <1>5, <1>6, <1>7 DEF DNext, Predict

LEMMA BreakerStarts == DiagnosisAssumption /\ DInit => BreakerInv
<1> SUFFICES ASSUME DiagnosisAssumption, DInit
             PROVE  BreakerInv
  OBVIOUS
<1>1. Recent = {} /\ Len(outage) = 0 /\ outage \in Seq(0..Cooldown)
  BY DEF DInit, Recent
<1>2. Cardinality(Recent) = 0
  BY <1>1, FS_EmptySet
<1> QED
  BY <1>1, <1>2 DEF DInit, BreakerInv, Closed, Never, DiagnosisAssumption

-----------------------------------------------------------------------------
(* The handlers and their callers.                                         *)

\* A probability above 1 is refused, any other decides priority and suggestion.
LEMMA Responding ==
    ASSUME DiagnosisType, NEW h \in Handlers, NEW a \in [p : Nat, fault : FaultTypes],
           NEW m \in {"LLM", "ML_MODEL"}, Respond(h, a, m)
    PROVE  /\ handler' \in [Handlers -> Handler]
           /\ \A g \in Handlers : g # h => handler'[g] = handler[g]
           /\ handler'[h].pc \in {"committing", "failed"}
           /\ handler'[h].pc = "committing" => Derived(handler'[h].answer)
<1> DEFINE answer == [p |-> a.p, fault |-> a.fault, priority |-> derive_priority(a.p),
                      suggestion |-> derive_suggestion(a.p), method |-> m]
<1>1. handler \in [Handlers -> Handler] /\ handler[h] \in Handler
  BY DEF DiagnosisType
<1>2. CASE a.p <= 1000
  <2>1. answer \in Answer
    BY <1>2 DEF Answer, Types, Priorities, Suggestions, derive_priority, derive_suggestion
  <2>2. handler' = [handler EXCEPT ![h] = [pc |-> "committing", try |-> 0, answer |-> answer]]
    BY <1>2 DEF Respond
  <2>3. Derived(answer)
    BY DEF Derived
  <2> HIDE DEF answer
  <2>4. [pc |-> "committing", try |-> 0, answer |-> answer] \in Handler
    BY <2>1 DEF Handler
  <2> QED
    BY <1>1, <2>2, <2>3, <2>4
<1>3. CASE ~(a.p <= 1000)
  <2>1. handler' = [handler EXCEPT ![h] = [handler[h] EXCEPT !.pc = "failed"]]
    BY <1>3 DEF Respond
  <2>2. [handler[h] EXCEPT !.pc = "failed"] \in Handler
    BY <1>1 DEF Handler
  <2> QED
    BY <1>1, <2>1, <2>2 DEF Handler
<1> QED
  BY <1>2, <1>3

LEMMA FallingBack ==
    ASSUME DiagnosisAssumption, DiagnosisType, NEW h \in Handlers, FallBack(h)
    PROVE  /\ handler' \in [Handlers -> Handler]
           /\ \A g \in Handlers : g # h => handler'[g] = handler[g]
           /\ handler'[h].pc \in {"committing", "failed"}
           /\ handler'[h].pc = "committing" => Derived(handler'[h].answer)
<1>1. PICK a \in Verdict : Respond(h, a, "ML_MODEL")
  BY ModelAnswers DEF FallBack
<1>2. a \in [p : Nat, fault : FaultTypes]
  BY DEF Verdict
<1> QED
  BY <1>1, <1>2, Responding

\* What a step of the predict endpoint does to the handlers.
LEMMA PredictMoves ==
    ASSUME DiagnosisAssumption, DiagnosisType, NEW h \in Handlers, Predict(h)
    PROVE  /\ UNCHANGED <<config, reading, incident, corrections, feedback, recorrected>>
           /\ handler' \in [Handlers -> Handler]
           /\ \A g \in Handlers : g # h => handler'[g] = handler[g]
           /\ handler'[h].pc = "calling" /\ handler[h].pc = "arrived" => Admitted(h)
           /\ handler'[h].pc \in {"calling", "committing", "failed"} \/ Commit(h)
           /\ handler'[h].pc = "committing" => Derived(handler'[h].answer)
           /\ handler'[h].pc = "committing" /\ handler[h].pc = "arrived"
                 => NotConfigured(h) \/ Refused(h)
           /\ predictions' = predictions \/ Commit(h)
<1>1. handler \in [Handlers -> Handler] /\ handler[h] \in Handler
  BY DEF DiagnosisType
<1>2. CASE NotConfigured(h) \/ Refused(h) \/ NoToolUse(h)
  BY <1>2, FallingBack DEF NotConfigured, Refused, NoToolUse, OtherTables
<1>3. CASE Admitted(h)
  <2>1. ASSUME NEW x \in Handler
        PROVE  /\ [x EXCEPT !.pc = "calling", !.try = 1] \in Handler
               /\ [x EXCEPT !.pc = "calling", !.try = 1].pc = "calling"
    <3>1. ASSUME NEW y \in Handler
          PROVE  /\ [y EXCEPT !.pc = "calling"] \in Handler
                 /\ [y EXCEPT !.pc = "calling"].pc = "calling"
      BY DEF Handler
    <3>2. ASSUME NEW y \in Handler
          PROVE  [y EXCEPT !.try = 1] \in Handler /\ [y EXCEPT !.try = 1].pc = y.pc
      BY DEF Handler
    <3> QED
      BY <3>1, <3>2, ZenonT(60)
  <2>2. handler' = [handler EXCEPT ![h] = [handler[h] EXCEPT !.pc = "calling", !.try = 1]]
    BY <1>1, <1>3, ZenonT(60) DEF Admitted
  <2>3. /\ handler' \in [Handlers -> Handler] /\ handler'[h].pc = "calling"
        /\ \A g \in Handlers : g # h => handler'[g] = handler[g]
    BY <1>1, <2>1, <2>2, ZenonT(60)
  <2> QED
    BY <1>3, <2>3 DEF Admitted, OtherTables
<1>4. CASE Diagnosed(h)
  <2>1. PICK a \in [p : Nat, fault : FaultTypes] : Respond(h, a, "LLM")
    BY <1>4 DEF Diagnosed, DiagnosisAssumption
  <2> QED
    BY <1>4, <2>1, Responding DEF Diagnosed, OtherTables
<1>5. CASE CallFails(h) \/ Malformed(h)
  <2>1. CASE handler[h].try = 1
    <3>1. handler' = [handler EXCEPT ![h].try = 2] /\ handler[h].pc = "calling"
      BY <1>5, <2>1 DEF CallFails, Malformed, NotDiagnosed
    <3>2. /\ [handler[h] EXCEPT !.try = 2] \in Handler
          /\ [handler[h] EXCEPT !.try = 2].pc = handler[h].pc
      BY <1>1 DEF Handler
    <3> QED
      BY <1>1, <1>5, <3>1, <3>2 DEF CallFails, Malformed, OtherTables
  <2>2. CASE handler[h].try # 1
    BY <1>5, <2>2, FallingBack DEF CallFails, Malformed, NotDiagnosed, OtherTables
  <2> QED
    BY <2>1, <2>2
<1>6. CASE Commit(h)
  <2>1. handler' = [handler EXCEPT ![h] = [handler[h] EXCEPT !.pc = "answered"]]
    BY <1>6 DEF Commit, Answered
  <2>2. /\ [handler[h] EXCEPT !.pc = "answered"] \in Handler
        /\ [handler[h] EXCEPT !.pc = "answered"].pc = "answered"
    BY <1>1 DEF Handler
  <2> QED
    BY <1>1, <1>6, <2>1, <2>2 DEF Commit, OtherTables
<1>7. CASE Broken(h)
  <2>1. handler' = [handler EXCEPT ![h] = [handler[h] EXCEPT !.pc = "failed"]]
    BY <1>7 DEF Broken
  <2>2. /\ [handler[h] EXCEPT !.pc = "failed"] \in Handler
        /\ [handler[h] EXCEPT !.pc = "failed"].pc = "failed"
    BY <1>1 DEF Handler
  <2> QED
    BY <1>1, <1>7, <2>1, <2>2 DEF Broken, OtherTables
<1> QED
  BY <1>2, <1>3, <1>4, <1>5, <1>6, <1>7 DEF Predict

\* An attempt of the caller makes one handler arrive.
LEMMA Asking ==
    ASSUME DiagnosisType, NEW r \in Readings, NEW n \in {1, 2}, NEW t \in SUBSET Symptoms, Ask(r, n, t)
    PROVE  /\ handler' \in [Handlers -> Handler]
           /\ \A g \in Handlers : handler'[g] = handler[g] \/ handler'[g].pc = "arrived"
           /\ reading' \in [Readings -> Reading]
           /\ \A q \in Readings : q # r => reading'[q] = reading[q]
           /\ reading'[r].pc = "asking" /\ reading'[r].attempt = n
<1>1. handler \in [Handlers -> Handler] /\ <<r, n>> \in Handlers /\ handler[<<r, n>>] \in Handler
  BY DEF DiagnosisType, Handlers
<1>2. /\ [handler[<<r, n>>] EXCEPT !.pc = "arrived"] \in Handler
      /\ [handler[<<r, n>>] EXCEPT !.pc = "arrived"].pc = "arrived"
  BY <1>1 DEF Handler
<1>3. handler' = [handler EXCEPT ![<<r, n>>] = [handler[<<r, n>>] EXCEPT !.pc = "arrived"]]
  BY DEF Ask
<1>4. reading' = [reading EXCEPT ![r] = [pc |-> "asking", symptoms |-> t, attempt |-> n]]
  BY DEF Ask
<1>5. [pc |-> "asking", symptoms |-> t, attempt |-> n] \in Reading
  BY DEF Reading
<1> QED
  BY <1>1, <1>2, <1>3, <1>4, <1>5 DEF DiagnosisType

LEMMA Settling ==
    ASSUME DiagnosisType, NEW r \in Readings, NEW as \in Incident, Settle(r, as)
    PROVE  /\ reading' \in [Readings -> Reading]
           /\ \A q \in Readings : q # r => reading'[q] = reading[q] /\ incident'[q] = incident[q]
           /\ reading'[r].pc = "settled" /\ incident'[r] = as
           /\ incident' \in [Readings -> Incident]
<1>1. reading[r] \in Reading
  BY DEF DiagnosisType
<1>2. /\ [reading[r] EXCEPT !.pc = "settled"] \in Reading
      /\ [reading[r] EXCEPT !.pc = "settled"].pc = "settled"
  BY <1>1 DEF Reading
<1>3. reading' = [reading EXCEPT ![r] = [reading[r] EXCEPT !.pc = "settled"]]
  BY DEF Settle
<1> QED
  BY <1>2, <1>3 DEF Settle, DiagnosisType

Unknown == [NoIncident EXCEPT !.fault = "BELIRSIZ", !.priority = "ORTA"]
Opened(a) == IF a.suggestion = "IZLE" THEN NoIncident
             ELSE [NoIncident EXCEPT !.fault = a.fault, !.priority = a.priority,
                                     !.suggestion = a.suggestion]

LEMMA IncidentsOpened ==
    /\ NoIncident \in Incident /\ Unknown \in Incident
    /\ NoIncident.suggestion = "none" /\ Unknown.suggestion = "none"
    /\ \A a \in Answer : /\ Opened(a) \in Incident
                         /\ a.suggestion # "IZLE" => /\ Opened(a).fault = a.fault
                                                     /\ Opened(a).priority = a.priority
                                                     /\ Opened(a).suggestion = a.suggestion
<1>1. NoIncident \in Incident /\ NoIncident.suggestion = "none"
  BY DEF NoIncident, Incident, Types, Priorities, Suggestions
<1>2. ASSUME NEW a \in Answer, a.suggestion # "IZLE"
      PROVE  Opened(a) = [fault |-> a.fault, priority |-> a.priority, suggestion |-> a.suggestion,
                          is_manual_override |-> FALSE]
  BY <1>2 DEF Opened, NoIncident
<1>3. ASSUME NEW a \in Answer
      PROVE  [fault |-> a.fault, priority |-> a.priority, suggestion |-> a.suggestion,
              is_manual_override |-> FALSE] \in Incident
  BY DEF Answer, Incident
<1>4. Unknown \in Incident /\ Unknown.suggestion = "none"
  <2>1. "BELIRSIZ" \in Types /\ "ORTA" \in Priorities
    BY DEF Types, FaultTypes, Priorities
  <2>2. ASSUME NEW i \in Incident
        PROVE  /\ [i EXCEPT !.fault = "BELIRSIZ", !.priority = "ORTA"] \in Incident
               /\ [i EXCEPT !.fault = "BELIRSIZ", !.priority = "ORTA"].suggestion = i.suggestion
    BY <2>1 DEF Incident
  <2> QED
    BY <1>1, <2>2 DEF Unknown
<1>5. ASSUME NEW a \in Answer, a.suggestion = "IZLE"
      PROVE  Opened(a) = NoIncident
  BY <1>5 DEF Opened
<1> QED
  BY <1>1, <1>2, <1>3, <1>4, <1>5

-----------------------------------------------------------------------------
(* The types.                                                              *)

\* What each step of the incident service does to readings, handlers and incidents.
CallerMoves(r) ==
    /\ UNCHANGED <<config, predictions, corrections, feedback, recorrected>>
    /\ handler' \in [Handlers -> Handler]
    /\ \A g \in Handlers : handler'[g] = handler[g] \/ handler'[g].pc = "arrived"
    /\ reading' \in [Readings -> Reading]
    /\ \A q \in Readings : q # r => reading'[q] = reading[q] /\ incident'[q] = incident[q]
    /\ incident' \in [Readings -> Incident]
    /\ reading[r].pc # "settled"
    /\ \/ reading'[r].pc = "asking" /\ reading'[r].attempt \in {1, 2} /\ incident'[r] = incident[r]
       \/ reading'[r].pc = "settled" /\ incident'[r] \in {Unknown, NoIncident}
       \/ /\ reading'[r].pc = "settled"
          /\ \E h \in Handlers : /\ h[1] = r /\ handler[h].pc = "answered"
                                 /\ incident'[r] = Opened(handler[h].answer)

LEMMA CallersMove ==
    ASSUME DiagnosisAssumption, DiagnosisType, NEW r \in Readings,
           submit_telemetry(r) \/ TimeOut(r) \/ Refusal(r) \/ Receive(r)
    PROVE  CallerMoves(r)
<1>0. reading \in [Readings -> Reading] /\ incident \in [Readings -> Incident]
      /\ handler \in [Handlers -> Handler]
  BY DEF DiagnosisType
<1>1. CASE submit_telemetry(r)
  <2>1. reading[r].pc = "none"
    <3>1. r \in Nat /\ (r < r <=> reading[r].pc # "none")
      BY <1>1, ZenonT(60) DEF submit_telemetry, DiagnosisAssumption
    <3> QED
      BY <1>0, <3>1 DEF Reading
  <2>2. PICK t \in SUBSET Symptoms : Ask(r, 1, t)
    BY <1>1 DEF submit_telemetry, DiagnosisAssumption
  <2>3. UNCHANGED <<config, predictions, corrections, feedback, recorrected, incident>>
    BY <1>1 DEF submit_telemetry, AITables, Corrected
  <2> QED
    BY <1>0, <2>1, <2>2, <2>3, Asking DEF CallerMoves
<1>2. CASE TimeOut(r) \/ Refusal(r)
  <2>1. /\ GiveUp(r) \/ (Settle(r, NoIncident) /\ UNCHANGED handler)
        /\ reading[r].pc = "asking"
        /\ UNCHANGED <<config, predictions, corrections, feedback, recorrected>>
    BY <1>2 DEF TimeOut, Refusal, AITables, Corrected
  <2>2. CASE GiveUp(r) /\ reading[r].attempt = 1
    <3>1. Ask(r, 2, reading[r].symptoms) /\ UNCHANGED incident
      BY <2>1, <2>2 DEF GiveUp
    <3>2. reading[r].symptoms \in SUBSET Symptoms
      BY <1>0 DEF Reading
    <3> QED
      BY <1>0, <2>1, <3>1, <3>2, Asking DEF CallerMoves
  <2>3. CASE ~(GiveUp(r) /\ reading[r].attempt = 1)
    <3>1. PICK i \in {Unknown, NoIncident} : Settle(r, i) /\ UNCHANGED handler
      BY <2>1, <2>3 DEF GiveUp, Unknown
    <3>2. /\ reading' \in [Readings -> Reading]
          /\ \A q \in Readings : q # r => reading'[q] = reading[q] /\ incident'[q] = incident[q]
          /\ reading'[r].pc = "settled" /\ incident'[r] = i
          /\ incident' \in [Readings -> Incident]
      BY <3>1, Settling, IncidentsOpened, ZenonT(60)
    <3> QED
      BY <1>0, <2>1, <3>1, <3>2 DEF CallerMoves
  <2> QED
    BY <2>2, <2>3
<1>3. CASE Receive(r)
  <2>1. PICK h \in Handlers : h = Current(r) /\ h[1] = r
    BY <1>3 DEF Receive, DiagnosisType, Current, Handlers
  <2>2. /\ reading[r].pc = "asking" /\ handler[h].pc = "answered"
        /\ Settle(r, Opened(handler[h].answer))
        /\ UNCHANGED <<config, predictions, corrections, feedback, recorrected, handler>>
    BY <1>3, <2>1 DEF Receive, Opened, AITables, Corrected
  <2>3. handler[h].answer \in Answer
    BY <1>0 DEF Handler
  <2>4. Opened(handler[h].answer) \in Incident
    BY <2>3, IncidentsOpened
  <2> QED
    BY <1>0, <2>1, <2>2, <2>4, Settling DEF CallerMoves
<1> QED
  BY <1>1, <1>2, <1>3

\* What a correction does: the type is overwritten, and the event says which one it was.
CorrectionMoves(r, f) ==
    /\ UNCHANGED <<config, predictions, reading, handler, feedback>>
    /\ incident[r].fault \in FaultTypes
    /\ incident' \in [Readings -> Incident]
    /\ \A q \in Readings : q # r => incident'[q] = incident[q]
    /\ incident'[r].suggestion = incident[r].suggestion
    /\ incident'[r].priority = incident[r].priority
    /\ incident'[r].is_manual_override
    /\ IF incident[r].is_manual_override THEN recorrected' = recorrected \cup {r}
                                         ELSE recorrected' = recorrected
    /\ \/ corrections' = corrections
       \/ /\ corrections' \in Seq(Correction)
          /\ Len(corrections') = Len(corrections) + 1
          /\ \A k \in 1..Len(corrections) : corrections'[k] = corrections[k]
          /\ corrections'[Len(corrections) + 1].incident = r
          /\ corrections'[Len(corrections) + 1].from = incident[r].fault

LEMMA Retyped ==
    ASSUME NEW i \in Incident, NEW f \in FaultTypes
    PROVE  /\ [i EXCEPT !.fault = f] \in Incident
           /\ [i EXCEPT !.fault = f].suggestion = i.suggestion
           /\ [i EXCEPT !.fault = f].priority = i.priority
BY DEF Incident, Types

LEMMA Overridden ==
    ASSUME NEW i \in Incident
    PROVE  /\ [i EXCEPT !.is_manual_override = TRUE] \in Incident
           /\ [i EXCEPT !.is_manual_override = TRUE].suggestion = i.suggestion
           /\ [i EXCEPT !.is_manual_override = TRUE].priority = i.priority
           /\ [i EXCEPT !.is_manual_override = TRUE].is_manual_override
<1>1. [i EXCEPT !.is_manual_override = TRUE] \in Incident
  BY Zenon DEF Incident
<1>2. /\ [i EXCEPT !.is_manual_override = TRUE].suggestion = i.suggestion
      /\ [i EXCEPT !.is_manual_override = TRUE].priority = i.priority
  BY DEF Incident
<1>3. [i EXCEPT !.is_manual_override = TRUE].is_manual_override
  BY DEF Incident
<1> QED
  BY <1>1, <1>2, <1>3

LEMMA CorrectionsMove ==
    ASSUME DiagnosisAssumption, DiagnosisType, NEW r \in Readings, NEW f \in NewTypes,
           change_fault_type(r, f)
    PROVE  CorrectionMoves(r, f)
<1>1. incident[r] \in Incident /\ f \in FaultTypes /\ incident[r].fault \in FaultTypes
  BY DEF change_fault_type, DiagnosisType, DiagnosisAssumption, Incident, Types
<1>2. ASSUME NEW i \in Incident
      PROVE  /\ [i EXCEPT !.fault = f, !.is_manual_override = TRUE] \in Incident
             /\ [i EXCEPT !.fault = f, !.is_manual_override = TRUE].suggestion = i.suggestion
             /\ [i EXCEPT !.fault = f, !.is_manual_override = TRUE].priority = i.priority
             /\ [i EXCEPT !.fault = f, !.is_manual_override = TRUE].is_manual_override
  <2>1. /\ [i EXCEPT !.fault = f] \in Incident
        /\ [i EXCEPT !.fault = f].suggestion = i.suggestion
        /\ [i EXCEPT !.fault = f].priority = i.priority
    BY <1>1, Retyped, ZenonT(60)
  <2>2. /\ [[i EXCEPT !.fault = f] EXCEPT !.is_manual_override = TRUE] \in Incident
        /\ [[i EXCEPT !.fault = f] EXCEPT !.is_manual_override = TRUE].suggestion = i.suggestion
        /\ [[i EXCEPT !.fault = f] EXCEPT !.is_manual_override = TRUE].priority = i.priority
        /\ [[i EXCEPT !.fault = f] EXCEPT !.is_manual_override = TRUE].is_manual_override
    BY <2>1, Overridden, ZenonT(60)
  <2> QED
    BY <2>2
<1>3. incident' = [incident EXCEPT ![r] = [incident[r] EXCEPT !.fault = f, !.is_manual_override = TRUE]]
  BY <1>1, ZenonT(60) DEF change_fault_type, DiagnosisType
<1>4. /\ incident' \in [Readings -> Incident]
      /\ \A q \in Readings : q # r => incident'[q] = incident[q]
      /\ incident'[r].suggestion = incident[r].suggestion
      /\ incident'[r].priority = incident[r].priority
      /\ incident'[r].is_manual_override
  <2>1. incident \in [Readings -> Incident]
    BY DEF DiagnosisType
  <2>2. PICK i \in Incident : /\ i = [incident[r] EXCEPT !.fault = f, !.is_manual_override = TRUE]
                              /\ i.suggestion = incident[r].suggestion
                              /\ i.priority = incident[r].priority
                              /\ i.is_manual_override
    BY <1>1, <1>2, ZenonT(60)
  <2>3. incident' = [incident EXCEPT ![r] = i]
    BY <1>3, <2>2
  <2> QED
    BY <2>1, <2>2, <2>3
<1>5. PICK l \in Nat : l = Len(corrections)
  BY DEF DiagnosisType
<1>6. PICK c \in Correction : c = [incident |-> r, from |-> incident[r].fault]
  BY <1>1, ZenonT(60) DEF Correction
<1>7. corrections' = Append(corrections, c) \/ corrections' = corrections
  BY <1>6 DEF change_fault_type
<1>8. corrections \in Seq(Correction)
  BY DEF DiagnosisType
<1>9. c.incident = r /\ c.from = incident[r].fault
  BY <1>6
<1>10. \/ corrections' = corrections
       \/ /\ corrections' \in Seq(Correction)
          /\ Len(corrections') = Len(corrections) + 1
          /\ \A k \in 1..Len(corrections) : corrections'[k] = corrections[k]
          /\ corrections'[Len(corrections) + 1].incident = r
          /\ corrections'[Len(corrections) + 1].from = incident[r].fault
  <2>1. CASE corrections' = Append(corrections, c)
    <3>1. /\ Append(corrections, c) \in Seq(Correction) /\ Len(Append(corrections, c)) = l + 1
          /\ \A k \in 1..l : Append(corrections, c)[k] = corrections[k]
          /\ Append(corrections, c)[l + 1] = c
      BY <1>5, <1>8
    <3> QED
      BY <1>5, <1>9, <2>1, <3>1
  <2>2. CASE corrections' = corrections
    BY <2>2
  <2> QED
    BY <1>7, <2>1, <2>2
<1> QED
  BY <1>1, <1>4, <1>10 DEF change_fault_type, CorrectionMoves, AITables

LEMMA CommitStores ==
    ASSUME DiagnosisType, NEW h \in Handlers, Commit(h)
    PROVE  /\ predictions' = predictions \cup {[id |-> h, answer |-> handler[h].answer]}
           /\ handler[h].pc = "committing" /\ handler'[h].answer = handler[h].answer
           /\ predictions' \in SUBSET Row /\ IsFiniteSet(predictions')
<1>1. handler[h] \in Handler
  BY DEF DiagnosisType
<1>2. handler'[h].answer = handler[h].answer
  <2>1. handler'[h] = [handler[h] EXCEPT !.pc = "answered"]
    BY DEF Commit, Answered, DiagnosisType
  <2> QED
    BY <1>1, <2>1 DEF Handler
<1>3. [id |-> h, answer |-> handler[h].answer] \in Row
  BY <1>1 DEF Handler, Row
<1> QED
  BY <1>2, <1>3, FS_AddElement, ZenonT(60) DEF Commit, DiagnosisType

LEMMA DiagnosisTypeKept ==
    ASSUME DiagnosisAssumption, DiagnosisType, [DNext]_dvars
    PROVE  DiagnosisType'
<1>1. ASSUME NEW h \in Handlers, Predict(h)
      PROVE  DiagnosisType'
  <2>1. predictions' = predictions \/ (predictions' \in SUBSET Row /\ IsFiniteSet(predictions'))
    BY <1>1, PredictMoves, CommitStores
  <2>2. UNCHANGED <<reading, incident, corrections, feedback>> /\ handler' \in [Handlers -> Handler]
    BY <1>1, PredictMoves
  <2> QED
    BY <2>1, <2>2 DEF DiagnosisType
<1>2. ASSUME NEW r \in Readings, submit_telemetry(r) \/ TimeOut(r) \/ Refusal(r) \/ Receive(r)
      PROVE  DiagnosisType'
  <2>1. CallerMoves(r)
    BY <1>2, CallersMove
  <2>2. \A q \in Readings : reading'[q].pc = "asking" => reading'[q].attempt \in {1, 2}
    BY <2>1 DEF CallerMoves, DiagnosisType
  <2> QED
    BY <2>1, <2>2 DEF CallerMoves, DiagnosisType
<1>3. ASSUME NEW r \in Readings, NEW f \in NewTypes, change_fault_type(r, f)
      PROVE  DiagnosisType'
  <2>1. CorrectionMoves(r, f)
    BY <1>3, CorrectionsMove
  <2>2. PICK l \in Nat : l = Len(corrections)
    BY DEF DiagnosisType
  <2>3. corrections' \in Seq(Correction) /\ (Len(corrections') = l \/ Len(corrections') = l + 1)
    BY <2>1, <2>2 DEF CorrectionMoves, DiagnosisType
  <2>4. feedback' \subseteq 1..Len(corrections')
    BY <2>1, <2>2, <2>3 DEF CorrectionMoves, DiagnosisType
  <2> QED
    BY <2>1, <2>3, <2>4 DEF CorrectionMoves, DiagnosisType
<1>4. ASSUME NEW k \in 1..Len(corrections), handle_type_changed(k)
      PROVE  DiagnosisType'
  BY <1>4 DEF handle_type_changed, AITables, DiagnosisType
<1>5. CASE Tick \/ UNCHANGED dvars
  BY <1>5 DEF Tick, OtherTables, dvars, DiagnosisType
<1> QED
  BY <1>1, <1>2, <1>3, <1>4, <1>5 DEF DNext

LEMMA DiagnosisTypeStarts == DInit => DiagnosisType
<1> SUFFICES ASSUME DInit
             PROVE  DiagnosisType
  OBVIOUS
<1>1. NoAnswer \in Answer
  BY DEF NoAnswer, Answer, Types, Priorities, Suggestions
<1>2. [pc |-> "none", try |-> 0, answer |-> NoAnswer] \in Handler
  BY <1>1 DEF Handler
<1>3. [pc |-> "none", symptoms |-> {}, attempt |-> 0] \in Reading
  BY DEF Reading
<1>4. <<>> \in Seq(Correction)
  OBVIOUS
<1> QED
  BY <1>2, <1>3, <1>4, IncidentsOpened, FS_EmptySet DEF DInit, DiagnosisType

\* thresholds.py, rule_fallback.py, PredictResponse: every variable of the two services keeps its type,
\* and no probability above 1 is answered or stored.
THEOREM DiagnosisTypeCorrect == DSpec => []DiagnosisType
<1>1. DiagnosisType /\ [DNext]_dvars => DiagnosisType'
  BY DiagnosisTypeKept, DiagnosisAssumption
<1> QED
  BY <1>1, DiagnosisTypeStarts, PTL DEF DSpec

-----------------------------------------------------------------------------
(* The breaker: whom it lets through.                                      *)

LEMMA BreakerHolds == DSpec => []BreakerInv
<1>1. BreakerInv /\ [DNext]_dvars => BreakerInv'
  BY BreakerKept, DiagnosisAssumption
<1>2. DInit => BreakerInv
  BY BreakerStarts, DiagnosisAssumption
<1> QED
  BY <1>1, <1>2, PTL DEF DSpec

\* Only the endpoint itself makes a handler call the LLM, or turn away from it.
LEMMA OnlyTheEndpointDecides ==
    ASSUME DiagnosisAssumption, DiagnosisType, [DNext]_dvars, NEW h \in Handlers,
           handler[h].pc = "arrived", handler'[h].pc \in {"calling", "committing"}
    PROVE  Predict(h)
<1>1. ASSUME NEW r \in Readings, submit_telemetry(r) \/ TimeOut(r) \/ Refusal(r) \/ Receive(r)
      PROVE  FALSE
  BY <1>1, CallersMove DEF CallerMoves
<1>2. ASSUME NEW g \in Handlers, Predict(g), g # h
      PROVE  FALSE
  BY <1>2, PredictMoves
<1>3. CASE \/ \E r \in Readings, f \in NewTypes : change_fault_type(r, f)
           \/ \E k \in 1..Len(corrections) : handle_type_changed(k)
           \/ Tick \/ UNCHANGED dvars
  BY <1>3, ZenonT(60) DEF change_fault_type, handle_type_changed, Tick, dvars
<1> QED
  BY <1>1, <1>2, <1>3 DEF DNext

\* llm_client.py: for any number of diagnoses under way, any threshold and any cooldown.
THEOREM OutagesSpareTheLLM == DSpec => OutageSparesTheLLM
<1>1. ASSUME BreakerInv, DiagnosisType, [DNext]_dvars, NEW h \in Handlers, Admits(h)
      PROVE  Cardinality({n \in DOMAIN outage : outage[n] < Cooldown}) < Threshold
  <2>1. Admitted(h)
    BY <1>1, OnlyTheEndpointDecides, PredictMoves, DiagnosisAssumption DEF Admits
  <2> QED
    BY <1>1, <2>1, RestIsSafe, DiagnosisAssumption DEF Admitted, Recent
<1>2. BreakerInv /\ DiagnosisType /\ [DNext]_dvars
          => [\A h \in Handlers : Admits(h) =>
                Cardinality({n \in DOMAIN outage : outage[n] < Cooldown}) < Threshold]_dvars
  BY <1>1
<1> QED
  BY <1>2, BreakerHolds, DiagnosisTypeCorrect, PTL DEF DSpec, OutageSparesTheLLM

\* llm_client.py, predictor.py: whoever falls back without asking had reason to.
THEOREM HealthyLLMsAreAsked == DSpec => HealthyLLMIsAsked
<1>1. ASSUME BreakerInv, DiagnosisType, [DNext]_dvars, NEW h \in Handlers, Turns(h)
      PROVE  Len(outage) >= Threshold /\ outage[Len(outage)] < Cooldown
  <2>1. Refused(h)
    BY <1>1, OnlyTheEndpointDecides, PredictMoves, DiagnosisAssumption DEF Turns, NotConfigured
  <2>2. breaker.since \in 0 .. Cooldown - 1 /\ Cooldown \in Nat /\ Threshold \in Nat
    BY <2>1, DiagnosisAssumption DEF Refused, Refuses, DiagnosisAssumption
  <2>3. breaker.since # Never
    BY <2>2 DEF Never
  <2> QED
    BY <1>1, <2>2, <2>3 DEF BreakerInv
<1>2. BreakerInv /\ DiagnosisType /\ [DNext]_dvars
          => [\A h \in Handlers : Turns(h) => /\ Len(outage) >= Threshold
                                              /\ outage[Len(outage)] < Cooldown]_dvars
  BY <1>1
<1> QED
  BY <1>2, BreakerHolds, DiagnosisTypeCorrect, PTL DEF DSpec, HealthyLLMIsAsked

-----------------------------------------------------------------------------
(* Predictions and incidents.                                              *)

LEMMA AnswerKept ==
    ASSUME DiagnosisAssumption, DiagnosisType, AnswerInv, [DNext]_dvars
    PROVE  AnswerInv'
<1>1. ASSUME NEW h \in Handlers, Predict(h)
      PROVE  AnswerInv'
  <2>1. ASSUME NEW g \in Handlers, g # h
        PROVE  /\ handler'[g] = handler[g]
               /\ predictions \subseteq predictions'
    BY <1>1, <2>1, PredictMoves, CommitStores
  <2>2. handler'[h].pc \in {"calling", "committing", "failed"} \/ Commit(h)
    BY <1>1, PredictMoves
  <2>3. handler'[h].pc = "committing" => Derived(handler'[h].answer)
    BY <1>1, PredictMoves
  <2>4. Commit(h) => /\ Derived(handler'[h].answer)
                     /\ [id |-> h, answer |-> handler'[h].answer] \in predictions'
    BY CommitStores DEF AnswerInv
  <2>5. ASSUME NEW g \in Handlers
        PROVE  /\ handler'[g].pc \in {"committing", "answered"} => Derived(handler'[g].answer)
               /\ handler'[g].pc = "answered" => [id |-> g, answer |-> handler'[g].answer] \in predictions'
    BY <2>1, <2>2, <2>3, <2>4 DEF AnswerInv
  <2> QED
    BY <2>5 DEF AnswerInv, Derived
<1>2. ASSUME NEW r \in Readings, submit_telemetry(r) \/ TimeOut(r) \/ Refusal(r) \/ Receive(r)
      PROVE  AnswerInv'
  BY <1>2, CallersMove DEF CallerMoves, AnswerInv, Derived
<1>3. CASE \/ \E r \in Readings, f \in NewTypes : change_fault_type(r, f)
           \/ \E k \in 1..Len(corrections) : handle_type_changed(k)
           \/ Tick \/ UNCHANGED dvars
  <2>1. UNCHANGED <<handler, predictions>>
    BY <1>3 DEF change_fault_type, handle_type_changed, Tick, AITables, dvars
  <2> QED
    BY <2>1 DEF AnswerInv, Derived
<1> QED
  BY <1>1, <1>2, <1>3 DEF DNext

LEMMA CorrectionParts ==
    ASSUME DiagnosisType, NEW k \in 1..Len(corrections)
    PROVE  corrections[k].incident \in Readings /\ corrections[k].from \in FaultTypes
<1>1. corrections[k] \in Correction
  BY DEF DiagnosisType
<1> QED
  BY <1>1 DEF Correction

LEMMA BackingStays ==
    ASSUME NEW r \in Readings, NEW f, predictions \subseteq predictions',
           incident'[r].suggestion = incident[r].suggestion,
           incident'[r].priority = incident[r].priority, Backed(r, f)
    PROVE  Backed(r, f)'
BY DEF Backed, Evaluated

LEMMA IncidentUndisturbed ==
    ASSUME NEW r \in Readings, predictions \subseteq predictions', IncidentFits(r),
           reading'[r] = reading[r], incident'[r] = incident[r]
    PROVE  IncidentFits(r)'
<1>1. \A f : Backed(r, f) => Backed(r, f)'
  BY BackingStays
<1> QED
  BY <1>1 DEF IncidentFits

LEMMA CorrectionUndisturbed ==
    ASSUME NEW r \in Readings, NEW f, predictions \subseteq predictions', CorrectionFits(r, f),
           incident'[r] = incident[r], r \in recorrected => r \in recorrected'
    PROVE  CorrectionFits(r, f)'
BY BackingStays DEF CorrectionFits

\* The predict endpoint stores rows and nothing else.
LEMMA RowsKeepLedger ==
    ASSUME DiagnosisType, LedgerInv, predictions \subseteq predictions',
           UNCHANGED <<reading, incident, corrections, recorrected>>
    PROVE  LedgerInv'
<1>1. \A r \in Readings : IncidentFits(r)'
  BY IncidentUndisturbed DEF LedgerInv
<1>2. ASSUME NEW k \in 1..Len(corrections)
      PROVE  CorrectionFits(corrections[k].incident, corrections[k].from)'
  <2>1. PICK r \in Readings, f \in FaultTypes : r = corrections[k].incident /\ f = corrections[k].from
    BY CorrectionParts
  <2>2. CorrectionFits(r, f)'
    BY <2>1, CorrectionUndisturbed DEF LedgerInv
  <2> QED
    BY <2>1, <2>2 DEF CorrectionFits, Backed
<1> QED
  BY <1>1, <1>2 DEF LedgerInv

\* The answer that opens an incident has its row.
LEMMA OpeningFits ==
    ASSUME DiagnosisType, AnswerInv, NEW r \in Readings, NEW h \in Handlers, h[1] = r,
           handler[h].pc = "answered", reading'[r].pc = "settled",
           incident'[r] = Opened(handler[h].answer), predictions' = predictions
    PROVE  IncidentFits(r)'
<1>1. PICK a \in Answer : a = handler[h].answer /\ Derived(a) /\ [id |-> h, answer |-> a] \in predictions
  BY DEF DiagnosisType, Handler, AnswerInv
<1>2. CASE a.suggestion = "IZLE"
  BY <1>1, <1>2, IncidentsOpened DEF Opened, IncidentFits
<1>3. CASE a.suggestion # "IZLE"
  <2>1. /\ incident'[r].suggestion = a.suggestion /\ incident'[r].priority = a.priority
        /\ incident'[r].fault = a.fault
    BY <1>1, <1>3, IncidentsOpened
  <2>2. a.priority = "KRITIK" <=> a.suggestion = "ACIL"
    <3>1. a.p \in Int
      BY DEF Answer
    <3> QED
      BY <1>1, <3>1 DEF Derived, derive_priority, derive_suggestion
  <2>3. Backed(r, a.fault)'
    <3>1. PICK row : row = [id |-> h, answer |-> a]
      OBVIOUS
    <3>2. row \in predictions' /\ row.id[1] = r /\ row.answer = a
      BY <1>1, <3>1
    <3> QED
      BY <1>3, <2>1, <3>2 DEF Backed, Evaluated
  <2>4. a.fault \in Types
    BY DEF Answer
  <2> QED
    BY <2>1, <2>2, <2>3, <2>4 DEF IncidentFits
<1> QED
  BY <1>2, <1>3

LEMMA CallersKeepLedger ==
    ASSUME DiagnosisType, AnswerInv, LedgerInv, NEW r \in Readings, CallerMoves(r)
    PROVE  LedgerInv'
<1>1. /\ reading[r].pc # "settled" /\ incident[r] = NoIncident
      /\ UNCHANGED <<predictions, corrections, recorrected>>
      /\ \A q \in Readings : q # r => reading'[q] = reading[q] /\ incident'[q] = incident[q]
  BY DEF CallerMoves, LedgerInv, IncidentFits
<1>2. IncidentFits(r)'
  <2>1. CASE incident'[r] = incident[r] /\ reading'[r].pc = "asking"
    BY <1>1, <2>1, IncidentsOpened DEF IncidentFits
  <2>2. CASE incident'[r] \in {Unknown, NoIncident} /\ reading'[r].pc = "settled"
    BY <2>2, IncidentsOpened DEF IncidentFits
  <2>3. ASSUME NEW h \in Handlers, h[1] = r, handler[h].pc = "answered",
               reading'[r].pc = "settled", incident'[r] = Opened(handler[h].answer)
        PROVE  IncidentFits(r)'
    BY <1>1, <2>3, OpeningFits
  <2> QED
    BY <2>1, <2>2, <2>3 DEF CallerMoves
<1>3. \A q \in Readings : q # r => IncidentFits(q)'
  BY <1>1, IncidentUndisturbed DEF LedgerInv
<1>4. ASSUME NEW k \in 1..Len(corrections)
      PROVE  CorrectionFits(corrections[k].incident, corrections[k].from)'
  <2>1. PICK q \in Readings, f \in FaultTypes : q = corrections[k].incident /\ f = corrections[k].from
    BY CorrectionParts
  <2>2. CorrectionFits(q, f)
    BY <2>1 DEF LedgerInv
  <2>3. q # r
    BY <1>1, <2>2 DEF CorrectionFits, NoIncident
  <2>4. CorrectionFits(q, f)'
    BY <1>1, <2>2, <2>3, CorrectionUndisturbed
  <2> QED
    BY <1>1, <2>1, <2>4 DEF CorrectionFits, Backed
<1> QED
  BY <1>1, <1>2, <1>3, <1>4 DEF LedgerInv

LEMMA CorrectionsKeepLedger ==
    ASSUME DiagnosisType, LedgerInv, NEW r \in Readings, NEW f \in NewTypes, CorrectionMoves(r, f),
           incident[r].fault # "none"
    PROVE  LedgerInv'
<1>1. PICK l \in Nat : l = Len(corrections)
  BY DEF DiagnosisType
<1>2. /\ UNCHANGED <<predictions, reading>>
      /\ \A q \in Readings : q # r => incident'[q] = incident[q]
      /\ incident'[r].suggestion = incident[r].suggestion
      /\ incident'[r].priority = incident[r].priority
      /\ incident'[r].is_manual_override
  BY DEF CorrectionMoves
<1>3. /\ r \in recorrected => r \in recorrected'
      /\ incident[r].is_manual_override => r \in recorrected'
      /\ \A q : q # r => (q \in recorrected' <=> q \in recorrected)
  BY DEF CorrectionMoves
<1>4. \A g : Backed(r, g) => Backed(r, g)'
  BY <1>2, BackingStays
<1>5. IncidentFits(r)'
  <2>1. IncidentFits(r) /\ reading[r].pc = "settled"
    BY DEF LedgerInv, IncidentFits, NoIncident
  <2> QED
    BY <1>2, <1>4, <2>1 DEF IncidentFits
<1>6. \A q \in Readings : q # r => IncidentFits(q)'
  BY <1>2, IncidentUndisturbed DEF LedgerInv
<1>7. ASSUME NEW q \in Readings, NEW g, CorrectionFits(q, g)
      PROVE  CorrectionFits(q, g)'
  <2>1. CASE q = r
    BY <1>2, <1>3, <1>7, <2>1 DEF CorrectionFits
  <2>2. CASE q # r
    BY <1>2, <1>3, <1>7, <2>2, CorrectionUndisturbed
  <2> QED
    BY <2>1, <2>2
<1>8. ASSUME NEW g, g = incident[r].fault
      PROVE  CorrectionFits(r, g)'
  <2>1. CASE incident[r].is_manual_override
    BY <1>2, <1>3, <2>1 DEF CorrectionFits
  <2>2. CASE ~incident[r].is_manual_override
    <3>1. incident[r].suggestion # "none" => Backed(r, g)
      BY <1>8, <2>2 DEF LedgerInv, IncidentFits
    <3> QED
      BY <1>2, <1>4, <3>1 DEF CorrectionFits
  <2> QED
    BY <2>1, <2>2
<1>9. ASSUME NEW k \in 1..Len(corrections')
      PROVE  CorrectionFits(corrections[k].incident, corrections[k].from)'
  <2>1. CASE k \in 1..l /\ corrections'[k] = corrections[k]
    <3>1. PICK q \in Readings, g \in FaultTypes : q = corrections[k].incident /\ g = corrections[k].from
      BY <1>1, <2>1, CorrectionParts
    <3>2. CorrectionFits(q, g)'
      BY <1>1, <1>7, <2>1, <3>1 DEF LedgerInv
    <3> QED
      BY <2>1, <3>1, <3>2 DEF CorrectionFits, Backed
  <2>2. CASE corrections'[k].incident = r /\ corrections'[k].from = incident[r].fault
    <3>1. PICK g : g = incident[r].fault
      OBVIOUS
    <3>2. CorrectionFits(r, g)'
      BY <1>8, <3>1
    <3> QED
      BY <2>2, <3>1, <3>2 DEF CorrectionFits, Backed
  <2>3. (k \in 1..l /\ corrections'[k] = corrections[k])
        \/ (corrections'[k].incident = r /\ corrections'[k].from = incident[r].fault)
    BY <1>1 DEF CorrectionMoves
  <2> QED
    BY <2>1, <2>2, <2>3
<1> QED
  BY <1>5, <1>6, <1>9 DEF LedgerInv

LEMMA LedgerKept ==
    ASSUME DiagnosisAssumption, DiagnosisType, AnswerInv, LedgerInv, [DNext]_dvars
    PROVE  LedgerInv'
<1>1. ASSUME NEW h \in Handlers, Predict(h)
      PROVE  LedgerInv'
  <2>1. predictions \subseteq predictions'
    BY <1>1, PredictMoves, CommitStores
  <2> QED
    BY <1>1, <2>1, PredictMoves, RowsKeepLedger
<1>2. ASSUME NEW r \in Readings, submit_telemetry(r) \/ TimeOut(r) \/ Refusal(r) \/ Receive(r)
      PROVE  LedgerInv'
  BY <1>2, CallersMove, CallersKeepLedger
<1>3. ASSUME NEW r \in Readings, NEW f \in NewTypes, change_fault_type(r, f)
      PROVE  LedgerInv'
  <2>1. incident[r].fault # "none"
    BY <1>3 DEF change_fault_type
  <2> QED
    BY <1>3, <2>1, CorrectionsMove, CorrectionsKeepLedger
<1>4. CASE (\E k \in 1..Len(corrections) : handle_type_changed(k)) \/ Tick \/ UNCHANGED dvars
  <2>1. UNCHANGED <<predictions, reading, incident, corrections, recorrected>>
    BY <1>4 DEF handle_type_changed, Tick, AITables, OtherTables, dvars
  <2> QED
    BY <2>1, RowsKeepLedger
<1> QED
  BY <1>1, <1>2, <1>3, <1>4 DEF DNext

LEMMA LedgerStarts == DInit => AnswerInv /\ LedgerInv
<1> SUFFICES ASSUME DInit
             PROVE  AnswerInv /\ LedgerInv
  OBVIOUS
<1>1. AnswerInv
  BY DEF DInit, AnswerInv
<1>2. \A r \in Readings : IncidentFits(r)
  BY IncidentsOpened DEF DInit, IncidentFits
<1>3. Len(corrections) = 0 /\ 1..0 = {}
  BY DEF DInit
<1> QED
  BY <1>1, <1>2, <1>3 DEF LedgerInv

\* What is answered was stored, and every correction replaces what was predicted.
LEMMA LedgerHolds == DSpec => [](AnswerInv /\ LedgerInv)
<1>1. DiagnosisType /\ AnswerInv /\ LedgerInv /\ [DNext]_dvars => (AnswerInv /\ LedgerInv)'
  BY AnswerKept, LedgerKept, DiagnosisAssumption
<1> QED
  BY <1>1, LedgerStarts, DiagnosisTypeCorrect, PTL DEF DSpec

\* api/ai.py, ai_client.py, incidents.py: for any number of readings, attempts, timeouts and
\* failures.
THEOREM SuggestionsAreStored == DSpec => []IncidentsHavePredictions
<1>1. LedgerInv => IncidentsHavePredictions
  BY DEF LedgerInv, IncidentFits, Backed, IncidentsHavePredictions
<1> QED
  BY <1>1, LedgerHolds, PTL

-----------------------------------------------------------------------------
(* The accuracy metric.                                                    *)

\* Incidents that have a row each are not more than the rows.
LEMMA NoMoreThanRows ==
    ASSUME NEW I, NEW S, IsFiniteSet(S), \A i \in I : \E row \in S : row.id[1] = i
    PROVE  IsFiniteSet(I) /\ Cardinality(I) <= Cardinality(S)
<1> DEFINE T == {row.id[1] : row \in S}
           f == [row \in S |-> row.id[1]]
<1>1. f \in Surjection(S, T)
  BY DEF Surjection
<1>2. IsFiniteSet(T) /\ Cardinality(T) <= Cardinality(S)
  BY <1>1, FS_Surjection
<1>3. I \in SUBSET T
  OBVIOUS
<1> HIDE DEF T
<1>4. IsFiniteSet(I) /\ Cardinality(I) <= Cardinality(T)
  BY <1>2, <1>3, FS_Subset
<1>5. Cardinality(I) \in Nat /\ Cardinality(T) \in Nat /\ Cardinality(S) \in Nat
  BY <1>2, <1>4, FS_CardinalityType
<1> QED
  BY <1>2, <1>4, <1>5

\* core/accuracy.py: for any number of readings, attempts and corrections.
THEOREM AccuracyIsAlwaysAShare == DSpec => []AccuracyIsAShare
<1>1. ASSUME DiagnosisType, LedgerInv, Predicted(feedback)
      PROVE  /\ compute_overall_accuracy.incorrect <= compute_overall_accuracy.total
             /\ recorrected = {} =>
                   /\ \A f \in DOMAIN compute_accuracy_by_category :
                         compute_accuracy_by_category[f].incorrect <= compute_accuracy_by_category[f].total
                   /\ \A k \in feedback : corrections[k].from \in DOMAIN compute_accuracy_by_category
  <2>1. IsFiniteSet(Evaluated)
    BY <1>1, FS_Subset DEF DiagnosisType, Evaluated
  <2>2. ASSUME NEW k \in feedback
        PROVE  /\ \E row \in Evaluated : row.id[1] = corrections[k].incident
               /\ recorrected = {} =>
                     \E row \in Evaluated : /\ row.id[1] = corrections[k].incident
                                            /\ row.answer.fault = corrections[k].from
    <3>1. k \in 1..Len(corrections)
      BY <1>1 DEF DiagnosisType
    <3>2. PICK r \in Readings, f \in FaultTypes : r = corrections[k].incident /\ f = corrections[k].from
      BY <1>1, <3>1, CorrectionParts
    <3>3. incident[r].suggestion # "none"
      BY <1>1, <3>2 DEF Predicted
    <3>4. IncidentFits(r) /\ CorrectionFits(r, f)
      BY <1>1, <3>1, <3>2 DEF LedgerInv
    <3> QED
      BY <3>2, <3>3, <3>4 DEF IncidentFits, CorrectionFits, Backed
  <2>3. Cardinality({corrections[k].incident : k \in feedback}) <= Cardinality(Evaluated)
    BY <2>1, <2>2, NoMoreThanRows
  <2>4. compute_overall_accuracy.incorrect <= compute_overall_accuracy.total
    BY <2>3 DEF compute_overall_accuracy, Incorrect
  <2>5. ASSUME recorrected = {}, NEW k \in feedback
        PROVE  corrections[k].from \in DOMAIN compute_accuracy_by_category
    BY <2>2, <2>5 DEF compute_accuracy_by_category
  <2>6. ASSUME recorrected = {}, NEW f \in DOMAIN compute_accuracy_by_category
        PROVE  compute_accuracy_by_category[f].incorrect <= compute_accuracy_by_category[f].total
    <3> DEFINE S == {row \in Evaluated : row.answer.fault = f}
               K == {k \in feedback : corrections[k].from = f}
               I == {corrections[k].incident : k \in K}
    <3>1. IsFiniteSet(S)
      BY <2>1, FS_Subset
    <3>2. \A i \in I : \E row \in S : row.id[1] = i
      BY <2>2, <2>6
    <3>3. Cardinality(I) <= Cardinality(S)
      BY <3>1, <3>2, NoMoreThanRows
    <3>4. compute_accuracy_by_category[f] = [total |-> Cardinality(S), incorrect |-> Cardinality(I)]
      BY DEF compute_accuracy_by_category, Incorrect
    <3> QED
      BY <3>3, <3>4
  <2> QED
    BY <2>4, <2>5, <2>6
<1>2. DiagnosisType /\ LedgerInv => AccuracyIsAShare
  BY <1>1 DEF AccuracyIsAShare
<1> QED
  BY <1>2, LedgerHolds, DiagnosisTypeCorrect, PTL

=============================================================================
