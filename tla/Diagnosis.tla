------------------------------- MODULE Diagnosis -------------------------------
(***************************************************************************)
(* From a telemetry reading to an incident, and to the accuracy of what    *)
(* was predicted: the incident service asks the AI service twice at most   *)
(* (core/ai_client.py), the AI service asks the LLM behind a circuit       *)
(* breaker (core/llm_client.py) and falls back on a trained model or on    *)
(* rules (core/predictor.py, ml_fallback.py, rule_fallback.py), applies    *)
(* the thresholds (thresholds.py), stores the prediction (api/ai.py), and  *)
(* compares the predictions with the types the staff corrected             *)
(* (consumers/handlers.py, core/accuracy.py).                              *)
(*                                                                         *)
(* A handler of the AI service runs on when its caller has given up: the   *)
(* caller waits 2 s, the LLM may take 4 s twice.  All handlers share one   *)
(* breaker.  Probabilities are in thousandths.                             *)
(***************************************************************************)
EXTENDS Integers, Sequences, FiniteSets

CONSTANTS
    Readings,     \* numbered in the order they are submitted
    Telemetry,    \* the readings' data, as sets of Symptoms
    LLMAnswers,   \* what a tool_use block may hold
    MLAnswers,    \* what the trained model may say
    Threshold,    \* llm_circuit_breaker_threshold
    Cooldown,     \* llm_circuit_breaker_cooldown_seconds, in ticks
    NewTypes,     \* the types an incident may be corrected to
    Scenarios     \* bounds: the configuration, what is read and answered, and how often

Symptoms == {"hot", "lossy", "weak", "outage", "recurring"}
FaultTypes == {"DONANIM", "GUC_KESINTISI", "BAGLANTI", "YAZILIM", "ISINMA", "BELIRSIZ"}

ASSUME DiagnosisAssumption ==
    /\ Readings \subseteq Nat
    /\ Telemetry \subseteq SUBSET Symptoms
    /\ LLMAnswers \subseteq [p : Nat, fault : FaultTypes]
    /\ MLAnswers \subseteq [p : 0..1000, fault : FaultTypes \ {"BELIRSIZ"}]
    /\ NewTypes \subseteq FaultTypes
    /\ Threshold \in Nat \ {0} /\ Cooldown \in Nat \ {0}

VARIABLES
    config,       \* whether there is an API key, and a model file; bounds of the data
    breaker,      \* _consecutive_failures, and the time since _opened_at
    reading,      \* the telemetry endpoint of the incident service, per reading
    handler,      \* the predict endpoint of the AI service, per reading and attempt
    predictions,  \* the predictions table
    incident,     \* the incidents, by their reading
    corrections,  \* the incident.type_changed events
    taken,        \* how far the consumer of that stream is
    feedback,     \* accuracy_feedback, as positions in corrections
    budget,       \* bounds
    outage,       \* history: the ages of the diagnoses that failed in a row, up to Cooldown
    recorrected   \* history: the incidents corrected more than once

dvars == <<config, breaker, reading, handler, predictions, incident, corrections, taken,
           feedback, budget, outage, recorrected>>

Handlers == Readings \X {1, 2}
Never == -1
Closed == [failures |-> 0, since |-> Never]
NoIncident == [fault |-> "none", priority |-> "none", suggestion |-> "none", is_manual_override |-> FALSE]
NoAnswer == [p |-> 0, fault |-> "none", priority |-> "none", suggestion |-> "none", method |-> "none"]

DInit ==
    /\ breaker = Closed
    /\ reading = [r \in Readings |-> [pc |-> "none", symptoms |-> {}, attempt |-> 0]]
    /\ handler = [h \in Handlers |-> [pc |-> "none", try |-> 0, answer |-> NoAnswer]]
    /\ predictions = {}
    /\ incident = [r \in Readings |-> NoIncident]
    /\ corrections = <<>>
    /\ taken = 0
    /\ feedback = {}
    /\ \E c \in Scenarios : config = c.config /\ budget = c.budget
    /\ outage = <<>>
    /\ recorrected = {}

Spend(what) == budget[what] > 0 /\ budget' = [budget EXCEPT ![what] = @ - 1]

-----------------------------------------------------------------------------
(* thresholds.py, rule_fallback.py: pure functions.                        *)

derive_suggestion(p) == IF p < 400 THEN "IZLE" ELSE IF p <= 850 THEN "VAKA_AC" ELSE "ACIL"

derive_priority(p) ==
    IF p > 850 THEN "KRITIK" ELSE IF p > 700 THEN "YUKSEK" ELSE IF p > 400 THEN "ORTA" ELSE "DUSUK"

Weight == [hot |-> 350, lossy |-> 300, weak |-> 200, outage |-> 350, recurring |-> 150]
Points(t, Signs) == LET w(s) == IF s \in t \cap Signs THEN Weight[s] ELSE 0 IN
    w("hot") + w("lossy") + w("weak") + w("outage") + w("recurring")

\* 0.2 + 0.35 + 0.15, added in that order or as 0.35 + 0.2 + 0.15, is 0.7000000000000001.
AboveByRounding(t) == {"weak", "recurring"} \subseteq t /\ Points(t, Symptoms) = 700

Contribution(t) ==
    <<[fault |-> "ISINMA", w |-> Points(t, {"hot"})],
      [fault |-> "BAGLANTI", w |-> Points(t, {"lossy", "weak"})],
      [fault |-> "GUC_KESINTISI", w |-> Points(t, {"outage"})],
      [fault |-> "DONANIM", w |-> Points(t, {"recurring"})]>>

\* max() takes the first of the types that contribute most.
Dominant(t) ==
    LET n == CHOOSE n \in 1..4 : \A m \in 1..4 :
               IF m < n THEN Contribution(t)[m].w < Contribution(t)[n].w
                        ELSE Contribution(t)[m].w <= Contribution(t)[n].w
    IN  Contribution(t)[n].fault

rule_based_predict(t) ==
    LET sum == Points(t, Symptoms) + (IF AboveByRounding(t) THEN 1 ELSE 0) IN
    IF t = {} THEN [p |-> 0, fault |-> "BELIRSIZ"]
    ELSE [p |-> IF sum < 990 THEN sum ELSE 990, fault |-> Dominant(t)]

\* The answers ml_predict may give.
ml_predict(t) == IF config.bundle THEN MLAnswers ELSE {rule_based_predict(t)}

-----------------------------------------------------------------------------
(* The circuit breaker.                                                    *)

Refuses == breaker.since \in 0 .. Cooldown - 1

\* is_open: a breaker that was open long enough starts anew.
Rested == IF breaker.since = Cooldown THEN Closed ELSE breaker

\* Mutant: a success leaves the count as it is.
record_success_uncounted(b) == [b EXCEPT !.since = Never]

record_success(b) == Closed

\* Mutant: one failure more is tolerated.
record_failure_late(b) ==
    LET n == b.failures + 1 IN
    [failures |-> n, since |-> IF n > Threshold THEN 0 ELSE b.since]

record_failure(b) ==
    LET n == b.failures + 1 IN
    [failures |-> n, since |-> IF n >= Threshold THEN 0 ELSE b.since]

-----------------------------------------------------------------------------
(* POST /ai/predict.                                                       *)

Symptomatic(h) == reading[h[1]].symptoms
OtherTables == UNCHANGED <<config, reading, incident, corrections, taken, feedback, recorrected>>

\* PredictResponse refuses a probability outside [0, 1].
Respond(h, a, method) ==
    handler' = [handler EXCEPT ![h] =
        IF a.p <= 1000
        THEN [pc |-> "committing", try |-> 0,
              answer |-> [p |-> a.p, fault |-> a.fault, priority |-> derive_priority(a.p),
                          suggestion |-> derive_suggestion(a.p), method |-> method]]
        ELSE [@ EXCEPT !.pc = "failed"]]

\* The rules answer under the name of the model, too.
FallBack(h) == \E a \in ml_predict(Symptomatic(h)) : Respond(h, a, "ML_MODEL")

NotConfigured(h) ==
    /\ handler[h].pc = "arrived"
    /\ ~config.client
    /\ FallBack(h)
    /\ OtherTables /\ UNCHANGED <<breaker, predictions, budget, outage>>

Refused(h) ==
    /\ handler[h].pc = "arrived"
    /\ config.client /\ Refuses
    /\ FallBack(h)
    /\ OtherTables /\ UNCHANGED <<breaker, predictions, budget, outage>>

Admitted(h) ==
    /\ handler[h].pc = "arrived"
    /\ config.client /\ ~Refuses
    /\ breaker' = Rested
    /\ handler' = [handler EXCEPT ![h].pc = "calling", ![h].try = 1]
    /\ OtherTables /\ UNCHANGED <<predictions, budget, outage>>

\* A well-formed tool_use block.
Diagnosed(h) ==
    /\ handler[h].pc = "calling"
    /\ breaker' = record_success(breaker)
    /\ outage' = <<>>
    /\ \E a \in LLMAnswers \cap config.answers : Respond(h, a, "LLM")
    /\ OtherTables /\ UNCHANGED <<predictions, budget>>

\* No tool_use block: neither a success nor a failure, and no second try.
NoToolUse(h) ==
    /\ handler[h].pc = "calling"
    /\ FallBack(h)
    /\ OtherTables /\ UNCHANGED <<breaker, predictions, budget, outage>>

\* The second try does not ask the breaker again; when it fails too, one failure is counted.
NotDiagnosed(h, b, before) ==
    IF handler[h].try = 1
    THEN /\ handler' = [handler EXCEPT ![h].try = 2]
         /\ breaker' = b
         /\ outage' = before
    ELSE /\ FallBack(h)
         /\ breaker' = record_failure(b)
         /\ outage' = Append(before, 0)

\* A timeout, or an error of the API.
CallFails(h) ==
    /\ handler[h].pc = "calling"
    /\ NotDiagnosed(h, breaker, outage)
    /\ OtherTables /\ UNCHANGED <<predictions, budget>>

\* The block lacks a field, or names no fault type: the success is recorded before it is read.
Malformed(h) ==
    /\ handler[h].pc = "calling"
    /\ Spend("malformed")
    /\ NotDiagnosed(h, record_success(breaker), <<>>)
    /\ OtherTables /\ UNCHANGED predictions

Answered(h) == handler' = [handler EXCEPT ![h].pc = "answered"]

\* Mutant: the row is left to be written after the answer.
CommitLater(h) ==
    /\ handler[h].pc = "committing"
    /\ Answered(h)
    /\ OtherTables /\ UNCHANGED <<breaker, predictions, budget, outage>>

\* The prediction is stored before it is answered.
Commit(h) ==
    /\ handler[h].pc = "committing"
    /\ predictions' = predictions \cup {[id |-> h, answer |-> handler[h].answer]}
    /\ Answered(h)
    /\ OtherTables /\ UNCHANGED <<breaker, budget, outage>>

\* The service is not reached, or its database fails.
Broken(h) ==
    /\ handler[h].pc \in {"arrived", "committing"}
    /\ Spend("faults")
    /\ handler' = [handler EXCEPT ![h].pc = "failed"]
    /\ OtherTables /\ UNCHANGED <<breaker, predictions, outage>>

Tick ==
    /\ Spend("ticks")
    /\ breaker' = [breaker EXCEPT !.since = IF @ \in 0 .. Cooldown - 1 THEN @ + 1 ELSE @]
    /\ outage' = [n \in DOMAIN outage |-> IF outage[n] < Cooldown THEN outage[n] + 1 ELSE Cooldown]
    /\ OtherTables /\ UNCHANGED <<handler, predictions>>

-----------------------------------------------------------------------------
(* The incident service: POST /telemetry, and a type that is corrected.    *)

Current(r) == <<r, reading[r].attempt>>
AITables == UNCHANGED <<config, breaker, predictions, outage>>
Corrected == UNCHANGED <<corrections, taken, feedback, recorrected>>

Ask(r, n, s) ==
    /\ reading' = [reading EXCEPT ![r] = [pc |-> "asking", symptoms |-> s, attempt |-> n]]
    /\ handler' = [handler EXCEPT ![<<r, n>>].pc = "arrived"]

submit_telemetry(r) ==
    /\ \A q \in Readings : q < r <=> reading[q].pc # "none"
    /\ Spend("readings")
    /\ \E s \in Telemetry \cap config.telemetry : Ask(r, 1, s)
    /\ AITables /\ Corrected /\ UNCHANGED incident

Settle(r, as) ==
    /\ reading' = [reading EXCEPT ![r].pc = "settled"]
    /\ incident' = [incident EXCEPT ![r] = as]

\* The second answer is missing, too: an incident of unknown type is opened.
GiveUp(r) ==
    IF reading[r].attempt = 1
    THEN Ask(r, 2, reading[r].symptoms) /\ UNCHANGED incident
    ELSE /\ Settle(r, [NoIncident EXCEPT !.fault = "BELIRSIZ", !.priority = "ORTA"])
         /\ UNCHANGED handler

\* TIMEOUT_SECONDS: the handler is not told.
TimeOut(r) ==
    /\ reading[r].pc = "asking"
    /\ handler[Current(r)].pc # "failed"
    /\ Spend("timeouts")
    /\ GiveUp(r)
    /\ AITables /\ Corrected

\* An HTTPStatusError or ConnectError; any other error of httpx, of a connection that breaks off,
\* nothing catches: the reading is answered 500 and no incident opened.
Refusal(r) ==
    /\ reading[r].pc = "asking"
    /\ handler[Current(r)].pc = "failed"
    /\ GiveUp(r) \/ (Settle(r, NoIncident) /\ UNCHANGED handler)
    /\ AITables /\ Corrected /\ UNCHANGED budget

\* Below the lower threshold a reading is only watched.
Receive(r) ==
    LET a == handler[Current(r)].answer IN
    /\ reading[r].pc = "asking"
    /\ handler[Current(r)].pc = "answered"
    /\ Settle(r, IF a.suggestion = "IZLE" THEN NoIncident
                 ELSE [NoIncident EXCEPT !.fault = a.fault, !.priority = a.priority,
                                         !.suggestion = a.suggestion])
    /\ AITables /\ Corrected /\ UNCHANGED <<handler, budget>>

\* The event is published after the commit, and may be lost.
change_fault_type(r, f) ==
    /\ incident[r].fault \notin {"none", f}
    /\ Spend("corrections")
    /\ incident' = [incident EXCEPT ![r].fault = f, ![r].is_manual_override = TRUE]
    /\ recorrected' = IF incident[r].is_manual_override THEN recorrected \cup {r} ELSE recorrected
    /\ \/ corrections' = Append(corrections, [incident |-> r, from |-> incident[r].fault])
       \/ UNCHANGED corrections
    /\ AITables /\ UNCHANGED <<reading, handler, taken, feedback>>

\* In order and once, if at all (AtMostOnce): an event that is skipped is lost.
handle_type_changed(k) ==
    /\ k \in taken + 1 .. Len(corrections)
    /\ taken' = k
    /\ feedback' = feedback \cup {k}
    /\ AITables /\ UNCHANGED <<reading, handler, incident, corrections, budget, recorrected>>

-----------------------------------------------------------------------------
(* core/accuracy.py.                                                       *)

\* Mutant: rows are counted, not incidents.
Incorrect_rows(rows) == Cardinality(rows)

Incorrect(rows) == Cardinality({corrections[k].incident : k \in rows})

Evaluated == {row \in predictions : row.answer.suggestion # "IZLE"}

compute_overall_accuracy == [total |-> Cardinality(Evaluated), incorrect |-> Incorrect(feedback)]

\* Only the categories that were predicted are listed.
compute_accuracy_by_category ==
    [f \in {row.answer.fault : row \in Evaluated} |->
        [total |-> Cardinality({row \in Evaluated : row.answer.fault = f}),
         incorrect |-> Incorrect({k \in feedback : corrections[k].from = f})]]

-----------------------------------------------------------------------------

Predict(h) ==
    \/ NotConfigured(h) \/ Refused(h) \/ Admitted(h)
    \/ Diagnosed(h) \/ NoToolUse(h) \/ CallFails(h) \/ Malformed(h)
    \/ Commit(h) \/ Broken(h)

DNext ==
    \/ \E h \in Handlers : Predict(h)
    \/ \E r \in Readings : submit_telemetry(r) \/ TimeOut(r) \/ Refusal(r) \/ Receive(r)
    \/ \E r \in Readings, f \in NewTypes : change_fault_type(r, f)
    \/ \E k \in 1..Len(corrections) : handle_type_changed(k)
    \/ Tick

DSpec == DInit /\ [][DNext]_dvars

-----------------------------------------------------------------------------
(* Properties.                                                             *)

Admits(h) == handler[h].pc = "arrived" /\ handler'[h].pc = "calling"
Turns(h) == config.client /\ handler[h].pc = "arrived" /\ handler'[h].pc = "committing"

\* CircuitBreaker, diagnose: once as many diagnoses as the threshold says have failed within the
\* cooldown, with no answer that holds a block between them, no further one calls the LLM,
\* whatever diagnoses were under way when the breaker opened or was reset.
OutageSparesTheLLM ==
    [][\A h \in Handlers : Admits(h) => Cardinality({n \in DOMAIN outage : outage[n] < Cooldown}) < Threshold]_dvars

\* CircuitBreaker: a diagnosis is refused only after that many have failed in a row, the last of
\* them within the cooldown: one answer that comes in meanwhile, late as it may be, lets the
\* next diagnosis through.
HealthyLLMIsAsked ==
    [][\A h \in Handlers : Turns(h) => /\ Len(outage) >= Threshold
                                       /\ outage[Len(outage)] < Cooldown]_dvars

\* predict_endpoint, submit_telemetry: an incident that carries a suggestion of the AI service
\* has a row in predictions with that suggestion and its priority, whichever attempts timed out
\* or failed; and it is critical exactly when the suggestion was urgent.
IncidentsHavePredictions ==
    \A r \in Readings : incident[r].suggestion # "none" =>
        /\ \E row \in Evaluated : /\ row.id[1] = r
                                  /\ row.answer.suggestion = incident[r].suggestion
                                  /\ row.answer.priority = incident[r].priority
        /\ incident[r].priority = "KRITIK" <=> incident[r].suggestion = "ACIL"

Predicted(rows) == \A k \in rows : incident[corrections[k].incident].suggestion # "none"

\* accuracy.py: the two tables share no key, yet as long as only incidents the AI service
\* predicted are corrected the share of incorrect predictions is one, however often an incident
\* is corrected and however many attempts were stored; and if each is corrected once, that holds
\* of every category, and no correction falls into a category that is not listed.
AccuracyIsAShare ==
    Predicted(feedback) =>
        /\ compute_overall_accuracy.incorrect <= compute_overall_accuracy.total
        /\ recorrected = {} =>
              /\ \A f \in DOMAIN compute_accuracy_by_category :
                    compute_accuracy_by_category[f].incorrect <= compute_accuracy_by_category[f].total
              /\ \A k \in feedback : corrections[k].from \in DOMAIN compute_accuracy_by_category
=============================================================================
