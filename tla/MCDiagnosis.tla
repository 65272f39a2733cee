----------------------------- MODULE MCDiagnosis -----------------------------
(***************************************************************************)
(* Small instances of the diagnosis for TLC.                               *)
(***************************************************************************)
EXTENDS Diagnosis

\* Nothing, the dullest sum, 0.7 twice (with and without the rounding error), 0.85, and all.
MCTelemetry == {{}, {"hot", "outage"}, {"hot", "weak", "recurring"}, {"lossy", "weak", "outage"},
                {"recurring"}, Symptoms}
MCLLMAnswers == {[p |-> 300, fault |-> "BELIRSIZ"], [p |-> 850, fault |-> "ISINMA"],
                 [p |-> 900, fault |-> "YAZILIM"], [p |-> 1200, fault |-> "ISINMA"]}
MCMLAnswers == {[p |-> 390, fault |-> "DONANIM"], [p |-> 400, fault |-> "ISINMA"]}

Nothing == [readings |-> 0, malformed |-> 0, ticks |-> 0, faults |-> 0, timeouts |-> 0,
            corrections |-> 0]

\* Four readings in an outage that lasts or does not; readings that two answers or the model
\* diagnose, late or not at all; readings the rules diagnose, which are corrected.
MCScenarios == {
    [config |-> [client |-> TRUE, bundle |-> FALSE, telemetry |-> {{"recurring"}},
                 answers |-> {[p |-> 850, fault |-> "ISINMA"]}],
     budget |-> [Nothing EXCEPT !.readings = 4, !.ticks = 2]],
    [config |-> [client |-> TRUE, bundle |-> TRUE, telemetry |-> {{}}, answers |-> MCLLMAnswers],
     budget |-> [Nothing EXCEPT !.readings = 1, !.malformed = 1, !.faults = 1, !.timeouts = 2,
                                !.corrections = 1]],
    [config |-> [client |-> FALSE, bundle |-> FALSE, telemetry |-> MCTelemetry, answers |-> {}],
     budget |-> [Nothing EXCEPT !.readings = 2, !.timeouts = 2, !.corrections = 2]]}
=============================================================================
