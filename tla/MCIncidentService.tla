------------------------- MODULE MCIncidentService -------------------------
(***************************************************************************)
(* Small instances of the incident service for TLC: who calls, and what    *)
(* the callers ask for.                                                    *)
(***************************************************************************)
EXTENDS IncidentService, TLC

CONSTANTS noc, supervisor, customer

MCUsers == Teams \cup {noc, supervisor, customer, SystemActor}

\* ADMIN behaves as SUPERVIZOR in every handler but change_fault_type, where it is refused.
MCCallers ==
    {[role |-> "SAHA_TEKNISYENI", id |-> t] : t \in Teams}
    \cup {[role |-> "NOC_OPERATORU", id |-> noc], [role |-> "SUPERVIZOR", id |-> supervisor],
          [role |-> "MUSTERI", id |-> customer], [role |-> "SYSTEM", id |-> SystemActor]}

\* Workers are interchangeable, and so are teams: no action tells two of them apart.
Symmetry == Permutations(Workers) \cup Permutations(Teams)

Requests(quotas) == [op \in Operations |-> IF op \in DOMAIN quotas THEN quotas[op] ELSE 0]

\* An incident the AI service assigned, up to its evaluation by two operators; assigned by
\* two more supervisors while it is worked on; corrected while it is assigned and worked on;
\* resolved while messages and notes are written.
RacingScenarios == {
    Requests("telemetry" :> 1 @@ "status" :> 5 @@ "evaluate" :> 2),
    Requests("telemetry" :> 1 @@ "assign" :> 2 @@ "status" :> 3),
    Requests("report" :> 1 @@ "assign" :> 1 @@ "status" :> 1 @@ "faultType" :> 2),
    Requests("telemetry" :> 1 @@ "status" :> 3 @@ "message" :> 1 @@ "note" :> 1)}

\* The whole graph, the wait for a part included; a customer's report that is assigned, moved
\* and corrected at once; the operations that depend on the team.
OrderlyScenarios == {
    Requests("telemetry" :> 1 @@ "status" :> 6 @@ "evaluate" :> 1),
    Requests("report" :> 1 @@ "assign" :> 2 @@ "status" :> 1 @@ "faultType" :> 1),
    Requests("report" :> 1 @@ "assign" :> 1 @@ "status" :> 2 @@ "message" :> 1 @@ "note" :> 1)}

\* For the counterexamples.
MovingScenarios == {
    Requests("telemetry" :> 2 @@ "report" :> 1 @@ "assign" :> 2 @@ "status" :> 6)}
=============================================================================
