---------------------------- MODULE MCTeamWorkload ----------------------------
(***************************************************************************)
(* Small instances of the AI service's read models for TLC.                *)
(***************************************************************************)
EXTENDS TeamWorkload, TLC

CONSTANTS near, far

MCStreams == {"upserted", "assigned", "resolved", "type_changed"}

\* The near team is no specialist, the far one is: their scores cross as they fill up.
MCProximity == (near :> 9) @@ (far :> 0)

MCEntries == [inc : Incidents, team : Teams \cup {NoTeam}, by : {"ai", "hand"}]
             \cup [team : Teams, profile : {"active", "inactive"}]

Scenario(known, requests, upserts, edits, failing) ==
    [roster |-> known, requests |-> requests, upserts |-> upserts, edits |-> edits,
     faults |-> failing]

\* Both teams known, two incidents and a fault; one team for two incidents, and a fault; a late
\* personnel event and a correction; personnel events that get lost; the AI service timing out
\* twice; an assignment that overtakes the first personnel events.
MCScenarios == {
    Scenario({near, far}, 2, 0, 0, 1),
    Scenario({near}, 2, 0, 0, 1),
    Scenario({near}, 1, 1, 1, 0),
    Scenario({near}, 0, 2, 0, 1),
    Scenario({near}, 1, 0, 0, 2),
    Scenario({}, 1, 2, 0, 0)}
=============================================================================
