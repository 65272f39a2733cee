---------------------------- MODULE MCGamification ----------------------------
(***************************************************************************)
(* Small instances of the gamification service for TLC.                    *)
(***************************************************************************)
EXTENDS Gamification

CONSTANTS u1, u2

MCStreams == {"created", "resolved", "evaluated", "sla_breached", "upserted"}

\* Every badge but the first resolution's is earned at the second opportunity.
MCThresholds == [b \in Badges \ {"ilk_mudahale"} |-> 2]
MCFaultOf == [i \in Incidents |-> "GUC_KESINTISI"]

\* The handlers publish nothing the loop consumes: what StreamConsumer's own specification
\* would publish is not used here.
MCEntries == {}

Scenario(budget0, first, second, outcomes, failing) ==
    [budget |-> budget0, scope |-> [crew |-> <<first, second>>, outcomes |-> outcomes, faults |-> failing]]

Nothing == [incidents |-> 0, evaluations |-> 0, breaches |-> 0, repeats |-> 0, upserts |-> 0,
            days |-> 0]

slow == <<FALSE, FALSE>>
best == <<TRUE, TRUE>>

\* Two resolutions of one technician and the penalty the second incident may bring; a breach, an
\* evaluation and a failure; a resolution announced twice; a second technician at the station
\* before the evaluation; incidents a day or two apart; personnel events; an unassigned breach.
MCScenarios == {
    Scenario([Nothing EXCEPT !.incidents = 2], {u1}, {u1}, {best}, 0),
    Scenario([Nothing EXCEPT !.incidents = 1, !.breaches = 1, !.evaluations = 1], {u1}, {u1}, {slow}, 0),
    Scenario([Nothing EXCEPT !.incidents = 1, !.evaluations = 1], {u1}, {u1}, {slow, best}, 1),
    Scenario([Nothing EXCEPT !.incidents = 1, !.repeats = 1, !.evaluations = 1], {u1}, {u1}, {slow}, 0),
    Scenario([Nothing EXCEPT !.incidents = 2, !.evaluations = 1], {u1}, {u2}, {slow}, 0),
    Scenario([Nothing EXCEPT !.incidents = 2, !.days = 2], {u1}, {u1}, {slow}, 0),
    Scenario([Nothing EXCEPT !.incidents = 1, !.breaches = 1, !.upserts = 1], {NoUser}, {}, {slow}, 1)}

MCRace == {Scenario([Nothing EXCEPT !.incidents = 1, !.breaches = 1], {u1}, {u1}, {slow}, 0)}
=============================================================================
