------------------------------ MODULE MCGateway ------------------------------
(***************************************************************************)
(* Small instances of the gateway for TLC.                                 *)
(***************************************************************************)
EXTENDS Gateway, TLC

CONSTANTS ann, sue

\* A stream for one user and the one for the supervisors.
MCStreams == {"badge.earned", "incident.sla_breached"}
MCEntries == Users \cup {Nobody}
MCLimit == ("login" :> 1) @@ ("general" :> 2)

Nothing == [login |-> 0, general |-> 0, sockets |-> 0, hangups |-> 0, events |-> 0, keys |-> 0,
            ticks |-> 0]

\* Logins over three windows; calls over two; calls while the key changes; sockets of one or two
\* users with two events, one that hangs up; a failure.
MCScenarios == {
    [budget |-> [Nothing EXCEPT !.login = 3, !.ticks = 4], faults |-> 1],
    [budget |-> [Nothing EXCEPT !.general = 3, !.ticks = 2], faults |-> 0],
    [budget |-> [Nothing EXCEPT !.general = 2, !.keys = 2], faults |-> 1],
    [budget |-> [Nothing EXCEPT !.sockets = 2, !.events = 2, !.hangups = 1], faults |-> 0],
    [budget |-> [Nothing EXCEPT !.sockets = 1, !.events = 1, !.keys = 1], faults |-> 1]}
=============================================================================
