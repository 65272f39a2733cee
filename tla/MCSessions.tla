------------------------------ MODULE MCSessions ------------------------------
(***************************************************************************)
(* Small instances of the sessions for TLC.                                *)
(***************************************************************************)
EXTENDS Sessions

CONSTANTS t1, t2

Nothing == [calls |-> 0, expiries |-> 0, logins |-> 0, logouts |-> 0, reloads |-> 0,
            changes |-> 0, faults |-> 0]

\* One tab with two calls at once, pairs that expire, and a lost answer; reloads; a logout and a
\* login; two tabs of one browser; logins, right and wrong; a user deactivated or away for a week.
MCScenarios == {
    [open |-> {t1}, budget |-> [Nothing EXCEPT !.calls = 3, !.expiries = 2, !.faults = 1]],
    [open |-> {t1}, budget |-> [Nothing EXCEPT !.calls = 2, !.expiries = 2, !.reloads = 2, !.faults = 1]],
    [open |-> {t1}, budget |-> [Nothing EXCEPT !.calls = 2, !.expiries = 1, !.logouts = 1, !.logins = 1]],
    [open |-> {t1, t2}, budget |-> [Nothing EXCEPT !.calls = 2, !.expiries = 2, !.logouts = 1]],
    [open |-> {}, budget |-> [Nothing EXCEPT !.logins = 4, !.changes = 1]],
    [open |-> {t1}, budget |-> [Nothing EXCEPT !.calls = 2, !.expiries = 2, !.changes = 2]]}
=============================================================================
