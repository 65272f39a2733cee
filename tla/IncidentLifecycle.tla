-------------------------- MODULE IncidentLifecycle --------------------------
(***************************************************************************)
(* What the incident service promises about an incident, with every        *)
(* request a single atomic step: its status follows the graph of           *)
(* core/state_machine.py, a team is given once and with ATANDI, resolving  *)
(* settles the SLA verdict, and an evaluation is given once, after         *)
(* closing.  IncidentService implements this as long as two moves of one   *)
(* incident do not overlap.                                                *)
(***************************************************************************)
CONSTANTS Incidents, Teams, NoTeam

VARIABLES
    status,    \* "absent" until the incident is stored
    team,
    verdict,   \* of the SLA: "ACTIVE" is none yet
    evaluated  \* the incidents evaluated so far

vars == <<status, team, verdict, evaluated>>

Graph == {<<"YENI", "ATANDI">>, <<"ATANDI", "YOLDA">>, <<"YOLDA", "MUDAHALE_EDILIYOR">>,
          <<"MUDAHALE_EDILIYOR", "PARCA_BEKLENIYOR">>,
          <<"PARCA_BEKLENIYOR", "MUDAHALE_EDILIYOR">>,
          <<"MUDAHALE_EDILIYOR", "COZULDU">>, <<"COZULDU", "KAPANDI">>}

Init ==
    /\ status = [i \in Incidents |-> "absent"]
    /\ team = [i \in Incidents |-> NoTeam]
    /\ verdict = [i \in Incidents |-> "ACTIVE"]
    /\ evaluated = {}

\* An incident appears unassigned, or already assigned by the AI service.
Open(i) ==
    /\ status[i] = "absent"
    /\ \/ status' = [status EXCEPT ![i] = "YENI"] /\ UNCHANGED team
       \/ /\ status' = [status EXCEPT ![i] = "ATANDI"]
          /\ \E t \in Teams : team' = [team EXCEPT ![i] = t]
    /\ UNCHANGED <<verdict, evaluated>>

Assign(i) ==
    /\ status[i] = "YENI"
    /\ status' = [status EXCEPT ![i] = "ATANDI"]
    /\ \E t \in Teams \cup {NoTeam} : team' = [team EXCEPT ![i] = t]
    /\ UNCHANGED <<verdict, evaluated>>

Advance(i, to) ==
    /\ <<status[i], to>> \in Graph
    /\ to \notin {"ATANDI", "COZULDU"}
    /\ status' = [status EXCEPT ![i] = to]
    /\ UNCHANGED <<team, verdict, evaluated>>

\* A resolution in time is MET; one after a breach keeps it, unless it had not seen it.
Resolve(i) ==
    /\ <<status[i], "COZULDU">> \in Graph
    /\ team[i] # NoTeam
    /\ status' = [status EXCEPT ![i] = "COZULDU"]
    /\ \E v \in {verdict[i], "MET"} \ {"ACTIVE"} : verdict' = [verdict EXCEPT ![i] = v]
    /\ UNCHANGED <<team, evaluated>>

\* One round of the SLA task.
Breach(S) ==
    /\ \A i \in S : status[i] # "absent"
    /\ verdict' = [i \in Incidents |-> IF i \in S THEN "BREACHED" ELSE verdict[i]]
    /\ UNCHANGED <<status, team, evaluated>>

Evaluate(i) ==
    /\ status[i] = "KAPANDI"
    /\ i \notin evaluated
    /\ evaluated' = evaluated \cup {i}
    /\ UNCHANGED <<status, team, verdict>>

Next ==
    \/ \E i \in Incidents : Open(i) \/ Assign(i) \/ Resolve(i) \/ Evaluate(i)
    \/ \E i \in Incidents, e \in Graph : Advance(i, e[2])
    \/ \E S \in SUBSET Incidents : Breach(S)

Spec == Init /\ [][Next]_vars
=============================================================================
