------------------------------ MODULE AtMostOnce ------------------------------
(***************************************************************************)
(* What a consumer group of this system promises about one stream each:    *)
(* entries take effect in the order they were published, none takes effect *)
(* twice, and some may never take effect at all.                           *)
(***************************************************************************)
EXTENDS Naturals

CONSTANT Streams

VARIABLES
    published,  \* per stream, how many entries were published
    latest,     \* per stream, the entry that took effect last, 0 for none
    effects     \* per stream, how many entries took effect

vars == <<published, latest, effects>>

Init ==
    /\ published = [s \in Streams |-> 0]
    /\ latest = [s \in Streams |-> 0]
    /\ effects = [s \in Streams |-> 0]

Publish(s) ==
    /\ published' = [published EXCEPT ![s] = @ + 1]
    /\ UNCHANGED <<latest, effects>>

\* Entry k takes effect; those it skips never will.
TakeEffect(s, k) ==
    /\ latest[s] < k
    /\ latest' = [latest EXCEPT ![s] = k]
    /\ effects' = [effects EXCEPT ![s] = @ + 1]
    /\ UNCHANGED published

Next == \E s \in Streams : Publish(s) \/ \E k \in 1..published[s] : TakeEffect(s, k)

Spec == Init /\ [][Next]_vars
=============================================================================
