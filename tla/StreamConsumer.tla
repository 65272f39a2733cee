---------------------------- MODULE StreamConsumer ----------------------------
(***************************************************************************)
(* The loop every service runs to consume the Redis streams it subscribes  *)
(* to: one asyncio task per stream, which reads entries with XREADGROUP    *)
(* ">", hands each to a handler with a database session of its own, logs   *)
(* what the handler raises, and acknowledges the entry either way.         *)
(*                                                                         *)
(* The consumer group lives in Redis, the batch in the memory of the task. *)
(* XACK stands outside the handler's try: when it raises, the task ends,   *)
(* and only a restart of the service creates it anew.  ">" asks for        *)
(* entries never delivered, so what was delivered to a task that ended is  *)
(* not read again.                                                         *)
(***************************************************************************)
EXTENDS Naturals, Sequences

CONSTANTS
    Streams,     \* the streams the service has a handler for
    Entries,     \* what may be published to them
    BatchSize    \* COUNT of XREADGROUP

ASSUME ConsumerAssumption == BatchSize \in Nat \ {0}

VARIABLES
    streams,    \* per stream, the entries published
    delivered,  \* per stream, the last-delivered-id of the group
    next,       \* per stream, the entry its task handles next
    phase,      \* per stream, where its task is
    latest,     \* history: the last entry whose handler completed
    effects,    \* history: how many entries had their handler complete
    faults      \* bound: failed calls and restarts still to come

consumer == <<delivered, next, phase, latest, effects>>
streamVars == <<streams, consumer, faults>>

\* "loop": between two entries of the batch, or reading.
Phases == {"loop", "handling", "acking", "dead"}

ConsumerInit ==
    /\ streams = [s \in Streams |-> <<>>]
    /\ delivered = [s \in Streams |-> 0]
    /\ next = [s \in Streams |-> 1]
    /\ phase = [s \in Streams |-> "loop"]
    /\ latest = [s \in Streams |-> 0]
    /\ effects = [s \in Streams |-> 0]

Smaller(a, b) == IF a < b THEN a ELSE b
Current(s) == streams[s][next[s]]

Fail == faults > 0 /\ faults' = faults - 1

Published(s, event) == streams' = [streams EXCEPT ![s] = Append(@, event)]

-----------------------------------------------------------------------------

\* XREADGROUP: the group moves on as soon as Redis has answered.
Deliverable(s) ==
    /\ phase[s] = "loop"
    /\ next[s] = delivered[s] + 1
    /\ delivered[s] < Len(streams[s])
Deliver(s) == delivered' = [delivered EXCEPT ![s] = Smaller(@ + BatchSize, Len(streams[s]))]

Read(s) ==
    /\ Deliverable(s)
    /\ Deliver(s)
    /\ UNCHANGED <<streams, next, phase, latest, effects, faults>>

\* The answer is lost: the loop logs, sleeps and asks for ">" again.
ReadFails(s) ==
    /\ Deliverable(s)
    /\ Fail
    /\ Deliver(s)
    /\ next' = [next EXCEPT ![s] = delivered'[s] + 1]
    /\ UNCHANGED <<streams, phase, latest, effects>>

\* The handler of the next entry of the batch is called.
Start(s) ==
    /\ phase[s] = "loop"
    /\ next[s] <= delivered[s]
    /\ phase' = [phase EXCEPT ![s] = "handling"]
    /\ UNCHANGED <<streams, delivered, next, latest, effects, faults>>

\* The handler returned.
Complete(s) ==
    /\ phase[s] = "handling"
    /\ phase' = [phase EXCEPT ![s] = "acking"]
    /\ latest' = [latest EXCEPT ![s] = next[s]]
    /\ effects' = [effects EXCEPT ![s] = @ + 1]
    /\ UNCHANGED <<delivered, next>>

\* Mutant: an entry whose handler raises is tried again.
RaiseAgain(s) ==
    /\ phase[s] = "handling"
    /\ phase' = [phase EXCEPT ![s] = "loop"]
    /\ UNCHANGED <<streams, delivered, next, latest, effects>>

\* The handler raised: its session is rolled back, the exception logged.
Raise(s) ==
    /\ phase[s] = "handling"
    /\ phase' = [phase EXCEPT ![s] = "acking"]
    /\ UNCHANGED <<streams, delivered, next, latest, effects>>

Ack(s) ==
    /\ phase[s] = "acking"
    /\ phase' = [phase EXCEPT ![s] = "loop"]
    /\ next' = [next EXCEPT ![s] = @ + 1]
    /\ UNCHANGED <<streams, delivered, latest, effects, faults>>

\* XACK raises outside the try: the rest of the batch stays pending, the task is gone.
AckFails(s) ==
    /\ phase[s] = "acking"
    /\ Fail
    /\ phase' = [phase EXCEPT ![s] = "dead"]
    /\ UNCHANGED <<streams, delivered, next, latest, effects>>

\* Mutant: the entries delivered and not acknowledged are read again first.
RestartFromPending ==
    /\ Fail
    /\ phase' = [s \in Streams |-> "loop"]
    /\ UNCHANGED <<streams, delivered, next, latest, effects>>

\* The service restarts: BUSYGROUP keeps the groups, the batches are forgotten.
Restart ==
    /\ Fail
    /\ phase' = [s \in Streams |-> "loop"]
    /\ next' = [s \in Streams |-> delivered[s] + 1]
    /\ UNCHANGED <<streams, delivered, latest, effects>>

Loop(s) == Read(s) \/ ReadFails(s) \/ Ack(s) \/ AckFails(s)

-----------------------------------------------------------------------------
(* The loop on its own: publishers and handlers do whatever they like.     *)

ConsumerNext ==
    \/ \E s \in Streams :
        \/ Loop(s)
        \/ Start(s)
        \/ Complete(s) /\ UNCHANGED <<streams, faults>>
        \/ Raise(s) /\ (Fail \/ UNCHANGED faults)
        \/ (\E e \in Entries : Published(s, e)) /\ UNCHANGED <<consumer, faults>>
    \/ Restart

ConsumerSpec == ConsumerInit /\ faults \in Nat /\ [][ConsumerNext]_streamVars

-----------------------------------------------------------------------------
(* Property.                                                               *)

Delivery == INSTANCE AtMostOnce WITH published <- [s \in Streams |-> Len(streams[s])]

\* consumers/runner.py: whatever fails and restarts, an event takes effect at most once and in
\* the order it was published; it may also never do so.
AtMostOnceInOrder == Delivery!Spec
=============================================================================
