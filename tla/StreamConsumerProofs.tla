------------------------- MODULE StreamConsumerProofs -------------------------
(***************************************************************************)
(* Theorems about the consumer loop: whatever the handlers and publishers  *)
(* do, whatever fails and however often the service restarts, entries take *)
(* effect at most once and in the order they were published.               *)
(*                                                                         *)
(* The lemmas speak of one step of the loop each, so that they serve every *)
(* module that puts handlers into the loop.                                *)
(***************************************************************************)
EXTENDS StreamConsumer, TLAPS

\* Where the task of s stands relative to the group: it is inside the batch or just past it,
\* and what took effect lies behind the entry it has still to handle.
TaskInBatch(s) ==
    /\ next[s] <= delivered[s] + 1
    /\ delivered[s] <= Len(streams[s])
    /\ latest[s] <= delivered[s] /\ latest[s] <= next[s]
    /\ phase[s] \in {"loop", "handling"} => latest[s] < next[s]
    /\ phase[s] \in {"handling", "acking", "dead"} => next[s] <= delivered[s]
    /\ next[s] >= 1

\* The invariant of the loop over entries of E.
LoopInv(E) ==
    /\ streams \in [Streams -> Seq(E)]
    /\ delivered \in [Streams -> Nat]
    /\ next \in [Streams -> Nat]
    /\ latest \in [Streams -> Nat]
    /\ effects \in [Streams -> Nat]
    /\ phase \in [Streams -> Phases]
    /\ \A s \in Streams : TaskInBatch(s)

\* A step of the task of s; handlers publish nothing the loop reads.
LoopStep(s) ==
    \/ Loop(s)
    \/ Start(s)
    \/ Complete(s) /\ UNCHANGED streams
    \/ Raise(s)

\* Nothing the abstract specification sees changes.
Stutters == UNCHANGED <<streams, latest, effects>>

LEMMA LoopStarts ==
    ASSUME NEW E, ConsumerInit
    PROVE  LoopInv(E) /\ Delivery!Init
<1>1. <<>> \in Seq(E) /\ Len(<<>>) = 0
  OBVIOUS
<1>2. LoopInv(E)
  BY <1>1 DEF LoopInv, ConsumerInit, TaskInBatch, Phases
<1>3. Delivery!Init
  BY <1>1 DEF Delivery!Init, ConsumerInit
<1> QED
  BY <1>2, <1>3

\* XREADGROUP moves the group forward, to the end of the stream at most.
LEMMA DeliverAdvances ==
    ASSUME NEW E, LoopInv(E), NEW s \in Streams, Deliverable(s), Deliver(s)
    PROVE  /\ delivered' \in [Streams -> Nat]
           /\ delivered'[s] > delivered[s] /\ delivered'[s] <= Len(streams[s])
           /\ \A r \in Streams : r # s => delivered'[r] = delivered[r]
<1>1. streams[s] \in Seq(E) /\ Len(streams[s]) \in Nat /\ delivered[s] \in Nat
  BY DEF LoopInv
<1>2. BatchSize \in Nat /\ BatchSize > 0
  BY ConsumerAssumption
<1>3. /\ Smaller(delivered[s] + BatchSize, Len(streams[s])) \in Nat
      /\ Smaller(delivered[s] + BatchSize, Len(streams[s])) > delivered[s]
      /\ Smaller(delivered[s] + BatchSize, Len(streams[s])) <= Len(streams[s])
  BY <1>1, <1>2 DEF Smaller, Deliverable
<1> QED
  BY <1>3 DEF Deliver, LoopInv

LEMMA LoopStepKeeps ==
    ASSUME NEW E, LoopInv(E), NEW s \in Streams, LoopStep(s)
    PROVE  LoopInv(E)'
<1>1. streams' = streams
  BY DEF LoopStep, Loop, Read, ReadFails, Ack, AckFails, Start, Raise
<1>2. \A r \in Streams : Len(streams[r]) \in Nat
  BY DEF LoopInv
<1>3. CASE Read(s) \/ ReadFails(s)
  <2>1. /\ delivered' \in [Streams -> Nat]
        /\ delivered'[s] > delivered[s] /\ delivered'[s] <= Len(streams[s])
        /\ \A r \in Streams : r # s => delivered'[r] = delivered[r]
    BY <1>3, DeliverAdvances DEF Read, ReadFails
  <2>2. /\ phase' = phase /\ latest' = latest /\ effects' = effects
        /\ next' \in [Streams -> Nat]
        /\ next'[s] = next[s] \/ next'[s] = delivered'[s] + 1
        /\ \A r \in Streams : r # s => next'[r] = next[r]
    BY <1>3, <2>1 DEF Read, ReadFails, LoopInv
  <2>3. phase[s] = "loop" /\ next[s] = delivered[s] + 1
    BY <1>3 DEF Read, ReadFails, Deliverable
  <2>4. TaskInBatch(s)'
    BY <1>1, <1>2, <2>1, <2>2, <2>3 DEF LoopInv, TaskInBatch
  <2>5. ASSUME NEW r \in Streams, r # s PROVE TaskInBatch(r)'
    BY <1>1, <2>1, <2>2, <2>5 DEF LoopInv, TaskInBatch
  <2> QED
    BY <1>1, <2>1, <2>2, <2>4, <2>5 DEF LoopInv
<1>4. CASE Ack(s)
  BY <1>1, <1>2, <1>4, SMTT(60) DEF Ack, LoopInv, TaskInBatch, Phases
<1>5. CASE AckFails(s)
  BY <1>1, <1>2, <1>5 DEF AckFails, LoopInv, TaskInBatch, Phases
<1>6. CASE Start(s)
  BY <1>1, <1>2, <1>6 DEF Start, LoopInv, TaskInBatch, Phases
<1>7. CASE Complete(s)
  BY <1>1, <1>2, <1>7 DEF Complete, LoopInv, TaskInBatch, Phases
<1>8. CASE Raise(s)
  BY <1>1, <1>2, <1>8 DEF Raise, LoopInv, TaskInBatch, Phases
<1> QED
  BY <1>3, <1>4, <1>5, <1>6, <1>7, <1>8 DEF LoopStep, Loop

\* A handler that completes is the effect of its entry; the other steps have none.
LEMMA LoopStepRefines ==
    ASSUME NEW E, LoopInv(E), NEW s \in Streams, LoopStep(s)
    PROVE  [Delivery!Next]_(Delivery!vars)
<1>1. CASE Complete(s) /\ UNCHANGED streams
  <2>1. next[s] \in 1..Len(streams[s]) /\ latest[s] < next[s]
    <3>1. Len(streams[s]) \in Nat /\ delivered[s] \in Nat /\ next[s] \in Nat /\ TaskInBatch(s)
      BY DEF LoopInv
    <3> QED
      BY <1>1, <3>1 DEF TaskInBatch, Complete
  <2>2. Delivery!TakeEffect(s, next[s])
    BY <1>1, <2>1 DEF Complete, Delivery!TakeEffect
  <2> QED
    BY <2>1, <2>2 DEF Delivery!Next
<1>2. CASE Stutters
  BY <1>2 DEF Stutters, Delivery!vars
<1>3. Stutters \/ (Complete(s) /\ UNCHANGED streams)
  BY DEF LoopStep, Loop, Read, ReadFails, Ack, AckFails, Start, Raise, Stutters
<1> QED
  BY <1>1, <1>2, <1>3

LEMMA Appending ==
    ASSUME NEW S, NEW b \in Seq(S), NEW e \in S
    PROVE  /\ Len(Append(b, e)) = Len(b) + 1
           /\ Append(b, e)[Len(b) + 1] = e
           /\ \A n \in 1..Len(b) : Append(b, e)[n] = b[n]
OBVIOUS

\* What is published comes last, and to one stream.
LEMMA PublishingAppends ==
    ASSUME NEW E, LoopInv(E), NEW s \in Streams, NEW e \in E, Published(s, e)
    PROVE  /\ Len(streams[s]) \in Nat /\ Len(streams'[s]) = Len(streams[s]) + 1
           /\ streams'[s][Len(streams[s]) + 1] = e
           /\ \A k \in 1..Len(streams[s]) : streams'[s][k] = streams[s][k]
           /\ \A r \in Streams : r # s => streams'[r] = streams[r]
<1>1. streams[s] \in Seq(E) /\ streams'[s] = Append(streams[s], e)
      /\ \A r \in Streams : r # s => streams'[r] = streams[r]
  BY DEF LoopInv, Published
<1> QED
  BY <1>1, Appending

LEMMA PublishingRefines ==
    ASSUME NEW E, LoopInv(E), NEW s \in Streams, NEW e \in E, Published(s, e), UNCHANGED consumer
    PROVE  LoopInv(E)' /\ [Delivery!Next]_(Delivery!vars)
<1>1. /\ streams' \in [Streams -> Seq(E)]
      /\ Len(streams'[s]) = Len(streams[s]) + 1
      /\ \A r \in Streams : r # s => streams'[r] = streams[r]
  BY DEF LoopInv, Published
<1>2. LoopInv(E)'
  <2>1. \A r \in Streams : Len(streams[r]) \in Nat /\ Len(streams'[r]) >= Len(streams[r])
    <3>1. \A r \in Streams : Len(streams[r]) \in Nat
      BY DEF LoopInv
    <3>2. \A r \in Streams : streams'[r] = streams[r] \/ Len(streams'[r]) = Len(streams[r]) + 1
      BY <1>1
    <3> QED
      BY <3>1, <3>2
  <2>2. \A r \in Streams : TaskInBatch(r)'
    BY <1>1, <2>1 DEF LoopInv, TaskInBatch, consumer
  <2> QED
    BY <1>1, <2>2 DEF LoopInv, consumer
<1>3. Delivery!Publish(s)
  BY <1>1 DEF Delivery!Publish, consumer
<1> QED
  BY <1>2, <1>3 DEF Delivery!Next

LEMMA RestartRefines ==
    ASSUME NEW E, LoopInv(E), Restart
    PROVE  LoopInv(E)' /\ [Delivery!Next]_(Delivery!vars)
<1>1. \A r \in Streams : Len(streams[r]) \in Nat
  BY DEF LoopInv
<1>2. LoopInv(E)'
  BY <1>1 DEF LoopInv, TaskInBatch, Restart, Phases
<1>3. Stutters
  BY DEF Restart, Stutters
<1> QED
  BY <1>2, <1>3 DEF Stutters, Delivery!vars

LEMMA IdleRefines ==
    ASSUME NEW E, LoopInv(E), UNCHANGED <<streams, consumer>>
    PROVE  LoopInv(E)' /\ [Delivery!Next]_(Delivery!vars)
<1>1. LoopInv(E)'
  BY DEF LoopInv, TaskInBatch, consumer
<1> QED
  BY <1>1 DEF consumer, Delivery!vars

-----------------------------------------------------------------------------
(* The loop on its own.                                                    *)

LEMMA ConsumerStep ==
    ASSUME LoopInv(Entries), [ConsumerNext]_streamVars
    PROVE  LoopInv(Entries)' /\ [Delivery!Next]_(Delivery!vars)
<1>1. ASSUME NEW s \in Streams, LoopStep(s)
      PROVE  LoopInv(Entries)' /\ [Delivery!Next]_(Delivery!vars)
  BY <1>1, LoopStepKeeps, LoopStepRefines
<1>2. ASSUME NEW s \in Streams, NEW e \in Entries, Published(s, e), UNCHANGED consumer
      PROVE  LoopInv(Entries)' /\ [Delivery!Next]_(Delivery!vars)
  BY <1>2, PublishingRefines
<1>3. CASE Restart
  BY <1>3, RestartRefines
<1>4. CASE UNCHANGED streamVars
  BY <1>4, IdleRefines DEF streamVars
<1> QED
  BY <1>1, <1>2, <1>3, <1>4 DEF ConsumerNext, LoopStep

\* consumers/runner.py, consumers/skeleton.py: the position of a task never leaves its batch, and
\* what took effect lies behind it, for any number of streams, batch size, failures and restarts.
THEOREM LoopCorrect == ConsumerSpec => []LoopInv(Entries)
<1>1. ConsumerSpec => LoopInv(Entries)
  BY LoopStarts DEF ConsumerSpec
<1>2. LoopInv(Entries) /\ [ConsumerNext]_streamVars => LoopInv(Entries)'
  BY ConsumerStep
<1> QED
  BY <1>1, <1>2, PTL DEF ConsumerSpec

\* The same: the loop implements at-most-once delivery in order, whatever handlers are put into
\* it and whatever is published.
THEOREM ConsumerIsAtMostOnce == ConsumerSpec => AtMostOnceInOrder
<1>1. ConsumerInit => Delivery!Init
  BY LoopStarts
<1>2. LoopInv(Entries) /\ [ConsumerNext]_streamVars => [Delivery!Next]_(Delivery!vars)
  BY ConsumerStep
<1> QED
  BY <1>1, <1>2, LoopCorrect, PTL DEF ConsumerSpec, AtMostOnceInOrder, Delivery!Spec
=============================================================================
