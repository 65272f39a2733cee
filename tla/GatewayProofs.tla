----------------------------- MODULE GatewayProofs -----------------------------
(***************************************************************************)
(* Theorems about the gateway: how many requests a window lets through,    *)
(* which tokens are refused, and what the sockets of the notification hub  *)
(* receive.                                                                *)
(***************************************************************************)
EXTENDS Gateway, StreamConsumerProofs, FiniteSetTheorems

Handler == [pc : Pcs \cup Outcomes, bucket : Buckets \cup {"general"}, window : Nat,
            public : BOOLEAN, tok : Nat, fetched : Nat, forced : BOOLEAN,
            socket : Sockets \cup {Nobody}, since : Nat]
SocketStates == {"none", "dialing", "open", "left", "closed"}
Connection == [state : SocketStates, user : Users \cup {Nobody}, since : [Streams -> Nat]]
Receipts == Streams \X Nat

Audience == Users \cup {Nobody}

\* Every event but a breach is for one user.
StreamInv ==
    /\ LoopInv(Audience)
    /\ \A s \in Streams : \A k \in 1..Len(streams[s]) :
           streams[s][k] = Nobody <=> s = "incident.sla_breached"

\* A handler counts in a window there is, and connects a socket there is.
HandlerFits(q) ==
    /\ request[q].pc \in {"counting", "expiring"} => Window(q) \in Windows
    /\ request[q].pc = "connecting" => request[q].socket # Nobody

GatewayType ==
    /\ now \in Nat
    /\ counter \in [Windows -> [n : Nat, until : Nat]]
    /\ passed \in [Windows -> Nat]
    /\ key \in Nat
    /\ cached \in Nat
    /\ request \in [Requests -> Handler]
    /\ socket \in [Sockets -> Connection]
    /\ registry \in [Users -> SUBSET Sockets]
    /\ roles \in SUBSET Sockets
    /\ sending \in [Streams -> SUBSET Sockets]
    /\ inbox \in [Sockets -> Seq(Receipts)]
    /\ \A q \in Requests : HandlerFits(q)

-----------------------------------------------------------------------------
(* The rate limit.                                                         *)

\* q was the first of its window and has still to set the end of the counter.
Expiring(q, w) == request[q].pc = "expiring" /\ Window(q) = w

\* The counter of w ends TTL after w began at the earliest; it counts every request that was let
\* through and the one that is about to be.
WindowInv(w) ==
    /\ counter[w].until # 0 => counter[w].until >= w[2] * Minute + TTL
    /\ passed[w] <= counter[w].n /\ passed[w] <= Limit[w[1]]
    /\ \A q \in Requests : Expiring(q, w) =>
           passed[w] < counter[w].n /\ (Limit[w[1]] # 0 => passed[w] < Limit[w[1]])
    /\ \A q, p \in Requests : Expiring(q, w) /\ Expiring(p, w) => q = p

LimitInv ==
    /\ \A q \in Requests : request[q].pc \in {"counting", "expiring"} =>
           request[q].window * Minute <= now
    /\ \A w \in Windows \ tardy : WindowInv(w)

-----------------------------------------------------------------------------
(* The public key.                                                         *)

\* A key is fetched after the request arrived, and the current token's key is that or a later one;
\* what the request decodes with is not older than what it stored, unless it was overtaken.
KeyFits(q) ==
    /\ request[q].pc # "none" => /\ request[q].tok <= request[q].since
                                 /\ 1 <= request[q].since /\ request[q].since <= key
    /\ request[q].pc \in {"storing", "closing"} => /\ request[q].since <= request[q].fetched
                                                  /\ request[q].fetched <= key
    /\ request[q].pc = "closing" => request[q].fetched <= cached \/ q \in overtaken
    /\ request[q].pc = "401" =>
           request[q].tok < request[q].since \/ request[q].since < key \/ q \in overtaken

KeyInv == 1 <= key /\ cached <= key /\ \A q \in Requests : KeyFits(q)

-----------------------------------------------------------------------------
(* The hub.                                                                *)

\* Who is registered is open, or has been left and not taken out yet.
RegistryInv ==
    /\ \A w \in Sockets : socket[w].state # "none" => socket[w].user \in Users
    /\ \A u \in Users : \A w \in registry[u] : socket[w].user = u /\ w \in roles
    /\ \A w \in roles : socket[w].state \in {"open", "left"} /\ w \in registry[socket[w].user]
    /\ \A w \in Sockets : socket[w].state = "open" => w \in roles
    /\ \A s \in Streams : sending[s] # {} => phase[s] = "handling"

Got(w, s, k) == \E n \in 1..Len(inbox[w]) : inbox[w][n] = <<s, k>>

\* What w got of s lies behind the task of s or is what it is at, and concerned w.
GotInv(w, s) == \A k \in Nat : Got(w, s, k) =>
    /\ k \in 1..Len(streams[s])
    /\ socket[w].state # "none" /\ Concerns(s, k, w)
    /\ \/ k < next[s]
       \/ k = next[s] /\ phase[s] # "loop" /\ w \notin sending[s]

\* Who is still to be written to is concerned by what is handled; who is concerned by it and was
\* there when it was published got it, or is still to be written to.
SendingInv(w, s) ==
    /\ w \in sending[s] => socket[w].state # "none" /\ Concerns(s, next[s], w)
    /\ socket[w].state = "open" /\ phase[s] = "handling" /\ next[s] > socket[w].since[s]
       /\ Concerns(s, next[s], w) => w \in sending[s] \/ Got(w, s, next[s])

HandledInv(w, s) == \A k \in Nat : <<s, k>> \in handled =>
    /\ k \in 1..Len(streams[s])
    /\ socket[w].state = "open" /\ k > socket[w].since[s] /\ Concerns(s, k, w) => Got(w, s, k)

PairInv(w, s) == GotInv(w, s) /\ SendingInv(w, s) /\ HandledInv(w, s)
NothingTwice(w) == \A m, n \in 1..Len(inbox[w]) : inbox[w][m] = inbox[w][n] => m = n

InboxInv ==
    /\ \A w \in Sockets : NothingTwice(w)
    /\ \A w \in Sockets, s \in Streams : PairInv(w, s)

-----------------------------------------------------------------------------
(* The streams and the types.                                              *)

LEMMA StreamInvStarts == HInit => StreamInv /\ Delivery!Init
<1> SUFFICES ASSUME HInit
             PROVE  StreamInv /\ Delivery!Init
  OBVIOUS
<1>1. LoopInv(Audience) /\ Delivery!Init
  BY LoopStarts DEF HInit
<1>2. \A s \in Streams : Len(streams[s]) = 0
  BY DEF HInit, ConsumerInit
<1> QED
  BY <1>1, <1>2 DEF StreamInv

LEMMA StreamInvKept ==
    ASSUME StreamInv, GatewayAssumption, [HNext]_hvars
    PROVE  StreamInv' /\ [Delivery!Next]_(Delivery!vars)
<1>1. ASSUME LoopInv(Audience)', UNCHANGED streams
      PROVE  StreamInv'
  BY <1>1 DEF StreamInv
<1>2. ASSUME NEW s \in Streams, LoopStep(s)
      PROVE  StreamInv' /\ [Delivery!Next]_(Delivery!vars)
  <2>1. streams' = streams
    BY <1>2 DEF LoopStep, Loop, Read, ReadFails, Ack, AckFails, Start, Raise
  <2> QED
    BY <1>1, <1>2, <2>1, LoopStepKeeps, LoopStepRefines DEF StreamInv
<1>3. ASSUME NEW s \in Streams, Hub(s)
      PROVE  StreamInv' /\ [Delivery!Next]_(Delivery!vars)
  <2>1. LoopStep(s) \/ UNCHANGED <<streams, consumer>>
    BY <1>3 DEF Hub, Advance, StartSending, FinishSending, SendJson, LoopStep, streamVars
  <2>2. CASE UNCHANGED <<streams, consumer>>
    BY <1>1, <2>2, IdleRefines DEF StreamInv
  <2> QED
    BY <1>2, <2>1, <2>2
<1>4. ASSUME NEW s \in Streams, NEW u \in Audience, Announce(s, u)
      PROVE  StreamInv' /\ [Delivery!Next]_(Delivery!vars)
  <2>1. LoopInv(Audience)' /\ [Delivery!Next]_(Delivery!vars)
    BY <1>4, PublishingRefines DEF Announce, StreamInv
  <2>2. u = Nobody <=> s = "incident.sla_breached"
    BY <1>4 DEF Announce
  <2>3. /\ streams[s] \in Seq(Audience) /\ streams'[s] = Append(streams[s], u)
        /\ \A r \in Streams : r # s => streams'[r] = streams[r]
    BY <1>4 DEF Announce, Published, StreamInv, LoopInv
  <2>4. ASSUME NEW k \in 1..Len(streams'[s])
        PROVE  streams'[s][k] = Nobody <=> s = "incident.sla_breached"
    BY <2>2, <2>3, <2>4 DEF StreamInv
  <2> QED
    BY <2>1, <2>3, <2>4 DEF StreamInv
<1>5. CASE Crash
  <2>1. LoopInv(Audience)' /\ [Delivery!Next]_(Delivery!vars) /\ UNCHANGED streams
    BY <1>5, RestartRefines DEF Crash, StreamInv, Restart
  <2> QED
    BY <1>1, <2>1
<1>6. ASSUME UNCHANGED <<streams, consumer>>
      PROVE  StreamInv' /\ [Delivery!Next]_(Delivery!vars)
  BY <1>1, <1>6, IdleRefines DEF StreamInv
<1>7. ASSUME NEW q \in Requests, Handle(q) \/ Broken(q) \/ Unreachable(q)
      PROVE  UNCHANGED <<streams, consumer>>
  BY <1>7 DEF Handle, Increment, Expire, Verify, FetchKey, StoreKey, Decode, Forward, connect,
              Broken, Unreachable, HubOnly, streamVars
<1>8. ASSUME NEW q \in Requests, NEW bucket, NEW public, NEW tok, Arrive(q, bucket, public, tok)
      PROVE  UNCHANGED <<streams, consumer>>
  BY <1>8 DEF Arrive, HubOnly, streamVars
<1>9. ASSUME NEW q \in Requests, NEW w, NEW u, Dial(q, w, u)
      PROVE  UNCHANGED <<streams, consumer>>
  BY <1>9 DEF Dial, streamVars
<1>10. CASE \/ \E w \in Sockets : HangUp(w) \/ disconnect(w)
            \/ RestartIdentity \/ Tick \/ UNCHANGED hvars
  BY <1>6, <1>10 DEF HangUp, disconnect, RestartIdentity, Tick, HubOnly, hvars, streamVars
<1> QED
  BY <1>3, <1>4, <1>5, <1>6, <1>7, <1>8, <1>9, <1>10 DEF HNext, Audience

\* What a handler has started on is an entry of its stream.
LEMMA CurrentIsPublished ==
    ASSUME StreamInv, NEW s \in Streams,
           phase[s] \in {"handling", "acking", "dead"} \/ next[s] <= delivered[s]
    PROVE  /\ next[s] \in 1..Len(streams[s])
           /\ streams[s][next[s]] \in Audience
           /\ streams[s][next[s]] = Nobody <=> s = "incident.sla_breached"
<1>1. /\ TaskInBatch(s) /\ streams[s] \in Seq(Audience)
      /\ next[s] \in Nat /\ delivered[s] \in Nat /\ Len(streams[s]) \in Nat
  BY DEF StreamInv, LoopInv
<1>2. next[s] \in 1..Len(streams[s])
  BY <1>1 DEF TaskInBatch
<1> QED
  BY <1>1, <1>2 DEF StreamInv

\* The handlers of the hub write to sockets there are.
LEMMA AddresseesAreSockets ==
    ASSUME StreamInv, GatewayType, NEW s \in Streams, next[s] <= delivered[s]
    PROVE  Addressees(s) \subseteq Sockets
<1>1. s # "incident.sla_breached" => Current(s) \in Users
  BY CurrentIsPublished DEF Current, Audience
<1> QED
  BY <1>1 DEF Addressees, GatewayType

LEMMA FreshIsAHandler ==
    ASSUME GatewayAssumption
    PROVE  Fresh \in Handler
BY DEF Fresh, Handler, Pcs, NoKey

\* The handler of q goes on.
LEMMA StepKeepsHandlers ==
    ASSUME GatewayType, NEW q \in Requests, NEW pc \in Pcs \cup Outcomes,
           Goto(q, pc)
    PROVE  /\ request' \in [Requests -> Handler]
           /\ \A p \in Requests : p # q => request'[p] = request[p]
           /\ request'[q] = [request[q] EXCEPT !.pc = pc]
           /\ request'[q].pc = pc /\ request'[q].socket = request[q].socket
           /\ Window(q)' = Window(q)
<1>1. request[q] \in Handler
  BY DEF GatewayType
<1>2. [request[q] EXCEPT !.pc = pc] \in Handler
  BY <1>1 DEF Handler
<1>3. request' = [request EXCEPT ![q] = [request[q] EXCEPT !.pc = pc]]
  BY DEF Goto
<1>4. request' \in [Requests -> Handler]
  BY <1>2, <1>3 DEF GatewayType
<1>5. /\ \A p \in Requests : p # q => request'[p] = request[p]
      /\ request'[q] = [request[q] EXCEPT !.pc = pc]
  BY <1>3 DEF GatewayType
<1>6. /\ request'[q].pc = pc /\ request'[q].socket = request[q].socket
      /\ request'[q].bucket = request[q].bucket /\ request'[q].window = request[q].window
  BY <1>1, <1>5 DEF Handler
<1> QED
  BY <1>4, <1>5, <1>6 DEF Window

\* The handler of q is going to fetch the key.
LEMMA FetchKeepsHandlers ==
    ASSUME GatewayType, NEW q \in Requests, Fetch(q, TRUE) \/ Fetch(q, FALSE)
    PROVE  /\ request' \in [Requests -> Handler]
           /\ \A p \in Requests : p # q => request'[p] = request[p]
           /\ request'[q].pc = "fetching" /\ request'[q].tok = request[q].tok
           /\ request'[q].since = request[q].since
<1>1. request[q] \in Handler
  BY DEF GatewayType
<1>2. PICK forced \in BOOLEAN : Fetch(q, forced)
  OBVIOUS
<1>3. [request[q] EXCEPT !.pc = "fetching", !.forced = forced] \in Handler
  BY <1>1 DEF Handler, Pcs
<1>4. request' = [request EXCEPT ![q] = [request[q] EXCEPT !.pc = "fetching", !.forced = forced]]
  BY <1>2 DEF Fetch
<1> QED
  BY <1>1, <1>3, <1>4 DEF GatewayType, Handler

\* In one step at most one handler moves.
LEMMA HandlersKept ==
    ASSUME GatewayType, request' \in [Requests -> Handler], NEW q \in Requests,
           \A p \in Requests : p # q => request'[p] = request[p],
           HandlerFits(q)'
    PROVE  \A p \in Requests : HandlerFits(p)'
<1>1. \A p \in Requests : p # q => Window(p)' = Window(p)
  BY DEF Window
<1> QED
  BY <1>1 DEF GatewayType, HandlerFits

LEMMA LimiterKeepsType ==
    ASSUME GatewayType, GatewayAssumption, NEW q \in Requests, Increment(q) \/ Expire(q)
    PROVE  GatewayType'
<1> USE DEF GatewayType
<1>1. Window(q) \in Windows /\ request[q] \in Handler
  BY DEF Increment, Expire, HandlerFits
<1>2. counter[Window(q)] \in [n : Nat, until : Nat] /\ passed[Window(q)] \in Nat
  BY <1>1
<1>3. now + TTL \in Nat
  BY DEF GatewayAssumption
<1>4. counter' \in [Windows -> [n : Nat, until : Nat]]
  <2>1. CASE Increment(q)
    <3>1. counter[Window(q)].n + 1 \in Nat /\ counter[Window(q)].until \in Nat
      BY <1>2
    <3>2. PICK c \in [n : Nat, until : Nat] : counter' = [counter EXCEPT ![Window(q)] = c]
      BY <2>1, <3>1 DEF Increment
    <3> QED
      BY <3>2
  <2>2. CASE Expire(q)
    <3>1. [counter[Window(q)] EXCEPT !.until = now + TTL] \in [n : Nat, until : Nat]
      BY <1>2, <1>3
    <3> QED
      BY <2>2, <3>1 DEF Expire
  <2> QED
    BY <2>1, <2>2
<1>5. ASSUME NEW pc \in (Pcs \cup Outcomes) \ {"connecting"}, Goto(q, pc)
      PROVE  /\ request' \in [Requests -> Handler]
             /\ \A p \in Requests : HandlerFits(p)'
  <2>1. /\ request' \in [Requests -> Handler]
        /\ \A p \in Requests : p # q => request'[p] = request[p]
        /\ request'[q].pc = pc /\ Window(q)' = Window(q)
    BY <1>5, StepKeepsHandlers
  <2>2. HandlerFits(q)'
    BY <1>1, <1>5, <2>1 DEF HandlerFits
  <2> QED
    BY <2>1, <2>2, HandlersKept
<1>6. ASSUME NEW n, LetThrough(q, n)
      PROVE  /\ request' \in [Requests -> Handler]
             /\ \A p \in Requests : HandlerFits(p)'
             /\ passed' \in [Windows -> Nat]
  <2>1. passed[Window(q)] + 1 \in Nat
    BY <1>2
  <2>2. PICK pc \in {"forwarding", "verifying", "401", "429"} :
            Goto(q, pc) /\ passed' \in {passed, [passed EXCEPT ![Window(q)] = @ + 1]}
    BY <1>6 DEF LetThrough, Admitted
  <2>3. pc \in (Pcs \cup Outcomes) \ {"connecting"}
    BY DEF Pcs, Outcomes
  <2>4. passed' \in [Windows -> Nat]
    BY <2>1, <2>2
  <2> QED
    BY <1>5, <2>2, <2>3, <2>4
<1>7. /\ request' \in [Requests -> Handler]
      /\ \A p \in Requests : HandlerFits(p)'
      /\ passed' \in [Windows -> Nat]
  BY <1>5, <1>6 DEF Increment, Expire, Pcs
<1>8. UNCHANGED <<now, key, cached, socket, registry, roles, sending, inbox>>
  BY DEF Increment, Expire, HubOnly, hub, keyCache
<1> QED
  BY <1>4, <1>7, <1>8

LEMMA VerifierKeepsType ==
    ASSUME GatewayType, GatewayAssumption, NEW q \in Requests,
           \/ Verify(q) \/ FetchKey(q) \/ StoreKey(q) \/ Decode(q)
           \/ Forward(q) \/ Broken(q) \/ Unreachable(q)
    PROVE  GatewayType'
<1> USE DEF GatewayType
<1>1. UNCHANGED <<now, counter, passed, key, socket, registry, roles, sending, inbox>>
  BY DEF Verify, FetchKey, StoreKey, Decode, Forward, Broken, Unreachable, HubOnly, hub, limiter
<1>2. request[q] \in Handler /\ request[q].fetched \in Nat
  BY DEF Handler
<1>3. cached' \in Nat
  BY <1>2 DEF Verify, FetchKey, StoreKey, Decode, Forward, Broken, Unreachable, keyCache
<1>4. CASE FetchKey(q)
  <2>1. [request[q] EXCEPT !.pc = "storing", !.fetched = key] \in Handler
    BY <1>2 DEF Handler, Pcs
  <2>2. /\ request' \in [Requests -> Handler]
        /\ \A p \in Requests : p # q => request'[p] = request[p]
        /\ request'[q].pc = "storing"
    BY <1>2, <1>4, <2>1 DEF FetchKey, Handler
  <2> QED
    BY <1>1, <1>3, <2>2, HandlersKept DEF HandlerFits
<1>5. CASE ~FetchKey(q)
  <2>1. \/ \E pc \in Pcs \cup Outcomes : /\ Goto(q, pc) /\ pc \notin {"counting", "expiring"}
                                         /\ pc = "connecting" => request[q].socket # Nobody
        \/ Fetch(q, TRUE) \/ Fetch(q, FALSE)
    <3>1. /\ Verified(q) \in Pcs \cup Outcomes /\ Verified(q) \notin {"counting", "expiring"}
          /\ Verified(q) = "connecting" => request[q].socket # Nobody
          /\ {"closing", "401", "500", "503", "answered"} \subseteq Pcs \cup Outcomes
      BY DEF Verified, Pcs, Outcomes
    <3> QED
      BY <1>5, <3>1 DEF Verify, StoreKey, Decode, Forward, Broken, Unreachable
  <2>2. CASE Fetch(q, TRUE) \/ Fetch(q, FALSE)
    <3>1. /\ request' \in [Requests -> Handler]
          /\ \A p \in Requests : p # q => request'[p] = request[p]
          /\ request'[q].pc = "fetching"
      BY <2>2, FetchKeepsHandlers
    <3> QED
      BY <1>1, <1>3, <3>1, HandlersKept DEF HandlerFits
  <2>3. ASSUME NEW pc \in Pcs \cup Outcomes, Goto(q, pc), pc \notin {"counting", "expiring"},
               pc = "connecting" => request[q].socket # Nobody
        PROVE  GatewayType'
    <3>1. /\ request' \in [Requests -> Handler]
          /\ \A p \in Requests : p # q => request'[p] = request[p]
          /\ request'[q].pc = pc /\ request'[q].socket = request[q].socket
      BY <2>3, StepKeepsHandlers
    <3> QED
      BY <1>1, <1>3, <2>3, <3>1, HandlersKept DEF HandlerFits
  <2> QED
    BY <2>1, <2>2, <2>3
<1> QED
  BY <1>4, <1>5

LEMMA HubKeepsType ==
    ASSUME GatewayType, StreamInv, NEW s \in Streams, Hub(s)
    PROVE  GatewayType'
<1> USE DEF GatewayType
<1>1. CASE Advance(s) \/ FinishSending(s)
  BY <1>1 DEF Advance, FinishSending, verification, limiter, keyCache, hub, Window, HandlerFits
<1>2. CASE StartSending(s)
  <2>1. Addressees(s) \subseteq Sockets
    BY <1>2, AddresseesAreSockets DEF StartSending, Start
  <2> QED
    BY <1>2, <2>1 DEF StartSending, verification, limiter, keyCache, Window, HandlerFits
<1>3. ASSUME NEW w \in Sockets, SendJson(s, w)
      PROVE  GatewayType'
  <2>1. inbox' \in [Sockets -> Seq(Receipts)]
    <3>1. <<s, next[s]>> \in Receipts
      BY DEF Receipts, StreamInv, LoopInv
    <3> QED
      BY <1>3, <3>1 DEF SendJson
  <2> QED
    BY <1>3, <2>1 DEF SendJson, verification, limiter, keyCache, Window, HandlerFits
<1> QED
  BY <1>1, <1>2, <1>3 DEF Hub

LEMMA DivIsWindow ==
    ASSUME NEW a \in Nat, NEW m \in Nat \ {0}
    PROVE  (a \div m) \in Nat /\ (a \div m) * m <= a
OBVIOUS

LEMMA GatewayTypeKept ==
    ASSUME GatewayType, GatewayAssumption, StreamInv, [HNext]_hvars
    PROVE  GatewayType'
<1> USE DEF GatewayType
<1>1. ASSUME NEW q \in Requests, connect(q)
      PROVE  GatewayType'
  <2>1. "answered" \in Pcs \cup Outcomes
    BY DEF Pcs, Outcomes
  <2>2. /\ request' \in [Requests -> Handler]
        /\ \A p \in Requests : p # q => request'[p] = request[p]
        /\ request'[q].pc = "answered"
    BY <1>1, <2>1, StepKeepsHandlers DEF connect
  <2>3. \A p \in Requests : HandlerFits(p)'
    BY <2>2, HandlersKept DEF HandlerFits
  <2>4. [s \in Streams |-> Len(streams[s])] \in [Streams -> Nat]
    BY DEF StreamInv, LoopInv
  <2>5. PICK w \in Sockets : w = request[q].socket
    BY <1>1 DEF connect, Handler, HandlerFits
  <2>6. socket' \in [Sockets -> Connection]
    <3> DEFINE c == [socket[w] EXCEPT !.state = "open", !.since = [s \in Streams |-> Len(streams[s])]]
    <3>1. c \in Connection
      BY <2>4, ZenonT(60) DEF Connection, SocketStates
    <3>2. socket' = [socket EXCEPT ![w] = c]
      BY <1>1, <2>5 DEF connect
    <3> HIDE DEF c
    <3> QED
      BY <3>1, <3>2
  <2>7. registry' \in [Users -> SUBSET Sockets] /\ roles' \in SUBSET Sockets
    BY <1>1, <2>5 DEF connect
  <2> QED
    BY <1>1, <2>2, <2>3, <2>6, <2>7 DEF connect, verification, limiter, keyCache
<1>2. ASSUME NEW q \in Requests, NEW bucket \in Buckets, NEW public \in BOOLEAN,
             NEW tok \in NoKey..key, Arrive(q, bucket, public, tok)
      PROVE  GatewayType'
  <2>1. (now \div Minute) \in Nat /\ (now \div Minute) \in 0..LastWindow
    BY <1>2, DivIsWindow DEF Arrive, GatewayAssumption
  <2> DEFINE h == [Fresh EXCEPT !.pc = "counting", !.bucket = bucket, !.window = now \div Minute,
                                !.public = public, !.tok = tok, !.since = key]
  <2>2. h \in Handler
    <3>1. tok \in Nat /\ bucket \in Buckets /\ "counting" \in Pcs
      BY DEF Pcs, NoKey
    <3> QED
      BY <2>1, <3>1, FreshIsAHandler DEF Handler
  <2>3. h.pc = "counting" /\ h.bucket = bucket /\ h.window = now \div Minute
    BY DEF Fresh
  <2>4. request' = [request EXCEPT ![q] = h]
    BY <1>2 DEF Arrive
  <2> HIDE DEF h
  <2>5. /\ request' \in [Requests -> Handler]
        /\ \A p \in Requests : p # q => request'[p] = request[p]
        /\ request'[q] = h
    BY <2>2, <2>4
  <2>6. HandlerFits(q)'
    BY <2>1, <2>3, <2>5 DEF HandlerFits, Window, Windows
  <2>7. \A p \in Requests : HandlerFits(p)'
    BY <2>5, <2>6, HandlersKept
  <2> QED
    BY <1>2, <2>5, <2>7 DEF Arrive, HubOnly, hub, limiter, keyCache
<1>3. ASSUME NEW q \in Requests, NEW w \in Sockets, NEW u \in Users, Dial(q, w, u)
      PROVE  GatewayType'
  <2> DEFINE h == [Fresh EXCEPT !.pc = "verifying", !.tok = key, !.since = key, !.socket = w]
  <2>1. h \in Handler /\ h.pc = "verifying"
    BY DEF Fresh, Handler, Pcs, NoKey
  <2>2. request' = [request EXCEPT ![q] = h]
    BY <1>3 DEF Dial
  <2> HIDE DEF h
  <2>3. /\ request' \in [Requests -> Handler]
        /\ \A p \in Requests : p # q => request'[p] = request[p]
        /\ request'[q] = h
    BY <2>1, <2>2
  <2>4. \A p \in Requests : HandlerFits(p)'
    BY <2>1, <2>3, HandlersKept DEF HandlerFits
  <2>5. socket' \in [Sockets -> Connection]
    <3> DEFINE c == [socket[w] EXCEPT !.state = "dialing", !.user = u]
    <3>1. c \in Connection
      BY ZenonT(60) DEF Connection, SocketStates
    <3>2. socket' = [socket EXCEPT ![w] = c]
      BY <1>3 DEF Dial
    <3> HIDE DEF c
    <3> QED
      BY <3>1, <3>2
  <2> QED
    BY <1>3, <2>3, <2>4, <2>5 DEF Dial, verification, limiter, keyCache
<1>4. ASSUME NEW w \in Sockets, HangUp(w) \/ disconnect(w)
      PROVE  GatewayType'
  <2>1. socket' \in [Sockets -> Connection]
    <3>1. \A state \in SocketStates : [socket[w] EXCEPT !.state = state] \in Connection
      BY DEF Connection
    <3> QED
      BY <1>4, <3>1 DEF HangUp, disconnect, SocketStates
  <2>2. registry' \in [Users -> SUBSET Sockets] /\ roles' \in SUBSET Sockets
    <3>1. CASE HangUp(w)
      BY <3>1 DEF HangUp
    <3>2. CASE disconnect(w)
      <4>1. \A u \in Users : registry[u] \ {w} \in SUBSET Sockets
        OBVIOUS
      <4> QED
        BY <3>2, <4>1 DEF disconnect
    <3> QED
      BY <1>4, <3>1, <3>2
  <2> QED
    BY <1>4, <2>1, <2>2
       DEF HangUp, disconnect, verification, limiter, keyCache, HandlerFits, Window
<1>5. CASE RestartIdentity \/ Tick
  BY <1>5 DEF RestartIdentity, Tick, HubOnly, hub, limiter, keyCache, HandlerFits, Window
<1>6. CASE Crash
  <2>1. \A q \in Requests : [request[q] EXCEPT !.pc = "cut"] \in Handler
    <3>1. "cut" \in Pcs \cup Outcomes
      BY DEF Outcomes
    <3> QED
      BY <3>1, ZenonT(60) DEF Handler
  <2>2. request' \in [Requests -> Handler]
    BY <1>6, <2>1, FreshIsAHandler DEF Crash
  <2>3. \A q \in Requests : request'[q].pc \in {"none", "cut"}
    BY <1>6 DEF Crash, Fresh, Handler
  <2>4. \A w \in Sockets : [socket[w] EXCEPT !.state = "closed"]
            \in Connection
    BY ZenonT(60) DEF SocketStates, Connection
  <2>5. socket' \in [Sockets -> Connection]
    BY <1>6, <2>4 DEF Crash
  <2> QED
    BY <1>6, <2>2, <2>3, <2>5 DEF Crash, limiter, HandlerFits, NoKey
<1>7. ASSUME NEW s \in Streams, NEW u, Announce(s, u)
      PROVE  GatewayType'
  BY <1>7 DEF Announce, verification, hub, limiter, keyCache, HandlerFits, Window
<1>8. CASE UNCHANGED hvars
  BY <1>8 DEF hvars, hub, limiter, keyCache, HandlerFits, Window
<1>9. ASSUME NEW q \in Requests, Handle(q) \/ Broken(q) \/ Unreachable(q)
      PROVE  GatewayType'
  BY <1>1, <1>9, LimiterKeepsType, VerifierKeepsType DEF Handle
<1> QED
  BY <1>2, <1>3, <1>4, <1>5, <1>6, <1>7, <1>8, <1>9, HubKeepsType DEF HNext

LEMMA GatewayTypeStarts == GatewayAssumption /\ HInit => GatewayType
<1> SUFFICES ASSUME GatewayAssumption, HInit
             PROVE  GatewayType
  OBVIOUS
<1>1. \A q \in Requests : HandlerFits(q)
  BY DEF HInit, HandlerFits, Fresh
<1>2. [state |-> "none", user |-> Nobody, since |-> [s \in Streams |-> 0]]
          \in Connection
  BY DEF SocketStates, Connection
<1>3. <<>> \in Seq(Receipts) /\ NoCounter \in [n : Nat, until : Nat]
  BY DEF NoCounter
<1> QED
  BY <1>1, <1>2, <1>3, FreshIsAHandler DEF HInit, GatewayType, NoKey

\* The streams the hub consumes and everything the gateway keeps are what the code declares.
THEOREM GatewayTypeCorrect == HSpec => [](StreamInv /\ GatewayType)
<1>1. HInit => StreamInv /\ GatewayType
  BY StreamInvStarts, GatewayTypeStarts, GatewayAssumption
<1>2. StreamInv /\ GatewayType /\ [HNext]_hvars => (StreamInv /\ GatewayType)'
  BY StreamInvKept, GatewayTypeKept, GatewayAssumption
<1> QED
  BY <1>1, <1>2, PTL DEF HSpec

-----------------------------------------------------------------------------
(* The rate limit.                                                         *)

\* Neither the clock nor the counters are touched, and no request comes to count.
LEMMA LimitUndisturbed ==
    ASSUME LimitInv, UNCHANGED <<now, limiter>>,
           \A q \in Requests : request'[q].pc \in {"counting", "expiring"} =>
               /\ request'[q].pc = request[q].pc
               /\ request'[q].bucket = request[q].bucket /\ request'[q].window = request[q].window
    PROVE  LimitInv'
<1>1. \A q \in Requests : \A w : Expiring(q, w)' => Expiring(q, w)
  BY DEF Expiring, Window
<1>2. \A w \in Windows \ tardy : WindowInv(w)'
  BY <1>1 DEF LimitInv, WindowInv, limiter
<1> QED
  BY <1>2 DEF LimitInv, limiter

\* A request that is the only one still to set the end is let through.
LEMMA ExpireKeepsLimit ==
    ASSUME GatewayType, GatewayAssumption, LimitInv, NEW q \in Requests, Expire(q)
    PROVE  LimitInv'
<1> USE DEF GatewayType
<1>1. PICK v \in Windows : v = Window(q)
  BY DEF Expire, HandlerFits
<1>2. PICK pc \in {"forwarding", "verifying", "401", "429"} :
          /\ Goto(q, pc)
          /\ passed' = IF 1 <= Limit[v[1]] THEN [passed EXCEPT ![v] = @ + 1] ELSE passed
  BY <1>1 DEF Expire, LetThrough, Admitted, Window
<1>3. pc \in Pcs \cup Outcomes
  BY DEF Pcs, Outcomes
<1>4. /\ \A p \in Requests : p # q => request'[p] = request[p]
      /\ request'[q].pc = pc
  BY <1>2, <1>3, StepKeepsHandlers
<1>5. \A p \in Requests : \A w : Expiring(p, w)' => Expiring(p, w) /\ p # q
  BY <1>4 DEF Expiring, Window
<1>6. /\ counter' = [counter EXCEPT ![v].until = now + TTL] /\ tardy' = tardy /\ now' = now
      /\ counter[v] \in [n : Nat, until : Nat] /\ passed[v] \in Nat
  BY <1>1 DEF Expire
<1>7. ASSUME NEW w \in Windows \ tardy, w # v
      PROVE  WindowInv(w)'
  BY <1>2, <1>5, <1>6, <1>7, SMTT(60) DEF LimitInv, WindowInv
<1>8. ASSUME v \notin tardy
      PROVE  WindowInv(v)'
  <2>1. Expiring(q, v) /\ WindowInv(v)
    BY <1>1, <1>8 DEF Expire, Expiring, LimitInv
  <2>2. \A p \in Requests : ~Expiring(p, v)'
    BY <1>5, <2>1 DEF WindowInv
  <2>3. v[2] * Minute <= now /\ v[2] * Minute \in Nat
    <3>1. v = <<request[q].bucket, request[q].window>> /\ request[q].window \in Nat
      BY <1>1 DEF Window, Handler
    <3>2. request[q].window * Minute <= now
      BY DEF Expire, LimitInv
    <3> QED
      BY <3>1, <3>2 DEF GatewayAssumption
  <2>4. counter'[v].n = counter[v].n /\ counter'[v].until = now + TTL
    BY <1>6
  <2>5. counter'[v].until >= v[2] * Minute + TTL
    BY <2>3, <2>4 DEF GatewayAssumption
  <2>6. Limit[v[1]] \in Nat
    BY DEF GatewayAssumption, Windows
  <2>7. passed[v] < counter[v].n /\ (Limit[v[1]] # 0 => passed[v] < Limit[v[1]])
        /\ passed[v] <= Limit[v[1]]
    BY <2>1 DEF WindowInv
  <2>8. passed'[v] = IF 1 <= Limit[v[1]] THEN passed[v] + 1 ELSE passed[v]
    BY <1>2
  <2>9. passed'[v] <= counter'[v].n /\ passed'[v] <= Limit[v[1]]
    BY <1>6, <2>4, <2>6, <2>7, <2>8, SMTT(60)
  <2> QED
    BY <2>2, <2>5, <2>9 DEF WindowInv
<1>9. ASSUME NEW p \in Requests, request'[p].pc \in {"counting", "expiring"}
      PROVE  request'[p].window * Minute <= now
  BY <1>2, <1>4, <1>9 DEF LimitInv
<1> QED
  BY <1>6, <1>7, <1>8, <1>9 DEF LimitInv

\* A request is counted: its counter is still there, unless Redis was asked too late.
LEMMA IncrementKeepsLimit ==
    ASSUME GatewayType, GatewayAssumption, LimitInv, NEW q \in Requests, Increment(q)
    PROVE  LimitInv'
<1> USE DEF GatewayType
<1>1. PICK v \in Windows : v = Window(q)
  BY DEF Increment, HandlerFits
<1>2. PICK c \in [n : Nat, until : Nat] : c = counter[v]
  OBVIOUS
<1>3. PICK n \in Nat : n = IF Gone(c) THEN 1 ELSE c.n + 1
  BY <1>2
<1>4. /\ counter' = [counter EXCEPT ![v] = [n |-> n, until |-> IF Gone(c) THEN 0 ELSE c.until]]
      /\ now' = now /\ request[q].pc = "counting"
      /\ tardy' = IF now < v[2] * Minute + TTL THEN tardy ELSE tardy \cup {v}
  BY <1>1, <1>2, <1>3 DEF Increment, Window
<1>5. PICK pc \in {"expiring", "forwarding", "verifying", "401", "429"} :
          /\ Goto(q, pc) /\ (pc = "expiring" <=> n = 1)
          /\ passed' = IF n # 1 /\ n <= Limit[v[1]] THEN [passed EXCEPT ![v] = @ + 1] ELSE passed
  BY <1>1, <1>2, <1>3 DEF Increment, LetThrough, Admitted, Window
<1>6. pc \in Pcs \cup Outcomes
  BY DEF Pcs, Outcomes
<1>7. /\ \A p \in Requests : p # q => request'[p] = request[p]
      /\ request'[q].pc = pc /\ Window(q)' = Window(q)
  BY <1>5, <1>6, StepKeepsHandlers
<1>8. \A p \in Requests : \A w : p # q => (Expiring(p, w)' <=> Expiring(p, w))
  BY <1>7 DEF Expiring, Window
<1>9. \A w : Expiring(q, w)' <=> n = 1 /\ w = v
  BY <1>1, <1>5, <1>7 DEF Expiring
<1>10. \A w : ~Expiring(q, w)
  BY <1>4 DEF Expiring
<1>11. ASSUME NEW w \in Windows \ tardy', w # v
       PROVE  WindowInv(w)'
  <2>1. WindowInv(w) /\ counter'[w] = counter[w] /\ passed'[w] = passed[w]
    BY <1>4, <1>5, <1>11 DEF LimitInv
  <2>2. \A p \in Requests : Expiring(p, w)' => Expiring(p, w)
    BY <1>8, <1>9, <1>11
  <2> QED
    BY <2>1, <2>2 DEF WindowInv
<1>12. ASSUME v \notin tardy'
       PROVE  WindowInv(v)'
  <2>1. v[2] * Minute \in Nat /\ TTL \in Nat /\ Limit[v[1]] \in Nat /\ passed[v] \in Nat
    BY DEF Windows, GatewayAssumption
  <2>2. now < v[2] * Minute + TTL /\ v \notin tardy
    BY <1>4, <1>12
  <2>3. WindowInv(v)
    BY <2>2 DEF LimitInv
  <2>4. ~Gone(c)
    BY <1>2, <2>1, <2>2, <2>3 DEF WindowInv, Gone
  <2>5. n = counter[v].n + 1 /\ counter'[v].n = n /\ counter'[v].until = counter[v].until
    BY <1>2, <1>3, <1>4, <2>4
  <2>6. counter'[v].until # 0 => counter'[v].until >= v[2] * Minute + TTL
    BY <2>3, <2>5 DEF WindowInv
  <2>7. passed[v] <= counter[v].n /\ passed[v] <= Limit[v[1]] /\ counter[v].n \in Nat
    BY <2>3 DEF WindowInv
  <2>8. \A p \in Requests : Expiring(p, v) =>
            passed[v] < counter[v].n /\ (Limit[v[1]] # 0 => passed[v] < Limit[v[1]])
    BY <2>3 DEF WindowInv
  <2>9. CASE n = 1
    <3>1. passed'[v] = 0 /\ passed[v] = 0
      BY <1>5, <2>1, <2>5, <2>7, <2>9
    <3>2. \A p \in Requests : ~Expiring(p, v)
      BY <2>1, <2>5, <2>7, <2>8, <2>9
    <3>3. \A p \in Requests : Expiring(p, v)' => p = q
      BY <1>8, <3>2
    <3> QED
      BY <2>1, <2>5, <2>6, <2>9, <3>1, <3>3 DEF WindowInv
  <2>10. CASE n # 1
    <3>1. \A p \in Requests : Expiring(p, v)' => Expiring(p, v)
      BY <1>8, <1>9, <2>10
    <3>2. passed'[v] = IF n <= Limit[v[1]] THEN passed[v] + 1 ELSE passed[v]
      BY <1>5, <2>10
    <3>3. passed'[v] <= n /\ passed'[v] <= Limit[v[1]]
      BY <2>1, <2>5, <2>7, <3>2, SMTT(60)
    <3>4. ASSUME NEW p \in Requests, Expiring(p, v)'
          PROVE  passed'[v] < n /\ (Limit[v[1]] # 0 => passed'[v] < Limit[v[1]])
      <4>1. passed[v] < counter[v].n /\ (Limit[v[1]] # 0 => passed[v] < Limit[v[1]])
        BY <2>8, <3>1, <3>4
      <4> QED
        BY <2>1, <2>5, <2>7, <3>2, <4>1
    <3>5. \A p, r \in Requests : Expiring(p, v)' /\ Expiring(r, v)' => p = r
      BY <2>3, <3>1 DEF WindowInv
    <3> QED
      BY <2>5, <2>6, <3>3, <3>4, <3>5 DEF WindowInv
  <2> QED
    BY <2>9, <2>10
<1>13. ASSUME NEW p \in Requests, request'[p].pc \in {"counting", "expiring"}
       PROVE  request'[p].window * Minute <= now
  <2>1. request'[p].window = request[p].window
    BY <1>7 DEF Window
  <2>2. request[p].pc \in {"counting", "expiring"}
    BY <1>4, <1>7, <1>13
  <2> QED
    BY <2>1, <2>2 DEF LimitInv
<1> QED
  BY <1>4, <1>11, <1>12, <1>13 DEF LimitInv

\* What moves the handlers of requests that are not being counted moves one, and keeps what it
\* arrived with.
LEMMA VerifierMoves ==
    ASSUME GatewayType, NEW q \in Requests,
           \/ Verify(q) \/ StoreKey(q) \/ Decode(q) \/ Forward(q) \/ connect(q)
           \/ Broken(q) \/ Unreachable(q)
    PROVE  /\ \A p \in Requests : p # q => request'[p] = request[p]
           /\ request'[q].pc \notin {"none", "counting", "expiring", "storing"}
           /\ request'[q].tok = request[q].tok /\ request'[q].since = request[q].since
           /\ request'[q].pc = "closing" => StoreKey(q) /\ request'[q].fetched = request[q].fetched
           /\ request'[q].pc = "401" => Decode(q) /\ cached # request[q].tok
<1> USE DEF GatewayType
<1>1. \/ \E pc \in Pcs \cup Outcomes :
             /\ Goto(q, pc) /\ pc \notin {"none", "counting", "expiring", "storing"}
             /\ pc = "closing" => StoreKey(q)
             /\ pc = "401" => Decode(q) /\ cached # request[q].tok
      \/ Fetch(q, TRUE) \/ Fetch(q, FALSE)
  <2>1. /\ Verified(q) \in Pcs \cup Outcomes
        /\ Verified(q) \notin {"none", "counting", "expiring", "storing", "closing", "401"}
        /\ {"closing", "401", "500", "503", "answered"} \subseteq Pcs \cup Outcomes
    BY DEF Verified, Pcs, Outcomes
  <2> QED
    BY <2>1 DEF Verify, StoreKey, Decode, Forward, connect, Broken, Unreachable
<1>2. CASE Fetch(q, TRUE) \/ Fetch(q, FALSE)
  BY <1>2, FetchKeepsHandlers
<1>3. ASSUME NEW pc \in Pcs \cup Outcomes, Goto(q, pc)
      PROVE  /\ \A p \in Requests : p # q => request'[p] = request[p]
             /\ request'[q].pc = pc /\ request'[q].fetched = request[q].fetched
             /\ request'[q].tok = request[q].tok /\ request'[q].since = request[q].since
  <2>1. /\ \A p \in Requests : p # q => request'[p] = request[p]
        /\ request'[q] = [request[q] EXCEPT !.pc = pc] /\ request'[q].pc = pc
    BY <1>3, StepKeepsHandlers
  <2>2. request[q] \in Handler
    OBVIOUS
  <2> QED
    BY <2>1, <2>2 DEF Handler
<1> QED
  BY <1>1, <1>2, <1>3

\* A request or a page arrives.
LEMMA ArrivalsAreFresh ==
    ASSUME GatewayType, NEW q \in Requests, NEW bucket, NEW public, NEW tok,
           Arrive(q, bucket, public, tok)
    PROVE  /\ \A p \in Requests : p # q => request'[p] = request[p]
           /\ request'[q].pc = "counting" /\ request'[q].window = now \div Minute
           /\ request'[q].tok = tok /\ request'[q].since = key
<1> DEFINE h == [Fresh EXCEPT !.pc = "counting", !.bucket = bucket, !.window = now \div Minute,
                              !.public = public, !.tok = tok, !.since = key]
<1>1. h.pc = "counting" /\ h.window = now \div Minute /\ h.tok = tok /\ h.since = key
  BY DEF Fresh
<1>2. request' = [request EXCEPT ![q] = h]
  BY DEF Arrive
<1> HIDE DEF h
<1> QED
  BY <1>1, <1>2 DEF GatewayType

LEMMA CallersAreFresh ==
    ASSUME GatewayType, NEW q \in Requests, NEW w, NEW u, Dial(q, w, u)
    PROVE  /\ \A p \in Requests : p # q => request'[p] = request[p]
           /\ request'[q].pc = "verifying" /\ request'[q].tok = key
           /\ request'[q].since = key /\ request'[q].socket = w
<1> DEFINE h == [Fresh EXCEPT !.pc = "verifying", !.tok = key, !.since = key, !.socket = w]
<1>1. h.pc = "verifying" /\ h.tok = key /\ h.since = key /\ h.socket = w
  BY DEF Fresh
<1>2. request' = [request EXCEPT ![q] = h]
  BY DEF Dial
<1> HIDE DEF h
<1> QED
  BY <1>1, <1>2 DEF GatewayType

LEMMA LimitKept ==
    ASSUME GatewayType, GatewayAssumption, LimitInv, [HNext]_hvars
    PROVE  LimitInv'
<1>1. ASSUME NEW q \in Requests,
             \/ Verify(q) \/ StoreKey(q) \/ Decode(q) \/ Forward(q) \/ connect(q)
             \/ Broken(q) \/ Unreachable(q)
      PROVE  LimitInv'
  <2>1. UNCHANGED <<now, limiter>>
    BY <1>1
       DEF Verify, StoreKey, Decode, Forward, connect, Broken, Unreachable, verification, limiter
  <2> QED
    BY <1>1, <2>1, VerifierMoves, LimitUndisturbed
<1>2. ASSUME NEW q \in Requests, FetchKey(q)
      PROVE  LimitInv'
  <2>1. /\ \A p \in Requests : p # q => request'[p] = request[p]
        /\ request'[q].pc = "storing"
    BY <1>2 DEF FetchKey, GatewayType, Handler
  <2> QED
    BY <1>2, <2>1, LimitUndisturbed DEF FetchKey
<1>3. ASSUME NEW q \in Requests, NEW bucket, NEW public, NEW tok,
             Arrive(q, bucket, public, tok)
      PROVE  LimitInv'
  <2>1. /\ \A p \in Requests : p # q => request'[p] = request[p]
        /\ request'[q].pc = "counting" /\ request'[q].window = now \div Minute
    BY <1>3, ArrivalsAreFresh
  <2>2. request'[q].window * Minute <= now
    BY <2>1, DivIsWindow DEF GatewayType, GatewayAssumption
  <2>3. \A p \in Requests : \A w : Expiring(p, w)' => Expiring(p, w)
    BY <2>1 DEF Expiring, Window
  <2>4. UNCHANGED <<now, limiter>>
    BY <1>3 DEF Arrive
  <2>5. ASSUME NEW w \in Windows \ tardy
        PROVE  WindowInv(w)'
    BY <2>3, <2>4 DEF LimitInv, WindowInv, limiter
  <2> QED
    BY <2>1, <2>2, <2>4, <2>5 DEF LimitInv, limiter
<1>4. ASSUME NEW q \in Requests, NEW w, NEW u, Dial(q, w, u)
      PROVE  LimitInv'
  <2>1. /\ \A p \in Requests : p # q => request'[p] = request[p]
        /\ request'[q].pc = "verifying"
    BY <1>4, CallersAreFresh
  <2> QED
    BY <1>4, <2>1, LimitUndisturbed DEF Dial, verification
<1>5. CASE Tick
  <2>1. now \in Nat /\ now' = now + 1 /\ UNCHANGED <<limiter, request>>
    BY <1>5 DEF Tick, GatewayType
  <2>2. \A q \in Requests : request[q].window \in Nat /\ Minute \in Nat
    BY DEF GatewayType, Handler, GatewayAssumption
  <2>3. \A q \in Requests : request[q].pc \in {"counting", "expiring"} =>
            request[q].window * Minute <= now'
    BY <2>1, <2>2 DEF LimitInv
  <2>4. \A w \in Windows \ tardy : WindowInv(w)'
    BY <2>1 DEF LimitInv, WindowInv, Expiring, Window, limiter
  <2> QED
    BY <2>1, <2>3, <2>4 DEF LimitInv, limiter
<1>6. CASE Crash
  <2>1. \A q \in Requests : request'[q].pc \in {"none", "cut"}
    BY <1>6 DEF Crash, Fresh, GatewayType, Handler
  <2> QED
    BY <1>6, <2>1, LimitUndisturbed DEF Crash
<1>7. CASE \/ \E s \in Streams : Hub(s) \/ \E u \in Users \cup {Nobody} : Announce(s, u)
           \/ \E w \in Sockets : HangUp(w) \/ disconnect(w)
           \/ RestartIdentity \/ UNCHANGED hvars
  <2>1. UNCHANGED <<now, limiter, request>>
    BY <1>7
       DEF Hub, Advance, StartSending, FinishSending, SendJson, Announce, HangUp, disconnect,
           RestartIdentity, verification, hvars
  <2> QED
    BY <2>1, LimitUndisturbed
<1> QED
  BY <1>1, <1>2, <1>3, <1>4, <1>5, <1>6, <1>7, IncrementKeepsLimit, ExpireKeepsLimit
     DEF HNext, Handle

LEMMA LimitStarts == GatewayAssumption /\ HInit => LimitInv
<1> SUFFICES ASSUME GatewayAssumption, HInit
             PROVE  LimitInv
  OBVIOUS
<1>1. \A q \in Requests : request[q].pc = "none"
  BY DEF HInit, Fresh
<1>2. \A w \in Windows : w[1] \in Buckets
  BY DEF Windows
<1>3. \A w \in Windows : counter[w].until = 0 /\ counter[w].n = 0 /\ passed[w] = 0
                         /\ Limit[w[1]] \in Nat
  BY <1>2 DEF HInit, NoCounter, GatewayAssumption
<1> QED
  BY <1>1, <1>3 DEF LimitInv, WindowInv, Expiring

\* check_rate_limit: for every limit, window and life of a counter that is not shorter than the
\* window, however INCR and EXPIRE of the requests interleave, fail or never come.
THEOREM LimitHolds == HSpec => []LimitPerMinute
<1>1. GatewayType /\ LimitInv /\ [HNext]_hvars => LimitInv'
  BY LimitKept, GatewayAssumption
<1>2. HInit => LimitInv
  BY LimitStarts, GatewayAssumption
<1>3. LimitInv => LimitPerMinute
  BY DEF LimitInv, WindowInv, LimitPerMinute
<1> QED
  BY <1>1, <1>2, <1>3, GatewayTypeCorrect, PTL DEF HSpec

-----------------------------------------------------------------------------
(* The public key.                                                         *)

\* Each request goes on with what it arrived with, decodes with what was there, and is refused for
\* a reason.
LEMMA KeyUndisturbed ==
    ASSUME GatewayType, KeyInv, UNCHANGED <<key, overtaken>>, cached' \in Nat, cached' <= key,
           \A q \in Requests :
               /\ request'[q].pc # "none" => /\ request[q].pc # "none"
                                             /\ request'[q].tok = request[q].tok
                                             /\ request'[q].since = request[q].since
               /\ request'[q].pc \in {"storing", "closing"} =>
                      /\ request'[q].pc = request[q].pc /\ request'[q].fetched = request[q].fetched
                      /\ UNCHANGED cached
               /\ request'[q].pc = "401" =>
                      request[q].tok < request[q].since \/ request[q].since < key \/ q \in overtaken
    PROVE  KeyInv'
<1>1. ASSUME NEW q \in Requests
      PROVE  KeyFits(q)'
  <2>1. KeyFits(q)
    BY DEF KeyInv
  <2> QED
    BY <2>1 DEF KeyFits
<1> QED
  BY <1>1 DEF KeyInv

\* What is stored was fetched after the request arrived; whom it overtakes is noted.
LEMMA StoringKeepsKey ==
    ASSUME GatewayType, KeyInv, NEW q \in Requests, StoreKey(q),
           \A p \in Requests : request[p].fetched \in Nat
    PROVE  KeyInv'
<1>1. /\ \A p \in Requests : p # q => request'[p] = request[p]
      /\ request'[q].pc = "closing" /\ request'[q].fetched = request[q].fetched
      /\ request'[q].tok = request[q].tok /\ request'[q].since = request[q].since
  <2>1. "closing" \in Pcs \cup Outcomes
    BY DEF Pcs
  <2>2. /\ \A p \in Requests : p # q => request'[p] = request[p]
        /\ request'[q] = [request[q] EXCEPT !.pc = "closing"] /\ request'[q].pc = "closing"
    BY <2>1, StepKeepsHandlers DEF StoreKey
  <2>3. request[q] \in Handler
    BY DEF GatewayType
  <2> QED
    BY <2>2, <2>3 DEF Handler
<1>2. /\ request[q].pc = "storing" /\ UNCHANGED key /\ cached' = request[q].fetched
      /\ \A p \in Requests : p \in overtaken' <=>
             \/ p \in overtaken
             \/ request[p].pc = "closing" /\ request[q].fetched < request[p].fetched
  BY DEF StoreKey
<1>3. KeyFits(q)'
  BY <1>1, <1>2 DEF KeyInv, KeyFits
<1>4. ASSUME NEW p \in Requests, p # q
      PROVE  KeyFits(p)'
  <2>1. KeyFits(p) /\ request'[p] = request[p]
    BY <1>1, <1>4 DEF KeyInv
  <2>2. request[p].pc = "closing" => request[p].fetched <= cached' \/ p \in overtaken'
    BY <1>2
  <2> QED
    BY <1>2, <2>1, <2>2 DEF KeyFits
<1>5. cached' <= key' /\ 1 <= key'
  BY <1>2 DEF KeyInv, KeyFits
<1> QED
  BY <1>3, <1>4, <1>5 DEF KeyInv

\* One request moves, the key and what is cached stay.
LEMMA OneMovesKeepsKey ==
    ASSUME KeyInv, UNCHANGED <<key, cached, overtaken>>, NEW q \in Requests,
           \A p \in Requests : p # q => request'[p] = request[p],
           KeyFits(q)'
    PROVE  KeyInv'
<1>1. ASSUME NEW p \in Requests, p # q
      PROVE  KeyFits(p)'
  <2>1. KeyFits(p) /\ request'[p] = request[p]
    BY <1>1 DEF KeyInv
  <2> QED
    BY <2>1 DEF KeyFits
<1> QED
  BY <1>1 DEF KeyInv

LEMMA KeyKept ==
    ASSUME GatewayType, GatewayAssumption, KeyInv, [HNext]_hvars
    PROVE  KeyInv'
<1> USE DEF GatewayType
<1>0. \A q \in Requests : /\ request[q].tok \in Nat /\ request[q].since \in Nat
                          /\ request[q].fetched \in Nat /\ key \in Nat
  BY DEF Handler
<1>1. ASSUME NEW q \in Requests,
             \/ Verify(q) \/ Decode(q) \/ Forward(q) \/ connect(q) \/ Broken(q) \/ Unreachable(q)
      PROVE  KeyInv'
  <2>1. /\ request[q].pc \notin {"none", "401"} /\ UNCHANGED <<key, cached, overtaken>>
        /\ Decode(q) => request[q].pc = "closing"
    BY <1>1 DEF Verify, Decode, Forward, connect, Broken, Unreachable, verification, keyCache
  <2>2. /\ \A p \in Requests : p # q => request'[p] = request[p]
        /\ request'[q].pc \notin {"none", "counting", "expiring", "storing"}
        /\ request'[q].tok = request[q].tok /\ request'[q].since = request[q].since
        /\ request'[q].pc = "401" => Decode(q) /\ cached # request[q].tok
    BY <1>1, VerifierMoves
  <2>3. request'[q].pc # "closing"
    <3>1. CASE Broken(q)
      BY <3>1, StepKeepsHandlers DEF Broken, Outcomes
    <3>2. CASE ~Broken(q)
      <4>1. request'[q].pc = "closing" => StoreKey(q)
        BY <1>1, VerifierMoves
      <4> QED
        BY <1>1, <3>2, <4>1 DEF Verify, StoreKey, Decode, Forward, connect, Unreachable
    <3> QED
      BY <3>1, <3>2
  <2>4. request'[q].pc = "401" =>
            request[q].tok < request[q].since \/ request[q].since < key \/ q \in overtaken
    <3>1. SUFFICES ASSUME request'[q].pc = "401", q \notin overtaken
                   PROVE  request[q].tok < request[q].since \/ request[q].since < key
      OBVIOUS
    <3>2. request[q].pc = "closing" /\ cached # request[q].tok /\ KeyFits(q) /\ cached <= key
      BY <2>1, <2>2, <3>1 DEF KeyInv
    <3> QED
      BY <1>0, <3>1, <3>2 DEF KeyFits
  <2>5. \A p \in Requests : request[p].pc = "401" =>
            request[p].tok < request[p].since \/ request[p].since < key \/ p \in overtaken
    BY DEF KeyInv, KeyFits
  <2>6. cached' \in Nat /\ cached' <= key
    BY <2>1 DEF KeyInv
  <2> QED
    BY <2>1, <2>2, <2>3, <2>4, <2>5, <2>6, KeyUndisturbed
<1>2. ASSUME NEW q \in Requests, Increment(q) \/ Expire(q)
      PROVE  KeyInv'
  <2>1. PICK pc \in {"expiring", "forwarding", "verifying", "401", "429"} :
            Goto(q, pc) /\ (pc = "401" => request[q].tok = NoKey)
    BY <1>2 DEF Increment, Expire, LetThrough, Admitted
  <2>2. /\ \A p \in Requests : p # q => request'[p] = request[p]
        /\ request'[q].pc = pc
        /\ request'[q].tok = request[q].tok /\ request'[q].since = request[q].since
    <3>1. pc \in Pcs \cup Outcomes
      BY DEF Pcs, Outcomes
    <3>2. /\ \A p \in Requests : p # q => request'[p] = request[p]
          /\ request'[q] = [request[q] EXCEPT !.pc = pc] /\ request'[q].pc = pc
      BY <2>1, <3>1, StepKeepsHandlers
    <3>3. request[q] \in Handler
      OBVIOUS
    <3> QED
      BY <3>2, <3>3 DEF Handler
  <2>3. UNCHANGED <<key, cached, overtaken>> /\ request[q].pc # "none"
    BY <1>2 DEF Increment, Expire, keyCache
  <2>4. \A p \in Requests : /\ request[p].pc = "401" =>
                                  \/ request[p].tok < request[p].since \/ request[p].since < key
                                  \/ p \in overtaken
                            /\ request[p].pc # "none" => 1 <= request[p].since
    BY DEF KeyInv, KeyFits
  <2>5. request'[q].pc = "401" => request[q].tok < request[q].since
    BY <1>0, <2>1, <2>2, <2>3, <2>4 DEF NoKey
  <2>6. cached' \in Nat /\ cached' <= key
    BY <2>3 DEF KeyInv
  <2> QED
    BY <2>1, <2>2, <2>3, <2>4, <2>5, <2>6, KeyUndisturbed
<1>3. ASSUME NEW q \in Requests, FetchKey(q)
      PROVE  KeyInv'
  <2>1. /\ \A p \in Requests : p # q => request'[p] = request[p]
        /\ request'[q].pc = "storing" /\ request'[q].fetched = key
        /\ request'[q].tok = request[q].tok /\ request'[q].since = request[q].since
        /\ request[q].pc # "none" /\ UNCHANGED <<key, cached, overtaken>>
    BY <1>3 DEF FetchKey, Handler, keyCache
  <2> QED
    <3>1. KeyFits(q) /\ 1 <= key
      BY DEF KeyInv
    <3>2. KeyFits(q)'
      BY <1>0, <2>1, <3>1 DEF KeyFits
    <3> QED
      BY <2>1, <3>2, OneMovesKeepsKey
<1>4. ASSUME NEW q \in Requests, NEW bucket, NEW public, NEW tok \in NoKey..key,
             Arrive(q, bucket, public, tok)
      PROVE  KeyInv'
  <2>1. /\ \A p \in Requests : p # q => request'[p] = request[p]
        /\ request'[q].pc = "counting" /\ request'[q].tok = tok /\ request'[q].since = key
    BY <1>4, ArrivalsAreFresh
  <2>2. UNCHANGED <<key, cached, overtaken>>
    BY <1>4 DEF Arrive, keyCache
  <2> QED
    <3>1. tok <= key /\ 1 <= key
      BY DEF KeyInv, NoKey
    <3>2. KeyFits(q)'
      BY <1>0, <2>1, <2>2, <3>1 DEF KeyFits
    <3> QED
      BY <2>1, <2>2, <3>2, OneMovesKeepsKey
<1>5. ASSUME NEW q \in Requests, NEW w, NEW u, Dial(q, w, u)
      PROVE  KeyInv'
  <2>1. /\ \A p \in Requests : p # q => request'[p] = request[p]
        /\ request'[q].pc = "verifying" /\ request'[q].tok = key /\ request'[q].since = key
    BY <1>5, CallersAreFresh
  <2>2. UNCHANGED <<key, cached, overtaken>>
    BY <1>5 DEF Dial, verification, keyCache
  <2> QED
    BY <1>0, <2>1, <2>2, OneMovesKeepsKey DEF KeyInv, KeyFits
<1>6. CASE RestartIdentity
  <2>1. key' = key + 1 /\ UNCHANGED <<cached, overtaken, request>>
    BY <1>6 DEF RestartIdentity, keyCache
  <2>2. ASSUME NEW q \in Requests
        PROVE  KeyFits(q)'
    <3>1. KeyFits(q)
      BY DEF KeyInv
    <3> QED
      BY <1>0, <2>1, <3>1 DEF KeyFits
  <2> QED
    BY <2>1, <2>2 DEF KeyInv
<1>7. CASE Crash
  <2>1. \A q \in Requests : /\ request'[q].pc \in {"none", "cut"}
                            /\ request'[q].pc = "cut" => /\ request[q].pc # "none"
                                                         /\ request'[q].tok = request[q].tok
                                                         /\ request'[q].since = request[q].since
    BY <1>7 DEF Crash, Fresh, Handler
  <2> QED
    BY <1>0, <1>7, <2>1, KeyUndisturbed DEF Crash, NoKey
<1>8. CASE \/ \E s \in Streams : Hub(s) \/ \E u \in Users \cup {Nobody} : Announce(s, u)
           \/ \E w \in Sockets : HangUp(w) \/ disconnect(w)
           \/ Tick \/ UNCHANGED hvars
  <2>1. UNCHANGED <<key, cached, overtaken, request>>
    BY <1>8
       DEF Hub, Advance, StartSending, FinishSending, SendJson, Announce, HangUp, disconnect,
           Tick, verification, hvars, keyCache
  <2> QED
    BY <2>1 DEF KeyInv, KeyFits
<1> QED
  BY <1>0, <1>1, <1>2, <1>3, <1>4, <1>5, <1>6, <1>7, <1>8, StoringKeepsKey DEF HNext, Handle

\* get_public_key, verify_token: for any number of requests and restarts of the identity service,
\* in whatever order the keys are fetched, stored and forgotten, a current token is refused only
\* if an older answer was stored between the request's own store and its use of the key.
THEOREM CurrentTokensAreAccepted == HSpec => []CurrentTokensPass
<1>1. GatewayType /\ KeyInv /\ [HNext]_hvars => KeyInv'
  BY KeyKept, GatewayAssumption
<1>2. HInit => KeyInv
  BY DEF HInit, KeyInv, KeyFits, Fresh, NoKey
<1>3. KeyInv => CurrentTokensPass
  BY DEF KeyInv, KeyFits, CurrentTokensPass
<1> QED
  BY <1>1, <1>2, <1>3, GatewayTypeCorrect, PTL DEF HSpec

-----------------------------------------------------------------------------
(* The registry of the hub.                                                *)

\* Nothing the registry is made of changes.
LEMMA RegistryUndisturbed ==
    ASSUME RegistryInv, UNCHANGED <<socket, registry, roles, sending, phase>>
    PROVE  RegistryInv'
BY DEF RegistryInv

LEMMA RegistryKept ==
    ASSUME GatewayType, GatewayAssumption, StreamInv, RegistryInv, [HNext]_hvars
    PROVE  RegistryInv'
<1> USE DEF GatewayType
<1>1. ASSUME NEW q \in Requests, connect(q)
      PROVE  RegistryInv'
  <2>1. PICK w \in Sockets : w = request[q].socket
    BY <1>1 DEF connect, Handler, HandlerFits
  <2>2. PICK u \in Users : u = socket[w].user
    BY <1>1, <2>1 DEF connect, RegistryInv
  <2>3. /\ \A v \in Sockets : v # w => socket'[v] = socket[v]
        /\ socket'[w].state = "open" /\ socket'[w].user = u
        /\ registry' = [registry EXCEPT ![u] = @ \cup {w}]
        /\ roles' = roles \cup {w} /\ UNCHANGED <<sending, phase>>
    BY <1>1, <2>1, <2>2 DEF connect, Connection, streamVars, consumer
  <2>4. \A x \in Users : registry'[x] = IF x = u THEN registry[u] \cup {w} ELSE registry[x]
    BY <2>3
  <2>5. ASSUME NEW x \in Users, NEW v \in registry'[x]
        PROVE  socket'[v].user = x /\ v \in roles'
    <3>1. \/ v = w /\ x = u
          \/ v \in registry[x]
      BY <2>4
    <3>2. v \in registry[x] => v \in Sockets /\ socket[v].user = x /\ v \in roles
      BY DEF RegistryInv
    <3>3. v \in Sockets => socket'[v].user = socket[v].user
      BY <2>2, <2>3
    <3> QED
      BY <2>3, <3>1, <3>2, <3>3
  <2>6. \A v \in roles' : socket'[v].state \in {"open", "left"} /\ v \in registry'[socket'[v].user]
    <3>1. ASSUME NEW v \in roles, v # w
          PROVE  socket'[v].state \in {"open", "left"} /\ v \in registry'[socket'[v].user]
      <4>1. v \in Sockets /\ socket[v].user \in Users
        BY DEF RegistryInv
      <4> QED
        BY <2>3, <2>4, <3>1, <4>1 DEF RegistryInv
    <3> QED
      BY <2>3, <2>4, <3>1
  <2> QED
    BY <2>3, <2>5, <2>6 DEF RegistryInv
<1>2. ASSUME NEW q \in Requests, NEW w \in Sockets, NEW u \in Users, Dial(q, w, u)
      PROVE  RegistryInv'
  <2>1. /\ \A v \in Sockets : v # w => socket'[v] = socket[v]
        /\ socket[w].state = "none" /\ socket'[w].state = "dialing" /\ socket'[w].user = u
        /\ UNCHANGED <<registry, roles, sending, phase>>
    BY <1>2 DEF Dial, Connection, streamVars, consumer
  <2>2. \A v \in roles : v # w /\ v \in Sockets
    BY <2>1 DEF RegistryInv
  <2>3. \A x \in Users : \A v \in registry[x] : v # w /\ v \in Sockets
    BY <2>2 DEF RegistryInv
  <2>4. \A x \in Users : \A v \in registry[x] : socket'[v].user = x /\ v \in roles
    BY <2>1, <2>3 DEF RegistryInv
  <2>5. \A v \in roles : socket'[v].state \in {"open", "left"} /\ v \in registry[socket'[v].user]
    BY <2>1, <2>2 DEF RegistryInv
  <2> QED
    BY <2>1, <2>2, <2>4, <2>5 DEF RegistryInv
<1>3. ASSUME NEW w \in Sockets, HangUp(w)
      PROVE  RegistryInv'
  <2>1. /\ \A v \in Sockets : v # w => socket'[v] = socket[v]
        /\ socket[w].state = "open" /\ socket'[w].state = "left"
        /\ socket'[w].user = socket[w].user
        /\ UNCHANGED <<registry, roles, sending, phase>>
    BY <1>3 DEF HangUp, Connection, streamVars, consumer
  <2>2. \A v \in Sockets : /\ socket'[v].user = socket[v].user
                           /\ socket'[v].state = socket[v].state \/ v = w
    BY <2>1
  <2>3. ASSUME NEW x \in Users, NEW v \in registry[x]
        PROVE  socket'[v].user = x /\ v \in roles
    <3>1. v \in Sockets /\ socket[v].user = x /\ v \in roles
      BY DEF RegistryInv
    <3> QED
      BY <2>2, <3>1
  <2>4. \A v \in roles : socket'[v].state \in {"open", "left"} /\ v \in registry[socket'[v].user]
    BY <2>1, <2>2 DEF RegistryInv
  <2> QED
    BY <2>1, <2>2, <2>3, <2>4 DEF RegistryInv
<1>4. ASSUME NEW w \in Sockets, disconnect(w)
      PROVE  RegistryInv'
  <2>1. PICK u \in Users : u = socket[w].user
    BY <1>4 DEF disconnect, RegistryInv
  <2>2. /\ \A v \in Sockets : v # w => socket'[v] = socket[v]
        /\ socket'[w].state = "closed" /\ socket'[w].user = u
        /\ registry' = [registry EXCEPT ![u] = @ \ {w}]
        /\ roles' = roles \ {w} /\ UNCHANGED <<sending, phase>>
    BY <1>4, <2>1 DEF disconnect, Connection, streamVars, consumer
  <2>3. \A x \in Users : registry'[x] = IF x = u THEN registry[u] \ {w} ELSE registry[x]
    BY <2>2
  <2>4. \A x \in Users : w \notin registry'[x]
    <3>1. \A x \in Users : w \in registry[x] => x = u
      BY <2>1 DEF RegistryInv
    <3> QED
      BY <2>3, <3>1
  <2>5. \A x \in Users : \A v \in registry'[x] : socket'[v].user = x /\ v \in roles'
    BY <2>2, <2>3, <2>4 DEF RegistryInv
  <2>6. ASSUME NEW v \in roles'
        PROVE  socket'[v].state \in {"open", "left"} /\ v \in registry'[socket'[v].user]
    <3>1. v \in roles /\ v # w /\ v \in Sockets
      BY <2>2
    <3>2. socket[v].user \in Users /\ v \in registry[socket[v].user]
      BY <3>1 DEF RegistryInv
    <3> QED
      BY <2>2, <2>3, <3>1, <3>2 DEF RegistryInv
  <2> QED
    BY <2>2, <2>5, <2>6, ZenonT(60) DEF RegistryInv
<1>5. CASE Crash
  <2>1. \A w \in Sockets : socket'[w].user = socket[w].user /\ socket'[w].state \in {"none", "closed"}
                           /\ (socket'[w].state # "none" => socket[w].state # "none")
    BY <1>5 DEF Crash, Connection
  <2> QED
    BY <1>5, <2>1 DEF Crash, RegistryInv
<1>6. ASSUME NEW s \in Streams, Hub(s)
      PROVE  RegistryInv'
  <2>1. UNCHANGED <<socket, registry, roles>>
    BY <1>6 DEF Hub, Advance, StartSending, FinishSending, SendJson, hub
  <2>2. \A r \in Streams : sending'[r] # {} => phase'[r] = "handling"
    <3>1. CASE Advance(s)
      <4>1. phase[s] # "handling" /\ \A r \in Streams : r # s => phase'[r] = phase[r]
        BY <3>1 DEF Advance, Loop, Read, ReadFails, Deliverable, Ack, AckFails, StreamInv, LoopInv
      <4> QED
        BY <3>1, <4>1 DEF Advance, hub, RegistryInv
    <3>2. CASE StartSending(s)
      BY <3>2 DEF StartSending, Start, StreamInv, LoopInv, RegistryInv
    <3>3. CASE FinishSending(s)
      BY <3>3 DEF FinishSending, Complete, StreamInv, LoopInv, RegistryInv
    <3>4. ASSUME NEW w \in Sockets, SendJson(s, w)
          PROVE  \A r \in Streams : sending'[r] # {} => phase'[r] = "handling"
      BY <3>4 DEF SendJson, RegistryInv, streamVars, consumer
    <3> QED
      BY <1>6, <3>1, <3>2, <3>3, <3>4 DEF Hub
  <2> QED
    BY <2>1, <2>2 DEF RegistryInv
<1>7. ASSUME NEW q \in Requests,
             \/ Increment(q) \/ Expire(q) \/ Verify(q) \/ FetchKey(q) \/ StoreKey(q) \/ Decode(q)
             \/ Forward(q) \/ Broken(q) \/ Unreachable(q)
             \/ \E bucket \in Buckets, public \in BOOLEAN, tok \in NoKey..key :
                   Arrive(q, bucket, public, tok)
      PROVE  UNCHANGED <<socket, registry, roles, sending, phase>>
  BY <1>7 DEF Increment, Expire, Verify, FetchKey, StoreKey, Decode, Forward, Broken, Unreachable,
              Arrive, HubOnly, hub, streamVars, consumer
<1>8. CASE \/ \E s \in Streams, u \in Users \cup {Nobody} : Announce(s, u)
           \/ RestartIdentity \/ Tick \/ UNCHANGED hvars
  BY <1>8, RegistryUndisturbed
     DEF Announce, RestartIdentity, Tick, HubOnly, hub, streamVars, consumer, hvars
<1> QED
  BY <1>1, <1>2, <1>3, <1>4, <1>5, <1>6, <1>7, <1>8, RegistryUndisturbed DEF HNext, Handle

-----------------------------------------------------------------------------
(* What the sockets receive.                                               *)

\* The hub does nothing about s and w, and w is not opened.
LEMMA PairKept ==
    ASSUME NEW w \in Sockets, NEW s \in Streams, PairInv(w, s),
           streams'[s] = streams[s], next'[s] = next[s], phase'[s] = phase[s],
           w \in sending'[s] <=> w \in sending[s],
           \A k \in Nat : <<s, k>> \in handled' <=> <<s, k>> \in handled,
           inbox'[w] = inbox[w] \/ \A k : Got(w, s, k)' <=> Got(w, s, k),
           socket[w].state # "none" => socket'[w].state # "none" /\ socket'[w].user = socket[w].user,
           socket'[w].state = "open" => socket[w].state = "open" /\ socket'[w].since = socket[w].since
    PROVE  PairInv(w, s)'
<1>1. \A k : Got(w, s, k)' <=> Got(w, s, k)
  BY DEF Got
<1>2. socket[w].state # "none" => \A k : Concerns(s, k, w)' <=> Concerns(s, k, w)
  BY DEF Concerns
<1>3. GotInv(w, s)'
  BY <1>1, <1>2 DEF PairInv, GotInv
<1>4. SendingInv(w, s)'
  BY <1>1, <1>2 DEF PairInv, SendingInv
<1>5. HandledInv(w, s)'
  BY <1>1, <1>2 DEF PairInv, HandledInv
<1> QED
  BY <1>3, <1>4, <1>5 DEF PairInv

\* The task of s goes on without its handler: nothing is being written.
LEMMA TaskKeepsPair ==
    ASSUME GatewayType, NEW w \in Sockets, NEW s \in Streams, PairInv(w, s),
           LoopInv(Audience), LoopInv(Audience)',
           streams'[s] = streams[s], sending'[s] = {}, phase'[s] # "handling",
           phase[s] # "handling" \/ next'[s] > next[s],
           next'[s] >= next[s], next'[s] = next[s] => phase'[s] = phase[s] \/ phase'[s] = "dead",
           UNCHANGED handled, inbox'[w] = inbox[w],
           socket[w].state # "none" => socket'[w].state # "none" /\ socket'[w].user = socket[w].user,
           socket'[w].state = "open" => socket[w].state = "open" /\ socket'[w].since = socket[w].since
    PROVE  PairInv(w, s)'
<1>1. \A k : Got(w, s, k)' <=> Got(w, s, k)
  BY DEF Got
<1>2. socket[w].state # "none" => \A k : Concerns(s, k, w)' <=> Concerns(s, k, w)
  BY DEF Concerns
<1>3. next[s] \in Nat /\ next'[s] \in Nat
  BY DEF LoopInv
<1>4. GotInv(w, s)'
  <2>1. ASSUME NEW k \in Nat, Got(w, s, k)'
        PROVE  /\ k \in 1..Len(streams[s])
               /\ socket'[w].state # "none" /\ Concerns(s, k, w)'
               /\ k < next'[s] \/ (k = next'[s] /\ phase'[s] # "loop")
    <3>1. /\ k \in 1..Len(streams[s]) /\ socket[w].state # "none" /\ Concerns(s, k, w)
          /\ k < next[s] \/ (k = next[s] /\ phase[s] # "loop")
      BY <1>1, <2>1 DEF PairInv, GotInv
    <3>2. k < next'[s] \/ (k = next'[s] /\ phase'[s] # "loop")
      BY <1>3, <3>1
    <3> QED
      BY <1>2, <3>1, <3>2
  <2> QED
    BY <2>1 DEF GotInv
<1>5. SendingInv(w, s)'
  BY DEF SendingInv
<1>6. HandledInv(w, s)'
  BY <1>1, <1>2 DEF PairInv, HandledInv
<1> QED
  BY <1>4, <1>5, <1>6 DEF PairInv

LEMMA SocketsKeepInbox ==
    ASSUME InboxInv, UNCHANGED <<streams, next, phase, sending, handled, inbox>>,
           \A w \in Sockets :
              /\ socket[w].state # "none" =>
                    socket'[w].state # "none" /\ socket'[w].user = socket[w].user
              /\ socket'[w].state = "open" =>
                    socket[w].state = "open" /\ socket'[w].since = socket[w].since
    PROVE  InboxInv'
<1>1. \A w \in Sockets, s \in Streams : PairInv(w, s)'
  BY PairKept DEF InboxInv
<1>2. \A w \in Sockets : NothingTwice(w)'
  BY DEF InboxInv, NothingTwice
<1> QED
  BY <1>1, <1>2 DEF InboxInv

LEMMA ConnectKeepsInbox ==
    ASSUME GatewayType, GatewayAssumption, StreamInv, InboxInv, NEW q \in Requests, connect(q)
    PROVE  InboxInv'
<1> USE DEF GatewayType
<1>1. PICK w \in Sockets : w = request[q].socket
  BY DEF connect, Handler, HandlerFits
<1>2. /\ \A v \in Sockets : v # w => socket'[v] = socket[v]
      /\ socket[w].state = "dialing" /\ socket'[w].state = "open"
      /\ socket'[w].user = socket[w].user
      /\ \A s \in Streams : socket'[w].since[s] = Len(streams[s])
      /\ UNCHANGED <<streams, next, phase, sending, handled, inbox>>
  BY <1>1 DEF connect, Connection, streamVars, consumer
<1>3. ASSUME NEW v \in Sockets, NEW s \in Streams, v # w
      PROVE  PairInv(v, s)'
  BY <1>2, <1>3, PairKept DEF InboxInv
<1>4. ASSUME NEW s \in Streams
      PROVE  PairInv(w, s)'
  <2>1. PairInv(w, s)
    BY DEF InboxInv
  <2>2. \A k : (Got(w, s, k)' <=> Got(w, s, k)) /\ (Concerns(s, k, w)' <=> Concerns(s, k, w))
    BY <1>2 DEF Got, Concerns
  <2>3. Len(streams[s]) \in Nat /\ next[s] \in Nat
    BY DEF StreamInv, LoopInv
  <2>4. phase[s] = "handling" => next[s] <= Len(streams[s])
    BY <2>3, CurrentIsPublished
  <2>5. GotInv(w, s)'
    BY <1>2, <2>1, <2>2 DEF PairInv, GotInv
  <2>6. SendingInv(w, s)'
    BY <1>2, <2>1, <2>2, <2>3, <2>4 DEF PairInv, SendingInv
  <2>7. HandledInv(w, s)'
    BY <1>2, <2>1, <2>3 DEF PairInv, HandledInv
  <2> QED
    BY <2>5, <2>6, <2>7 DEF PairInv
<1>5. \A v \in Sockets : NothingTwice(v)'
  BY <1>2 DEF InboxInv, NothingTwice
<1> QED
  BY <1>3, <1>4, <1>5 DEF InboxInv

LEMMA TaskStepsKeepInbox ==
    ASSUME GatewayType, GatewayAssumption, StreamInv, StreamInv', RegistryInv, RegistryInv', InboxInv,
           NEW s \in Streams, Advance(s)
    PROVE  InboxInv'
<1>1. UNCHANGED <<streams, socket, sending, handled, inbox>>
  BY DEF Advance, hub, Loop, Read, ReadFails, Ack, AckFails
<1>2. /\ \A r \in Streams : r # s => next'[r] = next[r] /\ phase'[r] = phase[r]
      /\ phase'[s] # "handling" /\ phase[s] # "handling"
      /\ next'[s] >= next[s]
      /\ next'[s] = next[s] => phase'[s] = phase[s] \/ phase'[s] = "dead"
  <2>1. /\ next \in [Streams -> Nat] /\ phase \in [Streams -> Phases]
        /\ next' \in [Streams -> Nat] /\ delivered \in [Streams -> Nat]
    BY DEF StreamInv, LoopInv
  <2>2. CASE Read(s)
    BY <2>1, <2>2 DEF Read, Deliverable
  <2>3. CASE ReadFails(s)
    <3>1. delivered'[s] > delivered[s] /\ delivered' \in [Streams -> Nat]
      BY <2>3, DeliverAdvances DEF ReadFails, StreamInv
    <3>2. /\ next'[s] = delivered'[s] + 1 /\ next[s] = delivered[s] + 1
          /\ phase[s] = "loop" /\ phase' = phase
          /\ \A r \in Streams : r # s => next'[r] = next[r]
      BY <2>1, <2>3 DEF ReadFails, Deliverable
    <3>3. next'[s] > next[s]
      BY <2>1, <3>1, <3>2
    <3> QED
      BY <2>1, <3>2, <3>3
  <2>4. CASE Ack(s) \/ AckFails(s)
    BY <2>1, <2>4 DEF Ack, AckFails
  <2> QED
    BY <2>2, <2>3, <2>4 DEF Advance, Loop
<1>3. sending[s] = {}
  BY <1>2 DEF RegistryInv
<1>4. \A w \in Sockets : PairInv(w, s)'
  BY <1>1, <1>2, <1>3, TaskKeepsPair DEF InboxInv, StreamInv
<1>5. \A w \in Sockets, r \in Streams : r # s => PairInv(w, r)'
  BY <1>1, <1>2, PairKept DEF InboxInv
<1>6. \A w \in Sockets : NothingTwice(w)'
  BY <1>1 DEF InboxInv, NothingTwice
<1> QED
  BY <1>4, <1>5, <1>6 DEF InboxInv

\* The handler of s is called and finds everybody who is there.
LEMMA StartKeepsInbox ==
    ASSUME GatewayType, GatewayAssumption, StreamInv, RegistryInv, InboxInv,
           NEW s \in Streams, StartSending(s)
    PROVE  InboxInv'
<1> USE DEF GatewayType
<1>1. /\ UNCHANGED <<streams, next, socket, registry, roles, handled, inbox>>
      /\ \A r \in Streams : r # s => sending'[r] = sending[r] /\ phase'[r] = phase[r]
      /\ phase[s] = "loop" /\ phase'[s] = "handling" /\ sending'[s] = Addressees(s)
      /\ next[s] <= delivered[s]
  BY DEF StartSending, Start, StreamInv, LoopInv
<1>2. /\ Addressees(s) \subseteq Sockets
      /\ Current(s) \in Audience /\ (Current(s) = Nobody <=> s = "incident.sla_breached")
  BY <1>1, AddresseesAreSockets, CurrentIsPublished DEF Current
<1>3. ASSUME NEW w \in Sockets
      PROVE  /\ w \in Addressees(s) => socket[w].state # "none" /\ Concerns(s, next[s], w)
             /\ socket[w].state = "open" /\ Concerns(s, next[s], w) => w \in Addressees(s)
  <2>1. CASE s = "incident.sla_breached"
    BY <2>1 DEF Addressees, Concerns, RegistryInv
  <2>2. CASE s # "incident.sla_breached"
    <3>1. Current(s) \in Users
      BY <1>2, <2>2 DEF Audience
    <3>2. w \in registry[Current(s)] <=> w \in roles /\ socket[w].user = Current(s)
      BY <3>1 DEF RegistryInv
    <3> QED
      BY <2>2, <3>1, <3>2 DEF Addressees, Concerns, Current, RegistryInv
  <2> QED
    BY <2>1, <2>2
<1>4. ASSUME NEW w \in Sockets
      PROVE  PairInv(w, s)'
  <2>1. PairInv(w, s)
    BY DEF InboxInv
  <2>2. \A k : (Got(w, s, k)' <=> Got(w, s, k)) /\ (Concerns(s, k, w)' <=> Concerns(s, k, w))
    BY <1>1 DEF Got, Concerns
  <2>3. next[s] \in Nat
    BY DEF StreamInv, LoopInv
  <2>4. GotInv(w, s)'
    BY <1>1, <2>1, <2>2 DEF PairInv, GotInv
  <2>5. SendingInv(w, s)'
    BY <1>1, <1>3, <2>2 DEF SendingInv
  <2>6. HandledInv(w, s)'
    BY <1>1, <2>1, <2>2 DEF PairInv, HandledInv
  <2> QED
    BY <2>4, <2>5, <2>6 DEF PairInv
<1>5. \A w \in Sockets, r \in Streams : r # s => PairInv(w, r)'
  BY <1>1, PairKept DEF InboxInv
<1>6. \A w \in Sockets : NothingTwice(w)'
  BY <1>1 DEF InboxInv, NothingTwice
<1> QED
  BY <1>4, <1>5, <1>6 DEF InboxInv

\* Nobody is left to be written to, and the handler of s returns.
LEMMA FinishKeepsInbox ==
    ASSUME GatewayType, GatewayAssumption, StreamInv, RegistryInv, InboxInv,
           NEW s \in Streams, FinishSending(s)
    PROVE  InboxInv'
<1>1. /\ UNCHANGED <<streams, next, socket, sending, inbox>>
      /\ \A r \in Streams : r # s => phase'[r] = phase[r]
      /\ phase[s] = "handling" /\ phase'[s] = "acking" /\ sending[s] = {}
      /\ handled' = handled \cup {<<s, next[s]>>}
  BY DEF FinishSending, Complete, StreamInv, LoopInv
<1>2. next[s] \in 1..Len(streams[s]) /\ next[s] \in Nat
  BY <1>1, CurrentIsPublished DEF StreamInv, LoopInv
<1>3. \A r, k : <<r, k>> \in handled' <=> <<r, k>> \in handled \/ (r = s /\ k = next[s])
  BY <1>1
<1>4. ASSUME NEW w \in Sockets
      PROVE  PairInv(w, s)'
  <2>1. PairInv(w, s)
    BY DEF InboxInv
  <2>2. \A k : (Got(w, s, k)' <=> Got(w, s, k)) /\ (Concerns(s, k, w)' <=> Concerns(s, k, w))
    BY <1>1 DEF Got, Concerns
  <2>3. GotInv(w, s)'
    BY <1>1, <2>1, <2>2 DEF PairInv, GotInv
  <2>4. SendingInv(w, s)'
    BY <1>1 DEF SendingInv
  <2>5. socket[w].state = "open" /\ next[s] > socket[w].since[s] /\ Concerns(s, next[s], w)
            => Got(w, s, next[s])
    BY <1>1, <2>1 DEF PairInv, SendingInv
  <2>6. HandledInv(w, s)'
    BY <1>1, <1>2, <1>3, <2>1, <2>2, <2>5 DEF PairInv, HandledInv
  <2> QED
    BY <2>3, <2>4, <2>6 DEF PairInv
<1>5. \A w \in Sockets, r \in Streams : r # s => PairInv(w, r)'
  BY <1>1, <1>3, PairKept DEF InboxInv
<1>6. \A w \in Sockets : NothingTwice(w)'
  BY <1>1 DEF InboxInv, NothingTwice
<1> QED
  BY <1>4, <1>5, <1>6 DEF InboxInv

\* One send_json: an open socket gets the event it has not got yet.
LEMMA SendKeepsInbox ==
    ASSUME GatewayType, GatewayAssumption, StreamInv, RegistryInv, InboxInv,
           NEW s \in Streams, NEW w \in Sockets, SendJson(s, w)
    PROVE  InboxInv'
<1> USE DEF GatewayType
<1>1. /\ UNCHANGED <<streams, next, phase, socket, handled>>
      /\ w \in sending[s] /\ sending' = [sending EXCEPT ![s] = @ \ {w}]
      /\ \A v \in Sockets : v # w => inbox'[v] = inbox[v]
      /\ IF socket[w].state = "open" THEN inbox'[w] = Append(inbox[w], <<s, next[s]>>)
                                     ELSE inbox'[w] = inbox[w]
  BY DEF SendJson, streamVars, consumer
<1>2. phase[s] = "handling" /\ next[s] \in Nat /\ next[s] \in 1..Len(streams[s])
  BY <1>1, CurrentIsPublished DEF RegistryInv, StreamInv, LoopInv
<1>3. PairInv(w, s) /\ NothingTwice(w)
  BY DEF InboxInv
<1>4. ~Got(w, s, next[s])
  BY <1>1, <1>2, <1>3 DEF PairInv, GotInv
<1>5. socket[w].state # "none" /\ Concerns(s, next[s], w)
  BY <1>1, <1>3 DEF PairInv, SendingInv
<1>6. Len(inbox[w]) \in Nat /\ inbox[w] \in Seq(Receipts) /\ <<s, next[s]>> \in Receipts
  BY <1>2 DEF Receipts
<1>7. CASE socket[w].state = "open"
  <2>1. PICK l \in Nat : l = Len(inbox[w])
    BY <1>6
  <2>2. /\ Len(inbox'[w]) = l + 1
        /\ inbox'[w][l + 1] = <<s, next[s]>>
        /\ \A n \in 1..l : inbox'[w][n] = inbox[w][n]
    <3>1. PICK e \in Receipts : e = <<s, next[s]>>
      BY <1>6
    <3>2. PICK b \in Seq(Receipts) : b = inbox[w]
      BY <1>6
    <3>3. inbox'[w] = Append(b, e) /\ l = Len(b)
      BY <1>1, <1>7, <2>1, <3>1, <3>2
    <3>4. /\ Len(Append(b, e)) = Len(b) + 1
          /\ Append(b, e)[Len(b) + 1] = e
          /\ \A n \in 1..Len(b) : Append(b, e)[n] = b[n]
      BY Appending
    <3> QED
      BY <3>1, <3>2, <3>3, <3>4, Zenon
  <2>3. \A n : n \in 1..(l + 1) <=> n \in 1..l \/ n = l + 1
    BY <2>1
  <2>4. \A r, k : Got(w, r, k)' <=> Got(w, r, k) \/ (r = s /\ k = next[s])
    <3>1. ASSUME NEW r, NEW k
          PROVE  (\E n \in 1..(l + 1) : inbox'[w][n] = <<r, k>>)
                     <=> (\E n \in 1..l : inbox[w][n] = <<r, k>>) \/ <<r, k>> = <<s, next[s]>>
      BY <2>2, <2>3, Zenon
    <3>2. \A r, k : <<r, k>> = <<s, next[s]>> <=> r = s /\ k = next[s]
      OBVIOUS
    <3>3. ASSUME NEW r, NEW k
          PROVE  Got(w, r, k)' <=> Got(w, r, k) \/ (r = s /\ k = next[s])
      <4>1. Got(w, r, k)' <=> Got(w, r, k) \/ <<r, k>> = <<s, next[s]>>
        <5>1. Got(w, r, k)' <=> \E n \in 1..(l + 1) : inbox'[w][n] = <<r, k>>
          BY <2>2, Zenon DEF Got
        <5>2. Got(w, r, k) <=> \E n \in 1..l : inbox[w][n] = <<r, k>>
          BY <2>1, Zenon DEF Got
        <5> QED
          BY <3>1, <5>1, <5>2, Zenon
      <4> QED
        BY <3>2, <4>1
    <3> QED
      BY <3>3
  <2>5. NothingTwice(w)'
    <3>1. ASSUME NEW m \in 1..Len(inbox'[w]), NEW n \in 1..Len(inbox'[w]),
                 inbox'[w][m] = inbox'[w][n]
          PROVE  m = n
      <4>1. \A i \in 1..l : inbox'[w][i] # <<s, next[s]>>
        BY <1>4, <2>1, <2>2 DEF Got
      <4>2. m \in 1..l \/ m = l + 1
        BY <2>2, <2>3
      <4>3. n \in 1..l \/ n = l + 1
        BY <2>2, <2>3
      <4>4. CASE m \in 1..l /\ n \in 1..l
        BY <1>3, <2>1, <2>2, <3>1, <4>4 DEF NothingTwice
      <4> QED
        BY <2>2, <3>1, <4>1, <4>2, <4>3, <4>4
    <3> QED
      BY <3>1 DEF NothingTwice
  <2>6. PairInv(w, s)'
    <3>1. \A k : Concerns(s, k, w)' <=> Concerns(s, k, w)
      BY <1>1 DEF Concerns
    <3>2. w \notin sending'[s]
      BY <1>1
    <3>3. GotInv(w, s)'
      BY <1>1, <1>2, <1>3, <1>5, <2>4, <3>1, <3>2 DEF PairInv, GotInv
    <3>4. SendingInv(w, s)'
      BY <1>1, <2>4, <3>2 DEF SendingInv
    <3>5. HandledInv(w, s)'
      BY <1>1, <1>3, <2>4, <3>1 DEF PairInv, HandledInv
    <3> QED
      BY <3>3, <3>4, <3>5 DEF PairInv
  <2>7. ASSUME NEW r \in Streams, r # s
        PROVE  PairInv(w, r)'
    <3>1. PairInv(w, r) /\ \A k : Got(w, r, k)' <=> Got(w, r, k)
      BY <2>4, <2>7 DEF InboxInv
    <3> QED
      BY <1>1, <2>7, <3>1, PairKept
  <2>8. ASSUME NEW v \in Sockets, NEW r \in Streams, v # w
        PROVE  PairInv(v, r)'
    BY <1>1, <2>8, PairKept DEF InboxInv
  <2>9. \A v \in Sockets : v # w => NothingTwice(v)'
    BY <1>1 DEF InboxInv, NothingTwice
  <2> QED
    BY <2>5, <2>6, <2>7, <2>8, <2>9 DEF InboxInv
<1>8. CASE socket[w].state # "open"
  <2>1. \A v \in Sockets : inbox'[v] = inbox[v]
    BY <1>1, <1>8
  <2>2. ASSUME NEW v \in Sockets, NEW r \in Streams, v # w \/ r # s
        PROVE  PairInv(v, r)'
    BY <1>1, <2>1, <2>2, PairKept DEF InboxInv
  <2>3. PairInv(w, s)'
    <3>1. \A k : (Got(w, s, k)' <=> Got(w, s, k)) /\ (Concerns(s, k, w)' <=> Concerns(s, k, w))
      BY <1>1, <2>1 DEF Got, Concerns
    <3>2. w \notin sending'[s]
      BY <1>1
    <3>3. GotInv(w, s)'
      BY <1>1, <1>3, <3>1, <3>2 DEF PairInv, GotInv
    <3>4. SendingInv(w, s)'
      BY <1>1, <1>8, <3>2 DEF SendingInv
    <3>5. HandledInv(w, s)'
      BY <1>1, <1>3, <3>1 DEF PairInv, HandledInv
    <3> QED
      BY <3>3, <3>4, <3>5 DEF PairInv
  <2>4. \A v \in Sockets : NothingTwice(v)'
    BY <2>1 DEF InboxInv, NothingTwice
  <2> QED
    BY <2>2, <2>3, <2>4 DEF InboxInv
<1> QED
  BY <1>7, <1>8

\* A new event has been handled by nobody and is not what is being handled.
LEMMA AnnounceKeepsInbox ==
    ASSUME GatewayType, GatewayAssumption, StreamInv, RegistryInv, InboxInv,
           NEW s \in Streams, NEW u \in Audience, Announce(s, u)
    PROVE  InboxInv'
<1>1. /\ UNCHANGED <<next, phase, socket, sending, handled, inbox>>
      /\ \A r \in Streams : r # s => streams'[r] = streams[r]
      /\ streams[s] \in Seq(Audience) /\ Len(streams[s]) \in Nat
      /\ streams'[s] = Append(streams[s], u)
  BY DEF Announce, Published, hub, consumer, StreamInv, LoopInv
<1>2. /\ Len(streams'[s]) = Len(streams[s]) + 1
      /\ \A k \in 1..Len(streams[s]) : streams'[s][k] = streams[s][k]
  BY <1>1
<1>3. ASSUME NEW w \in Sockets
      PROVE  PairInv(w, s)'
  <2>1. PairInv(w, s)
    BY DEF InboxInv
  <2>2. /\ \A k : Got(w, s, k)' <=> Got(w, s, k)
        /\ \A k \in 1..Len(streams[s]) : Concerns(s, k, w)' <=> Concerns(s, k, w)
    BY <1>1, <1>2 DEF Got, Concerns
  <2>3. \A k \in 1..Len(streams[s]) : k \in 1..Len(streams'[s])
    BY <1>1, <1>2
  <2>4. GotInv(w, s)'
    BY <1>1, <2>1, <2>2, <2>3 DEF PairInv, GotInv
  <2>5. w \in sending[s] \/ phase[s] = "handling" => next[s] \in 1..Len(streams[s])
    BY CurrentIsPublished DEF RegistryInv
  <2>6. SendingInv(w, s)'
    BY <1>1, <2>1, <2>2, <2>5 DEF PairInv, SendingInv
  <2>7. HandledInv(w, s)'
    BY <1>1, <2>1, <2>2, <2>3 DEF PairInv, HandledInv
  <2> QED
    BY <2>4, <2>6, <2>7 DEF PairInv
<1>4. \A w \in Sockets, r \in Streams : r # s => PairInv(w, r)'
  BY <1>1, PairKept DEF InboxInv
<1>5. \A w \in Sockets : NothingTwice(w)'
  BY <1>1 DEF InboxInv, NothingTwice
<1> QED
  BY <1>3, <1>4, <1>5 DEF InboxInv

\* The sockets are closed, and every task stands behind what was delivered.
LEMMA CrashKeepsInbox ==
    ASSUME GatewayType, GatewayAssumption, StreamInv, StreamInv', InboxInv, Crash
    PROVE  InboxInv'
<1>1. /\ UNCHANGED <<streams, handled, inbox, delivered>>
      /\ \A s \in Streams : phase'[s] = "loop" /\ next'[s] = delivered[s] + 1 /\ sending'[s] = {}
      /\ \A w \in Sockets : /\ socket[w].state # "none" => socket'[w].state # "none"
                            /\ socket'[w].user = socket[w].user
                            /\ socket'[w].state # "open"
  BY DEF Crash, Restart, GatewayType, Connection
<1>2. ASSUME NEW w \in Sockets, NEW s \in Streams
      PROVE  PairInv(w, s)'
  <2>1. PairInv(w, s)
    BY DEF InboxInv
  <2>2. \A k : (Got(w, s, k)' <=> Got(w, s, k)) /\ (Concerns(s, k, w)' <=> Concerns(s, k, w))
    BY <1>1 DEF Got, Concerns
  <2>3. next[s] \in Nat /\ delivered[s] \in Nat /\ TaskInBatch(s) /\ phase[s] \in Phases
    BY DEF StreamInv, LoopInv
  <2>4. GotInv(w, s)'
    <3>1. ASSUME NEW k \in Nat, Got(w, s, k)
          PROVE  k < delivered[s] + 1
      <4>1. k < next[s] \/ (k = next[s] /\ phase[s] # "loop")
        BY <2>1, <3>1 DEF PairInv, GotInv
      <4> QED
        BY <2>3, <4>1 DEF TaskInBatch, Phases
    <3> QED
      BY <1>1, <2>1, <2>2, <3>1 DEF PairInv, GotInv
  <2>5. SendingInv(w, s)'
    BY <1>1 DEF SendingInv
  <2>6. HandledInv(w, s)'
    BY <1>1, <2>1 DEF PairInv, HandledInv
  <2> QED
    BY <2>4, <2>5, <2>6 DEF PairInv
<1>3. \A w \in Sockets : NothingTwice(w)'
  BY <1>1 DEF InboxInv, NothingTwice
<1> QED
  BY <1>2, <1>3 DEF InboxInv

LEMMA InboxKept ==
    ASSUME GatewayType, GatewayAssumption, StreamInv, StreamInv', RegistryInv, RegistryInv', InboxInv,
           [HNext]_hvars
    PROVE  InboxInv'
<1> USE DEF GatewayType
<1>1. ASSUME NEW s \in Streams, Hub(s)
      PROVE  InboxInv'
  BY <1>1, TaskStepsKeepInbox, StartKeepsInbox, FinishKeepsInbox, SendKeepsInbox DEF Hub
<1>2. ASSUME NEW s \in Streams, NEW u \in Audience, Announce(s, u)
      PROVE  InboxInv'
  BY <1>2, AnnounceKeepsInbox
<1>3. ASSUME NEW q \in Requests, connect(q)
      PROVE  InboxInv'
  BY <1>3, ConnectKeepsInbox
<1>4. ASSUME NEW q \in Requests, NEW w \in Sockets, NEW u \in Users, Dial(q, w, u)
      PROVE  InboxInv'
  <2>1. /\ \A v \in Sockets : v # w => socket'[v] = socket[v]
        /\ socket[w].state = "none" /\ socket'[w].state = "dialing"
        /\ UNCHANGED <<streams, next, phase, sending, handled, inbox>>
    BY <1>4 DEF Dial, Connection, streamVars, consumer
  <2> QED
    BY <2>1, SocketsKeepInbox
<1>5. ASSUME NEW w \in Sockets, HangUp(w) \/ disconnect(w)
      PROVE  InboxInv'
  <2>1. /\ \A v \in Sockets : v # w => socket'[v] = socket[v]
        /\ socket'[w].state \in {"left", "closed"} /\ socket'[w].user = socket[w].user
        /\ UNCHANGED <<streams, next, phase, sending, handled, inbox>>
    BY <1>5 DEF HangUp, disconnect, Connection, streamVars, consumer
  <2> QED
    BY <2>1, SocketsKeepInbox
<1>6. CASE Crash
  BY <1>6, CrashKeepsInbox
<1>7. ASSUME NEW q \in Requests,
             \/ Increment(q) \/ Expire(q) \/ Verify(q) \/ FetchKey(q) \/ StoreKey(q) \/ Decode(q)
             \/ Forward(q) \/ Broken(q) \/ Unreachable(q)
             \/ \E bucket \in Buckets, public \in BOOLEAN, tok \in NoKey..key :
                   Arrive(q, bucket, public, tok)
      PROVE  UNCHANGED <<socket, streams, next, phase, sending, handled, inbox>>
  BY <1>7 DEF Increment, Expire, Verify, FetchKey, StoreKey, Decode, Forward, Broken, Unreachable,
              Arrive, HubOnly, hub, streamVars, consumer
<1>8. CASE RestartIdentity \/ Tick \/ UNCHANGED hvars
  <2>1. UNCHANGED <<socket, streams, next, phase, sending, handled, inbox>>
    BY <1>8 DEF RestartIdentity, Tick, HubOnly, hub, streamVars, consumer, hvars
  <2> QED
    BY <2>1, SocketsKeepInbox
<1> QED
  BY <1>1, <1>2, <1>3, <1>4, <1>5, <1>6, <1>7, <1>8, SocketsKeepInbox DEF HNext, Handle, Audience

\* Nothing is connected and nothing has been received.
LEMMA HubStarts == HInit => RegistryInv /\ InboxInv
<1> SUFFICES ASSUME HInit
             PROVE  RegistryInv /\ InboxInv
  OBVIOUS
<1>1. RegistryInv
  BY DEF HInit, RegistryInv
<1>2. \A w \in Sockets : Len(inbox[w]) = 0 /\ 1..0 = {}
  BY DEF HInit
<1>3. InboxInv
  BY <1>2
     DEF HInit, ConsumerInit, InboxInv, NothingTwice, PairInv, GotInv, SendingInv, HandledInv, Got
<1> QED
  BY <1>1, <1>3

\* Where nothing is received twice, what is received is received once.
LEMMA ReceivedOnce ==
    ASSUME GatewayType, NEW w \in Sockets, NEW s \in Streams, NEW k \in Nat, NothingTwice(w)
    PROVE  Received(w, s, k) = IF Got(w, s, k) THEN 1 ELSE 0
<1> DEFINE Places == {n \in 1..Len(inbox[w]) : inbox[w][n] = <<s, k>>}
<1>1. CASE Got(w, s, k)
  <2>1. PICK n \in 1..Len(inbox[w]) : inbox[w][n] = <<s, k>>
    BY <1>1 DEF Got
  <2>2. Places = {n}
    BY <2>1 DEF NothingTwice
  <2>3. Cardinality({n}) = 1
    BY FS_Singleton
  <2> QED
    BY <1>1, <2>2, <2>3 DEF Received
<1>2. CASE ~Got(w, s, k)
  <2>1. Places = {}
    BY <1>2 DEF Got
  <2> QED
    BY <1>2, <2>1, FS_EmptySet DEF Received
<1> QED
  BY <1>1, <1>2

LEMMA InboxIsExact == GatewayType /\ StreamInv /\ InboxInv => OpenSocketsGetEachEventOnce
<1> SUFFICES ASSUME GatewayType, StreamInv, InboxInv,
                    NEW w \in Sockets, NEW s \in Streams, NEW k \in 1..Len(streams[s])
             PROVE  /\ Received(w, s, k) <= IF Concerns(s, k, w) THEN 1 ELSE 0
                    /\ socket[w].state = "open" /\ k > socket[w].since[s]
                          /\ <<s, k>> \in handled /\ Concerns(s, k, w) => Received(w, s, k) = 1
  BY DEF OpenSocketsGetEachEventOnce
<1>1. k \in Nat
  BY DEF StreamInv, LoopInv
<1>2. Received(w, s, k) = IF Got(w, s, k) THEN 1 ELSE 0
  BY <1>1, ReceivedOnce DEF InboxInv
<1>3. PairInv(w, s)
  BY DEF InboxInv
<1>4. Got(w, s, k) => Concerns(s, k, w)
  BY <1>1, <1>3 DEF PairInv, GotInv
<1>5. socket[w].state = "open" /\ k > socket[w].since[s] /\ <<s, k>> \in handled /\ Concerns(s, k, w)
          => Got(w, s, k)
  BY <1>1, <1>3 DEF PairInv, HandledInv
<1> QED
  BY <1>2, <1>4, <1>5

\* The registry and the inboxes are as they should be, whatever happens around them.
LEMMA HubInvariant == HSpec => [](RegistryInv /\ InboxInv)
<1>1. StreamInv /\ StreamInv' /\ GatewayType /\ RegistryInv /\ InboxInv /\ [HNext]_hvars
          => (RegistryInv /\ InboxInv)'
  BY RegistryKept, InboxKept, GatewayAssumption
<1> QED
  BY <1>1, HubStarts, GatewayTypeCorrect, PTL DEF HSpec

\* ws_manager.py, notification_consumer.py: for any number of sockets, users and events, whoever
\* connects and leaves between two send_json, and however often the gateway restarts.
THEOREM SocketsGetEachEventOnce == HSpec => []OpenSocketsGetEachEventOnce
<1> QED
  BY InboxIsExact, HubInvariant, GatewayTypeCorrect, PTL

\* _by_user and _roles agree, the sockets of a user are the user's, no handler writes to sockets
\* but the one in progress, and no key is cached that there was not.
THEOREM GatewayIsTyped == HSpec => []TypeOK
<1>1. GatewayType /\ KeyInv /\ RegistryInv => TypeOK
  <2> SUFFICES ASSUME GatewayType, KeyInv, RegistryInv
               PROVE  TypeOK
    OBVIOUS
  <2>1. \A q \in Requests : request[q].pc \in Pcs \cup Outcomes
    BY DEF GatewayType, Handler
  <2>2. cached \in NoKey..key
    BY DEF GatewayType, KeyInv, NoKey
  <2>3. \A w \in Sockets : socket[w].state \in {"none", "dialing", "open", "left", "closed"}
    BY DEF GatewayType, Connection, SocketStates
  <2>4. UNION {registry[u] : u \in Users} = roles
    <3>1. ASSUME NEW w \in roles
          PROVE  w \in UNION {registry[u] : u \in Users}
      <4>1. w \in Sockets /\ socket[w].user \in Users /\ w \in registry[socket[w].user]
        BY DEF GatewayType, RegistryInv
      <4> QED
        BY <4>1
    <3>2. ASSUME NEW w \in UNION {registry[u] : u \in Users}
          PROVE  w \in roles
      BY DEF RegistryInv
    <3> QED
      BY <3>1, <3>2
  <2> QED
    BY <2>1, <2>2, <2>3, <2>4 DEF TypeOK, RegistryInv
<1>2. GatewayType /\ KeyInv /\ [HNext]_hvars => KeyInv'
  BY KeyKept, GatewayAssumption
<1>3. HInit => KeyInv
  BY DEF HInit, KeyInv, KeyFits, Fresh, NoKey
<1> QED
  BY <1>1, <1>2, <1>3, HubInvariant, GatewayTypeCorrect, PTL DEF HSpec

\* consumers/runner.py, notification_consumer.py: the hub's four tasks implement the abstract
\* delivery, with the handlers that write to the sockets and restarts at any time.
THEOREM HubImplementsAtMostOnce == HSpec => AtMostOnceInOrder
<1>1. StreamInv /\ [HNext]_hvars => StreamInv' /\ [Delivery!Next]_(Delivery!vars)
  BY StreamInvKept, GatewayAssumption
<1> QED
  BY <1>1, StreamInvStarts, PTL DEF HSpec, AtMostOnceInOrder, Delivery!Spec
=============================================================================
