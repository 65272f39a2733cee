-------------------------------- MODULE Gateway --------------------------------
(***************************************************************************)
(* The gateway: the rate limit it keeps in Redis (core/rate_limit.py), the *)
(* public key it caches to verify access tokens (core/jwt_verify.py,       *)
(* core/public_key.py), the requests it forwards (main.py), and the        *)
(* notification hub, which consumes four streams and writes to the         *)
(* sockets connected (core/ws_manager.py, consumers/                       *)
(* notification_consumer.py).                                              *)
(*                                                                         *)
(* The identity service makes a new key pair whenever it starts; a token   *)
(* is verified by the key of the process that signed it.  All requests are *)
(* of one client address, to routes there are, with tokens that have not   *)
(* expired or with none.                                                   *)
(***************************************************************************)
EXTENDS StreamConsumer, FiniteSets

CONSTANTS
    Requests,    \* numbered in the order they arrive
    Sockets,     \* numbered in the order they are opened
    Users,
    Supervisors, \* the users with the role SUPERVIZOR or ADMIN
    Nobody,
    Buckets,     \* "login" and "general"
    Limit,       \* requests per bucket and minute
    Minute,      \* the length of a window, in ticks of the clock
    TTL,         \* the life of a counter, in ticks
    LastWindow,  \* bound: the windows counted in
    Scenarios    \* bounds: how often each thing happens

NoKey == 0

ASSUME GatewayAssumption ==
    /\ Requests \cup Sockets \subseteq Nat
    /\ Nobody \notin Users \cup Sockets
    /\ Supervisors \subseteq Users
    /\ Limit \in [Buckets -> Nat]
    /\ Minute \in Nat \ {0}
    /\ TTL \in Nat /\ TTL >= Minute    \* 65 s for a window of 60

VARIABLES
    now,        \* the clock
    counter,    \* the counters in Redis: value and expiry, by bucket and window
    key,        \* the key of the identity service's process
    cached,     \* _public_key_pem
    overtaken,  \* history: requests whose stored key an older answer replaced before its use
    request,    \* the requests and their handlers
    socket,     \* the WebSockets
    registry,   \* _by_user
    roles,      \* _roles: the sockets with an entry
    sending,    \* per stream, the sockets its handler has still to write to
    budget,     \* bounds
    passed,     \* history: requests let through, by bucket and window
    tardy,      \* history: windows with an INCR later than TTL after their beginning
    inbox,      \* history: what each socket received, in order
    handled     \* history: the <<stream, entry>> whose handler returned

hub == <<socket, registry, roles, sending, inbox, handled>>
limiter == <<counter, passed, tardy>>
keyCache == <<cached, overtaken>>
hvars == <<streamVars, now, limiter, key, keyCache, request, hub, budget>>

NoCounter == [n |-> 0, until |-> 0]
Fresh == [pc |-> "none", bucket |-> "general", window |-> 0, public |-> FALSE, tok |-> NoKey,
          fetched |-> NoKey, forced |-> FALSE, socket |-> Nobody, since |-> NoKey]

Windows == Buckets \X (0 .. LastWindow)

HInit ==
    /\ ConsumerInit
    /\ now = 0
    /\ counter = [w \in Windows |-> NoCounter]
    /\ passed = [w \in Windows |-> 0]
    /\ tardy = {}
    /\ key = 1
    /\ cached = NoKey
    /\ overtaken = {}
    /\ request = [q \in Requests |-> Fresh]
    /\ socket = [w \in Sockets |->
                   [state |-> "none", user |-> Nobody, since |-> [s \in Streams |-> 0]]]
    /\ registry = [u \in Users |-> {}]
    /\ roles = {}
    /\ sending = [s \in Streams |-> {}]
    /\ inbox = [w \in Sockets |-> <<>>]
    /\ handled = {}
    /\ \E c \in Scenarios : budget = c.budget /\ faults = c.faults

Spend(what) == budget[what] > 0 /\ budget' = [budget EXCEPT ![what] = @ - 1]

Goto(q, pc) == request' = [request EXCEPT ![q].pc = pc]

HubOnly == UNCHANGED <<streamVars, hub>>

-----------------------------------------------------------------------------
(* The fixed-window counter.                                               *)

\* The window is computed when the request arrives, before INCR is sent.  Who logs in and who uses
\* another of the PUBLIC_ROUTES needs no token.
Arrive(q, bucket, public, tok) ==
    /\ request[q].pc = "none"
    /\ \A p \in Requests : p < q => request[p].pc # "none"
    /\ bucket = "login" => public
    /\ public => tok = NoKey
    /\ Spend(bucket)
    /\ now \div Minute <= LastWindow
    /\ request' = [request EXCEPT ![q] = [Fresh EXCEPT !.pc = "counting", !.bucket = bucket,
                     !.window = now \div Minute, !.public = public, !.tok = tok, !.since = key]]
    /\ HubOnly /\ UNCHANGED <<now, limiter, key, keyCache>>

Window(q) == <<request[q].bucket, request[q].window>>
Gone(c) == c.until # 0 /\ c.until <= now

\* A public route is forwarded as it is, for any other a token is asked for and verified.
Admitted(q) ==
    IF request[q].public THEN "forwarding"
    ELSE IF request[q].tok = NoKey THEN "401" ELSE "verifying"

LetThrough(q, n) ==
    IF n <= Limit[request[q].bucket]
    THEN Goto(q, Admitted(q)) /\ passed' = [passed EXCEPT ![Window(q)] = @ + 1]
    ELSE Goto(q, "429") /\ UNCHANGED passed

Increment(q) ==
    LET c == counter[Window(q)]
        n == IF Gone(c) THEN 1 ELSE c.n + 1 IN
    /\ request[q].pc = "counting"
    /\ counter' = [counter EXCEPT ![Window(q)] =
                      [n |-> n, until |-> IF Gone(c) THEN 0 ELSE c.until]]
    /\ IF n = 1 THEN Goto(q, "expiring") /\ UNCHANGED passed ELSE LetThrough(q, n)
    /\ tardy' = IF now < request[q].window * Minute + TTL THEN tardy ELSE tardy \cup {Window(q)}
    /\ HubOnly /\ UNCHANGED <<now, key, keyCache, budget>>

\* Mutant: the counter lives shorter than its window.
ExpireEarly(q) ==
    /\ request[q].pc = "expiring"
    /\ counter' = [counter EXCEPT ![Window(q)].until = now + 1]
    /\ LetThrough(q, 1)
    /\ HubOnly /\ UNCHANGED <<now, tardy, key, keyCache, budget>>

\* EXPIRE is a call of its own: until it is made the counter has no end.
Expire(q) ==
    /\ request[q].pc = "expiring"
    /\ counter' = [counter EXCEPT ![Window(q)].until = now + TTL]
    /\ LetThrough(q, 1)
    /\ HubOnly /\ UNCHANGED <<now, tardy, key, keyCache, budget>>

-----------------------------------------------------------------------------
(* The verification of an access token.                                    *)

Fetch(q, forced) ==
    request' = [request EXCEPT ![q].pc = "fetching", ![q].forced = forced]
Verified(q) == IF request[q].socket = Nobody THEN "forwarding" ELSE "connecting"

\* Mutant: a signature that does not fit is refused.
VerifyOnce(q) ==
    /\ request[q].pc = "verifying"
    /\ IF cached = NoKey THEN Fetch(q, FALSE)
       ELSE IF cached = request[q].tok THEN Goto(q, Verified(q))
       ELSE Goto(q, "401")
    /\ HubOnly /\ UNCHANGED <<now, limiter, key, keyCache, budget>>

\* get_public_key from the cache, decode; on a bad signature the key is fetched, once.
Verify(q) ==
    /\ request[q].pc = "verifying"
    /\ IF cached = NoKey THEN Fetch(q, FALSE)
       ELSE IF cached = request[q].tok THEN Goto(q, Verified(q))
       ELSE Fetch(q, TRUE)
    /\ HubOnly /\ UNCHANGED <<now, limiter, key, keyCache, budget>>

\* GET /internal/public-key is answered.
FetchKey(q) ==
    /\ request[q].pc = "fetching"
    /\ request' = [request EXCEPT ![q].pc = "storing", ![q].fetched = key]
    /\ HubOnly /\ UNCHANGED <<now, limiter, key, keyCache, budget>>

\* The answer is put into the global, whatever is there; then the client is closed, an await.
StoreKey(q) ==
    /\ request[q].pc = "storing"
    /\ cached' = request[q].fetched
    /\ overtaken' = overtaken \cup
           {p \in Requests : request[p].pc = "closing" /\ request[q].fetched < request[p].fetched}
    /\ Goto(q, "closing")
    /\ HubOnly /\ UNCHANGED <<now, limiter, key, budget>>

\* Mutant: the key is fetched until it fits.
DecodeUntilItFits(q) ==
    /\ request[q].pc = "closing"
    /\ IF cached = request[q].tok THEN Goto(q, Verified(q)) ELSE Fetch(q, TRUE)
    /\ HubOnly /\ UNCHANGED <<now, limiter, key, keyCache, budget>>

\* get_public_key returns what the global holds by now, and the token is decoded with that.
Decode(q) ==
    /\ request[q].pc = "closing"
    /\ IF cached = request[q].tok THEN Goto(q, Verified(q))
       ELSE IF request[q].forced THEN Goto(q, "401")
       ELSE Fetch(q, TRUE)
    /\ HubOnly /\ UNCHANGED <<now, limiter, key, keyCache, budget>>

\* Redis or the identity service fails the request: nothing catches that.
Broken(q) ==
    /\ request[q].pc \in {"counting", "expiring", "fetching", "storing"}
    /\ Fail
    /\ Goto(q, "500")
    /\ UNCHANGED <<streams, consumer, now, limiter, key, keyCache, hub, budget>>

\* The answer of the service is passed on as it is.
Forward(q) ==
    /\ request[q].pc = "forwarding"
    /\ Goto(q, "answered")
    /\ HubOnly /\ UNCHANGED <<now, limiter, key, keyCache, budget>>

Unreachable(q) ==
    /\ request[q].pc = "forwarding"
    /\ Fail
    /\ Goto(q, "503")
    /\ UNCHANGED <<streams, consumer, now, limiter, key, keyCache, hub, budget>>

RestartIdentity ==
    /\ Spend("keys")
    /\ key' = key + 1
    /\ HubOnly /\ UNCHANGED <<now, limiter, keyCache, request>>

Tick ==
    /\ Spend("ticks")
    /\ now' = now + 1
    /\ HubOnly /\ UNCHANGED <<limiter, key, keyCache, request>>

-----------------------------------------------------------------------------
(* The notification hub.                                                   *)

verification == <<now, limiter, key, keyCache>>

\* A page opens a WebSocket; its token is verified like that of a request.
Dial(q, w, u) ==
    /\ request[q].pc = "none"
    /\ \A p \in Requests : p < q => request[p].pc # "none"
    /\ socket[w].state = "none"
    /\ \A v \in Sockets : v < w => socket[v].state # "none"
    /\ Spend("sockets")
    /\ request' = [request EXCEPT ![q] = [Fresh EXCEPT !.pc = "verifying", !.tok = key,
                                                       !.since = key, !.socket = w]]
    /\ socket' = [socket EXCEPT ![w].state = "dialing", ![w].user = u]
    /\ UNCHANGED <<streamVars, verification, registry, roles, sending, inbox, handled>>

\* accept() was awaited: the socket is entered under its user and its role.
connect(q) ==
    LET w == request[q].socket
        u == socket[w].user IN
    /\ request[q].pc = "connecting"
    /\ socket[w].state = "dialing"
    /\ socket' = [socket EXCEPT ![w].state = "open",
                                ![w].since = [s \in Streams |-> Len(streams[s])]]
    /\ registry' = [registry EXCEPT ![u] = @ \cup {w}]
    /\ roles' = roles \cup {w}
    /\ Goto(q, "answered")
    /\ UNCHANGED <<streamVars, verification, sending, inbox, handled, budget>>

\* The page is left.
HangUp(w) ==
    /\ socket[w].state = "open"
    /\ Spend("hangups")
    /\ socket' = [socket EXCEPT ![w].state = "left"]
    /\ UNCHANGED <<streamVars, verification, request, registry, roles, sending, inbox, handled>>

\* Mutant: the user's entry is dropped with the socket.
disconnectUser(w) ==
    /\ socket[w].state = "left"
    /\ socket' = [socket EXCEPT ![w].state = "closed"]
    /\ registry' = [registry EXCEPT ![socket[w].user] = {}]
    /\ roles' = roles \ {w}
    /\ UNCHANGED <<streamVars, verification, request, sending, inbox, handled, budget>>

\* receive_text raises, the handler of the socket takes it out.
disconnect(w) ==
    /\ socket[w].state = "left"
    /\ socket' = [socket EXCEPT ![w].state = "closed"]
    /\ registry' = [registry EXCEPT ![socket[w].user] = @ \ {w}]
    /\ roles' = roles \ {w}
    /\ UNCHANGED <<streamVars, verification, request, sending, inbox, handled, budget>>

\* send_to_user for three of the streams, broadcast_to_roles for the fourth.
Addressees(s) ==
    IF s = "incident.sla_breached" THEN {w \in roles : socket[w].user \in Supervisors}
                                   ELSE registry[Current(s)]

\* The handler copies the sockets it is going to write to.
StartSending(s) ==
    /\ Start(s)
    /\ sending' = [sending EXCEPT ![s] = Addressees(s)]
    /\ UNCHANGED <<verification, request, socket, registry, roles, inbox, handled, budget>>

\* One send_json after the other; that of a socket that has been left fails unnoticed.
SendJson(s, w) ==
    /\ w \in sending[s]
    /\ sending' = [sending EXCEPT ![s] = @ \ {w}]
    /\ inbox' = IF socket[w].state = "open" THEN [inbox EXCEPT ![w] = Append(@, <<s, next[s]>>)]
                                            ELSE inbox
    /\ UNCHANGED <<streamVars, verification, request, socket, registry, roles, handled, budget>>

FinishSending(s) ==
    /\ sending[s] = {}
    /\ Complete(s)
    /\ handled' = handled \cup {<<s, next[s]>>}
    /\ UNCHANGED <<streams, faults, verification, request, socket, registry, roles, sending, inbox,
                   budget>>

Advance(s) ==
    /\ Loop(s)
    /\ UNCHANGED <<verification, request, hub, budget>>

\* A service publishes an event for one user, or a breach for the supervisors.
Announce(s, u) ==
    /\ u = Nobody <=> s = "incident.sla_breached"
    /\ Spend("events")
    /\ Published(s, u)
    /\ UNCHANGED <<consumer, faults, verification, request, hub>>

\* The gateway restarts: requests and sockets are cut off, the key is forgotten.
Crash ==
    /\ Restart
    /\ request' = [q \in Requests |-> IF request[q].pc = "none" THEN Fresh
                                      ELSE [request[q] EXCEPT !.pc = "cut"]]
    /\ cached' = NoKey
    /\ socket' = [w \in Sockets |-> IF socket[w].state = "none" THEN socket[w]
                                    ELSE [socket[w] EXCEPT !.state = "closed"]]
    /\ registry' = [u \in Users |-> {}]
    /\ roles' = {}
    /\ sending' = [s \in Streams |-> {}]
    /\ UNCHANGED <<now, limiter, key, overtaken, inbox, handled, budget>>

-----------------------------------------------------------------------------

Handle(q) ==
    \/ Increment(q) \/ Expire(q)
    \/ Verify(q) \/ FetchKey(q) \/ StoreKey(q) \/ Decode(q)
    \/ Forward(q) \/ connect(q)

Hub(s) ==
    \/ Advance(s) \/ StartSending(s) \/ FinishSending(s)
    \/ \E w \in Sockets : SendJson(s, w)

HNext ==
    \/ \E q \in Requests :
        \/ Handle(q) \/ Broken(q) \/ Unreachable(q)
        \/ \E bucket \in Buckets, public \in BOOLEAN, tok \in NoKey..key :
              Arrive(q, bucket, public, tok)
        \/ \E w \in Sockets, u \in Users : Dial(q, w, u)
    \/ \E s \in Streams :
        \/ Hub(s)
        \/ \E u \in Users \cup {Nobody} : Announce(s, u)
    \/ \E w \in Sockets : HangUp(w) \/ disconnect(w)
    \/ RestartIdentity \/ Tick \/ Crash

HSpec == HInit /\ [][HNext]_hvars

HFairSpec ==
    /\ HSpec
    /\ \A s \in Streams : WF_hvars(Hub(s))
    /\ \A q \in Requests : WF_hvars(Handle(q))

-----------------------------------------------------------------------------
(* Properties.                                                             *)

Pcs == {"none", "counting", "expiring", "verifying", "fetching", "storing", "closing", "connecting",
        "forwarding"}
Outcomes == {"answered", "401", "429", "500", "503", "cut"}

TypeOK ==
    /\ \A q \in Requests : request[q].pc \in Pcs \cup Outcomes
    /\ cached \in NoKey..key
    /\ \A w \in Sockets : socket[w].state \in {"none", "dialing", "open", "left", "closed"}
    /\ \A u \in Users : \A w \in registry[u] : socket[w].user = u
    /\ UNION {registry[u] : u \in Users} = roles
    /\ \A s \in Streams : sending[s] # {} => phase[s] = "handling"

\* check_rate_limit: no window lets more requests of a bucket through than its limit, although
\* the counter is given its end in a second call, which may fail, and ends on its own: the five
\* seconds it outlives its window suffice unless Redis is asked even later.
LimitPerMinute == \A w \in Windows \ tardy : passed[w] <= Limit[w[1]]

\* verify_token: a token of the identity service's current process is not refused, however the
\* answers about the key overtake each other, unless the service restarts again meanwhile, or an
\* older answer is stored in the one window there is: between the request's own store and the
\* return of get_public_key, while the HTTP client is closed.
CurrentTokensPass ==
    \A q \in Requests : request[q].pc = "401" =>
        request[q].tok < request[q].since \/ request[q].since < key \/ q \in overtaken

Concerns(s, k, w) ==
    IF s = "incident.sla_breached" THEN socket[w].user \in Supervisors
                                   ELSE socket[w].user = streams[s][k]

Received(w, s, k) == Cardinality({n \in 1..Len(inbox[w]) : inbox[w][n] = <<s, k>>})

\* ws_manager.py, notification_consumer.py: a socket that stays open gets every event that was
\* published since it connected, that concerns its user or role and that the hub handled, once,
\* whoever else connects and leaves; and no socket gets another's.
OpenSocketsGetEachEventOnce ==
    \A w \in Sockets, s \in Streams : \A k \in 1..Len(streams[s]) :
        /\ Received(w, s, k) <= IF Concerns(s, k, w) THEN 1 ELSE 0
        /\ socket[w].state = "open" /\ k > socket[w].since[s]
              /\ <<s, k>> \in handled /\ Concerns(s, k, w) => Received(w, s, k) = 1

\* main.py: every request is answered, if the services are: a key that never fits does not keep
\* it in verify_token.
RequestsEnd == []<>(\A q \in Requests : request[q].pc \in Outcomes \cup {"none"})
=============================================================================
