------------------------------- MODULE Sessions -------------------------------
(***************************************************************************)
(* The sessions of one account: the refresh tokens the identity service    *)
(* rotates (api/auth.py), the login that counts failures and locks, and    *)
(* the browser tabs that hold the tokens (frontend api/client.ts,          *)
(* store/authStore.ts, api/authApi.ts).                                    *)
(*                                                                         *)
(* An access token and the refresh token it was issued with are always     *)
(* kept and dropped together, so the number of the row in refresh_tokens   *)
(* stands for the pair.  A tab keeps its pair in memory and in             *)
(* localStorage, which the tabs of a browser share but read only when a    *)
(* page is loaded.  An endpoint awaits the database between the steps      *)
(* below; nothing is locked while it does.                                 *)
(***************************************************************************)
EXTENDS Naturals, Sequences

CONSTANTS
    Tabs,
    NoTab,       \* the page that sent a request is gone
    Calls,       \* API calls a tab has in flight at a time
    Slots,       \* bound: requests on their way at a time
    Threshold,   \* LOCKOUT_THRESHOLD
    Scenarios    \* bounds: the tabs open at the start, how often each thing happens

ASSUME SessionsAssumption ==
    /\ NoTab \notin Tabs
    /\ Threshold \in Nat \ {0}

VARIABLES
    tokens,     \* refresh_tokens: live (revoked_at is null), expired, replaced_by
    account,    \* users: is_active, failed_login_count, locked_until
    request,    \* the requests to /auth, each with the state of its handler
    mem,        \* per tab, the pair in memory, 0 for none
    stored,     \* the pair in localStorage
    stale,      \* the pairs whose access token is not accepted any more
    call,       \* per tab, its API calls and the pair they were sent with
    budget,     \* bounds
    shared,     \* history: pairs a page took from localStorage or logged out with
    misused,    \* history: tokens presented when revoked, or rotated twice
    wrong,      \* history: wrong passwords since the last login
    overlapped  \* history: one login read the account while another was at it

server == <<tokens, account>>
browser == <<mem, stored, call>>
history == <<shared, misused, wrong, overlapped>>
svars == <<server, request, browser, stale, budget, history>>

NoRequest == [kind |-> "none", tab |-> NoTab, pc |-> "free", token |-> 0, rows |-> {}, snap |-> 0]
NoCall == [pc |-> "idle", tok |-> 0]
NewRow == [live |-> TRUE, expired |-> FALSE, replaced_by |-> 0]

\* A login lies behind; the tabs that are open were loaded from localStorage.
SInit ==
    /\ tokens = <<NewRow>>
    /\ account = [active |-> TRUE, failures |-> 0, locked |-> "never"]
    /\ request = [r \in Slots |-> NoRequest]
    /\ \E c \in Scenarios :
          /\ mem = [t \in Tabs |-> IF t \in c.open THEN 1 ELSE 0]
          /\ shared = IF \E t, u \in c.open : t # u THEN {1} ELSE {}
          /\ stored = IF c.open = {} THEN 0 ELSE 1
          /\ budget = c.budget
    /\ stale = {}
    /\ call = [t \in Tabs |-> [c \in Calls |-> NoCall]]
    /\ misused = {}
    /\ wrong = 0
    /\ overlapped = FALSE

Spend(what) == budget[what] > 0 /\ budget' = [budget EXCEPT ![what] = @ - 1]

Free == {r \in Slots : request[r].pc = "free"}
Slot == CHOOSE r \in Free : TRUE
Of(t, kind) == {r \in Slots : request[r].tab = t /\ request[r].kind = kind}

Send(t, kind, k) ==
    /\ Free # {}
    /\ request' = [request EXCEPT ![Slot] =
                     [NoRequest EXCEPT !.kind = kind, !.tab = t, !.pc = "sent", !.token = k]]

At(r, kind, pc) == request[r].kind = kind /\ request[r].pc = pc
Goto(r, pc) == request' = [request EXCEPT ![r].pc = pc]
Grant(r) == request' = [request EXCEPT ![r].pc = "granted", ![r].token = Len(tokens')]
Elsewhere == UNCHANGED <<browser, stale, budget>>

-----------------------------------------------------------------------------
(* POST /auth/refresh.                                                     *)

SelectToken(r) ==
    LET k == request[r].token IN
    /\ At(r, "refresh", "sent")
    /\ Goto(r, IF ~tokens[k].live THEN "reused"
               ELSE IF tokens[k].expired THEN "refused" ELSE "rotating")
    /\ misused' = IF tokens[k].live THEN misused ELSE misused \cup {k}
    /\ Elsewhere /\ UNCHANGED <<server, shared, wrong, overlapped>>

\* A revoked token is taken for a stolen one: every live row of the user is to be revoked.
StartRevoking(r) ==
    /\ At(r, "refresh", "reused")
    /\ request' = [request EXCEPT ![r].pc = "revoking",
                                  ![r].rows = {k \in 1..Len(tokens) : tokens[k].live}]
    /\ Elsewhere /\ UNCHANGED <<server, history>>

\* Rows inserted since the UPDATE began are not seen by it.
CommitRevoking(r) ==
    /\ At(r, "refresh", "revoking")
    /\ tokens' = [k \in DOMAIN tokens |->
                    IF k \in request[r].rows THEN [tokens[k] EXCEPT !.live = FALSE] ELSE tokens[k]]
    /\ Goto(r, "refused")
    /\ Elsewhere /\ UNCHANGED <<account, history>>

GetUser(r) ==
    /\ At(r, "refresh", "rotating")
    /\ Goto(r, IF account.active THEN "inserting" ELSE "refused")
    /\ Elsewhere /\ UNCHANGED <<server, history>>

\* The new row is inserted, the old one revoked and linked to it, whatever it has become.
Rotate(r) ==
    LET k == request[r].token IN
    /\ At(r, "refresh", "inserting")
    /\ tokens' = Append([tokens EXCEPT ![k].live = FALSE, ![k].replaced_by = Len(tokens) + 1],
                        NewRow)
    /\ misused' = IF tokens[k].replaced_by = 0 THEN misused ELSE misused \cup {k}
    /\ Grant(r)
    /\ Elsewhere /\ UNCHANGED <<account, shared, wrong, overlapped>>

-----------------------------------------------------------------------------
(* POST /auth/login with a password, POST /auth/logout.                    *)

\* Between its SELECT and its commit a login holds what it read.
Reading == {r \in Slots : request[r].pc \in {"right", "wrong"}}

\* failed_login_count as read, and whether locked_until was set.
ReadAccount(r, verdict) ==
    /\ At(r, "login", "sent")
    /\ IF account.locked = "locked"
       THEN Goto(r, "refused") /\ UNCHANGED overlapped
       ELSE /\ request' = [request EXCEPT ![r].pc = verdict, ![r].snap = account.failures,
                                          ![r].rows = {account.locked}]
            /\ overlapped' = (overlapped \/ Reading # {})
    /\ Elsewhere /\ UNCHANGED <<server, shared, misused, wrong>>

\* Mutant: one failure more is tolerated.
CountFailureLate(r) ==
    LET n == request[r].snap + 1 IN
    /\ At(r, "login", "wrong")
    /\ account' = [account EXCEPT !.failures = n, !.locked = IF n > Threshold THEN "locked" ELSE @]
    /\ wrong' = wrong + 1
    /\ Goto(r, "refused")
    /\ Elsewhere /\ UNCHANGED <<tokens, shared, misused, overlapped>>

CountFailure(r) ==
    LET n == request[r].snap + 1 IN
    /\ At(r, "login", "wrong")
    /\ account' = [account EXCEPT !.failures = n, !.locked = IF n >= Threshold THEN "locked" ELSE @]
    /\ wrong' = wrong + 1
    /\ Goto(r, "refused")
    /\ Elsewhere /\ UNCHANGED <<tokens, shared, misused, overlapped>>

\* Only the columns that change are written; is_active is not looked at.
ResetFailures(r) ==
    /\ At(r, "login", "right")
    /\ account' = [account EXCEPT !.failures = IF request[r].snap = 0 THEN @ ELSE 0,
                                  !.locked = IF request[r].rows = {"never"} THEN @ ELSE "never"]
    /\ wrong' = 0
    /\ Goto(r, "issuing")
    /\ Elsewhere /\ UNCHANGED <<tokens, shared, misused, overlapped>>

_issue_token_pair(r) ==
    /\ At(r, "login", "issuing")
    /\ tokens' = Append(tokens, NewRow)
    /\ Grant(r)
    /\ Elsewhere /\ UNCHANGED <<account, history>>

\* The gateway lets a logout through only with an access token that is still accepted.
TurnAway(r) ==
    /\ At(r, "logout", "sent")
    /\ request[r].token \in stale
    /\ Goto(r, "refused")
    /\ Elsewhere /\ UNCHANGED <<server, history>>

RevokeOne(r) ==
    /\ At(r, "logout", "sent")
    /\ request[r].token \notin stale
    /\ tokens' = [tokens EXCEPT ![request[r].token].live = FALSE]
    /\ Goto(r, "granted")
    /\ Elsewhere /\ UNCHANGED <<account, history>>

\* The request, its handler or its answer is lost.
Lose(r) ==
    /\ request[r].pc \notin {"free", "lost"}
    /\ Spend("faults")
    /\ Goto(r, "lost")
    /\ UNCHANGED <<server, browser, stale, history>>

-----------------------------------------------------------------------------
(* A tab: apiFetch and tryRefresh.                                         *)

Call(t, c) ==
    /\ call[t][c].pc = "idle"
    /\ Spend("calls")
    /\ call' = [call EXCEPT ![t][c] = [pc |-> "sent", tok |-> mem[t]]]
    /\ UNCHANGED <<server, request, mem, stored, stale, history>>

Finish(t, c) ==
    /\ call' = [call EXCEPT ![t][c] = NoCall]
    /\ UNCHANGED <<server, request, mem, stored, stale, budget, history>>

Succeed(t, c) ==
    /\ call[t][c].pc \in {"sent", "resent"}
    /\ call[t][c].tok \notin stale \cup {0}
    /\ Finish(t, c)

\* TOKEN_EXPIRED or TOKEN_INVALID; the identity service also wants an active user.
Unauthorized(t, c) == call[t][c].tok \in stale \cup {0} \/ ~account.active

\* The second 401, or nothing to refresh with: the error is the caller's.
Error(t, c) ==
    /\ Unauthorized(t, c)
    /\ \/ call[t][c].pc = "resent"
       \/ call[t][c].pc = "sent" /\ mem[t] = 0
    /\ Finish(t, c)

\* Mutant: every call that is refused refreshes for itself.
tryRefreshAlone(t, c) ==
    /\ Unauthorized(t, c)
    /\ call[t][c].pc = "sent"
    /\ mem[t] # 0
    /\ Send(t, "refresh", mem[t])
    /\ call' = [call EXCEPT ![t][c].pc = "waiting"]
    /\ UNCHANGED <<server, mem, stored, stale, budget, history>>

\* The calls of a tab share the refresh that is in flight.
tryRefresh(t, c) ==
    /\ Unauthorized(t, c)
    /\ call[t][c].pc = "sent"
    /\ mem[t] # 0
    /\ IF Of(t, "refresh") # {} THEN UNCHANGED request ELSE Send(t, "refresh", mem[t])
    /\ call' = [call EXCEPT ![t][c].pc = "waiting"]
    /\ UNCHANGED <<server, mem, stored, stale, budget, history>>

\* setTokens and clear: memory and localStorage together.
SetPair(t, k) == mem' = [mem EXCEPT ![t] = k] /\ stored' = k
Release(r) == request' = [request EXCEPT ![r] = NoRequest]

\* The waiting calls are repeated with the pair that came, once.
RefreshGranted(t, r) ==
    /\ r \in Of(t, "refresh") /\ request[r].pc = "granted"
    /\ SetPair(t, request[r].token)
    /\ call' = [call EXCEPT ![t] = [c \in Calls |->
                  IF call[t][c].pc = "waiting" THEN [pc |-> "resent", tok |-> request[r].token] ELSE call[t][c]]]
    /\ Release(r)
    /\ UNCHANGED <<server, stale, budget, history>>

\* Mutant: the calls that wait are not told.
RefreshFailedSilently(t, r) ==
    /\ r \in Of(t, "refresh") /\ request[r].pc \in {"refused", "lost"}
    /\ SetPair(t, 0)
    /\ Release(r)
    /\ UNCHANGED <<server, call, stale, budget, history>>

\* Whatever the reason, the session is dropped.
RefreshFailed(t, r) ==
    /\ r \in Of(t, "refresh") /\ request[r].pc \in {"refused", "lost"}
    /\ SetPair(t, 0)
    /\ call' = [call EXCEPT ![t] = [c \in Calls |->
                  IF call[t][c].pc = "waiting" THEN NoCall ELSE call[t][c]]]
    /\ Release(r)
    /\ UNCHANGED <<server, stale, budget, history>>

-----------------------------------------------------------------------------
(* What the user does.                                                     *)

Login(t) ==
    /\ Spend("logins")
    /\ Of(t, "login") = {}
    /\ Send(t, "login", 0)
    /\ UNCHANGED <<server, browser, stale, history>>

LoggedIn(t, r) ==
    /\ r \in Of(t, "login") /\ request[r].pc \in {"granted", "refused", "lost"}
    /\ IF request[r].pc = "granted" THEN SetPair(t, request[r].token)
                                    ELSE UNCHANGED <<mem, stored>>
    /\ Release(r)
    /\ UNCHANGED <<server, call, stale, budget, history>>

Logout(t) ==
    /\ Spend("logouts")
    /\ Of(t, "logout") = {}
    /\ mem[t] # 0
    /\ Send(t, "logout", mem[t])
    /\ shared' = shared \cup {mem[t]}
    /\ UNCHANGED <<server, browser, stale, misused, wrong, overlapped>>

\* finally: clear(), also when the request failed.
LoggedOut(t, r) ==
    /\ r \in Of(t, "logout") /\ request[r].pc \in {"granted", "refused", "lost"}
    /\ SetPair(t, 0)
    /\ Release(r)
    /\ UNCHANGED <<server, call, stale, budget, history>>

\* The page is loaded (again): nothing of what it waited for is left but localStorage.
Reload(t) ==
    /\ Spend("reloads")
    /\ mem' = [mem EXCEPT ![t] = stored]
    /\ shared' = shared \cup ({stored} \ {0})
    /\ call' = [call EXCEPT ![t] = [c \in Calls |-> NoCall]]
    /\ request' = [r \in Slots |-> IF request[r].tab = t THEN [request[r] EXCEPT !.tab = NoTab]
                                                         ELSE request[r]]
    /\ UNCHANGED <<server, stored, stale, misused, wrong, overlapped>>

Forget(r) ==
    /\ request[r].tab = NoTab /\ request[r].pc \in {"granted", "refused", "lost"}
    /\ Release(r)
    /\ Elsewhere /\ UNCHANGED <<server, history>>

-----------------------------------------------------------------------------
(* Time and the administrator.                                             *)

\* 15 minutes pass, or the identity service restarts with another key.
AccessExpires(k) ==
    /\ Spend("expiries")
    /\ k \in 1..Len(tokens) \ stale
    /\ stale' = stale \cup {k}
    /\ UNCHANGED <<server, request, browser, history>>

\* 7 days pass.
RefreshExpires(k) ==
    /\ Spend("changes")
    /\ k \in 1..Len(tokens) /\ k \in stale /\ ~tokens[k].expired
    /\ tokens' = [tokens EXCEPT ![k].expired = TRUE]
    /\ UNCHANGED <<account, request, browser, stale, history>>

\* locked_until lies in the past now; it is not cleared.
LockEnds ==
    /\ Spend("changes")
    /\ account.locked = "locked"
    /\ account' = [account EXCEPT !.locked = "over"]
    /\ UNCHANGED <<tokens, request, browser, stale, history>>

\* PATCH /auth/users/{id}: the refresh tokens stay as they are.
update_user(active) ==
    /\ Spend("changes")
    /\ account' = [account EXCEPT !.active = active]
    /\ UNCHANGED <<tokens, request, browser, stale, history>>

-----------------------------------------------------------------------------

Serve(r) ==
    \/ SelectToken(r) \/ StartRevoking(r) \/ CommitRevoking(r) \/ GetUser(r) \/ Rotate(r)
    \/ \E verdict \in {"right", "wrong"} : ReadAccount(r, verdict)
    \/ CountFailure(r) \/ ResetFailures(r) \/ _issue_token_pair(r)
    \/ TurnAway(r) \/ RevokeOne(r)

Receive(t) ==
    \E r \in Slots : RefreshGranted(t, r) \/ RefreshFailed(t, r) \/ LoggedIn(t, r) \/ LoggedOut(t, r)

Use(t) ==
    \/ \E c \in Calls : Call(t, c) \/ Succeed(t, c) \/ Error(t, c) \/ tryRefresh(t, c)
    \/ Login(t) \/ Logout(t) \/ Reload(t)

SNext ==
    \/ \E r \in Slots : Serve(r) \/ Lose(r) \/ Forget(r)
    \/ \E t \in Tabs : Receive(t) \/ Use(t)
    \/ \E k \in 1..Len(tokens) : AccessExpires(k)
    \/ \E k \in 1..Len(tokens) : RefreshExpires(k)
    \/ LockEnds
    \/ \E active \in BOOLEAN : update_user(active)

\* A handler awaits only the database, and a fetch is settled in the end.
SSpec ==
    /\ SInit /\ [][SNext]_svars
    /\ \A r \in Slots : WF_svars(Serve(r))
    /\ \A t \in Tabs : WF_svars(Receive(t))

-----------------------------------------------------------------------------
(* Properties.                                                             *)

\* tryRefresh, refresh: however many calls of a tab are refused at once, however late, and
\* whatever answers get lost, the first refresh token to be presented after it was used or to be
\* rotated twice is one that a page had taken from localStorage when it was loaded, another tab or
\* the same one reloaded while its refresh was on the way, or one that a tab was logging out with.
\* As long as nobody loads a page or logs out, reuse detection does not end a user's sessions.
OnlySharedTokensAreMisused == misused # {} => misused \cap shared # {}

\* login: as long as no login reads the account while another is between its read and its
\* commit, the count is that of the wrong passwords since the last login, and the account is
\* locked, or has been since then, exactly when they have reached the threshold.
LockFollowsFailures ==
    ~overlapped =>
        /\ account.failures = wrong
        /\ account.locked # "never" <=> wrong >= Threshold

\* apiFetch: calls never wait for a refresh for good, be it refused, lost or turned away.
CallsSettle == []<>(\A t \in Tabs, c \in Calls : call[t][c].pc # "waiting")
=============================================================================
