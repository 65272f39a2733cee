---------------------------- MODULE SessionsProofs ----------------------------
(***************************************************************************)
(* Theorems about the sessions of an account: who may present a refresh    *)
(* token that was used before, and what the lockout counts.                *)
(***************************************************************************)
EXTENDS Sessions, TLAPS

Kinds == {"none", "refresh", "login", "logout"}
Pcs == {"free", "sent", "reused", "revoking", "rotating", "inserting", "right", "wrong",
        "issuing", "granted", "refused", "lost"}
Locks == {"never", "locked", "over"}
Row == [live : BOOLEAN, expired : BOOLEAN, replaced_by : Nat]
Request == [kind : Kinds, tab : Tabs \cup {NoTab}, pc : Pcs, token : Nat,
            rows : SUBSET (Nat \cup Locks), snap : Nat]

SessionsType ==
    /\ tokens \in Seq(Row)
    /\ account \in [active : BOOLEAN, failures : Nat, locked : Locks]
    /\ request \in [Slots -> Request]
    /\ mem \in [Tabs -> Nat]
    /\ stored \in Nat
    /\ wrong \in Nat
    /\ overlapped \in BOOLEAN

\* What a request of a kind may be doing while nothing was misused: no handler revokes the
\* tokens of the user, and what a logout carries is counted as shared.
RequestFits(r) ==
    LET q == request[r] IN
    /\ q.token <= Len(tokens)
    /\ q.pc = "free" <=> q.kind = "none"
    /\ q.pc \in {"rotating", "inserting"} => q.kind = "refresh"
    /\ q.pc \in {"right", "wrong", "issuing"} => q.kind = "login"
    /\ q.pc \notin {"reused", "revoking"}
    /\ q.kind = "refresh" => q.token # 0
    /\ q.kind = "logout" => q.token \in shared

\* The refreshes that carry k, those of them that may still rotate it, and the answers that
\* bring it to a tab.
Carries(r, k) == request[r].kind = "refresh" /\ request[r].pc # "granted" /\ request[r].token = k
MayRotate(r, k) == Carries(r, k) /\ request[r].pc \in {"sent", "rotating", "inserting"}
Brings(r, k) ==
    /\ request[r].kind \in {"refresh", "login"} /\ request[r].pc = "granted"
    /\ request[r].token = k

\* Nobody shares k: one tab holds it, whose own refresh alone carries it; while its answer is
\* on the way nobody else has it; and once it is used nobody is left to present it again.
Sole(k) ==
    /\ \A t, u \in Tabs : mem[t] = k /\ mem[u] = k => t = u
    /\ \A r, q \in Slots : MayRotate(r, k) /\ MayRotate(q, k) => r = q
    /\ \A r \in Slots, t \in Tabs : Carries(r, k) /\ mem[t] = k => request[r].tab = t
    /\ \A r, q \in Slots : Brings(r, k) => ~Carries(q, k)
    /\ \A r, q \in Slots : Brings(r, k) /\ Brings(q, k) => r = q
    /\ \A r \in Slots, t \in Tabs : Brings(r, k) => mem[t] # k
    /\ ~tokens[k].live => \A r \in Slots : ~MayRotate(r, k) /\ ~Brings(r, k)
    /\ ~tokens[k].live => \A t \in Tabs : mem[t] = k => Of(t, "refresh") # {}
    /\ tokens[k].replaced_by # 0 => ~tokens[k].live

Private == (1..Len(tokens)) \ shared

Unmisused ==
    /\ misused = {}
    /\ \A t \in Tabs : mem[t] <= Len(tokens)
    /\ stored <= Len(tokens)
    /\ \A r \in Slots : RequestFits(r)
    /\ \A k \in Private : Sole(k)

\* Until a shared token is misused none is.
MisuseInv == misused \cap shared # {} \/ Unmisused

\* The one login that is between its read and its commit has read what is still there.
LockInv ==
    ~overlapped =>
        /\ account.failures = wrong
        /\ account.locked # "never" <=> wrong >= Threshold
        /\ \A r, q \in Reading : r = q
        /\ \A r \in Reading : /\ request[r].snap = account.failures
                              /\ request[r].rows = {account.locked}
                              /\ account.locked # "locked"

-----------------------------------------------------------------------------
(* Types.                                                                  *)

LEMMA SlotIsFree ==
    ASSUME Free # {}
    PROVE  Slot \in Slots /\ request[Slot].pc = "free"
BY DEF Slot, Free

\* A request that is sent is one the service knows.
LEMMA SendKeepsType ==
    ASSUME SessionsType, NEW t \in Tabs, NEW kind \in Kinds, NEW k \in Nat, Send(t, kind, k)
    PROVE  request' \in [Slots -> Request]
<1>1. [NoRequest EXCEPT !.kind = kind, !.tab = t, !.pc = "sent", !.token = k] \in Request
  BY DEF NoRequest, Request, Kinds, Pcs
<1> QED
  BY <1>1 DEF Send, SessionsType

LEMMA ReleaseKeepsType ==
    ASSUME SessionsType, NEW r \in Slots, Release(r)
    PROVE  request' \in [Slots -> Request]
<1>1. NoRequest \in Request
  BY DEF NoRequest, Request, Kinds, Pcs
<1> QED
  BY <1>1 DEF Release, SessionsType

\* Rows are changed in place.
LEMMA RowsChange ==
    ASSUME NEW s \in Seq(Row), NEW f \in [1..Len(s) -> Row]
    PROVE  f \in Seq(Row) /\ Len(f) = Len(s)
OBVIOUS

LEMMA RowExcept ==
    ASSUME NEW s \in Seq(Row), NEW k, NEW live \in BOOLEAN, NEW next \in Nat, NEW expired \in BOOLEAN
    PROVE  /\ [s EXCEPT ![k].live = live] \in [1..Len(s) -> Row]
           /\ [s EXCEPT ![k].expired = expired] \in [1..Len(s) -> Row]
           /\ [s EXCEPT ![k].live = live, ![k].replaced_by = next] \in [1..Len(s) -> Row]
<1>1. s \in [1..Len(s) -> Row]
  OBVIOUS
<1>2. ASSUME NEW q \in Row
      PROVE  /\ [q EXCEPT !.live = live] \in Row
             /\ [q EXCEPT !.expired = expired] \in Row
             /\ [q EXCEPT !.live = live, !.replaced_by = next] \in Row
  BY DEF Row
<1> QED
  BY <1>1, <1>2, Zenon

LEMMA ServeKeepsType ==
    ASSUME SessionsType, SessionsAssumption, NEW r \in Slots, Serve(r)
    PROVE  SessionsType'
<1> USE DEF SessionsType
<1>1. request[r] \in Request
  OBVIOUS
<1>2. ASSUME NEW pc \in Pcs, Goto(r, pc)
      PROVE  request' \in [Slots -> Request]
  BY <1>1, <1>2 DEF Goto, Request
<1>3. CASE SelectToken(r)
  BY <1>2, <1>3 DEF SelectToken, Elsewhere, browser, server, Pcs
<1>4. CASE StartRevoking(r)
  <2>1. {k \in 1..Len(tokens) : tokens[k].live} \subseteq Nat
    BY DEF SessionsType
  <2> QED
    BY <1>1, <1>4, <2>1 DEF StartRevoking, Elsewhere, browser, server, history, Pcs, Request
<1>5. CASE CommitRevoking(r)
  <2>1. ASSUME NEW q \in Row
        PROVE  [q EXCEPT !.live = FALSE] \in Row
    BY DEF Row
  <2>2. DOMAIN tokens = 1..Len(tokens) /\ \A k \in 1..Len(tokens) : tokens[k] \in Row
    OBVIOUS
  <2>3. tokens' \in [1..Len(tokens) -> Row]
    BY <1>5, <2>1, <2>2 DEF CommitRevoking
  <2> QED
    BY <1>2, <1>5, <2>3, RowsChange DEF CommitRevoking, Elsewhere, browser, history, Pcs
<1>6. CASE GetUser(r)
  BY <1>2, <1>6 DEF GetUser, Elsewhere, browser, server, history, Pcs
<1>7. NewRow \in Row
  BY DEF NewRow, Row
<1>8. CASE Rotate(r)
  <2>1. Len(tokens) + 1 \in Nat
    OBVIOUS
  <2>2. [tokens EXCEPT ![request[r].token].live = FALSE,
                       ![request[r].token].replaced_by = Len(tokens) + 1] \in Seq(Row)
    <3>1. [tokens EXCEPT ![request[r].token].live = FALSE,
                         ![request[r].token].replaced_by = Len(tokens) + 1]
            \in [1..Len(tokens) -> Row]
      BY <2>1, RowExcept, FALSE \in BOOLEAN, tokens \in Seq(Row), Zenon
    <3> QED
      BY <3>1, RowsChange
  <2>3. tokens' \in Seq(Row)
    BY <1>7, <1>8, <2>2 DEF Rotate
  <2>4. Len(tokens') \in Nat
    BY <2>3
  <2> QED
    BY <1>1, <1>8, <2>3, <2>4 DEF Rotate, Grant, Elsewhere, browser, Pcs, Request
<1>9. ASSUME NEW verdict \in {"right", "wrong"}, ReadAccount(r, verdict)
      PROVE  SessionsType'
  <2>1. account.failures \in Nat /\ {account.locked} \in SUBSET (Nat \cup Locks)
    OBVIOUS
  <2>2. CASE account.locked = "locked"
    BY <1>2, <1>9, <2>2 DEF ReadAccount, Pcs, Elsewhere, browser, server
  <2>3. CASE account.locked # "locked"
    <3>1. [request[r] EXCEPT !.pc = verdict, !.snap = account.failures,
                             !.rows = {account.locked}] \in Request
      BY <1>1, <2>1 DEF Request, Pcs
    <3>2. request' \in [Slots -> Request]
      BY <1>9, <2>3, <3>1 DEF ReadAccount
    <3> QED
      BY <1>9, <2>3, <3>2 DEF ReadAccount, Elsewhere, browser, server
  <2> QED
    BY <2>2, <2>3
<1>10. CASE CountFailure(r)
  <2>1. request[r].snap + 1 \in Nat
    BY <1>1 DEF Request
  <2>2. account' \in [active : BOOLEAN, failures : Nat, locked : Locks]
    BY <1>10, <2>1 DEF CountFailure, Locks
  <2> QED
    BY <1>2, <1>10, <2>2 DEF CountFailure, Elsewhere, browser, Pcs
<1>11. CASE ResetFailures(r)
  <2>1. account' \in [active : BOOLEAN, failures : Nat, locked : Locks]
    BY <1>11 DEF ResetFailures, Locks
  <2> QED
    BY <1>2, <1>11, <2>1 DEF ResetFailures, Elsewhere, browser, Pcs
<1>12. CASE _issue_token_pair(r)
  <2>1. tokens' \in Seq(Row)
    BY <1>7, <1>12 DEF _issue_token_pair
  <2>2. Len(tokens') \in Nat
    BY <2>1
  <2> QED
    BY <1>1, <1>12, <2>1, <2>2
       DEF _issue_token_pair, Grant, Elsewhere, browser, history, Pcs, Request
<1>13. CASE TurnAway(r)
  BY <1>2, <1>13 DEF TurnAway, Elsewhere, browser, server, history, Pcs
<1>14. CASE RevokeOne(r)
  <2>1. tokens' \in Seq(Row)
    BY <1>14, RowExcept, RowsChange, 0 \in Nat DEF RevokeOne
  <2> QED
    BY <1>2, <1>14, <2>1 DEF RevokeOne, Elsewhere, browser, history, Pcs
<1> QED
  BY <1>3, <1>4, <1>5, <1>6, <1>8, <1>9, <1>10, <1>11, <1>12, <1>13, <1>14 DEF Serve

\* What a tab, the user, time and the administrator do keeps the types.
LEMMA TypeKept ==
    ASSUME SessionsType, SessionsAssumption, [SNext]_svars
    PROVE  SessionsType'
<1> USE DEF SessionsType
<1>1. ASSUME NEW t \in Tabs, NEW r \in Slots,
             \/ RefreshGranted(t, r) \/ RefreshFailed(t, r) \/ LoggedIn(t, r) \/ LoggedOut(t, r)
      PROVE  SessionsType'
  <2>1. request[r].token \in Nat
    BY DEF Request
  <2> QED
    BY <1>1, <2>1, ReleaseKeepsType
       DEF RefreshGranted, RefreshFailed, LoggedIn, LoggedOut, SetPair, server, history
<1>2. ASSUME NEW t \in Tabs, NEW c \in Calls, Call(t, c) \/ Succeed(t, c) \/ Error(t, c)
      PROVE  SessionsType'
  BY <1>2 DEF Call, Succeed, Error, Finish, server, history
<1>3. ASSUME NEW t \in Tabs, NEW c \in Calls, tryRefresh(t, c)
      PROVE  SessionsType'
  <2>1. request' \in [Slots -> Request]
    BY <1>3, SendKeepsType DEF tryRefresh, Kinds
  <2> QED
    BY <1>3, <2>1 DEF tryRefresh, server, history
<1>4. ASSUME NEW t \in Tabs, Login(t) \/ Logout(t)
      PROVE  SessionsType'
  <2>1. request' \in [Slots -> Request]
    BY <1>4, SendKeepsType DEF Login, Logout, Kinds
  <2> QED
    BY <1>4, <2>1 DEF Login, Logout, server, browser, history
<1>5. ASSUME NEW t \in Tabs, Reload(t)
      PROVE  SessionsType'
  <2>1. request' \in [Slots -> Request]
    BY <1>5, ZenonT(60) DEF Reload, Request
  <2> QED
    BY <1>5, <2>1 DEF Reload, server
<1>6. ASSUME NEW r \in Slots, Lose(r) \/ Forget(r)
      PROVE  SessionsType'
  <2>1. [request[r] EXCEPT !.pc = "lost"] \in Request
    BY ZenonT(60) DEF Request, Pcs
  <2>2. request' \in [Slots -> Request]
    BY <1>6, <2>1, ReleaseKeepsType DEF Lose, Forget, Goto
  <2> QED
    BY <1>6, <2>2 DEF Lose, Forget, Elsewhere, server, browser, history
<1>7. ASSUME NEW k \in 1..Len(tokens), AccessExpires(k)
      PROVE  SessionsType'
  BY <1>7 DEF AccessExpires, server, browser, history
<1>8. ASSUME NEW k \in 1..Len(tokens), RefreshExpires(k)
      PROVE  SessionsType'
  <2>1. tokens' \in Seq(Row)
    BY <1>8, RowExcept, RowsChange, 0 \in Nat DEF RefreshExpires
  <2> QED
    BY <1>8, <2>1 DEF RefreshExpires, browser, history
<1>9. CASE LockEnds
  BY <1>9 DEF LockEnds, browser, history, Locks
<1>10. ASSUME NEW active \in BOOLEAN, update_user(active)
       PROVE  SessionsType'
  BY <1>10 DEF update_user, browser, history
<1>11. CASE UNCHANGED svars
  BY <1>11 DEF svars, server, browser, history
<1> QED
  BY <1>1, <1>2, <1>3, <1>4, <1>5, <1>6, <1>7, <1>8, <1>9, <1>10, <1>11, ServeKeepsType
     DEF SNext, Receive, Use

LEMMA SessionsTypeStarts == SessionsAssumption /\ SInit => SessionsType
<1> SUFFICES ASSUME SessionsAssumption, SInit
             PROVE  SessionsType
  OBVIOUS
<1>1. NewRow \in Row
  BY DEF NewRow, Row
<1>2. <<NewRow>> \in Seq(Row)
  BY <1>1
<1>3. NoRequest \in Request
  BY DEF NoRequest, Request, Kinds, Pcs
<1>4. PICK c \in Scenarios : /\ mem = [t \in Tabs |-> IF t \in c.open THEN 1 ELSE 0]
                             /\ stored = IF c.open = {} THEN 0 ELSE 1
  BY DEF SInit
<1>5. mem \in [Tabs -> Nat] /\ stored \in Nat
  BY <1>4
<1> QED
  BY <1>2, <1>3, <1>5 DEF SInit, SessionsType, Locks

\* Every token, request and count of the sessions is what the code declares it to be.
THEOREM SessionsTypeCorrect == SSpec => []SessionsType
<1>1. SessionsType /\ [SNext]_svars => SessionsType'
  BY TypeKept, SessionsAssumption
<1> QED
  BY SessionsTypeStarts, SessionsAssumption, <1>1, PTL DEF SSpec

-----------------------------------------------------------------------------
(* The lockout.                                                            *)

\* Who neither reads nor writes the account, nor the count, leaves the invariant alone.
LEMMA LockUndisturbed ==
    ASSUME LockInv, UNCHANGED <<account, wrong, overlapped>>,
           \A r \in Slots : request'[r].pc \in {"right", "wrong"} => request'[r].pc = request[r].pc
                                                                 /\ request'[r].snap = request[r].snap
                                                                 /\ request'[r].rows = request[r].rows
    PROVE  LockInv'
BY DEF LockInv, Reading

LEMMA LockKept ==
    ASSUME SessionsType, SessionsAssumption, LockInv, [SNext]_svars
    PROVE  LockInv'
<1> USE DEF SessionsType
<1>0. ASSUME NEW r \in Slots, NEW pc, Goto(r, pc), pc \notin {"right", "wrong"},
             UNCHANGED <<account, wrong, overlapped>>
      PROVE  LockInv'
  <2>1. \A q \in Slots : request'[q].pc = IF q = r THEN pc ELSE request[q].pc
    BY <1>0 DEF Goto, Request
  <2>2. \A q \in Slots : q # r => request'[q] = request[q]
    BY <1>0 DEF Goto
  <2> QED
    BY <1>0, <2>1, <2>2, LockUndisturbed
<1>1. ASSUME NEW r \in Slots, NEW verdict \in {"right", "wrong"}, ReadAccount(r, verdict)
      PROVE  LockInv'
  <2>1. CASE account.locked = "locked"
    BY <1>0, <1>1, <2>1 DEF ReadAccount, server
  <2>2. CASE account.locked # "locked" /\ Reading = {}
    <3>1. Reading' = {r}
      BY <1>1, <2>2 DEF ReadAccount, Reading, Request
    <3>2. request'[r].snap = account.failures /\ request'[r].rows = {account.locked}
      BY <1>1, <2>2 DEF ReadAccount, Request
    <3> QED
      BY <1>1, <2>2, <3>1, <3>2 DEF ReadAccount, LockInv, Elsewhere, server
  <2>3. CASE account.locked # "locked" /\ Reading # {}
    BY <1>1, <2>3 DEF ReadAccount, LockInv
  <2> QED
    BY <2>1, <2>2, <2>3
<1>2. ASSUME NEW r \in Slots, CountFailure(r)
      PROVE  LockInv'
  <2> SUFFICES ASSUME ~overlapped
               PROVE  LockInv'
    BY <1>2 DEF CountFailure, LockInv
  <2>1. r \in Reading
    BY <1>2 DEF CountFailure, At, Reading
  <2>2. Reading' = {}
    BY <1>2, <2>1 DEF CountFailure, Goto, LockInv, Reading, Request
  <2>3. account.failures \in Nat /\ account.failures = wrong /\ request[r].snap = wrong
        /\ (account.locked # "never" <=> wrong >= Threshold)
    BY <2>1 DEF LockInv
  <2>4. /\ account'.failures = wrong + 1
        /\ account'.locked = IF wrong + 1 >= Threshold THEN "locked" ELSE account.locked
    BY <1>2, <2>3 DEF CountFailure
  <2>5. Threshold \in Nat
    BY DEF SessionsAssumption
  <2> QED
    BY <1>2, <2>2, <2>3, <2>4, <2>5 DEF CountFailure, LockInv
<1>3. ASSUME NEW r \in Slots, ResetFailures(r)
      PROVE  LockInv'
  <2> SUFFICES ASSUME ~overlapped
               PROVE  LockInv'
    BY <1>3 DEF ResetFailures, LockInv
  <2>1. r \in Reading
    BY <1>3 DEF ResetFailures, At, Reading
  <2>2. Reading' = {}
    BY <1>3, <2>1 DEF ResetFailures, Goto, LockInv, Reading, Request
  <2>3. request[r].snap = account.failures /\ request[r].rows = {account.locked}
    BY <2>1 DEF LockInv
  <2>4. account'.failures = 0 /\ account'.locked = "never"
    BY <1>3, <2>3 DEF ResetFailures
  <2>5. Threshold \in Nat \ {0}
    BY DEF SessionsAssumption
  <2> QED
    BY <1>3, <2>2, <2>4, <2>5 DEF ResetFailures, LockInv
<1>4. CASE LockEnds
  BY <1>4 DEF LockEnds, LockInv, browser, history, Reading
<1>5. ASSUME NEW active \in BOOLEAN, update_user(active)
      PROVE  LockInv'
  BY <1>5 DEF update_user, LockInv, browser, history, Reading
<1>6. ASSUME NEW r \in Slots,
             \/ SelectToken(r) \/ StartRevoking(r) \/ CommitRevoking(r) \/ GetUser(r) \/ Rotate(r)
             \/ _issue_token_pair(r) \/ TurnAway(r) \/ RevokeOne(r) \/ Lose(r)
      PROVE  LockInv'
  <2>1. UNCHANGED <<account, wrong, overlapped>>
    BY <1>6
       DEF SelectToken, StartRevoking, CommitRevoking, GetUser, Rotate, _issue_token_pair,
           TurnAway, RevokeOne, Lose, server, history
  <2>2. CASE SelectToken(r)
    BY <1>0, <2>1, <2>2 DEF SelectToken
  <2>3. CASE StartRevoking(r)
    BY <2>1, <2>3, LockUndisturbed DEF StartRevoking, Request
  <2>4. CASE CommitRevoking(r) \/ GetUser(r) \/ TurnAway(r) \/ RevokeOne(r) \/ Lose(r)
    BY <1>0, <2>1, <2>4 DEF CommitRevoking, GetUser, TurnAway, RevokeOne, Lose
  <2>5. CASE Rotate(r) \/ _issue_token_pair(r)
    BY <2>1, <2>5, LockUndisturbed, ZenonT(60) DEF Rotate, _issue_token_pair, Grant, Request
  <2> QED
    BY <1>6, <2>2, <2>3, <2>4, <2>5
<1>7. ASSUME NEW r \in Slots, Release(r), UNCHANGED <<account, wrong, overlapped>>
      PROVE  LockInv'
  BY <1>7, LockUndisturbed DEF Release, NoRequest
<1>8. ASSUME NEW t \in Tabs, NEW kind, NEW k, Send(t, kind, k),
             UNCHANGED <<account, wrong, overlapped>>
      PROVE  LockInv'
  BY <1>8, LockUndisturbed DEF Send, NoRequest
<1>9. ASSUME NEW t \in Tabs, Receive(t) \/ Use(t)
      PROVE  LockInv'
  <2>1. CASE Receive(t)
    BY <1>7, <2>1 DEF Receive, RefreshGranted, RefreshFailed, LoggedIn, LoggedOut, server, history
  <2>2. CASE Reload(t)
    BY <2>2, LockUndisturbed DEF Reload, server, Request
  <2>3. ASSUME NEW c \in Calls, Call(t, c) \/ Succeed(t, c) \/ Error(t, c) \/ tryRefresh(t, c)
        PROVE  LockInv'
    BY <1>8, <2>3, LockUndisturbed DEF Call, Succeed, Error, Finish, tryRefresh, server, history
  <2>4. CASE Login(t) \/ Logout(t)
    BY <1>8, <2>4 DEF Login, Logout, server, history
  <2> QED
    BY <1>9, <2>1, <2>2, <2>3, <2>4 DEF Use
<1>10. ASSUME NEW k \in 1..Len(tokens), AccessExpires(k) \/ RefreshExpires(k)
       PROVE  LockInv'
  BY <1>10, LockUndisturbed DEF AccessExpires, RefreshExpires, server, history
<1>11. ASSUME NEW r \in Slots, Forget(r)
       PROVE  LockInv'
  BY <1>7, <1>11 DEF Forget, server, history
<1>12. CASE UNCHANGED svars
  BY <1>12, LockUndisturbed DEF svars, server, history
<1> QED
  BY <1>1, <1>2, <1>3, <1>4, <1>5, <1>6, <1>9, <1>10, <1>11, <1>12 DEF SNext, Serve

\* login: while the logins of an account do not overlap, the count it keeps is that of the wrong
\* passwords since the last right one, and the lock is set exactly from the threshold on.
THEOREM LockoutCountsFailures == SSpec => []LockFollowsFailures
<1>1. SInit => LockInv
  <2> SUFFICES ASSUME SInit
               PROVE  LockInv
    OBVIOUS
  <2>1. Reading = {}
    BY DEF SInit, Reading, NoRequest
  <2>2. Threshold \in Nat \ {0}
    BY SessionsAssumption DEF SessionsAssumption
  <2> QED
    BY <2>1, <2>2 DEF SInit, LockInv
<1>2. SessionsType /\ LockInv /\ [SNext]_svars => LockInv'
  BY LockKept, SessionsAssumption
<1>3. LockInv => LockFollowsFailures
  BY DEF LockInv, LockFollowsFailures
<1> QED
  BY <1>1, <1>2, <1>3, SessionsTypeCorrect, PTL DEF SSpec

-----------------------------------------------------------------------------
(* Refresh tokens.                                                         *)

\* A pair stays with the tab that has it as long as nobody comes to hold, carry or bring it, no
\* row changes, and the tabs that keep it keep the refresh they wait for.
LEMMA SoleKept ==
    ASSUME NEW k, Sole(k),
           tokens'[k].live = tokens[k].live, tokens'[k].replaced_by = tokens[k].replaced_by,
           \A q \in Slots : MayRotate(q, k)' => MayRotate(q, k),
           \A q \in Slots : Brings(q, k)' => Brings(q, k),
           \A q \in Slots : Carries(q, k)' => Carries(q, k) \/ (Brings(q, k) /\ ~Brings(q, k)'),
           \A q \in Slots, t \in Tabs :
               Carries(q, k)' /\ mem'[t] = k /\ request[q].tab = t => request'[q].tab = t,
           \A t \in Tabs : mem'[t] = k => /\ mem[t] = k
                                          /\ Of(t, "refresh") # {} => Of(t, "refresh")' # {}
    PROVE  Sole(k)'
<1>1. \A t, u \in Tabs : mem'[t] = k /\ mem'[u] = k => t = u
  BY DEF Sole
<1>2. \A r, q \in Slots : MayRotate(r, k)' /\ MayRotate(q, k)' => r = q
  BY DEF Sole
<1>3. \A r \in Slots, t \in Tabs : Carries(r, k)' /\ mem'[t] = k => request'[r].tab = t
  BY DEF Sole
<1>4. \A r, q \in Slots : Brings(r, k)' => ~Carries(q, k)'
  BY DEF Sole
<1>5. \A r, q \in Slots : Brings(r, k)' /\ Brings(q, k)' => r = q
  BY DEF Sole
<1>6. \A r \in Slots, t \in Tabs : Brings(r, k)' => mem'[t] # k
  BY DEF Sole
<1>7. ~tokens'[k].live => \A r \in Slots : ~MayRotate(r, k)' /\ ~Brings(r, k)'
  BY DEF Sole
<1>8. ~tokens'[k].live => \A t \in Tabs : mem'[t] = k => Of(t, "refresh")' # {}
  BY DEF Sole
<1>9. tokens'[k].replaced_by # 0 => ~tokens'[k].live
  BY DEF Sole
<1> QED
  BY <1>1, <1>2, <1>3, <1>4, <1>5, <1>6, <1>7, <1>8, <1>9 DEF Sole

\* The handler of r goes on without granting anything.
LEMMA MoveKeepsSole ==
    ASSUME SessionsType, Unmisused, NEW r \in Slots, RequestFits(r)',
           UNCHANGED <<tokens, mem, stored, shared, misused>>,
           \A q \in Slots : q # r => request'[q] = request[q],
           request'[r].kind = request[r].kind, request'[r].tab = request[r].tab,
           request'[r].token = request[r].token, request'[r].pc # "granted",
           request[r].kind = "refresh" /\ request'[r].pc \in {"sent", "rotating", "inserting"}
               => request[r].pc \in {"sent", "rotating", "inserting"}
    PROVE  Unmisused'
<1>1. \A q \in Slots : RequestFits(q)'
  BY DEF Unmisused, RequestFits
<1>2. ASSUME NEW k \in Private'
      PROVE  Sole(k)'
  <2>1. Sole(k)
    BY <1>2 DEF Unmisused, Private
  <2>2. \A q \in Slots : MayRotate(q, k)' => MayRotate(q, k)
    BY DEF MayRotate, Carries
  <2>3. \A q \in Slots : Brings(q, k)' => Brings(q, k) /\ q # r
    BY DEF Brings
  <2>4. \A q \in Slots : Carries(q, k)' => Carries(q, k) \/ (Brings(q, k) /\ ~Brings(q, k)')
    BY <2>3 DEF Carries, Brings
  <2>5. \A q \in Slots : request'[q].tab = request[q].tab
    OBVIOUS
  <2>6. \A t \in Tabs : Of(t, "refresh")' = Of(t, "refresh")
    BY DEF Of
  <2> QED
    BY <2>1, <2>2, <2>3, <2>4, <2>5, <2>6, SoleKept
<1> QED
  BY <1>1, <1>2 DEF Unmisused

\* A tab is done with r: it keeps the pair it has or drops it.
LEMMA ReleaseKeepsSole ==
    ASSUME SessionsType, Unmisused, NEW r \in Slots, Release(r),
           UNCHANGED <<tokens, shared, misused>>, stored' \in {0, stored},
           \/ mem' = mem /\ \A t \in Tabs : r \notin Of(t, "refresh")
           \/ \E t \in Tabs : request[r].tab = t /\ mem' = [mem EXCEPT ![t] = 0]
    PROVE  Unmisused'
<1> USE DEF SessionsType
<1>1. /\ \A q \in Slots : q # r => request'[q] = request[q]
      /\ request'[r] = NoRequest
  BY DEF Release
<1>2. \A q \in Slots : RequestFits(q)'
  BY <1>1 DEF Unmisused, RequestFits, NoRequest
<1>3. ASSUME NEW k \in Private'
      PROVE  Sole(k)'
  <2>1. Sole(k) /\ k # 0
    BY <1>3 DEF Unmisused, Private
  <2>2. \A q \in Slots : /\ MayRotate(q, k)' => MayRotate(q, k)
                         /\ Brings(q, k)' => Brings(q, k)
                         /\ Carries(q, k)' => Carries(q, k) /\ request'[q].tab = request[q].tab
    BY <1>1 DEF MayRotate, Carries, Brings, NoRequest
  <2>3. \A t \in Tabs : mem'[t] = k => mem[t] = k /\ r \notin Of(t, "refresh")
    BY <2>1 DEF Of
  <2>4. \A t \in Tabs : r \notin Of(t, "refresh") => Of(t, "refresh") \subseteq Of(t, "refresh")'
    BY <1>1 DEF Of
  <2>5. \A t \in Tabs : mem'[t] = k => /\ mem[t] = k
                                       /\ Of(t, "refresh") # {} => Of(t, "refresh")' # {}
    BY <2>3, <2>4
  <2> QED
    BY <2>1, <2>2, <2>5, SoleKept
<1>4. Len(tokens) \in Nat
  OBVIOUS
<1>5. \A t \in Tabs : mem'[t] \in {0, mem[t]}
  OBVIOUS
<1> QED
  BY <1>2, <1>3, <1>4, <1>5, SMTT(60) DEF Unmisused

\* A request is sent: a refresh carries the pair its tab holds, a logout one that is shared.
LEMMA SendKeepsSole ==
    ASSUME SessionsType, SessionsAssumption, Unmisused,
           NEW t \in Tabs, NEW kind \in {"refresh", "login", "logout"}, NEW j \in Nat,
           Send(t, kind, j), UNCHANGED <<tokens, mem, stored, misused>>,
           shared \subseteq shared', j <= Len(tokens),
           kind = "refresh" => j = mem[t] /\ j # 0 /\ Of(t, "refresh") = {},
           kind = "logout" => j \in shared'
    PROVE  Unmisused'
<1> USE DEF SessionsType
<1>0. PICK s \in Slots : s = Slot
  BY SlotIsFree DEF Send
<1>1. request[s].pc = "free"
  BY <1>0, SlotIsFree DEF Send
<1>2. /\ \A q \in Slots : q # s => request'[q] = request[q]
      /\ request'[s] = [NoRequest EXCEPT !.kind = kind, !.tab = t, !.pc = "sent", !.token = j]
  BY <1>0 DEF Send
<1>3. /\ request'[s].kind = kind /\ request'[s].tab = t /\ request'[s].pc = "sent"
      /\ request'[s].token = j
  BY <1>2 DEF NoRequest
<1>4. request[s].kind = "none"
  BY <1>1 DEF Unmisused, RequestFits
<1>5. \A q \in Slots : RequestFits(q)'
  <2>1. RequestFits(s)'
    BY <1>3 DEF RequestFits
  <2>2. ASSUME NEW q \in Slots, q # s
        PROVE  RequestFits(q)'
    BY <1>2, <2>2 DEF Unmisused, RequestFits
  <2> QED
    BY <2>1, <2>2
<1>6. ASSUME NEW k \in Private', k # j \/ kind # "refresh"
      PROVE  Sole(k)'
  <2>1. Sole(k)
    BY <1>6 DEF Unmisused, Private
  <2>2. \A q \in Slots : /\ MayRotate(q, k)' => MayRotate(q, k)
                         /\ Brings(q, k)' => Brings(q, k)
                         /\ Carries(q, k)' => Carries(q, k) /\ request'[q].tab = request[q].tab
    BY <1>2, <1>3, <1>6 DEF MayRotate, Carries, Brings
  <2>3. \A u \in Tabs : Of(u, "refresh") \subseteq Of(u, "refresh")'
    BY <1>2, <1>4 DEF Of
  <2> QED
    BY <2>1, <2>2, <2>3, SoleKept
<1>7. ASSUME j \in Private', kind = "refresh"
      PROVE  Sole(j)'
  <2>1. Sole(j)
    BY <1>7 DEF Unmisused, Private
  <2>2. tokens[j].live
    BY <1>7, <2>1 DEF Sole
  <2>3. \A q \in Slots : ~Carries(q, j)
    BY <1>7, <2>1 DEF Sole, Carries, Of
  <2>4. \A q \in Slots : /\ Carries(q, j)' => q = s
                         /\ MayRotate(q, j)' => q = s
    BY <1>2, <2>3 DEF Carries, MayRotate
  <2>5. \A q \in Slots : ~Brings(q, j)'
    <3>1. \A q \in Slots : ~Brings(q, j)
      BY <1>7, <2>1 DEF Sole
    <3> QED
      BY <1>2, <1>3, <3>1, ZenonT(60) DEF Brings
  <2>6. \A u \in Tabs : mem[u] = j => u = t
    BY <1>7, <2>1 DEF Sole
  <2> QED
    BY <1>3, <2>1, <2>2, <2>4, <2>5, <2>6 DEF Sole
<1> QED
  BY <1>5, <1>6, <1>7 DEF Unmisused

\* A tab takes up the pair r has brought it.
LEMMA TakeKeepsSole ==
    ASSUME SessionsType, Unmisused, NEW t \in Tabs, NEW r \in Slots,
           request[r].tab = t, request[r].kind \in {"refresh", "login"},
           request[r].pc = "granted", NEW j, j = request[r].token, SetPair(t, j), Release(r),
           UNCHANGED <<tokens, shared, misused>>
    PROVE  Unmisused'
<1> USE DEF SessionsType
<1>1. /\ \A q \in Slots : q # r => request'[q] = request[q]
      /\ request'[r] = NoRequest
  BY DEF Release
<1>2. j \in Nat /\ j <= Len(tokens)
  BY DEF Unmisused, RequestFits, Request
<1>3. mem' = [mem EXCEPT ![t] = j] /\ stored' = j
  BY DEF SetPair
<1>4. \A q \in Slots : RequestFits(q)'
  BY <1>1 DEF Unmisused, RequestFits, NoRequest
<1>5. \A k : \A q \in Slots : /\ MayRotate(q, k)' => MayRotate(q, k)
                              /\ Brings(q, k)' => Brings(q, k) /\ q # r
                              /\ Carries(q, k)' => Carries(q, k) /\ request'[q].tab = request[q].tab
  BY <1>1 DEF MayRotate, Carries, Brings, NoRequest
<1>6. ASSUME NEW k \in Private', k # j
      PROVE  Sole(k)'
  <2>1. Sole(k)
    BY <1>6 DEF Unmisused, Private
  <2>2. \A u \in Tabs : mem'[u] = k => mem[u] = k /\ u # t
    BY <1>3, <1>6
  <2>3. \A u \in Tabs : u # t => Of(u, "refresh") \subseteq Of(u, "refresh")'
    BY <1>1 DEF Of
  <2>4. \A u \in Tabs : mem'[u] = k => /\ mem[u] = k
                                       /\ Of(u, "refresh") # {} => Of(u, "refresh")' # {}
    BY <2>2, <2>3
  <2> QED
    BY <1>5, <2>1, <2>4, SoleKept
<1>7. ASSUME j \in Private'
      PROVE  Sole(j)'
  <2>1. Sole(j)
    BY <1>7 DEF Unmisused, Private
  <2>2. Brings(r, j)
    BY DEF Brings
  <2>3. /\ tokens[j].live
        /\ \A q \in Slots : ~Carries(q, j)
        /\ \A q \in Slots : Brings(q, j) => q = r
        /\ \A u \in Tabs : mem[u] # j
    BY <2>1, <2>2 DEF Sole
  <2>4. \A u \in Tabs : mem'[u] = j => u = t
    BY <1>3, <2>3
  <2>5. \A q \in Slots : ~Carries(q, j)' /\ ~MayRotate(q, j)' /\ ~Brings(q, j)'
    BY <1>5, <2>3 DEF MayRotate
  <2> QED
    BY <2>1, <2>3, <2>4, <2>5 DEF Sole
<1>8. \A u \in Tabs : mem'[u] <= Len(tokens)
  BY <1>2, <1>3 DEF Unmisused
<1> QED
  BY <1>2, <1>3, <1>4, <1>6, <1>7, <1>8 DEF Unmisused

\* A row is added and granted to r, which may give up the row it carries for it.
LEMMA IssueKeepsSole ==
    ASSUME SessionsType, Unmisused, NEW r \in Slots, Grant(r),
           NEW n, n = Len(tokens) + 1, Len(tokens') = n, tokens'[n] = NewRow,
           UNCHANGED <<mem, stored, shared, misused>>, request[r].kind \in {"refresh", "login"},
           request[r].pc \notin {"free", "granted"},
           \A k \in 1..Len(tokens) :
               IF MayRotate(r, k) THEN ~tokens'[k].live ELSE tokens'[k] = tokens[k]
    PROVE  Unmisused'
<1> USE DEF SessionsType
<1>1. Len(tokens) \in Nat /\ n \in Nat /\ Len(tokens') = n
  OBVIOUS
<1>2. /\ \A q \in Slots : q # r => request'[q] = request[q]
      /\ request'[r].kind = request[r].kind /\ request'[r].tab = request[r].tab
      /\ request'[r].pc = "granted" /\ request'[r].token = n
  BY DEF Grant, Request
<1>3. \A q \in Slots : RequestFits(q)'
  <2>1. RequestFits(r)'
    BY <1>1, <1>2 DEF RequestFits
  <2>2. ASSUME NEW q \in Slots, q # r
        PROVE  RequestFits(q)'
    <3>1. request[q].token \in Nat
      BY DEF Request
    <3> QED
      BY <1>1, <1>2, <2>2, <3>1 DEF Unmisused, RequestFits
  <2> QED
    BY <2>1, <2>2
<1>4. \A u \in Tabs : Of(u, "refresh")' = Of(u, "refresh")
  BY <1>2 DEF Of
<1>5. \A k : k # n => \A q \in Slots : /\ MayRotate(q, k)' => MayRotate(q, k) /\ q # r
                                       /\ Brings(q, k)' => Brings(q, k)
                                       /\ Carries(q, k)' => Carries(q, k)
  BY <1>2 DEF MayRotate, Carries, Brings
<1>6. ASSUME NEW k \in Private', k # n, ~MayRotate(r, k)
      PROVE  Sole(k)'
  <2>1. k \in 1..Len(tokens) /\ Sole(k)
    BY <1>1, <1>6 DEF Unmisused, Private
  <2> QED
    BY <1>2, <1>4, <1>5, <1>6, <2>1, SoleKept
<1>7. ASSUME NEW k \in Private', k # n, MayRotate(r, k)
      PROVE  Sole(k)'
  <2>1. k \in 1..Len(tokens) /\ Sole(k)
    BY <1>1, <1>7 DEF Unmisused, Private
  <2>2. Carries(r, k) /\ request[r].kind = "refresh"
    BY <1>7 DEF MayRotate, Carries
  <2>3. \A q \in Slots : ~MayRotate(q, k)' /\ ~Brings(q, k)'
    BY <1>5, <1>7, <2>1, <2>2 DEF Sole
  <2>4. \A t \in Tabs : mem[t] = k => request[r].tab = t
    BY <2>1, <2>2 DEF Sole
  <2>5. \A t \in Tabs : mem[t] = k => Of(t, "refresh")' # {}
    BY <1>4, <2>2, <2>4 DEF Of
  <2>6. \A q \in Slots, t \in Tabs : Carries(q, k)' /\ mem[t] = k => request'[q].tab = t
    BY <1>2, <1>5, <1>7, <2>1 DEF Sole
  <2>7. ~tokens'[k].live
    BY <1>7, <2>1
  <2> QED
    BY <2>1, <2>3, <2>5, <2>6, <2>7 DEF Sole
<1>8. Sole(n)'
  <2>1. /\ \A u \in Tabs : mem[u] # n
        /\ \A q \in Slots : request[q].token # n
    BY <1>1 DEF Unmisused, RequestFits, Request
  <2>2. \A q \in Slots : /\ ~Carries(q, n)' /\ ~MayRotate(q, n)'
                         /\ Brings(q, n)' => q = r
    BY <1>2, <2>1 DEF Carries, MayRotate, Brings
  <2>3. tokens'[n].live /\ tokens'[n].replaced_by = 0
    BY DEF NewRow
  <2> QED
    BY <2>1, <2>2, <2>3 DEF Sole
<1>9. \A u \in Tabs : mem'[u] <= Len(tokens')
  BY <1>1 DEF Unmisused
<1>10. stored' <= Len(tokens')
  BY <1>1 DEF Unmisused
<1> QED
  BY <1>3, <1>6, <1>7, <1>8, <1>9, <1>10 DEF Unmisused

LEMMA MisuseKept ==
    ASSUME SessionsType, SessionsAssumption, MisuseInv, [SNext]_svars
    PROVE  MisuseInv'
<1> USE DEF SessionsType
<1>1. shared \subseteq shared' /\ misused \subseteq misused'
  BY ZenonT(60) DEF SNext, svars, Serve, Receive, Use, SelectToken, StartRevoking, CommitRevoking, GetUser,
         Rotate, ReadAccount, CountFailure, ResetFailures, _issue_token_pair, TurnAway, RevokeOne,
         Lose, Forget, RefreshGranted, RefreshFailed, LoggedIn, LoggedOut, Call, Succeed, Error,
         Finish, tryRefresh, Login, Logout, Reload, AccessExpires, RefreshExpires, LockEnds,
         update_user, Elsewhere, history
<1> SUFFICES ASSUME Unmisused
             PROVE  MisuseInv'
  BY <1>1 DEF MisuseInv
<1>2. Len(tokens) \in Nat
  OBVIOUS
<1>3. ASSUME NEW r \in Slots
      PROVE  request[r] \in Request /\ RequestFits(r)
  BY DEF Unmisused
\* Moves that grant nothing.
<1>4. ASSUME NEW r \in Slots, NEW pc \in Pcs \ {"free", "granted", "reused", "revoking"}, Goto(r, pc),
             UNCHANGED <<tokens, mem, stored, shared, misused>>, request[r].pc # "free",
             pc \in {"sent", "rotating", "inserting"} =>
                 /\ request[r].kind = "refresh"
                 /\ request[r].pc \in {"sent", "rotating", "inserting"},
             pc \in {"right", "wrong", "issuing"} => request[r].kind = "login"
      PROVE  MisuseInv'
  <2>1. /\ \A q \in Slots : q # r => request'[q] = request[q]
        /\ request'[r].kind = request[r].kind /\ request'[r].tab = request[r].tab
        /\ request'[r].token = request[r].token /\ request'[r].pc = pc
    BY <1>3, <1>4 DEF Goto, Request
  <2>2. RequestFits(r)'
    BY <1>3, <1>4, <2>1 DEF RequestFits
  <2> QED
    BY <1>4, <2>1, <2>2, MoveKeepsSole DEF MisuseInv
<1>5. ASSUME NEW r \in Slots, SelectToken(r)
      PROVE  MisuseInv'
  <2>1. PICK k \in 1..Len(tokens) : k = request[r].token
    BY <1>2, <1>3, <1>5 DEF SelectToken, At, RequestFits, Request
  <2>2. CASE tokens[k].live
    BY <1>4, <1>5, <2>1, <2>2 DEF SelectToken, At, Pcs, Elsewhere, browser, server
  <2>3. CASE ~tokens[k].live
    <3>1. MayRotate(r, k)
      BY <1>5, <2>1 DEF SelectToken, At, MayRotate, Carries
    <3>2. k \in shared
      BY <2>1, <2>3, <3>1 DEF Unmisused, Private, Sole
    <3> QED
      BY <1>1, <1>5, <2>1, <2>3, <3>2 DEF SelectToken, MisuseInv
  <2> QED
    BY <2>2, <2>3
<1>6. ASSUME NEW r \in Slots, StartRevoking(r) \/ CommitRevoking(r)
      PROVE  FALSE
  BY <1>3, <1>6 DEF StartRevoking, CommitRevoking, At, RequestFits
<1>7. ASSUME NEW r \in Slots, GetUser(r) \/ CountFailure(r) \/ ResetFailures(r) \/ TurnAway(r)
      PROVE  MisuseInv'
  BY <1>4, <1>7
     DEF GetUser, CountFailure, ResetFailures, TurnAway, At, Pcs, Elsewhere, browser, server,
         history
<1>8. ASSUME NEW r \in Slots, Rotate(r)
      PROVE  MisuseInv'
  <2>1. PICK k \in 1..Len(tokens) : k = request[r].token
    BY <1>2, <1>3, <1>8 DEF Rotate, At, RequestFits, Request
  <2>2. MayRotate(r, k)
    BY <1>8, <2>1 DEF Rotate, At, MayRotate, Carries
  <2>3. CASE tokens[k].replaced_by # 0
    <3>1. k \in shared
      BY <2>1, <2>2, <2>3 DEF Unmisused, Private, Sole
    <3> QED
      BY <1>1, <1>8, <2>1, <2>3, <3>1 DEF Rotate, MisuseInv
  <2>4. CASE tokens[k].replaced_by = 0
    <3> DEFINE rows == [tokens EXCEPT ![k].live = FALSE, ![k].replaced_by = Len(tokens) + 1]
    <3>1. rows \in [1..Len(tokens) -> Row]
      BY <1>2, RowExcept, Len(tokens) + 1 \in Nat, FALSE \in BOOLEAN, tokens \in Seq(Row), Zenon
    <3>2. rows \in Seq(Row) /\ Len(rows) = Len(tokens)
      BY <3>1, RowsChange
    <3>3. ~rows[k].live /\ \A j \in 1..Len(tokens) : j # k => rows[j] = tokens[j]
      BY <2>1 DEF Row
    <3>4. tokens' = Append(rows, NewRow)
      BY <1>8, <2>1 DEF Rotate
    <3> HIDE DEF rows
    <3>5. /\ Len(tokens') = Len(tokens) + 1 /\ tokens'[Len(tokens) + 1] = NewRow
          /\ \A j \in 1..Len(tokens) : tokens'[j] = rows[j]
      BY <1>2, <3>2, <3>4
    <3>6. \A j \in 1..Len(tokens) :
              IF MayRotate(r, j) THEN ~tokens'[j].live ELSE tokens'[j] = tokens[j]
      BY <2>1, <2>2, <3>3, <3>5 DEF MayRotate, Carries
    <3>7. UNCHANGED <<mem, stored, shared, misused>>
      BY <1>8, <2>1, <2>4 DEF Rotate, Elsewhere, browser
    <3>8. Grant(r) /\ request[r].kind = "refresh" /\ request[r].pc \notin {"free", "granted"}
      BY <1>8 DEF Rotate, At
    <3> QED
      BY <1>2, <3>5, <3>6, <3>7, <3>8, IssueKeepsSole DEF MisuseInv
  <2> QED
    BY <2>3, <2>4
<1>9. ASSUME NEW r \in Slots, _issue_token_pair(r)
      PROVE  MisuseInv'
  <2>1. /\ Len(tokens') = Len(tokens) + 1 /\ tokens'[Len(tokens) + 1] = NewRow
        /\ \A j \in 1..Len(tokens) : tokens'[j] = tokens[j]
    BY <1>2, <1>9 DEF _issue_token_pair
  <2>2. Grant(r) /\ request[r].kind = "login" /\ request[r].pc \notin {"free", "granted"}
        /\ UNCHANGED <<mem, stored, shared, misused>>
    BY <1>9 DEF _issue_token_pair, At, Elsewhere, browser, history
  <2>3. \A j : ~MayRotate(r, j)
    BY <2>2 DEF MayRotate, Carries
  <2> QED
    BY <1>2, <2>1, <2>2, <2>3, IssueKeepsSole DEF MisuseInv
<1>10. ASSUME NEW r \in Slots, NEW verdict \in {"right", "wrong"}, ReadAccount(r, verdict)
       PROVE  MisuseInv'
  <2>1. CASE account.locked = "locked"
    BY <1>4, <1>10, <2>1 DEF ReadAccount, At, Pcs, Elsewhere, browser, server
  <2>2. CASE account.locked # "locked"
    <3>1. /\ \A q \in Slots : q # r => request'[q] = request[q]
          /\ request'[r].kind = request[r].kind /\ request'[r].tab = request[r].tab
          /\ request'[r].token = request[r].token /\ request'[r].pc = verdict
      BY <1>3, <1>10, <2>2 DEF ReadAccount, Request
    <3>2. UNCHANGED <<tokens, mem, stored, shared, misused>> /\ request[r].kind = "login"
      BY <1>10 DEF ReadAccount, At, Elsewhere, browser, server
    <3>3. RequestFits(r)'
      BY <1>3, <3>1, <3>2 DEF RequestFits
    <3> QED
      BY <3>1, <3>2, <3>3, MoveKeepsSole DEF MisuseInv
  <2> QED
    BY <2>1, <2>2
<1>11. ASSUME NEW r \in Slots, RevokeOne(r)
       PROVE  MisuseInv'
  <2>1. /\ \A q \in Slots : q # r => request'[q] = request[q]
        /\ request'[r].kind = "logout" /\ request[r].kind = "logout"
        /\ request'[r].token = request[r].token /\ request'[r].pc = "granted"
    BY <1>3, <1>11 DEF RevokeOne, At, Goto, Request
  <2>2. UNCHANGED <<mem, stored, shared, misused>> /\ request[r].token \in shared
    BY <1>3, <1>11 DEF RevokeOne, At, Elsewhere, browser, history, RequestFits
  <2>3. tokens' \in Seq(Row) /\ Len(tokens') = Len(tokens)
    <3>1. tokens' \in [1..Len(tokens) -> Row]
      BY <1>11, RowExcept, 0 \in Nat, FALSE \in BOOLEAN, tokens \in Seq(Row), Zenon DEF RevokeOne
    <3> QED
      BY <3>1, RowsChange
  <2>4. \A q \in Slots : RequestFits(q)'
    BY <1>3, <2>1, <2>2, <2>3 DEF RequestFits
  <2>5. ASSUME NEW k \in Private'
        PROVE  Sole(k)'
    <3>1. Sole(k) /\ k # request[r].token
      BY <2>2, <2>3, <2>5 DEF Unmisused, Private
    <3>2. tokens'[k] = tokens[k]
      BY <1>11, <3>1 DEF RevokeOne
    <3>3. \A q \in Slots : /\ MayRotate(q, k)' => MayRotate(q, k)
                           /\ Brings(q, k)' => Brings(q, k)
                           /\ Carries(q, k)' => Carries(q, k) /\ request'[q].tab = request[q].tab
      BY <2>1 DEF MayRotate, Carries, Brings
    <3>4. \A t \in Tabs : Of(t, "refresh") \subseteq Of(t, "refresh")'
      BY <2>1 DEF Of
    <3> QED
      BY <2>2, <3>1, <3>2, <3>3, <3>4, SoleKept
  <2> QED
    BY <2>2, <2>3, <2>4, <2>5 DEF Unmisused, MisuseInv
<1>12. ASSUME NEW r \in Slots, Lose(r)
       PROVE  MisuseInv'
  BY <1>4, <1>12 DEF Lose, Pcs, server, browser, history
<1>13. ASSUME NEW r \in Slots, Forget(r)
       PROVE  MisuseInv'
  <2>1. \A t \in Tabs : r \notin Of(t, "refresh")
    BY <1>13, SessionsAssumption DEF Forget, Of, SessionsAssumption
  <2> QED
    BY <1>13, <2>1, ReleaseKeepsSole DEF Forget, Elsewhere, server, browser, history, MisuseInv
<1>14. ASSUME NEW t \in Tabs, NEW r \in Slots, RefreshGranted(t, r)
       PROVE  MisuseInv'
  BY <1>14, TakeKeepsSole DEF RefreshGranted, Of, server, history, MisuseInv
<1>15. ASSUME NEW t \in Tabs, NEW r \in Slots, RefreshFailed(t, r) \/ LoggedOut(t, r)
       PROVE  MisuseInv'
  BY <1>15, ReleaseKeepsSole
     DEF RefreshFailed, LoggedOut, SetPair, Of, server, history, MisuseInv
<1>16. ASSUME NEW t \in Tabs, NEW r \in Slots, LoggedIn(t, r)
       PROVE  MisuseInv'
  <2>1. CASE request[r].pc = "granted"
    BY <1>16, <2>1, TakeKeepsSole DEF LoggedIn, Of, server, history, MisuseInv
  <2>2. CASE request[r].pc # "granted"
    BY <1>16, <2>2, ReleaseKeepsSole DEF LoggedIn, Of, server, history, MisuseInv
  <2> QED
    BY <2>1, <2>2
<1>17. ASSUME UNCHANGED <<tokens, request, mem, stored, shared, misused>>
       PROVE  MisuseInv'
  <2>1. \A r \in Slots : RequestFits(r)'
    BY <1>3, <1>17 DEF RequestFits
  <2>2. ASSUME NEW k \in Private'
        PROVE  Sole(k)'
    BY <1>17, <2>2, SoleKept DEF Unmisused, Private, MayRotate, Carries, Brings, Of
  <2> QED
    BY <1>17, <2>1, <2>2 DEF Unmisused, MisuseInv
<1>18. ASSUME NEW t \in Tabs, NEW c \in Calls, tryRefresh(t, c)
       PROVE  MisuseInv'
  <2>1. CASE Of(t, "refresh") # {}
    BY <1>17, <1>18, <2>1 DEF tryRefresh, server, history
  <2>2. CASE Of(t, "refresh") = {}
    <3>1. mem[t] \in Nat /\ mem[t] <= Len(tokens)
      BY DEF Unmisused
    <3> QED
      BY <1>18, <2>2, <3>1, SendKeepsSole DEF tryRefresh, server, history, MisuseInv
  <2> QED
    BY <2>1, <2>2
<1>19. ASSUME NEW t \in Tabs, Login(t) \/ Logout(t)
       PROVE  MisuseInv'
  <2>1. mem[t] \in Nat /\ mem[t] <= Len(tokens) /\ 0 <= Len(tokens)
    BY <1>2 DEF Unmisused
  <2> QED
    BY <1>19, <2>1, SendKeepsSole DEF Login, Logout, server, browser, history, MisuseInv
<1>20. ASSUME NEW t \in Tabs, Reload(t)
       PROVE  MisuseInv'
  <2>1. /\ mem' = [mem EXCEPT ![t] = stored] /\ stored' = stored /\ tokens' = tokens
        /\ misused' = misused /\ shared' = shared \cup ({stored} \ {0})
    BY <1>20 DEF Reload, server
  <2>2. \A q \in Slots : /\ request'[q].kind = request[q].kind /\ request'[q].pc = request[q].pc
                         /\ request'[q].token = request[q].token
                         /\ request[q].tab # t => request'[q].tab = request[q].tab
    BY <1>3, <1>20 DEF Reload, Request
  <2>3. \A q \in Slots : RequestFits(q)'
    BY <1>3, <2>1, <2>2, SMTT(60) DEF RequestFits
  <2>4. ASSUME NEW k \in Private'
        PROVE  Sole(k)'
    <3>1. Sole(k) /\ k # stored /\ k # 0
      BY <1>2, <2>1, <2>4 DEF Unmisused, Private
    <3>2. \A q \in Slots : /\ MayRotate(q, k)' => MayRotate(q, k)
                           /\ Brings(q, k)' => Brings(q, k)
                           /\ Carries(q, k)' => Carries(q, k)
      BY <2>2 DEF MayRotate, Carries, Brings
    <3>3. \A u \in Tabs : mem'[u] = k => mem[u] = k /\ u # t
      BY <2>1, <3>1
    <3>4. \A u \in Tabs : u # t => Of(u, "refresh") \subseteq Of(u, "refresh")'
      BY <2>2 DEF Of
    <3>5. \A u \in Tabs : mem'[u] = k => /\ mem[u] = k
                                         /\ Of(u, "refresh") # {} => Of(u, "refresh")' # {}
      BY <3>3, <3>4
    <3>6. \A q \in Slots, u \in Tabs :
              Carries(q, k)' /\ mem'[u] = k /\ request[q].tab = u => request'[q].tab = u
      BY <2>2, <3>3
    <3> QED
      BY <2>1, <3>1, <3>2, <3>5, <3>6, SoleKept
  <2>5. \A u \in Tabs : mem'[u] <= Len(tokens)
    BY <2>1 DEF Unmisused
  <2> QED
    BY <2>1, <2>3, <2>4, <2>5 DEF Unmisused, MisuseInv
<1>21. ASSUME NEW j \in 1..Len(tokens), RefreshExpires(j)
       PROVE  MisuseInv'
  <2>1. tokens' \in Seq(Row) /\ Len(tokens') = Len(tokens)
    BY <1>21, RowExcept, RowsChange, 0 \in Nat DEF RefreshExpires
  <2>2. \A k \in 1..Len(tokens) : /\ tokens'[k].live = tokens[k].live
                                  /\ tokens'[k].replaced_by = tokens[k].replaced_by
    BY <1>21 DEF RefreshExpires, Row
  <2>3. UNCHANGED <<request, mem, stored, shared, misused>>
    BY <1>21 DEF RefreshExpires, browser, history
  <2>4. \A r \in Slots : RequestFits(r)'
    BY <1>3, <2>1, <2>3 DEF RequestFits
  <2>5. ASSUME NEW k \in Private'
        PROVE  Sole(k)'
    <3>1. Sole(k) /\ k \in 1..Len(tokens)
      BY <2>1, <2>3, <2>5 DEF Unmisused, Private
    <3> QED
      BY <2>2, <2>3, <3>1, SoleKept DEF MayRotate, Carries, Brings, Of
  <2> QED
    BY <2>1, <2>3, <2>4, <2>5 DEF Unmisused, MisuseInv
<1>22. ASSUME NEW t \in Tabs, NEW c \in Calls, Call(t, c) \/ Succeed(t, c) \/ Error(t, c)
       PROVE  MisuseInv'
  BY <1>17, <1>22 DEF Call, Succeed, Error, Finish, server, history
<1>23. ASSUME NEW j \in 1..Len(tokens), AccessExpires(j)
       PROVE  MisuseInv'
  BY <1>17, <1>23 DEF AccessExpires, server, browser, history
<1>24. CASE LockEnds \/ \E active \in BOOLEAN : update_user(active)
  BY <1>17, <1>24 DEF LockEnds, update_user, browser, history
<1>25. CASE UNCHANGED svars
  BY <1>17, <1>25 DEF svars, server, browser, history
<1>26. ASSUME NEW r \in Slots, Serve(r)
       PROVE  MisuseInv'
  BY <1>5, <1>6, <1>7, <1>8, <1>9, <1>10, <1>11, <1>26 DEF Serve
<1>27. ASSUME NEW t \in Tabs, Receive(t) \/ Use(t)
       PROVE  MisuseInv'
  BY <1>14, <1>15, <1>16, <1>18, <1>19, <1>20, <1>22, <1>27 DEF Receive, Use
<1> QED
  BY <1>12, <1>13, <1>21, <1>23, <1>24, <1>25, <1>26, <1>27, SMTT(60) DEF SNext

LEMMA MisuseStarts == SInit => MisuseInv
<1> SUFFICES ASSUME SInit
             PROVE  Unmisused
  BY DEF MisuseInv
<1>1. tokens = <<NewRow>> /\ Len(tokens) = 1 /\ misused = {}
  BY DEF SInit
<1>2. PICK c \in Scenarios : /\ mem = [t \in Tabs |-> IF t \in c.open THEN 1 ELSE 0]
                             /\ stored = IF c.open = {} THEN 0 ELSE 1
                             /\ shared = IF \E t, u \in c.open : t # u THEN {1} ELSE {}
  BY DEF SInit
<1>3. \A r \in Slots : request[r] = NoRequest
  BY DEF SInit
<1>4. \A r \in Slots : RequestFits(r)
  BY <1>1, <1>3 DEF RequestFits, NoRequest
<1>5. ASSUME NEW k \in Private
      PROVE  Sole(k)
  <2>1. \A r \in Slots : ~MayRotate(r, k) /\ ~Brings(r, k) /\ ~Carries(r, k)
    BY <1>3 DEF MayRotate, Carries, Brings, NoRequest
  <2>2. tokens[k].live /\ tokens[k].replaced_by = 0
    BY <1>1, <1>5 DEF Private, NewRow
  <2>3. \A t, u \in Tabs : mem[t] = k /\ mem[u] = k => t = u
    BY <1>1, <1>2, <1>5 DEF Private
  <2> QED
    BY <2>1, <2>2, <2>3 DEF Sole
<1> QED
  BY <1>1, <1>2, <1>4, <1>5 DEF Unmisused

\* tryRefresh, refresh: however many pages and calls, whatever is lost, refused or turned away,
\* reuse detection is not set off before a token is misused that a page took from localStorage,
\* were it the tab's own again after a reload, or that a logout carried.
THEOREM OnlySharedTokensTripReuseDetection == SSpec => []OnlySharedTokensAreMisused
<1>1. SessionsType /\ MisuseInv /\ [SNext]_svars => MisuseInv'
  BY MisuseKept, SessionsAssumption
<1>2. MisuseInv => OnlySharedTokensAreMisused
  BY DEF MisuseInv, Unmisused, OnlySharedTokensAreMisused
<1> QED
  BY <1>1, <1>2, MisuseStarts, SessionsTypeCorrect, PTL DEF SSpec

=============================================================================
