--------------------------- MODULE SessionTokens ---------------------------
(***************************************************************************)
(* The web client's session and the server's token handlers, at the grain  *)
(* of their awaits: the response interceptor of frontend-web client.js     *)
(* with its queue of waiting requests, the persisted store of authStore.js *)
(* that all tabs share, and login, authenticate, refresh and logout of the *)
(* backend with the TokenBlacklist.                                        *)
(*                                                                         *)
(* A pair is the access and the refresh token signed together; pairs are   *)
(* numbered in the order they are signed.  Tokens of a pair differ in the  *)
(* user they name and in what the blacklist says of them, nothing else.    *)
(*                                                                         *)
(* External: Mongoose stores a TokenBlacklist document only if it has an   *)
(* _id, and the schema says _id: false.  `stores' is TRUE for the store    *)
(* the handlers are written for, FALSE for the one they get; both are      *)
(* checked.  axios gives every answer or an error in the end.              *)
(***************************************************************************)
EXTENDS FiniteSets, Integers, Sequences

CONSTANTS Tabs,       \* browser tabs of one browser
          Users,      \* accounts
          Requests,   \* slots for API calls under way
          MaxPairs,   \* bound: pairs of tokens signed
          StoreModes, \* the values of stores that are looked at
          None        \* no user or tab

ASSUME SessionAssumption == /\ MaxPairs \in Nat
                            /\ StoreModes \subseteq BOOLEAN
                            /\ None \notin Users \cup Tabs

VARIABLES stores,     \* whether TokenBlacklist.create can succeed
          owner,      \* the user each pair was signed for
          parent,     \* the pair whose refresh token bought it, 0 for a login
          stale,      \* pairs whose access token has expired
          revoked,    \* pairs whose access token is in TokenBlacklist
          rotated,    \* pairs whose refresh token is in TokenBlacklist
          ending,     \* pairs a logout is about to revoke the refresh token of
          inactive,   \* users with IsActive = false
          session,    \* useAuthStore of each tab
          persisted,  \* the localStorage copy of the store
          refreshing, \* isRefreshing of each tab
          req,        \* the API calls
          shared,     \* history: pairs more than one tab has held
          missed,     \* history: pairs whose renewal never reached its tab
          overlapped  \* history: pairs two refreshes were checking at once

tokens == <<owner, parent, stale, revoked, rotated, ending, inactive>>
client == <<session, persisted, refreshing>>
history == <<shared, missed, overlapped>>
vars == <<stores, tokens, client, req, history>>

Signed == 1 .. Len(owner)
NoPair == 0
\* moved: the store was changed by hand while a refresh of the tab was under way.
Session == [access : 0 .. MaxPairs, refresh : 0 .. MaxPairs, user : Users \cup {None},
            moved : BOOLEAN]
LoggedOut(moving) == [access |-> NoPair, refresh |-> NoPair, user |-> None, moved |-> moving]

Refreshes == {"refresh", "renewable", "renewed", "refused"}
Stage == {"idle", "sent", "denied", "waiting"} \cup Refreshes
\* tab: None once its page is gone; access: the bearer token; retry: _retry;
\* refresh: the refresh token in the body; new: the pair a refresh answered with.
Call == [stage : Stage, tab : Tabs \cup {None},
         access : 0 .. MaxPairs, retry : BOOLEAN, refresh : 0 .. MaxPairs, new : 0 .. MaxPairs]
Settled == [stage |-> "idle", tab |-> None, access |-> NoPair,
            retry |-> FALSE, refresh |-> NoPair, new |-> NoPair]

\* The type invariant.
TypeOK ==
    /\ stores \in StoreModes
    /\ owner \in Seq(Users) /\ Len(owner) <= MaxPairs
    /\ parent \in Seq(0 .. MaxPairs) /\ Len(parent) = Len(owner)
    /\ \A pairs \in {stale, revoked, rotated, ending, shared, missed, overlapped} : pairs \subseteq Signed
    /\ inactive \subseteq Users
    /\ session \in [Tabs -> Session] /\ persisted \in Session
    /\ refreshing \in [Tabs -> BOOLEAN]
    /\ req \in [Requests -> Call]

Init ==
    /\ stores \in StoreModes
    /\ owner = <<>> /\ parent = <<>>
    /\ stale = {} /\ revoked = {} /\ rotated = {} /\ ending = {} /\ inactive = {}
    /\ session = [t \in Tabs |-> LoggedOut(FALSE)]
    /\ persisted = LoggedOut(FALSE)
    /\ refreshing = [t \in Tabs |-> FALSE]
    /\ req = [r \in Requests |-> Settled]
    /\ shared = {} /\ missed = {} /\ overlapped = {}

At(r, stage) == req[r].stage = stage
Goes(r, stage) == req' = [req EXCEPT ![r].stage = stage]
Waiting(t) == {r \in Requests : req[r].tab = t /\ At(r, "waiting")}

-----------------------------------------------------------------------------
(* The store and the pages.                                                *)

\* Signing a pair: signToken and signRefreshToken.
Sign(u, from) ==
    /\ Len(owner) < MaxPairs
    /\ owner' = Append(owner, u)
    /\ parent' = Append(parent, from)

\* set() of the store: zustand's persist copies the whole of it to localStorage.
SetStore(t, new) ==
    /\ session' = [session EXCEPT ![t] = new]
    /\ persisted' = new

\* Mutant: the session is stored without its refresh token.
LoginWithoutRefresh(t, u) ==
    /\ session[t].access = NoPair
    /\ u \notin inactive
    /\ Sign(u, NoPair)
    /\ SetStore(t, [access |-> Len(owner) + 1, refresh |-> NoPair, user |-> u,
                    moved |-> refreshing[t]])
    /\ UNCHANGED <<stores, stale, revoked, rotated, ending, inactive, refreshing, req, history>>

\* The login page: POST /auth/login, then setSession (again, with the role, after
\* GET /auth/me).
Login(t, u) ==
    /\ session[t].access = NoPair
    /\ u \notin inactive
    /\ Sign(u, NoPair)
    /\ SetStore(t, [access |-> Len(owner) + 1, refresh |-> Len(owner) + 1, user |-> u,
                    moved |-> refreshing[t]])
    /\ UNCHANGED <<stores, stale, revoked, rotated, ending, inactive, refreshing, req, history>>

\* "Log out" in the menu: the store is emptied, the server is not told.
MenuLogout(t) ==
    /\ session[t].access # NoPair
    /\ SetStore(t, LoggedOut(refreshing[t]))
    /\ UNCHANGED <<stores, tokens, refreshing, req, history>>

\* The page of tab t goes away: its calls have nobody to answer to, though the
\* server works on the refresh it has begun.
Leave(t, calls) ==
    [r \in Requests |->
        IF calls[r].tab # t THEN calls[r]
        ELSE IF calls[r].stage \in {"refresh", "renewable"} THEN [calls[r] EXCEPT !.tab = None]
        ELSE Settled]

\* The tab is opened or reloaded: the store is read back from localStorage.
Reload(t) ==
    /\ session' = [session EXCEPT ![t] = persisted]
    /\ refreshing' = [refreshing EXCEPT ![t] = FALSE]
    /\ req' = Leave(t, req)
    /\ missed' = missed \cup {req[r].refresh : r \in {q \in Requests :
                              req[q].tab = t /\ req[q].stage \in Refreshes}}
    /\ shared' = shared \cup (IF persisted.refresh # session[t].refresh
                              THEN {persisted.refresh} \ {NoPair} ELSE {})
    /\ UNCHANGED <<stores, tokens, persisted, overlapped>>

\* window.location.replace("/login"), unless the page is the login page already:
\* the page either goes away or stays, with the calls that are left.
ThrownOut(t, calls) ==
    /\ SetStore(t, LoggedOut(FALSE))
    /\ refreshing' = [refreshing EXCEPT ![t] = FALSE]
    /\ req' \in {calls, Leave(t, calls)}

-----------------------------------------------------------------------------
(* An API call on its way through authenticate.                            *)

\* apiClient: the request interceptor puts the store's access token on the call.
Issue(r, t) ==
    /\ At(r, "idle")
    /\ session[t].access # NoPair
    /\ req' = [req EXCEPT ![r] = [Settled EXCEPT !.stage = "sent", !.tab = t,
                                                 !.access = session[t].access]]
    /\ UNCHANGED <<stores, tokens, client, history>>

\* authenticate: the blacklist is asked, the signature and expiry are looked at, the
\* user is loaded.
Passes(p) == p # NoPair /\ p \notin revoked \cup stale /\ owner[p] \notin inactive

\* A call that passes is answered by its handler, one that does not with 401.
Authenticate(r) ==
    /\ At(r, "sent")
    /\ req' = [req EXCEPT ![r] = IF Passes(req[r].access) THEN Settled
                                 ELSE [req[r] EXCEPT !.stage = "denied"]]
    /\ UNCHANGED <<stores, tokens, client, history>>

\* POST /auth/logout, which no page of the client calls: up to the answer of the
\* first blacklistToken.  The body may name the refresh token.
LogoutAccess(p) ==
    /\ Passes(p) /\ stores
    /\ revoked' = revoked \cup {p}
    /\ ending' \in {ending, ending \cup {p}}
    /\ UNCHANGED <<stores, owner, parent, stale, rotated, inactive, client, req, history>>

\* logout, from there on: the refresh token of the body.
LogoutRefresh(p) ==
    /\ p \in ending
    /\ rotated' = rotated \cup {p}
    /\ ending' = ending \ {p}
    /\ UNCHANGED <<stores, owner, parent, stale, revoked, inactive, client, req, history>>

-----------------------------------------------------------------------------
(* The response interceptor on a 401.                                      *)

\* Nothing more can be tried: the call was a retry, or there is no refresh token.
GiveUp(r) ==
    /\ At(r, "denied")
    /\ LET t == req[r].tab
           over == [req EXCEPT ![r] = Settled]
       IN  \/ /\ t = None \/ req[r].retry
              /\ req' = over
              /\ UNCHANGED client
           \/ /\ t # None /\ ~req[r].retry
              /\ session[t].refresh = NoPair
              /\ session' = [session EXCEPT ![t] = LoggedOut(refreshing[t])]
              /\ persisted' = session'[t]
              /\ \/ req' = over /\ UNCHANGED refreshing
                 \/ req' = Leave(t, over) /\ refreshing' = [refreshing EXCEPT ![t] = FALSE]
    /\ UNCHANGED <<stores, tokens, history>>

\* A refresh is under way: the call joins the queue.
Enqueue(r) ==
    /\ At(r, "denied") /\ ~req[r].retry
    /\ LET t == req[r].tab
       IN  t # None /\ session[t].refresh # NoPair /\ refreshing[t]
    /\ Goes(r, "waiting")
    /\ UNCHANGED <<stores, tokens, client, history>>

\* The first 401: POST /auth/refresh with the store's refresh token.
StartRefresh(r) ==
    /\ At(r, "denied") /\ ~req[r].retry
    /\ LET t == req[r].tab
       IN  /\ t # None /\ session[t].refresh # NoPair /\ ~refreshing[t]
           /\ req' = [req EXCEPT ![r].stage = "refresh", ![r].retry = TRUE,
                                 ![r].refresh = session[t].refresh]
           /\ refreshing' = [refreshing EXCEPT ![t] = TRUE]
    /\ UNCHANGED <<stores, tokens, session, persisted, history>>

\* refresh, up to the answer of isBlacklisted.
CheckRefresh(r) ==
    /\ At(r, "refresh")
    /\ LET p == req[r].refresh
           beside == {q \in Requests \ {r} : At(q, "renewable") /\ req[q].refresh = p}
       IN  /\ Goes(r, IF p \in rotated THEN "refused" ELSE "renewable")
           /\ overlapped' = IF p \notin rotated /\ beside # {} THEN overlapped \cup {p}
                                                               ELSE overlapped
    /\ UNCHANGED <<stores, tokens, client, shared, missed>>

\* refresh, from User.findById on: the old token is blacklisted, then a pair signed.
Rotate(r) ==
    /\ At(r, "renewable")
    /\ LET p == req[r].refresh
       IN  IF stores /\ owner[p] \notin inactive
           THEN /\ Sign(owner[p], p)
                /\ rotated' = rotated \cup {p}
                /\ req' = [req EXCEPT ![r].stage = "renewed", ![r].new = Len(owner) + 1]
           ELSE /\ Goes(r, "refused")
                /\ UNCHANGED <<owner, parent, rotated>>
    /\ UNCHANGED <<stores, stale, revoked, ending, inactive, client, history>>

\* An answer of /auth/refresh that does not arrive.
LoseAnswer(r) ==
    /\ At(r, "renewed")
    /\ Goes(r, "refused")
    /\ missed' = missed \cup {req[r].refresh}
    /\ UNCHANGED <<stores, tokens, client, shared, overlapped>>

\* A call sent again, with the access token of pair n.
Resent(q, n) == [req[q] EXCEPT !.stage = "sent", !.access = n, !.new = NoPair]

\* Mutant: only the access token is replaced.
SessionWithAccess(t, n) == [session[t] EXCEPT !.access = n]

\* The user and the role are those of the store at this moment.
RenewedSession(t, n) == [session[t] EXCEPT !.access = n, !.refresh = n]

\* The new pair goes into the store beside the user that is there now; the waiting
\* calls and the call that started it are sent again with the store's token.
Renewed(r) ==
    /\ At(r, "renewed")
    /\ LET t == req[r].tab
           n == req[r].new
       IN  IF t = None
           THEN req' = [req EXCEPT ![r] = Settled] /\ UNCHANGED client
           ELSE /\ SetStore(t, RenewedSession(t, n))
                /\ req' = [q \in Requests |->
                              CASE q = r -> [Resent(r, n) EXCEPT !.refresh = NoPair]
                                [] q \in Waiting(t) -> Resent(q, n)
                                [] OTHER -> req[q]]
                /\ refreshing' = [refreshing EXCEPT ![t] = FALSE]
    /\ UNCHANGED <<stores, tokens, history>>

\* Mutant: processQueue is not called with the error.
Forgotten(t, r) == [req EXCEPT ![r] = Settled]

\* processQueue(error), and the rejection of the call itself.
Rejected(t, r) ==
    [q \in Requests |-> IF q \in Waiting(t) \cup {r} THEN Settled ELSE req[q]]

\* The refresh failed: every waiting call is rejected and the user thrown out.
Refused(r) ==
    /\ At(r, "refused")
    /\ LET t == req[r].tab
       IN  IF t = None
           THEN req' = [req EXCEPT ![r] = Settled] /\ UNCHANGED client
           ELSE ThrownOut(t, Rejected(t, r))
    /\ UNCHANGED <<stores, tokens, history>>

-----------------------------------------------------------------------------
\* Time passes: an access token expires.
Expire(p) ==
    /\ p \in Signed \ stale
    /\ stale' = stale \cup {p}
    /\ UNCHANGED <<stores, owner, parent, revoked, rotated, ending, inactive, client, req, history>>

\* An administrator switches a user off.
Deactivate(u) ==
    /\ u \notin inactive
    /\ inactive' = inactive \cup {u}
    /\ UNCHANGED <<stores, owner, parent, stale, revoked, rotated, ending, client, req, history>>

Next ==
    \/ \E t \in Tabs : \/ \E u \in Users : Login(t, u)
                       \/ MenuLogout(t)
                       \/ Reload(t)
                       \/ \E r \in Requests : Issue(r, t)
    \/ \E r \in Requests : \/ Authenticate(r) \/ GiveUp(r) \/ Enqueue(r) \/ StartRefresh(r)
                           \/ CheckRefresh(r) \/ Rotate(r) \/ LoseAnswer(r)
                           \/ Renewed(r) \/ Refused(r)
    \/ \E p \in Signed : Expire(p) \/ LogoutAccess(p) \/ LogoutRefresh(p)
    \/ \E u \in Users : Deactivate(u)

\* The server answers a refresh and the tab's event loop takes the answer.
Fairness == \A r \in Requests :
    WF_vars(CheckRefresh(r)) /\ WF_vars(Rotate(r)) /\ WF_vars(Renewed(r) \/ Refused(r))

Spec == Init /\ [][Next]_vars /\ Fairness

-----------------------------------------------------------------------------
(* Properties.                                                             *)

\* client.js keeps one refresh per tab in flight, and calls wait only for one that
\* is: no call is left in a queue nobody will process.
QueueHasARefresh ==
    \A t \in Tabs :
        LET flights == {r \in Requests : req[r].tab = t /\ req[r].stage \in Refreshes}
        IN  /\ Cardinality(flights) = IF refreshing[t] THEN 1 ELSE 0
            /\ Waiting(t) # {} => refreshing[t]

\* A tab's tokens are those of the user it shows, unless somebody logged in or out
\* of the tab while its refresh was under way.
ShowsTheTokensUser ==
    \A t \in Tabs :
        LET s == session[t]
        IN  ~s.moved /\ s.access # NoPair => /\ owner[s.access] = s.user
                                             /\ s.refresh # NoPair /\ owner[s.refresh] = s.user

\* refresh's rotation: a refresh token buys one pair, unless two refreshes with it
\* were between the check and the write at the same time.
BuysOnePair ==
    \A p \in Signed \ overlapped : Cardinality({n \in Signed : parent[n] = p}) <= 1

\* The refresh token in a tab's store has not been spent already, unless the tab is
\* still to hear of the pair it bought: a tab whose answers arrive and whose tokens
\* no other tab has held is not thrown out by the rotation it asked for.
SessionCanBeRenewed ==
    \A t \in Tabs :
        LET p == session[t].refresh
        IN  p # NoPair /\ (\E n \in Signed : parent[n] = p) /\ p \notin shared \cup missed
            => \E r \in Requests : req[r].tab = t /\ At(r, "renewed") /\ req[r].refresh = p

\* A call that waits for a refresh is sent again or rejected in the end (or the
\* bound leaves no pair to renew with).
WaitersSettle ==
    \A r \in Requests : At(r, "waiting") ~> (~At(r, "waiting") \/ Len(owner) = MaxPairs)

\* authController.js:392: the pair is renewed without logging in again.  A refresh is
\* refused only for a token that was spent or named by a logout, for a user who was
\* switched off, or because the answer got lost.
RefreshGivesAPair ==
    \A r \in Requests : At(r, "refused") =>
        LET p == req[r].refresh IN p \in rotated \cup missed \/ owner[p] \in inactive
=============================================================================
