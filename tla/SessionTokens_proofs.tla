-------------------------- MODULE SessionTokens_proofs --------------------------
(***************************************************************************)
(* Proofs about SessionTokens, for any number of tabs, users, calls and    *)
(* pairs, and for both ways the store of revoked tokens behaves.  The      *)
(* argument: a tab has at most one refresh under way, and while nobody     *)
(* touches the tab's store that refresh carries the store's token; a pair  *)
(* that was signed and not delivered yet is known to nobody else.  And     *)
(* about two parts of one instance each: what a route says of itself       *)
(* (RouteTimetable) and the jams that are reported (TrafficFactors).       *)
(***************************************************************************)
EXTENDS SessionTokens, RouteTimetable, TrafficFactors,
        SequenceTheorems, FiniteSetTheorems, WellFoundedInduction, TLAPS

-----------------------------------------------------------------------------
(* The inductive invariant.                                                *)

\* A store names pairs that were signed, both or none, and of its user unless it was
\* moved.
Sound(s) ==
    /\ s.access <= Len(owner) /\ s.refresh <= Len(owner)
    /\ s.access # NoPair <=> s.refresh # NoPair
    /\ ~s.moved /\ s.access # NoPair => owner[s.access] = s.user /\ owner[s.refresh] = s.user

Stores == Sound(persisted) /\ \A t \in Tabs : Sound(session[t])

Flying(r) == req[r].stage \in Refreshes

\* A refresh names a pair that was signed, and answers with one of the same user.
Calls ==
    \A r \in Requests :
        /\ req[r].refresh <= Len(owner) /\ req[r].new <= Len(owner)
        /\ Flying(r) => req[r].refresh # NoPair
        /\ At(r, "renewed") => req[r].new # NoPair /\ owner[req[r].new] = owner[req[r].refresh]

\* client.js: one refresh per tab, of the store's token unless the store was moved; calls
\* wait only while there is one.
Flights ==
    /\ \A r \in Requests : Flying(r) /\ req[r].tab # None =>
          /\ refreshing[req[r].tab]
          /\ session[req[r].tab].moved \/ session[req[r].tab].refresh = req[r].refresh
    /\ \A r, q \in Requests : Flying(r) /\ Flying(q) /\ req[r].tab = req[q].tab /\ req[r].tab # None
          => r = q
    /\ \A t \in Tabs : refreshing[t] => \E r \in Requests : Flying(r) /\ req[r].tab = t
    /\ \A r \in Requests : At(r, "waiting") => req[r].tab # None /\ refreshing[req[r].tab]

Spent(p) == \E n \in Signed : parent[n] = p

\* A refresh token that bought a pair was signed and is in the blacklist.
Parents ==
    \A n \in Signed : /\ parent[n] <= Len(owner)
                      /\ parent[n] # NoPair => parent[n] \in rotated

\* The pair a refresh answers with nobody else knows.
Undelivered ==
    \A r \in Requests : At(r, "renewed") =>
        /\ persisted.refresh # req[r].new /\ ~Spent(req[r].new)
        /\ \A t \in Tabs : session[t].refresh # req[r].new
        /\ \A q \in Requests : req[q].refresh # req[r].new
        /\ \A q \in Requests \ {r} : At(q, "renewed") => req[q].new # req[r].new

\* Tabs with the same refresh token, and tabs with the token of somebody else's refresh,
\* are in the history.
Holders ==
    /\ \A t, u \in Tabs : t # u /\ session[t].refresh = session[u].refresh
          /\ session[t].refresh # NoPair => session[t].refresh \in shared
    /\ \A r \in Requests, t \in Tabs : Flying(r) /\ t # req[r].tab
          /\ session[t].refresh = req[r].refresh => req[r].refresh \in shared \cup missed

\* A refresh between the check and the write renews a token that bought nothing yet.
Renewals ==
    /\ \A r, q \in Requests : r # q /\ At(r, "renewable") /\ At(q, "renewable")
          /\ req[r].refresh = req[q].refresh => req[r].refresh \in overlapped
    /\ \A r \in Requests : At(r, "renewable") /\ Spent(req[r].refresh)
          => req[r].refresh \in overlapped

OneChild ==
    \A m, n \in Signed : parent[m] = parent[n] /\ parent[m] # NoPair
        => m = n \/ parent[m] \in overlapped

IInv ==
    /\ TypeOK /\ Stores /\ Calls /\ Flights /\ Parents
    /\ Undelivered /\ Holders /\ Renewals /\ OneChild /\ SessionCanBeRenewed

-----------------------------------------------------------------------------
(* Steps that neither sign a pair nor start or check a refresh.            *)

HistoryGrows ==
    /\ rotated \subseteq rotated' /\ shared \subseteq shared'
    /\ missed \subseteq missed' /\ overlapped \subseteq overlapped'

\* A call goes on as it was, or no longer flies, or is refused.
Calmer(r) ==
    /\ req'[r].refresh \in {req[r].refresh, NoPair} /\ req'[r].new \in {req[r].new, NoPair}
    /\ Flying(r)' => /\ Flying(r) /\ req'[r].stage \in {req[r].stage, "refused"}
                     /\ req'[r].refresh = req[r].refresh /\ req'[r].new = req[r].new
                     /\ req'[r].tab \in {req[r].tab, None}

\* A tab keeps its refresh token, loses it, or gets the persisted one.
TokensKept ==
    /\ persisted'.refresh \in {persisted.refresh, NoPair}
    /\ \A t \in Tabs : \/ session'[t].refresh \in {session[t].refresh, NoPair}
                       \/ session'[t].refresh = persisted.refresh /\ persisted.refresh \in shared'

\* A tab that loses a refresh loses its token, or the history says so.
FlightsKept ==
    \A r \in Requests : Flying(r) /\ req[r].tab # None =>
        \/ /\ Flying(r)' /\ req'[r].tab = req[r].tab
           /\ At(r, "renewed") => At(r, "renewed")'
        \/ session'[req[r].tab].refresh = NoPair
        \/ req[r].refresh \in missed'

Quiet ==
    /\ owner' = owner /\ parent' = parent /\ HistoryGrows
    /\ TokensKept /\ FlightsKept /\ \A r \in Requests : Calmer(r)

LEMMA PairsStay ==
    ASSUME IInv, owner' = owner, parent' = parent, HistoryGrows
    PROVE  /\ Parents' /\ OneChild' /\ Signed' = Signed
           /\ \A p : Spent(p)' <=> Spent(p)
           /\ \A s \in Session : Sound(s) => Sound(s)'
<1>1. Signed' = Signed
    BY DEF Signed
<1>2. Parents'
    BY <1>1 DEF IInv, Parents, HistoryGrows
<1>3. OneChild'
    BY <1>1 DEF IInv, OneChild, HistoryGrows
<1>4. \A p : Spent(p)' <=> Spent(p)
    BY <1>1 DEF Spent
<1>5. \A s \in Session : Sound(s) => Sound(s)'
    BY DEF Sound
<1> QED
    BY <1>1, <1>2, <1>3, <1>4, <1>5

LEMMA CalmCalls ==
    ASSUME IInv, owner' = owner, parent' = parent, HistoryGrows, \A r \in Requests : Calmer(r)
    PROVE  Calls' /\ Renewals'
<1>1. Calls'
    <2> SUFFICES ASSUME NEW r \in Requests
                 PROVE  /\ req'[r].refresh <= Len(owner') /\ req'[r].new <= Len(owner')
                        /\ Flying(r)' => req'[r].refresh # NoPair
                        /\ At(r, "renewed")' => req'[r].new # NoPair
                                                /\ owner'[req'[r].new] = owner'[req'[r].refresh]
        BY DEF Calls
    <2>1. Calmer(r) /\ req[r].refresh <= Len(owner) /\ req[r].new <= Len(owner)
        BY DEF IInv, Calls
    <2>2. NoPair <= Len(owner)
        BY DEF IInv, TypeOK, NoPair
    <2>3. At(r, "renewed")' => At(r, "renewed") /\ Flying(r)'
        BY <2>1 DEF At, Flying, Refreshes, Calmer
    <2> QED
        BY <2>1, <2>2, <2>3 DEF Calmer, IInv, Calls
<1>2. Renewals'
    <2>1. \A r \in Requests : At(r, "renewable")' => At(r, "renewable") /\ req'[r].refresh = req[r].refresh
        BY DEF At, Flying, Refreshes, Calmer
    <2>2. ASSUME NEW r \in Requests, NEW q \in Requests, r # q, At(r, "renewable")', At(q, "renewable")',
                 req'[r].refresh = req'[q].refresh
          PROVE  req'[r].refresh \in overlapped'
        BY <2>1, <2>2 DEF IInv, Renewals, HistoryGrows
    <2>3. ASSUME NEW r \in Requests, At(r, "renewable")', Spent(req[r].refresh)
          PROVE  req'[r].refresh \in overlapped'
        BY <2>1, <2>3 DEF IInv, Renewals, HistoryGrows
    <2>4. \A r \in Requests : At(r, "renewable")' => (Spent(req[r].refresh) <=> Spent(req[r].refresh)')
        BY <2>1 DEF Spent, Signed
    <2> QED
        BY <2>2, <2>3, <2>4 DEF Renewals
<1> QED
    BY <1>1, <1>2

LEMMA QuietStep ==
    ASSUME IInv, TypeOK', Stores', Flights', Quiet
    PROVE  IInv'
<1>1. /\ Parents' /\ OneChild' /\ Signed' = Signed
      /\ \A p : Spent(p)' <=> Spent(p)
    BY PairsStay DEF Quiet
<1>2. \A r \in Requests : Calmer(r)
    BY DEF Quiet
<1>3. owner' = owner /\ HistoryGrows /\ TokensKept /\ FlightsKept
    BY DEF Quiet
<1>4. Calls' /\ Renewals'
    BY CalmCalls DEF Quiet
<1>5. \A r \in Requests : At(r, "renewed")' => At(r, "renewed") /\ Flying(r)' /\ req'[r].new = req[r].new
    BY <1>2 DEF At, Flying, Refreshes, Calmer
<1>6. Undelivered'
    <2> SUFFICES ASSUME NEW r \in Requests, At(r, "renewed")'
                 PROVE  /\ persisted'.refresh # req'[r].new /\ ~Spent(req[r].new)'
                        /\ \A t \in Tabs : session'[t].refresh # req'[r].new
                        /\ \A q \in Requests : req'[q].refresh # req'[r].new
                        /\ \A q \in Requests \ {r} : At(q, "renewed")' => req'[q].new # req'[r].new
        BY DEF Undelivered
    <2>1. At(r, "renewed") /\ req'[r].new = req[r].new /\ req[r].new # NoPair
        BY <1>5 DEF IInv, Calls
    <2>2. /\ persisted.refresh # req[r].new /\ ~Spent(req[r].new)
          /\ \A t \in Tabs : session[t].refresh # req[r].new
          /\ \A q \in Requests : req[q].refresh # req[r].new
          /\ \A q \in Requests \ {r} : At(q, "renewed") => req[q].new # req[r].new
        BY <2>1 DEF IInv, Undelivered
    <2>3. persisted'.refresh # req'[r].new /\ \A t \in Tabs : session'[t].refresh # req'[r].new
        BY <1>3, <2>1, <2>2 DEF TokensKept
    <2>4. \A q \in Requests : req'[q].refresh # req'[r].new
        BY <1>2, <2>1, <2>2 DEF Calmer
    <2>5. \A q \in Requests \ {r} : At(q, "renewed")' => req'[q].new # req'[r].new
        BY <1>5, <2>1, <2>2
    <2>6. ~Spent(req[r].new)'
        BY <1>1, <2>1, <2>2 DEF Spent, Quiet
    <2> QED
        BY <2>3, <2>4, <2>5, <2>6
<1>7. Holders'
    <2>1. ASSUME NEW t \in Tabs, NEW u \in Tabs, t # u, session'[t].refresh = session'[u].refresh,
                 session'[t].refresh # NoPair
          PROVE  session'[t].refresh \in shared'
        BY <1>3, <2>1 DEF TokensKept, HistoryGrows, IInv, Holders
    <2>2. ASSUME NEW r \in Requests, NEW t \in Tabs, Flying(r)', t # req'[r].tab,
                 session'[t].refresh = req'[r].refresh
          PROVE  req'[r].refresh \in shared' \cup missed'
        <3>1. Calmer(r) /\ Flying(r) /\ req'[r].refresh = req[r].refresh /\ req[r].refresh # NoPair
            BY <1>2, <2>2 DEF Calmer, IInv, Calls
        <3>2. CASE t # req[r].tab
            BY <1>3, <2>2, <3>1, <3>2 DEF TokensKept, HistoryGrows, IInv, Holders
        <3>3. CASE t = req[r].tab
            <4>1. t # None
                BY SessionAssumption
            <4> QED
                BY <1>3, <2>2, <3>1, <3>3, <4>1 DEF FlightsKept
        <3> QED
            BY <3>2, <3>3
    <2> QED
        BY <2>1, <2>2 DEF Holders
<1>9. SessionCanBeRenewed'
    <2> SUFFICES ASSUME NEW t \in Tabs, session'[t].refresh # NoPair,
                        \E n \in Signed' : parent'[n] = session'[t].refresh,
                        session'[t].refresh \notin shared' \cup missed'
                 PROVE  \E r \in Requests : req'[r].tab = t /\ At(r, "renewed")'
                                            /\ req'[r].refresh = session'[t].refresh
        BY DEF SessionCanBeRenewed
    <2>1. session'[t].refresh = session[t].refresh
        BY <1>3 DEF TokensKept
    <2>2. session[t].refresh \notin shared \cup missed /\ \E n \in Signed : parent[n] = session[t].refresh
        BY <1>1, <1>3, <2>1 DEF HistoryGrows, Quiet
    <2>3. PICK r \in Requests : req[r].tab = t /\ At(r, "renewed") /\ req[r].refresh = session[t].refresh
        BY <2>1, <2>2 DEF IInv, SessionCanBeRenewed
    <2>4. t # None /\ Flying(r)
        BY <2>3, SessionAssumption DEF At, Flying, Refreshes
    <2>5. req'[r].tab = t /\ At(r, "renewed")' /\ Flying(r)'
        BY <1>3, <2>1, <2>3, <2>4 DEF FlightsKept
    <2> QED
        BY <1>2, <2>1, <2>3, <2>5 DEF Calmer
<1> QED
    BY <1>1, <1>4, <1>6, <1>7, <1>9 DEF IInv

LEMMA SettledCall == Settled \in Call /\ Settled.stage = "idle" /\ Settled.tab = None
                     /\ Settled.refresh = NoPair /\ Settled.new = NoPair
    BY SessionAssumption DEF Settled, Call, Stage, NoPair

LEMMA LoggedOutStore ==
    ASSUME NEW m \in BOOLEAN
    PROVE  /\ LoggedOut(m) \in Session /\ Sound(LoggedOut(m)) /\ Sound(LoggedOut(m))'
           /\ LoggedOut(m).refresh = NoPair /\ LoggedOut(m).moved = m
<1>1. Len(owner) >= 0 /\ Len(owner') >= 0 => Sound(LoggedOut(m)) /\ Sound(LoggedOut(m))'
    BY DEF LoggedOut, Sound, NoPair
<1> QED
    BY SessionAssumption, <1>1 DEF LoggedOut, Session, NoPair

\* A step of calls that do not fly, in tabs that stay as they are.
LEMMA CallStep ==
    ASSUME IInv, TypeOK', owner' = owner, parent' = parent, UNCHANGED client, HistoryGrows,
           \A r \in Requests :
              \/ req'[r] = req[r]
              \/ /\ ~Flying(r) /\ ~Flying(r)'
                 /\ req'[r].refresh \in {req[r].refresh, NoPair}
                 /\ req'[r].new \in {req[r].new, NoPair}
                 /\ At(r, "waiting")' => req'[r].tab # None /\ refreshing[req'[r].tab]
    PROVE  IInv'
<1>1. session' = session /\ persisted' = persisted /\ refreshing' = refreshing
    BY DEF client
<1>2. Stores'
    <2>1. \A s \in Session : Sound(s) => Sound(s)'
        BY PairsStay
    <2>2. persisted \in Session /\ \A t \in Tabs : session[t] \in Session
        BY DEF IInv, TypeOK
    <2> QED
        BY <1>1, <2>1, <2>2 DEF IInv, Stores, Sound
<1>3. \A r \in Requests : Calmer(r)
    BY DEF Calmer, Flying
<1>4. \A r \in Requests : Flying(r)' <=> Flying(r)
    BY DEF Flying
<1>5. \A r \in Requests : Flying(r) => req'[r] = req[r]
    OBVIOUS
<1>6. Flights'
    <2>1. \A r \in Requests : At(r, "waiting")' => req'[r].tab # None /\ refreshing'[req'[r].tab]
        BY <1>1 DEF IInv, Flights, At
    <2>2. \A r \in Requests : Flying(r)' /\ req'[r].tab # None =>
              /\ refreshing'[req'[r].tab]
              /\ session'[req'[r].tab].moved \/ session'[req'[r].tab].refresh = req'[r].refresh
        BY <1>1, <1>4, <1>5 DEF IInv, Flights
    <2>3. \A r, q \in Requests : Flying(r)' /\ Flying(q)' /\ req'[r].tab = req'[q].tab
              /\ req'[r].tab # None => r = q
        BY <1>4, <1>5 DEF IInv, Flights
    <2>4. \A t \in Tabs : refreshing'[t] => \E r \in Requests : Flying(r)' /\ req'[r].tab = t
        BY <1>1, <1>4, <1>5 DEF IInv, Flights
    <2> QED
        BY <2>1, <2>2, <2>3, <2>4 DEF Flights
<1>7. TokensKept
    BY <1>1 DEF TokensKept
<1>8. FlightsKept
    BY <1>4, <1>5 DEF FlightsKept, At
<1> QED
    BY <1>2, <1>3, <1>6, <1>7, <1>8, QuietStep DEF Quiet

LEMMA IssueStep ==
    ASSUME IInv, NEW r \in Requests, NEW t \in Tabs, Issue(r, t)
    PROVE  IInv'
<1> DEFINE call == [Settled EXCEPT !.stage = "sent", !.tab = t, !.access = session[t].access]
<1>1. /\ req' = [req EXCEPT ![r] = call] /\ At(r, "idle")
      /\ UNCHANGED <<stores, tokens, client, history>>
    BY DEF Issue
<1>2. TypeOK
    BY DEF IInv
<1>3. session[t].access \in 0 .. MaxPairs
    BY <1>2 DEF TypeOK, Session
<1>4. call \in Call /\ call.stage = "sent" /\ call.refresh = NoPair /\ call.new = NoPair
    BY <1>3, SettledCall, SessionAssumption DEF Settled, Call, Stage, NoPair
<1> HIDE DEF call
<1>5. TypeOK'
    BY <1>1, <1>2, <1>4 DEF TypeOK, tokens, client, history, Signed
<1>6. HistoryGrows /\ owner' = owner /\ parent' = parent
    BY <1>1 DEF HistoryGrows, tokens, history
<1>7. req'[r] = call /\ \A q \in Requests \ {r} : req'[q] = req[q]
    BY <1>1, <1>2 DEF TypeOK
<1>8. ~Flying(r) /\ ~Flying(r)' /\ ~At(r, "waiting")'
    BY <1>1, <1>4, <1>7 DEF Flying, At, Refreshes
<1> QED
    BY <1>1, <1>4, <1>5, <1>6, <1>7, <1>8, CallStep

LEMMA AuthenticateStep ==
    ASSUME IInv, NEW r \in Requests, Authenticate(r)
    PROVE  IInv'
<1> DEFINE call == IF Passes(req[r].access) THEN Settled ELSE [req[r] EXCEPT !.stage = "denied"]
<1>1. /\ req' = [req EXCEPT ![r] = call] /\ At(r, "sent")
      /\ UNCHANGED <<stores, tokens, client, history>>
    BY DEF Authenticate
<1>2. TypeOK /\ req[r] \in Call
    BY DEF IInv, TypeOK
<1>3. /\ call \in Call /\ call.stage \in {"idle", "denied"}
      /\ call.refresh \in {req[r].refresh, NoPair} /\ call.new \in {req[r].new, NoPair}
    BY <1>2, SettledCall DEF Call, Stage
<1> HIDE DEF call
<1>4. TypeOK'
    BY <1>1, <1>2, <1>3 DEF TypeOK, tokens, client, history, Signed
<1>5. HistoryGrows /\ owner' = owner /\ parent' = parent
    BY <1>1 DEF HistoryGrows, tokens, history
<1>6. req'[r] = call /\ \A q \in Requests \ {r} : req'[q] = req[q]
    BY <1>1, <1>2 DEF TypeOK
<1>7. ~Flying(r) /\ ~Flying(r)' /\ ~At(r, "waiting")'
    BY <1>1, <1>3, <1>6 DEF Flying, At, Refreshes
<1> QED
    BY <1>1, <1>3, <1>4, <1>5, <1>6, <1>7, CallStep

\* A call joins the queue of a refresh that is under way.
LEMMA EnqueueStep ==
    ASSUME IInv, NEW r \in Requests, Enqueue(r)
    PROVE  IInv'
<1> DEFINE call == [req[r] EXCEPT !.stage = "waiting"]
<1>1. /\ req' = [req EXCEPT ![r].stage = "waiting"] /\ At(r, "denied")
      /\ UNCHANGED <<stores, tokens, client, history>>
      /\ req[r].tab # None /\ refreshing[req[r].tab]
    BY DEF Enqueue, Goes
<1>2. TypeOK /\ req[r] \in Call
    BY DEF IInv, TypeOK
<1>3. /\ call \in Call /\ call.stage = "waiting" /\ call.tab = req[r].tab
      /\ call.refresh = req[r].refresh /\ call.new = req[r].new
    BY <1>2 DEF Call, Stage
<1>4. /\ req' \in [Requests -> Call]
      /\ req'[r] = call /\ \A q \in Requests \ {r} : req'[q] = req[q]
    BY <1>1, <1>2, <1>3 DEF TypeOK
<1> HIDE DEF call
<1>5. TypeOK'
    BY <1>1, <1>2, <1>4 DEF TypeOK, tokens, client, history, Signed
<1>6. HistoryGrows /\ owner' = owner /\ parent' = parent
    BY <1>1 DEF HistoryGrows, tokens, history
<1>7. ~Flying(r) /\ ~Flying(r)'
    BY <1>1, <1>3, <1>4 DEF Flying, At, Refreshes
<1> QED
    BY <1>1, <1>3, <1>4, <1>5, <1>6, <1>7, CallStep

LEMMA ExpireStep ==
    ASSUME IInv, NEW p \in Signed, Expire(p) \/ LogoutAccess(p) \/ LogoutRefresh(p)
    PROVE  IInv'
<1>1. /\ UNCHANGED <<stores, owner, parent, inactive, client, req, history>>
      /\ stale' \in {stale, stale \cup {p}} /\ revoked' \in {revoked, revoked \cup {p}}
      /\ rotated' \in {rotated, rotated \cup {p}} /\ ending' \subseteq ending \cup {p}
    BY DEF Expire, LogoutAccess, LogoutRefresh
<1>2. TypeOK'
    BY <1>1 DEF IInv, TypeOK, client, history, Signed
<1>3. HistoryGrows /\ owner' = owner /\ parent' = parent /\ req' = req
    BY <1>1 DEF HistoryGrows, history
<1> QED
    BY <1>1, <1>2, <1>3, CallStep

LEMMA DeactivateStep ==
    ASSUME IInv, NEW u \in Users, Deactivate(u)
    PROVE  IInv'
<1>1. /\ UNCHANGED <<stores, owner, parent, stale, revoked, rotated, ending, client, req, history>>
      /\ inactive' = inactive \cup {u}
    BY DEF Deactivate
<1>2. TypeOK'
    BY <1>1 DEF IInv, TypeOK, client, history, Signed
<1>3. HistoryGrows /\ owner' = owner /\ parent' = parent /\ req' = req
    BY <1>1 DEF HistoryGrows, history
<1> QED
    BY <1>1, <1>2, <1>3, CallStep

-----------------------------------------------------------------------------
(* Logging out, by hand or not, and pages that go away.                    *)

LEMMA LeaveCalls ==
    ASSUME NEW t \in Tabs, NEW calls \in [Requests -> Call], NEW q \in Requests
    PROVE  /\ Leave(t, calls)[q] \in Call
           /\ calls[q].tab # t => Leave(t, calls)[q] = calls[q]
           /\ calls[q].tab = t =>
                 \/ /\ calls[q].stage \in {"refresh", "renewable"}
                    /\ Leave(t, calls)[q] = [calls[q] EXCEPT !.tab = None]
                 \/ Leave(t, calls)[q] = Settled
<1>1. calls[q] \in Call /\ [calls[q] EXCEPT !.tab = None] \in Call
    BY DEF Call
<1> QED
    BY <1>1, SettledCall DEF Leave

\* When nothing flies nor waits in tab t any more, the flights of the other tabs go on.
LEMMA RestOfFlights ==
    ASSUME IInv, TypeOK, NEW t \in Tabs, t # None,
           refreshing' = [refreshing EXCEPT ![t] = FALSE],
           \A u \in Tabs \ {t} : session'[u] = session[u],
           \A q \in Requests : req[q].tab # t => req'[q] = req[q],
           \A q \in Requests : req[q].tab = t =>
              ~At(q, "waiting")' /\ ~(Flying(q)' /\ req'[q].tab # None)
    PROVE  Flights'
<1>1. ~refreshing'[t] /\ \A u \in Tabs \ {t} : refreshing'[u] = refreshing[u]
    BY DEF IInv, TypeOK
<1>2. \A q \in Requests : (Flying(q)' /\ req'[q].tab # None) \/ At(q, "waiting")'
         => req[q].tab # t /\ req'[q] = req[q]
    OBVIOUS
<1>3. \A q \in Requests : req[q].tab # t => (Flying(q)' <=> Flying(q))
                                            /\ (At(q, "waiting")' <=> At(q, "waiting"))
    BY DEF Flying, At
<1>4. ASSUME NEW r \in Requests, Flying(r)', req'[r].tab # None
      PROVE  /\ refreshing'[req'[r].tab]
             /\ session'[req'[r].tab].moved \/ session'[req'[r].tab].refresh = req'[r].refresh
    <2>1. Flying(r) /\ req'[r] = req[r] /\ req[r].tab \in Tabs \ {t}
        BY <1>2, <1>3, <1>4 DEF TypeOK, Call
    <2> QED
        BY <1>1, <1>4, <2>1 DEF IInv, Flights
<1>5. \A r, q \in Requests : Flying(r)' /\ Flying(q)' /\ req'[r].tab = req'[q].tab
          /\ req'[r].tab # None => r = q
    BY <1>2, <1>3 DEF IInv, Flights
<1>6. \A u \in Tabs : refreshing'[u] => \E r \in Requests : Flying(r)' /\ req'[r].tab = u
    <2> SUFFICES ASSUME NEW u \in Tabs, refreshing'[u]
                 PROVE  \E r \in Requests : Flying(r)' /\ req'[r].tab = u
        OBVIOUS
    <2>1. u # t /\ refreshing[u]
        BY <1>1
    <2>2. PICK r \in Requests : Flying(r) /\ req[r].tab = u
        BY <2>1 DEF IInv, Flights
    <2> QED
        BY <1>3, <2>1, <2>2
<1>7. \A r \in Requests : At(r, "waiting")' => req'[r].tab # None /\ refreshing'[req'[r].tab]
    <2> SUFFICES ASSUME NEW r \in Requests, At(r, "waiting")'
                 PROVE  req'[r].tab # None /\ refreshing'[req'[r].tab]
        OBVIOUS
    <2>1. req[r].tab # t /\ req'[r] = req[r] /\ At(r, "waiting")
        BY <1>2, <1>3
    <2>2. req[r].tab \in Tabs /\ refreshing[req[r].tab]
        BY <2>1 DEF IInv, Flights, TypeOK, Call
    <2> QED
        BY <1>1, <2>1, <2>2, SessionAssumption
<1> QED
    BY <1>4, <1>5, <1>6, <1>7 DEF Flights

\* Tab t's store is emptied.  Either its refresh goes on and the store is marked, or
\* nothing flies nor waits in the tab any more.
LEMMA LogoutStep ==
    ASSUME IInv, TypeOK', NEW t \in Tabs, NEW m \in BOOLEAN, SetStore(t, LoggedOut(m)),
           owner' = owner, parent' = parent, HistoryGrows,
           \A q \in Requests : Calmer(q) /\ (req[q].tab # t => req'[q] = req[q]),
           \/ /\ refreshing' = refreshing /\ m = refreshing[t]
              /\ \A q \in Requests : req'[q] = req[q] \/ (~Flying(q) /\ req'[q] = Settled)
           \/ /\ refreshing' = [refreshing EXCEPT ![t] = FALSE]
              /\ \A q \in Requests : req[q].tab = t =>
                    ~At(q, "waiting")' /\ ~(Flying(q)' /\ req'[q].tab # None)
    PROVE  IInv'
<1>1. /\ session' = [session EXCEPT ![t] = LoggedOut(m)] /\ persisted' = LoggedOut(m)
      /\ TypeOK /\ t # None
    BY SessionAssumption DEF SetStore, IInv
<1>2. session'[t] = LoggedOut(m) /\ \A u \in Tabs \ {t} : session'[u] = session[u]
    BY <1>1 DEF TypeOK
<1>3. LoggedOut(m).refresh = NoPair /\ LoggedOut(m).moved = m /\ Sound(LoggedOut(m))'
    BY LoggedOutStore
<1>4. Stores'
    <2>1. \A s \in Session : Sound(s) => Sound(s)'
        BY PairsStay
    <2>2. \A u \in Tabs : session[u] \in Session
        BY <1>1 DEF TypeOK
    <2>3. \A s : s = LoggedOut(m) => Sound(s)'
        BY <1>3 DEF Sound
    <2>4. Sound(persisted)'
        BY <1>1, <2>3 DEF Sound
    <2>5. \A u \in Tabs : Sound(session[u])'
        BY <1>2, <2>1, <2>2, <2>3 DEF IInv, Stores, Sound
    <2> QED
        BY <2>4, <2>5 DEF Stores
<1>5. TokensKept
    BY <1>1, <1>2, <1>3 DEF TokensKept
<1>6. FlightsKept
    BY <1>2, <1>3 DEF FlightsKept, Flying, At, TypeOK
<1>7. Flights'
    <2>1. CASE /\ refreshing' = refreshing /\ m = refreshing[t]
               /\ \A q \in Requests : req'[q] = req[q] \/ (~Flying(q) /\ req'[q] = Settled)
        <3>1. \A q \in Requests : req'[q] = req[q] \/ (~Flying(q) /\ ~Flying(q)' /\ ~At(q, "waiting")')
            BY <2>1, SettledCall DEF Flying, At, Refreshes
        <3>2. \A q \in Requests : (Flying(q)' <=> Flying(q)) /\ (Flying(q) => req'[q] = req[q])
            BY <3>1 DEF Flying
        <3>3. \A q \in Requests : At(q, "waiting")' => At(q, "waiting") /\ req'[q] = req[q]
            BY <3>1 DEF At
        <3>4. ASSUME NEW r \in Requests, Flying(r)', req'[r].tab # None
              PROVE  /\ refreshing'[req'[r].tab]
                     /\ session'[req'[r].tab].moved \/ session'[req'[r].tab].refresh = req'[r].refresh
            <4>1. Flying(r) /\ req'[r] = req[r] /\ req[r].tab \in Tabs
                BY <1>1, <3>2, <3>4 DEF TypeOK, Call
            <4>2. refreshing[req[r].tab]
                BY <3>4, <4>1 DEF IInv, Flights
            <4>3. CASE req[r].tab = t
                BY <1>2, <1>3, <2>1, <4>1, <4>2, <4>3
            <4>4. CASE req[r].tab # t
                BY <1>2, <2>1, <3>4, <4>1, <4>2, <4>4 DEF IInv, Flights
            <4> QED
                BY <4>3, <4>4
        <3>5. \A r, q \in Requests : Flying(r)' /\ Flying(q)' /\ req'[r].tab = req'[q].tab
                  /\ req'[r].tab # None => r = q
            BY <3>2 DEF IInv, Flights
        <3>6. \A u \in Tabs : refreshing'[u] => \E r \in Requests : Flying(r)' /\ req'[r].tab = u
            BY <2>1, <3>2 DEF IInv, Flights
        <3>7. \A r \in Requests : At(r, "waiting")' => req'[r].tab # None /\ refreshing'[req'[r].tab]
            BY <2>1, <3>3 DEF IInv, Flights
        <3> QED
            BY <3>4, <3>5, <3>6, <3>7 DEF Flights
    <2>2. CASE /\ refreshing' = [refreshing EXCEPT ![t] = FALSE]
               /\ \A q \in Requests : req[q].tab = t =>
                     ~At(q, "waiting")' /\ ~(Flying(q)' /\ req'[q].tab # None)
        BY <1>1, <1>2, <2>2, RestOfFlights
    <2> QED
        BY <2>1, <2>2
<1> QED
    BY <1>4, <1>5, <1>6, <1>7, QuietStep DEF Quiet

LEMMA MenuLogoutStep ==
    ASSUME IInv, NEW t \in Tabs, MenuLogout(t)
    PROVE  IInv'
<1>1. /\ SetStore(t, LoggedOut(refreshing[t]))
      /\ UNCHANGED <<stores, tokens, refreshing, req, history>>
    BY DEF MenuLogout
<1>2. TypeOK /\ refreshing[t] \in BOOLEAN
    BY DEF IInv, TypeOK
<1>3. TypeOK'
    <2>1. LoggedOut(refreshing[t]) \in Session
        BY <1>2, LoggedOutStore
    <2> QED
        BY <1>1, <1>2, <2>1 DEF SetStore, TypeOK, tokens, history, Signed
<1>4. HistoryGrows /\ owner' = owner /\ parent' = parent /\ req' = req /\ refreshing' = refreshing
    BY <1>1 DEF HistoryGrows, tokens, history
<1>5. \A q \in Requests : Calmer(q)
    BY <1>4 DEF Calmer, Flying
<1> QED
    BY <1>1, <1>2, <1>3, <1>4, <1>5, LogoutStep

\* Calls that leave a tab, or are settled in it, are calmer, and none is left there that
\* flies or waits.
LEMMA LeaveIsCalm ==
    ASSUME IInv, NEW t \in Tabs, NEW calls \in [Requests -> Call],
           \A q \in Requests : calls[q] = req[q] \/ (req[q].tab = t /\ calls[q] = Settled),
           req' = Leave(t, calls)
    PROVE  /\ req' \in [Requests -> Call]
           /\ \A q \in Requests : Calmer(q) /\ (req[q].tab # t => req'[q] = req[q])
           /\ \A q \in Requests : req[q].tab = t =>
                 ~At(q, "waiting")' /\ ~(Flying(q)' /\ req'[q].tab # None)
<1>1. req' \in [Requests -> Call]
    <2>1. req' = [q \in Requests |-> Leave(t, calls)[q]]
        BY DEF Leave
    <2> QED
        BY <2>1, LeaveCalls
<1>2. ASSUME NEW q \in Requests
      PROVE  /\ Calmer(q) /\ (req[q].tab # t => req'[q] = req[q])
             /\ req[q].tab = t => ~At(q, "waiting")' /\ ~(Flying(q)' /\ req'[q].tab # None)
    <2>1. req[q] \in Call /\ t # None
        BY SessionAssumption DEF IInv, TypeOK
    <2>2. CASE req[q].tab # t
        <3>1. calls[q] = req[q]
            BY <2>2
        <3>2. calls[q].tab # t => Leave(t, calls)[q] = calls[q]
            BY LeaveCalls
        <3>3. req'[q] = req[q]
            BY <2>2, <3>1, <3>2
        <3> QED
            BY <2>2, <3>3 DEF Calmer, Flying
    <2>3. CASE req[q].tab = t /\ req'[q] = Settled
        BY <2>3, SettledCall DEF Calmer, Flying, At, Refreshes
    <2>4. CASE /\ req[q].tab = t /\ req[q].stage \in {"refresh", "renewable"}
               /\ req'[q] = [req[q] EXCEPT !.tab = None]
        <3>1. /\ req'[q].tab = None /\ req'[q].stage = req[q].stage
              /\ req'[q].refresh = req[q].refresh /\ req'[q].new = req[q].new
            BY <2>1, <2>4 DEF Call
        <3> QED
            BY <2>4, <3>1 DEF Calmer, Flying, At, Refreshes
    <2>5. req[q].tab = t => \/ req'[q] = Settled
                            \/ /\ req[q].stage \in {"refresh", "renewable"}
                               /\ req'[q] = [req[q] EXCEPT !.tab = None]
        <3>1. CASE calls[q] = req[q]
            BY <3>1, LeaveCalls
        <3>2. CASE calls[q] = Settled
            <4>1. calls[q].tab # t
                BY <2>1, <3>2, SettledCall
            <4> QED
                BY <3>2, <4>1, LeaveCalls
        <3> QED
            BY <3>1, <3>2
    <2> QED
        BY <2>2, <2>3, <2>4, <2>5
<1> QED
    BY <1>1, <1>2

LEMMA GiveUpStep ==
    ASSUME IInv, NEW r \in Requests, GiveUp(r)
    PROVE  IInv'
<1> DEFINE over == [req EXCEPT ![r] = Settled]
           t == req[r].tab
<1>1. TypeOK /\ At(r, "denied") /\ UNCHANGED <<stores, tokens, history>>
    BY DEF GiveUp, IInv
<1>2. /\ over \in [Requests -> Call] /\ over[r] = Settled /\ ~Flying(r)
      /\ \A q \in Requests \ {r} : over[q] = req[q]
    BY <1>1, SettledCall DEF TypeOK, Flying, At, Refreshes
<1>3. HistoryGrows /\ owner' = owner /\ parent' = parent
    BY <1>1 DEF HistoryGrows, tokens, history
<1>4. CASE req' = over /\ UNCHANGED client
    <2>1. TypeOK'
        BY <1>1, <1>2, <1>4 DEF TypeOK, tokens, client, history, Signed
    <2>2. ~Flying(r)' /\ ~At(r, "waiting")'
        BY <1>2, <1>4, SettledCall DEF Flying, At, Refreshes
    <2> QED
        BY <1>2, <1>3, <1>4, <2>1, <2>2, SettledCall, CallStep
<1>5. CASE /\ t # None /\ session' = [session EXCEPT ![t] = LoggedOut(refreshing[t])]
           /\ persisted' = session'[t]
           /\ \/ req' = over /\ UNCHANGED refreshing
              \/ req' = Leave(t, over) /\ refreshing' = [refreshing EXCEPT ![t] = FALSE]
    <2>1. t \in Tabs /\ refreshing[t] \in BOOLEAN
        BY <1>1, <1>5 DEF TypeOK, Call
    <2>2. SetStore(t, LoggedOut(refreshing[t]))
        BY <1>1, <1>5, <2>1 DEF SetStore, TypeOK
    <2>3. TypeOK' \/ req' \notin [Requests -> Call]
        <3>1. LoggedOut(refreshing[t]) \in Session
            BY <2>1, LoggedOutStore
        <3>2. refreshing' \in [Tabs -> BOOLEAN]
            BY <1>1, <1>5 DEF TypeOK
        <3> HIDE DEF t
        <3> QED
            BY <1>1, <2>1, <2>2, <3>1, <3>2 DEF SetStore, TypeOK, tokens, history, Signed
    <2>4. CASE req' = over /\ UNCHANGED refreshing
        <3>1. \A q \in Requests : req'[q] = req[q] \/ (~Flying(q) /\ req'[q] = Settled)
            BY <1>2, <2>4
        <3>2. \A q \in Requests : req[q].tab # t => req'[q] = req[q]
            BY <1>2, <2>4
        <3>3. \A q \in Requests : Calmer(q)
            BY <3>1, SettledCall DEF Calmer, Flying, Refreshes
        <3> HIDE DEF t
        <3> QED
            BY <1>2, <1>3, <2>1, <2>2, <2>3, <2>4, <3>1, <3>2, <3>3, LogoutStep
    <2>5. CASE req' = Leave(t, over) /\ refreshing' = [refreshing EXCEPT ![t] = FALSE]
        <3>1. \A q \in Requests : over[q] = req[q] \/ (req[q].tab = t /\ over[q] = Settled)
            BY <1>2
        <3> HIDE DEF t, over
        <3>2. /\ req' \in [Requests -> Call]
              /\ \A q \in Requests : Calmer(q) /\ (req[q].tab # t => req'[q] = req[q])
              /\ \A q \in Requests : req[q].tab = t =>
                    ~At(q, "waiting")' /\ ~(Flying(q)' /\ req'[q].tab # None)
            BY <1>2, <2>1, <2>5, <3>1, LeaveIsCalm
        <3> QED
            BY <1>3, <2>1, <2>2, <2>3, <2>5, <3>2, LogoutStep
    <2> QED
        BY <1>5, <2>4, <2>5
<1> QED
    BY <1>4, <1>5 DEF GiveUp

\* The answer of a refresh whose page is gone is dropped.
LEMMA OrphanStep ==
    ASSUME IInv, NEW r \in Requests, Flying(r), req[r].tab = None,
           req' = [req EXCEPT ![r] = Settled], UNCHANGED <<stores, tokens, client, history>>
    PROVE  IInv'
<1>1. TypeOK /\ HistoryGrows /\ owner' = owner /\ parent' = parent
    BY DEF IInv, HistoryGrows, tokens, history
<1>2. /\ req' \in [Requests -> Call] /\ req'[r] = Settled
      /\ \A q \in Requests \ {r} : req'[q] = req[q]
    BY <1>1, SettledCall DEF TypeOK
<1>3. TypeOK'
    BY <1>1, <1>2 DEF TypeOK, tokens, client, history, Signed
<1>4. ~Flying(r)' /\ ~At(r, "waiting")'
    BY <1>2, SettledCall DEF Flying, At, Refreshes
<1>5. \A q \in Requests : Calmer(q)
    BY <1>2, <1>4, SettledCall DEF Calmer, Flying
<1>6. session' = session /\ persisted' = persisted /\ refreshing' = refreshing
    BY DEF client
<1>7. TokensKept
    BY <1>6 DEF TokensKept
<1>8. FlightsKept
    BY <1>2 DEF FlightsKept, Flying, At
<1>9. Stores'
    <2>1. \A s \in Session : Sound(s) => Sound(s)'
        BY <1>1, PairsStay
    <2>2. persisted \in Session /\ \A u \in Tabs : session[u] \in Session
        BY <1>1 DEF TypeOK
    <2> QED
        BY <1>6, <2>1, <2>2 DEF IInv, Stores, Sound
<1>10. Flights'
    <2>1. \A q \in Requests : (Flying(q)' /\ req'[q].tab # None) \/ At(q, "waiting")'
              => q # r /\ req'[q] = req[q]
        BY <1>2, <1>4
    <2>2. \A q \in Requests \ {r} : (Flying(q)' <=> Flying(q)) /\ (At(q, "waiting")' <=> At(q, "waiting"))
        BY <1>2 DEF Flying, At
    <2>3. \A u \in Tabs : refreshing'[u] => \E q \in Requests : Flying(q)' /\ req'[q].tab = u
        <3> SUFFICES ASSUME NEW u \in Tabs, refreshing[u]
                     PROVE  \E q \in Requests : Flying(q)' /\ req'[q].tab = u
            BY <1>6
        <3>1. PICK q \in Requests : Flying(q) /\ req[q].tab = u
            BY DEF IInv, Flights
        <3> QED
            BY <1>2, <2>2, <3>1, SessionAssumption
    <2>4. \A q \in Requests : Flying(q)' /\ req'[q].tab # None =>
              /\ refreshing'[req'[q].tab]
              /\ session'[req'[q].tab].moved \/ session'[req'[q].tab].refresh = req'[q].refresh
        BY <1>6, <2>1, <2>2 DEF IInv, Flights
    <2>5. \A p, q \in Requests : Flying(p)' /\ Flying(q)' /\ req'[p].tab = req'[q].tab
              /\ req'[p].tab # None => p = q
        BY <2>1, <2>2 DEF IInv, Flights
    <2>6. \A q \in Requests : At(q, "waiting")' => req'[q].tab # None /\ refreshing'[req'[q].tab]
        BY <1>6, <2>1, <2>2 DEF IInv, Flights
    <2> QED
        BY <2>3, <2>4, <2>5, <2>6 DEF Flights
<1> QED
    BY <1>1, <1>3, <1>5, <1>7, <1>8, <1>9, <1>10, QuietStep DEF Quiet

\* The refresh failed: it was the tab's only one, and every call that waited is rejected.
LEMMA RefusedStep ==
    ASSUME IInv, NEW r \in Requests, Refused(r)
    PROVE  IInv'
<1> DEFINE t == req[r].tab
           calls == Rejected(t, r)
<1>1. TypeOK /\ At(r, "refused") /\ Flying(r) /\ UNCHANGED <<stores, tokens, history>>
    BY DEF Refused, IInv, At, Flying, Refreshes
<1>2. HistoryGrows /\ owner' = owner /\ parent' = parent
    BY <1>1 DEF HistoryGrows, tokens, history
<1>3. CASE t = None
    <2>1. req' = [req EXCEPT ![r] = Settled] /\ UNCHANGED client
        BY <1>3 DEF Refused
    <2> QED
        BY <1>1, <1>2, <1>3, <2>1, OrphanStep DEF tokens
<1>4. CASE t # None
    <2>1. ThrownOut(t, calls)
        BY <1>4 DEF Refused
    <2>2. t \in Tabs
        BY <1>1, <1>4 DEF TypeOK, Call
    <2>3. /\ SetStore(t, LoggedOut(FALSE)) /\ refreshing' = [refreshing EXCEPT ![t] = FALSE]
          /\ req' = calls \/ req' = Leave(t, calls)
        BY <2>1 DEF ThrownOut
    <2>4. \A q \in Requests : calls[q] = IF q = r \/ (req[q].tab = t /\ At(q, "waiting"))
                                         THEN Settled ELSE req[q]
        BY DEF Rejected, Waiting
    <2>5. calls \in [Requests -> Call]
        <3>1. calls = [q \in Requests |-> calls[q]]
            BY DEF Rejected
        <3> HIDE DEF calls
        <3> QED
            BY <1>1, <2>4, <3>1, SettledCall DEF TypeOK
    <2>6. \A q \in Requests : calls[q] = req[q] \/ (req[q].tab = t /\ calls[q] = Settled)
        BY <2>4
    <2>7. \A q \in Requests : Flying(q) /\ req[q].tab = t => q = r
        BY <1>1, <1>4 DEF IInv, Flights
    <2> HIDE DEF calls, t
    <2>8. /\ req' \in [Requests -> Call]
          /\ \A q \in Requests : Calmer(q) /\ (req[q].tab # t => req'[q] = req[q])
          /\ \A q \in Requests : req[q].tab = t =>
                ~At(q, "waiting")' /\ ~(Flying(q)' /\ req'[q].tab # None)
        <3>1. CASE req' = Leave(t, calls)
            BY <2>2, <2>5, <2>6, <3>1, LeaveIsCalm
        <3>2. CASE req' = calls
            <4>1. \A q \in Requests : Calmer(q)
                BY <2>6, <3>2, SettledCall DEF Calmer, Flying, Refreshes
            <4>2. \A q \in Requests : req[q].tab # t => req'[q] = req[q]
                BY <2>6, <3>2
            <4>3. ASSUME NEW q \in Requests, req[q].tab = t
                  PROVE  ~At(q, "waiting")' /\ ~Flying(q)'
                <5>1. CASE calls[q] = Settled
                    BY <3>2, <5>1, SettledCall DEF At, Flying, Refreshes
                <5>2. CASE calls[q] # Settled
                    <6>1. calls[q] = req[q] /\ q # r /\ ~At(q, "waiting")
                        BY <2>4, <4>3, <5>2
                    <6>2. ~Flying(q)
                        BY <2>7, <4>3, <6>1
                    <6> QED
                        BY <3>2, <6>1, <6>2 DEF At, Flying
                <5> QED
                    BY <5>1, <5>2
            <4> QED
                BY <2>5, <3>2, <4>1, <4>2, <4>3
        <3> QED
            BY <2>3, <3>1, <3>2
    <2>9. TypeOK'
        <3>1. LoggedOut(FALSE) \in Session
            BY LoggedOutStore
        <3>2. refreshing' \in [Tabs -> BOOLEAN]
            BY <1>1, <2>3 DEF TypeOK
        <3> QED
            BY <1>1, <2>2, <2>3, <2>8, <3>1, <3>2 DEF SetStore, TypeOK, tokens, history, Signed
    <2> QED
        BY <1>2, <2>2, <2>3, <2>8, <2>9, LogoutStep
<1> QED
    BY <1>3, <1>4

\* A reloaded tab takes what localStorage holds; whose token it was is in the history.
LEMMA ReloadStep ==
    ASSUME IInv, NEW t \in Tabs, Reload(t)
    PROVE  IInv'
<1>1. /\ TypeOK /\ t # None
      /\ session' = [session EXCEPT ![t] = persisted]
      /\ refreshing' = [refreshing EXCEPT ![t] = FALSE]
      /\ req' = Leave(t, req)
      /\ missed' = missed \cup {req[r].refresh : r \in {q \in Requests :
                                req[q].tab = t /\ req[q].stage \in Refreshes}}
      /\ shared' = shared \cup (IF persisted.refresh # session[t].refresh
                                THEN {persisted.refresh} \ {NoPair} ELSE {})
      /\ UNCHANGED <<stores, tokens, persisted, overlapped>>
    BY SessionAssumption DEF Reload, IInv
<1>2. /\ session'[t] = persisted /\ \A u \in Tabs \ {t} : session'[u] = session[u]
      /\ ~refreshing'[t] /\ \A u \in Tabs \ {t} : refreshing'[u] = refreshing[u]
    BY <1>1 DEF TypeOK
<1>3. /\ req' \in [Requests -> Call]
      /\ \A q \in Requests : Calmer(q) /\ (req[q].tab # t => req'[q] = req[q])
      /\ \A q \in Requests : req[q].tab = t =>
            ~At(q, "waiting")' /\ ~(Flying(q)' /\ req'[q].tab # None)
    <2>1. req \in [Requests -> Call]
        BY <1>1 DEF TypeOK
    <2> QED
        BY <1>1, <2>1, LeaveIsCalm
<1>4. HistoryGrows /\ owner' = owner /\ parent' = parent /\ persisted' = persisted
    BY <1>1 DEF HistoryGrows, tokens
<1>5. TypeOK'
    <2>1. missed' \subseteq Signed
        <3>1. ASSUME NEW r \in Requests, req[r].stage \in Refreshes PROVE req[r].refresh \in Signed
            <4>1. req[r].refresh # NoPair /\ req[r].refresh <= Len(owner)
                BY <3>1 DEF IInv, Calls, Flying
            <4>2. req[r].refresh \in Nat /\ Len(owner) \in Nat
                BY <1>1, SessionAssumption DEF TypeOK, Call
            <4> QED
                BY <4>1, <4>2 DEF Signed, NoPair
        <3> QED
            BY <1>1, <3>1 DEF TypeOK
    <2>2. shared' \subseteq Signed
        <3>1. persisted.refresh \in Nat /\ Len(owner) \in Nat /\ persisted.refresh <= Len(owner)
            BY <1>1, SessionAssumption DEF TypeOK, Session, IInv, Stores, Sound
        <3>2. persisted.refresh # NoPair => persisted.refresh \in Signed
            BY <3>1 DEF Signed, NoPair
        <3>3. shared \subseteq Signed
            BY <1>1 DEF TypeOK
        <3> QED
            BY <1>1, <3>2, <3>3
    <2>3. session' \in [Tabs -> Session] /\ refreshing' \in [Tabs -> BOOLEAN]
        BY <1>1 DEF TypeOK
    <2>4. Signed' = Signed
        BY <1>4 DEF Signed
    <2> QED
        BY <1>1, <1>3, <2>1, <2>2, <2>3, <2>4 DEF TypeOK, tokens
<1>6. TokensKept
    <2>1. \/ session'[t].refresh \in {session[t].refresh, NoPair}
          \/ session'[t].refresh = persisted.refresh /\ persisted.refresh \in shared'
        BY <1>1, <1>2
    <2> QED
        BY <1>2, <1>4, <2>1 DEF TokensKept
<1>7. FlightsKept
    <2> SUFFICES ASSUME NEW r \in Requests, Flying(r), req[r].tab # None
                 PROVE  \/ /\ Flying(r)' /\ req'[r].tab = req[r].tab
                           /\ At(r, "renewed") => At(r, "renewed")'
                        \/ session'[req[r].tab].refresh = NoPair
                        \/ req[r].refresh \in missed'
        BY DEF FlightsKept
    <2>1. CASE req[r].tab = t
        BY <1>1, <2>1 DEF Flying
    <2>2. CASE req[r].tab # t
        BY <1>3, <2>2 DEF Flying, At
    <2> QED
        BY <2>1, <2>2
<1>8. Stores'
    <2>1. \A s \in Session : Sound(s) => Sound(s)'
        BY <1>4, PairsStay
    <2>2. persisted \in Session /\ \A u \in Tabs : session[u] \in Session
        BY <1>1 DEF TypeOK
    <2>3. Sound(persisted)'
        BY <1>4, <2>1, <2>2 DEF IInv, Stores, Sound
    <2>4. ASSUME NEW u \in Tabs PROVE Sound(session[u])'
        <3>1. CASE u = t
            BY <1>2, <1>4, <2>3, <3>1 DEF Sound
        <3>2. CASE u # t
            BY <1>2, <2>1, <2>2, <3>2 DEF IInv, Stores, Sound
        <3> QED
            BY <3>1, <3>2
    <2> QED
        BY <2>3, <2>4 DEF Stores
<1>9. Flights'
    BY <1>1, <1>2, <1>3, RestOfFlights
<1> QED
    BY <1>3, <1>4, <1>5, <1>6, <1>7, <1>8, <1>9, QuietStep DEF Quiet
-----------------------------------------------------------------------------
(* The steps of a refresh.                                                 *)

\* No flight begins or ends, and a store is touched only if it is marked.
LEMMA FlightsGoOn ==
    ASSUME IInv, refreshing' = refreshing,
           \A q \in Requests :
              /\ (Flying(q)' <=> Flying(q)) /\ (At(q, "waiting")' <=> At(q, "waiting"))
              /\ req'[q].tab = req[q].tab /\ req'[q].refresh = req[q].refresh,
           \A t \in Tabs : session'[t] = session[t] \/ session'[t].moved = refreshing[t]
    PROVE  Flights'
<1>1. TypeOK
    BY DEF IInv
<1>2. ASSUME NEW r \in Requests, Flying(r)', req'[r].tab # None
      PROVE  /\ refreshing'[req'[r].tab]
             /\ session'[req'[r].tab].moved \/ session'[req'[r].tab].refresh = req'[r].refresh
    <2>1. /\ Flying(r) /\ req'[r].tab = req[r].tab /\ req[r].tab \in Tabs
          /\ req'[r].refresh = req[r].refresh
        BY <1>1, <1>2 DEF TypeOK, Call
    <2>2. /\ refreshing[req[r].tab]
          /\ session[req[r].tab].moved \/ session[req[r].tab].refresh = req[r].refresh
        BY <1>2, <2>1 DEF IInv, Flights
    <2> QED
        BY <2>1, <2>2
<1>3. \A r, q \in Requests : Flying(r)' /\ Flying(q)' /\ req'[r].tab = req'[q].tab
          /\ req'[r].tab # None => r = q
    BY DEF IInv, Flights
<1>4. \A u \in Tabs : refreshing'[u] => \E r \in Requests : Flying(r)' /\ req'[r].tab = u
    BY DEF IInv, Flights
<1>5. \A r \in Requests : At(r, "waiting")' => req'[r].tab # None /\ refreshing'[req'[r].tab]
    BY DEF IInv, Flights
<1> QED
    BY <1>2, <1>3, <1>4, <1>5 DEF Flights

\* A refresh in flight goes from one stage to another.
LEMMA StageStep ==
    ASSUME TypeOK, NEW r \in Requests, Flying(r), NEW stage \in Refreshes,
           req' = [req EXCEPT ![r].stage = stage]
    PROVE  /\ req' \in [Requests -> Call] /\ At(r, stage)'
           /\ \A q \in Requests \ {r} : req'[q] = req[q]
           /\ \A q \in Requests :
                 /\ (Flying(q)' <=> Flying(q)) /\ (At(q, "waiting")' <=> At(q, "waiting"))
                 /\ req'[q].tab = req[q].tab /\ req'[q].refresh = req[q].refresh
                 /\ req'[q].new = req[q].new
<1> DEFINE call == [req[r] EXCEPT !.stage = stage]
<1>1. req[r] \in Call
    BY DEF TypeOK
<1>2. /\ call \in Call /\ call.stage = stage /\ call.tab = req[r].tab
      /\ call.refresh = req[r].refresh /\ call.new = req[r].new
    BY <1>1 DEF Call, Stage
<1>3. req' = [req EXCEPT ![r] = call]
    OBVIOUS
<1> HIDE DEF call
<1>4. req' \in [Requests -> Call] /\ req'[r] = call /\ \A q \in Requests \ {r} : req'[q] = req[q]
    BY <1>2, <1>3 DEF TypeOK
<1>5. (Flying(r)' <=> Flying(r)) /\ (At(r, "waiting")' <=> At(r, "waiting")) /\ At(r, stage)'
    BY <1>2, <1>4 DEF Flying, At, Refreshes
<1>6. \A q \in Requests \ {r} : (Flying(q)' <=> Flying(q)) /\ (At(q, "waiting")' <=> At(q, "waiting"))
    BY <1>4 DEF Flying, At
<1> QED
    BY <1>2, <1>4, <1>5, <1>6

\* The refresh is refused, or its answer is lost.
LEMMA RefusalStep ==
    ASSUME IInv, NEW r \in Requests, Flying(r), Goes(r, "refused"),
           UNCHANGED <<stores, tokens, client, shared>>, overlapped \subseteq overlapped',
           missed \subseteq missed', missed' \cup overlapped' \subseteq Signed,
           At(r, "renewed") => req[r].refresh \in missed'
    PROVE  IInv'
<1>1. TypeOK /\ HistoryGrows /\ owner' = owner /\ parent' = parent
    BY DEF IInv, HistoryGrows, tokens
<1>2. session' = session /\ persisted' = persisted /\ refreshing' = refreshing
    BY DEF client
<1>3. /\ req' \in [Requests -> Call] /\ At(r, "refused")'
      /\ \A q \in Requests \ {r} : req'[q] = req[q]
      /\ \A q \in Requests :
            /\ (Flying(q)' <=> Flying(q)) /\ (At(q, "waiting")' <=> At(q, "waiting"))
            /\ req'[q].tab = req[q].tab /\ req'[q].refresh = req[q].refresh
            /\ req'[q].new = req[q].new
    BY <1>1, StageStep DEF Goes, Refreshes
<1>4. TypeOK'
    BY <1>1, <1>2, <1>3 DEF TypeOK, tokens, Signed
<1>5. Flights'
    BY <1>2, <1>3, FlightsGoOn
<1>6. \A q \in Requests : Calmer(q)
    BY <1>3 DEF Calmer, Flying, At
<1>7. TokensKept /\ FlightsKept
    BY <1>2, <1>3 DEF TokensKept, FlightsKept, At
<1>8. Stores'
    <2>1. \A s \in Session : Sound(s) => Sound(s)'
        BY <1>1, PairsStay
    <2>2. persisted \in Session /\ \A u \in Tabs : session[u] \in Session
        BY <1>1 DEF TypeOK
    <2> QED
        BY <1>2, <2>1, <2>2 DEF IInv, Stores, Sound
<1> QED
    BY <1>1, <1>4, <1>5, <1>6, <1>7, <1>8, QuietStep DEF Quiet

\* The token a refresh carries was signed.
LEMMA CarriedPair ==
    ASSUME IInv, NEW r \in Requests
    PROVE  /\ req[r] \in Call /\ req[r].refresh \in Nat /\ req[r].new \in Nat /\ Len(owner) \in Nat
           /\ Flying(r) => req[r].refresh \in Signed /\ req[r].refresh # NoPair
           /\ At(r, "renewed") => req[r].new \in Signed /\ Flying(r)
<1>1. req[r] \in Call /\ Len(owner) \in Nat
    BY DEF IInv, TypeOK
<1>2. req[r].refresh \in Nat /\ req[r].new \in Nat
    BY <1>1, SessionAssumption DEF Call
<1> QED
    BY <1>1, <1>2 DEF IInv, Calls, Signed, NoPair, At, Flying, Refreshes

LEMMA LoseAnswerStep ==
    ASSUME IInv, NEW r \in Requests, LoseAnswer(r)
    PROVE  IInv'
<1>1. /\ At(r, "renewed") /\ Goes(r, "refused") /\ missed' = missed \cup {req[r].refresh}
      /\ UNCHANGED <<stores, tokens, client, shared, overlapped>>
    BY DEF LoseAnswer
<1>2. Flying(r) /\ req[r].refresh \in Signed
    BY <1>1, CarriedPair
<1>3. missed' \cup overlapped' \subseteq Signed
    BY <1>1, <1>2 DEF IInv, TypeOK
<1> QED
    BY <1>1, <1>2, <1>3, RefusalStep
\* The blacklist is asked: a token it does not know has bought nothing yet.
LEMMA CheckRefreshStep ==
    ASSUME IInv, NEW r \in Requests, CheckRefresh(r)
    PROVE  IInv'
<1> DEFINE p == req[r].refresh
           beside == {q \in Requests \ {r} : At(q, "renewable") /\ req[q].refresh = p}
<1>1. /\ At(r, "refresh") /\ Goes(r, IF p \in rotated THEN "refused" ELSE "renewable")
      /\ overlapped' = IF p \notin rotated /\ beside # {} THEN overlapped \cup {p} ELSE overlapped
      /\ UNCHANGED <<stores, tokens, client, shared, missed>>
    BY DEF CheckRefresh
<1>2. /\ Flying(r) /\ p \in Signed /\ p # NoPair /\ TypeOK
      /\ ~At(r, "renewed") /\ ~At(r, "renewable")
    BY <1>1, CarriedPair DEF Flying, At, Refreshes, IInv
<1>3. overlapped \subseteq overlapped' /\ missed' \cup overlapped' \subseteq Signed
    BY <1>1, <1>2 DEF TypeOK
<1>4. CASE p \in rotated
    BY <1>1, <1>2, <1>3, <1>4, RefusalStep
<1>5. CASE p \notin rotated
    <2>1. Goes(r, "renewable") /\ (beside # {} => p \in overlapped')
        BY <1>1, <1>5
    <2>2. /\ req' \in [Requests -> Call] /\ At(r, "renewable")'
          /\ \A q \in Requests \ {r} : req'[q] = req[q]
          /\ \A q \in Requests :
                /\ (Flying(q)' <=> Flying(q)) /\ (At(q, "waiting")' <=> At(q, "waiting"))
                /\ req'[q].tab = req[q].tab /\ req'[q].refresh = req[q].refresh
                /\ req'[q].new = req[q].new
        BY <1>2, <2>1, StageStep DEF Goes, Refreshes
    <2>3. HistoryGrows /\ owner' = owner /\ parent' = parent
        BY <1>1, <1>3 DEF HistoryGrows, tokens
    <2>4. session' = session /\ persisted' = persisted /\ refreshing' = refreshing
        BY <1>1 DEF client
    <2>5. TypeOK'
        BY <1>1, <1>2, <1>3, <2>2, <2>4 DEF TypeOK, tokens, Signed
    <2>6. Flights'
        BY <2>2, <2>4, FlightsGoOn
    <2>7. /\ Parents' /\ OneChild' /\ Signed' = Signed
          /\ \A s \in Session : Sound(s) => Sound(s)'
        BY <2>3, PairsStay
    <2>8. Stores'
        <3>1. persisted \in Session /\ \A u \in Tabs : session[u] \in Session
            BY <1>2 DEF TypeOK
        <3> QED
            BY <2>4, <2>7, <3>1 DEF IInv, Stores, Sound
    <2>9. \A q \in Requests : At(q, "renewed")' <=> At(q, "renewed")
        BY <1>2, <2>2 DEF At
    <2>10. Calls'
        BY <2>2, <2>3, <2>9 DEF IInv, Calls
    <2>11. Undelivered'
        <3> SUFFICES ASSUME NEW q \in Requests, At(q, "renewed")
                     PROVE  /\ persisted'.refresh # req'[q].new /\ ~Spent(req[q].new)'
                            /\ \A t \in Tabs : session'[t].refresh # req'[q].new
                            /\ \A x \in Requests : req'[x].refresh # req'[q].new
                            /\ \A x \in Requests \ {q} : At(x, "renewed")' => req'[x].new # req'[q].new
            BY <2>2, <2>9 DEF Undelivered, Spent
        <3>1. ~Spent(req[q].new)'
            BY <2>2, <2>3, <2>7 DEF IInv, Undelivered, Spent
        <3> QED
            BY <2>2, <2>4, <2>9, <3>1 DEF IInv, Undelivered
    <2>12. Holders'
        BY <2>2, <2>3, <2>4 DEF IInv, Holders, HistoryGrows
    <2>13. Renewals'
        <3>1. \A q \in Requests \ {r} : At(q, "renewable")' <=> At(q, "renewable")
            BY <2>2 DEF At
        <3>2. \A q \in Requests \ {r} : At(q, "renewable") /\ req[q].refresh = p => p \in overlapped'
            BY <2>1
        <3>3. \A x, q \in Requests : x # q /\ At(x, "renewable")' /\ At(q, "renewable")'
                  /\ req'[x].refresh = req'[q].refresh => req'[x].refresh \in overlapped'
            <4> SUFFICES ASSUME NEW x \in Requests, NEW q \in Requests, x # q,
                                At(x, "renewable")', At(q, "renewable")',
                                req[x].refresh = req[q].refresh
                         PROVE  req[x].refresh \in overlapped'
                BY <2>2
            <4>1. CASE x = r
                BY <3>1, <3>2, <4>1
            <4>2. CASE q = r
                BY <3>1, <3>2, <4>2
            <4>3. CASE x # r /\ q # r
                BY <2>3, <3>1, <4>3 DEF IInv, Renewals, HistoryGrows
            <4> QED
                BY <4>1, <4>2, <4>3
        <3>4. ~Spent(p)
            BY <1>2, <1>5 DEF IInv, Parents, Spent
        <3>5. ASSUME NEW q \in Requests, At(q, "renewable")', Spent(req[q].refresh)
              PROVE  req'[q].refresh \in overlapped'
            BY <2>2, <2>3, <3>1, <3>4, <3>5 DEF IInv, Renewals, HistoryGrows
        <3>6. \A q \in Requests : Spent(req[q].refresh)' => Spent(req[q].refresh)
            BY <2>2, <2>3, <2>7 DEF Spent
        <3> QED
            BY <3>3, <3>5, <3>6 DEF Renewals
    <2>14. SessionCanBeRenewed'
        BY <1>1, <2>2, <2>3, <2>4, <2>7, <2>9 DEF IInv, SessionCanBeRenewed
    <2> QED
        BY <2>5, <2>6, <2>7, <2>8, <2>10, <2>11, <2>12, <2>13, <2>14 DEF IInv
<1> QED
    BY <1>4, <1>5

\* The tab had no refresh under way, and the new one takes the store's token.
LEMMA StartRefreshStep ==
    ASSUME IInv, NEW r \in Requests, StartRefresh(r)
    PROVE  IInv'
<1> DEFINE t == req[r].tab
           call == [req[r] EXCEPT !.stage = "refresh", !.retry = TRUE, !.refresh = session[t].refresh]
<1>1. /\ At(r, "denied") /\ t # None /\ session[t].refresh # NoPair /\ ~refreshing[t]
      /\ req' = [req EXCEPT ![r] = call]
      /\ refreshing' = [refreshing EXCEPT ![t] = TRUE]
      /\ UNCHANGED <<stores, tokens, session, persisted, history>>
    BY DEF StartRefresh
<1>2. TypeOK /\ req[r] \in Call /\ t \in Tabs /\ session[t] \in Session
    BY <1>1 DEF IInv, TypeOK, Call
<1>3. /\ call \in Call /\ call.stage = "refresh" /\ call.tab = t
      /\ call.refresh = session[t].refresh /\ call.new = req[r].new
    BY <1>2 DEF Call, Session, Stage, Refreshes
<1> HIDE DEF call
<1>4. /\ req' \in [Requests -> Call] /\ req'[r] = call
      /\ \A q \in Requests \ {r} : req'[q] = req[q]
      /\ refreshing' \in [Tabs -> BOOLEAN] /\ refreshing'[t]
      /\ \A u \in Tabs \ {t} : refreshing'[u] = refreshing[u]
    BY <1>1, <1>2, <1>3 DEF TypeOK
<1>5. HistoryGrows /\ owner' = owner /\ parent' = parent /\ session' = session /\ persisted' = persisted
    BY <1>1 DEF HistoryGrows, tokens, history
<1>6. TypeOK'
    BY <1>1, <1>2, <1>4 DEF TypeOK, tokens, history, Signed
<1>7. /\ Parents' /\ OneChild' /\ Signed' = Signed
      /\ \A s \in Session : Sound(s) => Sound(s)'
    BY <1>5, PairsStay
<1>8. Stores'
    <2>1. persisted \in Session /\ \A u \in Tabs : session[u] \in Session
        BY <1>2 DEF TypeOK
    <2> QED
        BY <1>5, <1>7, <2>1 DEF IInv, Stores, Sound
<1>9. /\ Flying(r)' /\ ~Flying(r) /\ ~At(r, "waiting")'
      /\ \A q \in Requests : At(q, "renewed")' => q # r /\ At(q, "renewed")
      /\ \A q \in Requests : At(q, "renewable")' => q # r /\ At(q, "renewable")
    BY <1>1, <1>3, <1>4 DEF Flying, At, Refreshes
<1>10. \A q \in Requests \ {r} : /\ Flying(q)' <=> Flying(q)
                                 /\ At(q, "waiting")' <=> At(q, "waiting")
                                 /\ At(q, "renewed")' <=> At(q, "renewed")
    BY <1>4 DEF Flying, At
<1>11. \A q \in Requests : Flying(q) => req[q].tab # t
    BY <1>1 DEF IInv, Flights
<1> HIDE DEF t
<1>12. Flights'
    <2>1. \A q \in Requests : Flying(q)' /\ req'[q].tab # None =>
              /\ refreshing'[req'[q].tab]
              /\ session'[req'[q].tab].moved \/ session'[req'[q].tab].refresh = req'[q].refresh
        <3> SUFFICES ASSUME NEW q \in Requests, Flying(q)', req'[q].tab # None
                     PROVE  /\ refreshing'[req'[q].tab]
                            /\ session'[req'[q].tab].moved \/ session'[req'[q].tab].refresh = req'[q].refresh
            OBVIOUS
        <3>1. CASE q = r
            BY <1>3, <1>4, <1>5, <3>1
        <3>2. CASE q # r
            <4>1. Flying(q) /\ req'[q] = req[q] /\ req[q].tab \in Tabs \ {t}
                BY <1>2, <1>4, <1>10, <1>11, <3>2 DEF TypeOK, Call
            <4> QED
                BY <1>4, <1>5, <4>1 DEF IInv, Flights
        <3> QED
            BY <3>1, <3>2
    <2>2. \A x, q \in Requests : Flying(x)' /\ Flying(q)' /\ req'[x].tab = req'[q].tab
              /\ req'[x].tab # None => x = q
        BY <1>3, <1>4, <1>10, <1>11 DEF IInv, Flights
    <2>3. \A u \in Tabs : refreshing'[u] => \E q \in Requests : Flying(q)' /\ req'[q].tab = u
        <3> SUFFICES ASSUME NEW u \in Tabs, refreshing'[u]
                     PROVE  \E q \in Requests : Flying(q)' /\ req'[q].tab = u
            OBVIOUS
        <3>1. CASE u = t
            BY <1>3, <1>4, <1>9, <3>1
        <3>2. CASE u # t
            <4>1. PICK q \in Requests : Flying(q) /\ req[q].tab = u
                BY <1>4, <3>2 DEF IInv, Flights
            <4> QED
                BY <1>4, <1>9, <1>10, <4>1
        <3> QED
            BY <3>1, <3>2
    <2>4. \A q \in Requests : At(q, "waiting")' => req'[q].tab # None /\ refreshing'[req'[q].tab]
        <3> SUFFICES ASSUME NEW q \in Requests, At(q, "waiting")'
                     PROVE  req'[q].tab # None /\ refreshing'[req'[q].tab]
            OBVIOUS
        <3>1. At(q, "waiting") /\ req'[q] = req[q]
            BY <1>4, <1>9, <1>10
        <3>2. req[q].tab # None /\ req[q].tab \in Tabs /\ refreshing[req[q].tab]
            BY <1>2, <3>1 DEF IInv, Flights, TypeOK, Call
        <3> QED
            BY <1>4, <3>1, <3>2
    <2> QED
        BY <2>1, <2>2, <2>3, <2>4 DEF Flights
<1>13. Calls'
    <2>1. session[t].refresh <= Len(owner) /\ session[t].refresh # NoPair
        BY <1>1, <1>2 DEF IInv, Stores, Sound, t
    <2>2. req'[r].refresh = session[t].refresh /\ req'[r].new = req[r].new
        BY <1>3, <1>4
    <2>3. ASSUME NEW q \in Requests
          PROVE  /\ req'[q].refresh <= Len(owner') /\ req'[q].new <= Len(owner')
                 /\ Flying(q)' => req'[q].refresh # NoPair
                 /\ At(q, "renewed")' => req'[q].new # NoPair
                                         /\ owner'[req'[q].new] = owner'[req'[q].refresh]
        <3>1. CASE q = r
            BY <1>5, <1>9, <2>1, <2>2, <3>1 DEF IInv, Calls
        <3>2. CASE q # r
            BY <1>4, <1>5, <1>10, <3>2 DEF IInv, Calls
        <3> QED
            BY <3>1, <3>2
    <2> QED
        BY <2>3 DEF Calls
<1>14. Undelivered'
    <2> SUFFICES ASSUME NEW q \in Requests, At(q, "renewed")'
                 PROVE  /\ persisted'.refresh # req'[q].new /\ ~Spent(req[q].new)'
                        /\ \A u \in Tabs : session'[u].refresh # req'[q].new
                        /\ \A x \in Requests : req'[x].refresh # req'[q].new
                        /\ \A x \in Requests \ {q} : At(x, "renewed")' => req'[x].new # req'[q].new
        BY <1>4, <1>9 DEF Undelivered, Spent
    <2>1. q # r /\ At(q, "renewed") /\ req'[q] = req[q]
        BY <1>4, <1>9
    <2>2. ~Spent(req[q].new)'
        BY <1>5, <1>7, <2>1 DEF IInv, Undelivered, Spent
    <2>3. \A x \in Requests : req'[x].refresh # req'[q].new
        BY <1>2, <1>3, <1>4, <2>1 DEF IInv, Undelivered
    <2>4. \A x \in Requests \ {q} : At(x, "renewed")' => req'[x].new # req'[q].new
        BY <1>4, <1>9, <2>1 DEF IInv, Undelivered
    <2> QED
        BY <1>5, <2>1, <2>2, <2>3, <2>4 DEF IInv, Undelivered
<1>15. Holders'
    <2>1. ASSUME NEW q \in Requests, NEW u \in Tabs, Flying(q)', u # req'[q].tab,
                 session'[u].refresh = req'[q].refresh
          PROVE  req'[q].refresh \in shared' \cup missed'
        <3>1. CASE q = r
            BY <1>1, <1>2, <1>3, <1>4, <1>5, <2>1, <3>1 DEF IInv, Holders, HistoryGrows, t
        <3>2. CASE q # r
            BY <1>4, <1>5, <1>10, <2>1, <3>2 DEF IInv, Holders, HistoryGrows
        <3> QED
            BY <3>1, <3>2
    <2> QED
        BY <1>5, <2>1 DEF IInv, Holders, HistoryGrows
<1>16. Renewals'
    <2>1. \A q \in Requests : Spent(req[q].refresh)' => (q = r \/ Spent(req[q].refresh))
        BY <1>4, <1>5, <1>7 DEF Spent
    <2> QED
        BY <1>4, <1>5, <1>9, <2>1 DEF IInv, Renewals, HistoryGrows
<1>17. SessionCanBeRenewed'
    <2>1. shared' = shared /\ missed' = missed
        BY <1>1 DEF history
    <2> QED
        <3> SUFFICES ASSUME NEW u \in Tabs, session[u].refresh # NoPair,
                            \E n \in Signed : parent[n] = session[u].refresh,
                            session[u].refresh \notin shared \cup missed
                     PROVE  \E q \in Requests : req'[q].tab = u /\ At(q, "renewed")'
                                                /\ req'[q].refresh = session[u].refresh
            BY <1>5, <1>7, <2>1 DEF SessionCanBeRenewed
        <3>1. PICK q \in Requests : req[q].tab = u /\ At(q, "renewed") /\ req[q].refresh = session[u].refresh
            BY DEF IInv, SessionCanBeRenewed
        <3>2. q # r
            BY <1>1, <3>1 DEF At
        <3> QED
            BY <1>4, <1>10, <3>1, <3>2
<1> QED
    BY <1>6, <1>7, <1>8, <1>12, <1>13, <1>14, <1>15, <1>16, <1>17 DEF IInv
-----------------------------------------------------------------------------
(* Signing a pair: a login, and the rotation of a refresh.                 *)

NextPair == Len(owner) + 1

\* The new pair gets the next number; nothing that was said of the others changes.
LEMMA Signing ==
    ASSUME TypeOK, NEW u \in Users, NEW from \in 0 .. Len(owner), Sign(u, from)
    PROVE  /\ owner' \in Seq(Users) /\ parent' \in Seq(0 .. MaxPairs)
           /\ Len(owner) \in Nat /\ NextPair \in 1 .. MaxPairs /\ Len(owner') = NextPair
           /\ Len(parent') = NextPair
           /\ Signed' = Signed \cup {NextPair} /\ Signed \subseteq Signed'
           /\ \A p \in Signed : owner'[p] = owner[p] /\ parent'[p] = parent[p] /\ p # NextPair
           /\ owner'[NextPair] = u /\ parent'[NextPair] = from
           /\ \A s \in Session : Sound(s) => Sound(s)'
<1>1. /\ Len(owner) \in Nat /\ Len(parent) = Len(owner) /\ Len(owner) < MaxPairs
      /\ owner \in Seq(Users) /\ parent \in Seq(0 .. MaxPairs) /\ MaxPairs \in Nat
      /\ owner' = Append(owner, u) /\ parent' = Append(parent, from) /\ from \in 0 .. MaxPairs
    BY SessionAssumption DEF TypeOK, Sign
<1>2. /\ owner' \in Seq(Users) /\ Len(owner') = NextPair /\ owner'[NextPair] = u
      /\ \A p \in 1 .. Len(owner) : owner'[p] = owner[p]
    BY <1>1, AppendProperties DEF NextPair
<1>3. /\ parent' \in Seq(0 .. MaxPairs) /\ Len(parent') = NextPair /\ parent'[NextPair] = from
      /\ \A p \in 1 .. Len(owner) : parent'[p] = parent[p]
    BY <1>1, AppendProperties DEF NextPair
<1>4. /\ Signed' = Signed \cup {NextPair} /\ Signed \subseteq Signed' /\ NextPair \in 1 .. MaxPairs
      /\ \A p \in Signed : p # NextPair
    BY <1>1, <1>2 DEF Signed, NextPair
<1>5. \A s \in Session : Sound(s) => Sound(s)'
    <2> SUFFICES ASSUME NEW s \in Session, Sound(s) PROVE Sound(s)'
        OBVIOUS
    <2>1. /\ s.access \in Nat /\ s.refresh \in Nat /\ s.access <= Len(owner) /\ s.refresh <= Len(owner)
          /\ s.access # NoPair <=> s.refresh # NoPair
          /\ ~s.moved /\ s.access # NoPair => owner[s.access] = s.user /\ owner[s.refresh] = s.user
        BY <1>1 DEF Session, Sound
    <2>2. s.access # NoPair => s.access \in 1 .. Len(owner) /\ s.refresh \in 1 .. Len(owner)
        BY <1>1, <2>1 DEF NoPair
    <2>3. s.access <= Len(owner') /\ s.refresh <= Len(owner')
        BY <1>1, <1>2, <2>1 DEF NextPair
    <2>4. ~s.moved /\ s.access # NoPair => owner'[s.access] = s.user /\ owner'[s.refresh] = s.user
        BY <1>2, <2>1, <2>2
    <2> QED
        BY <2>1, <2>3, <2>4 DEF Sound
<1> QED
    BY <1>1, <1>2, <1>3, <1>4, <1>5 DEF Signed

\* What a signing step does to the parents: only the new pair's is new, and it is in the
\* blacklist if it is a pair.
LEMMA NewChild ==
    ASSUME IInv, NEW u \in Users, NEW from \in 0 .. Len(owner), Sign(u, from),
           rotated \subseteq rotated', from # NoPair => from \in rotated'
    PROVE  /\ Parents' /\ ~Spent(NextPair) /\ \A n \in Signed' : parent'[n] # NextPair
           /\ \A p : (\E n \in Signed' : parent'[n] = p) => Spent(p) \/ p = from
<1>1. /\ Len(owner) \in Nat /\ Len(owner') = NextPair /\ Signed' = Signed \cup {NextPair}
      /\ \A p \in Signed : parent'[p] = parent[p]
      /\ parent'[NextPair] = from
    BY Signing DEF IInv
<1>2. \A n \in Signed : parent[n] \in Nat /\ parent[n] <= Len(owner)
                        /\ (parent[n] # NoPair => parent[n] \in rotated)
    BY SessionAssumption DEF IInv, TypeOK, Parents, Signed
<1>3. Parents'
    BY <1>1, <1>2 DEF Parents, NextPair
<1>4. \A n \in Signed : parent[n] # NextPair
    BY <1>1, <1>2 DEF NextPair
<1>5. from # NextPair
    BY <1>1 DEF NextPair
<1> QED
    BY <1>1, <1>3, <1>4, <1>5 DEF Spent

\* Everything a store or a refresh names was signed, so nobody holds the next pair.
LEMMA NextIsNew ==
    ASSUME IInv
    PROVE  /\ persisted.refresh # NextPair /\ \A t \in Tabs : session[t].refresh # NextPair
           /\ \A r \in Requests : req[r].refresh # NextPair /\ req[r].new # NextPair
<1>1. Len(owner) \in Nat
    BY DEF IInv, TypeOK
<1>2. persisted \in Session /\ \A t \in Tabs : session[t] \in Session
    BY DEF IInv, TypeOK
<1>3. persisted.refresh # NextPair
    BY <1>1, <1>2, SessionAssumption DEF IInv, Stores, Sound, Session, NextPair
<1>4. ASSUME NEW t \in Tabs PROVE session[t].refresh # NextPair
    BY <1>1, <1>2, SessionAssumption DEF IInv, Stores, Sound, Session, NextPair
<1>5. ASSUME NEW r \in Requests PROVE req[r].refresh # NextPair /\ req[r].new # NextPair
    <2>1. req[r].refresh \in Nat /\ req[r].new \in Nat
        BY CarriedPair
    <2> QED
        BY <1>1, <2>1 DEF IInv, Calls, NextPair
<1> QED
    BY <1>3, <1>4, <1>5

LEMMA LoginStep ==
    ASSUME IInv, NEW t \in Tabs, NEW u \in Users, Login(t, u)
    PROVE  IInv'
<1> DEFINE new == [access |-> NextPair, refresh |-> NextPair, user |-> u, moved |-> refreshing[t]]
<1>1. /\ session[t].access = NoPair /\ Sign(u, NoPair)
      /\ session' = [session EXCEPT ![t] = new] /\ persisted' = new
      /\ UNCHANGED <<stores, stale, revoked, rotated, ending, inactive, refreshing, req, history>>
    BY DEF Login, SetStore, NextPair
<1>2. TypeOK /\ Len(owner) \in Nat
    BY DEF IInv, TypeOK
<1>3. NoPair \in 0 .. Len(owner)
    BY <1>2 DEF NoPair
<1>4. /\ owner' \in Seq(Users) /\ parent' \in Seq(0 .. MaxPairs)
      /\ NextPair \in 1 .. MaxPairs /\ Len(owner') = NextPair /\ Len(parent') = NextPair
      /\ Signed' = Signed \cup {NextPair} /\ Signed \subseteq Signed'
      /\ \A p \in Signed : owner'[p] = owner[p] /\ parent'[p] = parent[p] /\ p # NextPair
      /\ owner'[NextPair] = u /\ parent'[NextPair] = NoPair
      /\ \A s \in Session : Sound(s) => Sound(s)'
    BY <1>1, <1>2, <1>3, Signing
<1>5. /\ Parents' /\ ~Spent(NextPair) /\ \A n \in Signed' : parent'[n] # NextPair
      /\ \A p : (\E n \in Signed' : parent'[n] = p) => Spent(p) \/ p = NoPair
    BY <1>1, <1>3, NewChild
<1>6. /\ persisted.refresh # NextPair /\ \A v \in Tabs : session[v].refresh # NextPair
      /\ \A r \in Requests : req[r].refresh # NextPair /\ req[r].new # NextPair
    BY NextIsNew
<1>7. /\ new \in Session /\ new.refresh = NextPair /\ new.access = NextPair /\ new.user = u
      /\ new.moved = refreshing[t] /\ NextPair # NoPair
    BY <1>2, <1>4 DEF Session, NoPair, TypeOK
<1> HIDE DEF new
<1>8. /\ session' \in [Tabs -> Session] /\ session'[t] = new
      /\ \A v \in Tabs \ {t} : session'[v] = session[v]
    BY <1>1, <1>2, <1>7 DEF TypeOK
<1>9. TypeOK'
    BY <1>1, <1>2, <1>4, <1>7, <1>8 DEF TypeOK, history
<1>10. Stores'
    <2>1. \A s : s = new => Sound(s)'
        BY <1>4, <1>7 DEF Sound
    <2>2. ASSUME NEW v \in Tabs PROVE Sound(session[v])'
        <3>1. CASE v = t
            BY <1>8, <2>1, <3>1 DEF Sound
        <3>2. CASE v # t
            BY <1>2, <1>4, <1>8, <3>2 DEF IInv, Stores, Sound, TypeOK
        <3> QED
            BY <3>1, <3>2
    <2> QED
        BY <1>1, <2>1, <2>2 DEF Stores, Sound
<1>11. /\ req' = req /\ refreshing' = refreshing /\ rotated' = rotated
       /\ shared' = shared /\ missed' = missed /\ overlapped' = overlapped
    BY <1>1 DEF history
<1>12. Calls'
    <2>1. ASSUME NEW r \in Requests
          PROVE  /\ req[r].refresh <= Len(owner') /\ req[r].new <= Len(owner')
                 /\ Flying(r) => req[r].refresh # NoPair
                 /\ At(r, "renewed") => req[r].new # NoPair
                                        /\ owner'[req[r].new] = owner'[req[r].refresh]
        <3>1. /\ req[r].refresh \in Nat /\ req[r].new \in Nat
              /\ At(r, "renewed") => req[r].new \in Signed /\ req[r].refresh \in Signed
            BY CarriedPair
        <3>2. req[r].refresh <= Len(owner') /\ req[r].new <= Len(owner')
            BY <1>2, <1>4, <3>1 DEF IInv, Calls, NextPair
        <3> QED
            BY <1>4, <3>1, <3>2 DEF IInv, Calls
    <2> QED
        BY <1>11, <2>1 DEF Calls, Flying, At
<1>13. Flights'
    BY <1>7, <1>8, <1>11, FlightsGoOn DEF Flying, At
<1>14. Undelivered'
    <2>1. ASSUME NEW r \in Requests, At(r, "renewed")
          PROVE  /\ persisted'.refresh # req[r].new /\ ~(\E n \in Signed' : parent'[n] = req[r].new)
                 /\ \A v \in Tabs : session'[v].refresh # req[r].new
                 /\ \A q \in Requests : req[q].refresh # req[r].new
                 /\ \A q \in Requests \ {r} : At(q, "renewed") => req[q].new # req[r].new
        <3>1. req[r].new # NoPair /\ req[r].new # NextPair
            BY <1>6, <2>1 DEF IInv, Calls
        <3>2. ~Spent(req[r].new)
            BY <2>1 DEF IInv, Undelivered
        <3> QED
            BY <1>1, <1>5, <1>7, <1>8, <2>1, <3>1, <3>2 DEF IInv, Undelivered
    <2> QED
        BY <1>11, <2>1 DEF Undelivered, Spent, At
<1>15. Holders'
    <2>1. ASSUME NEW v \in Tabs, NEW w \in Tabs, v # w, session'[v].refresh = session'[w].refresh,
                 session'[v].refresh # NoPair
          PROVE  session'[v].refresh \in shared
        BY <1>6, <1>7, <1>8, <2>1 DEF IInv, Holders
    <2>2. ASSUME NEW r \in Requests, NEW v \in Tabs, Flying(r), v # req[r].tab,
                 session'[v].refresh = req[r].refresh
          PROVE  req[r].refresh \in shared \cup missed
        BY <1>6, <1>7, <1>8, <2>2 DEF IInv, Holders
    <2> QED
        BY <1>11, <2>1, <2>2 DEF Holders, Flying
<1>16. Renewals'
    <2>1. \A r \in Requests : At(r, "renewable") => Flying(r) /\ req[r].refresh # NoPair
        BY DEF At, Flying, Refreshes, IInv, Calls
    <2>2. ASSUME NEW r \in Requests, At(r, "renewable"), \E n \in Signed' : parent'[n] = req[r].refresh
          PROVE  req[r].refresh \in overlapped
        BY <1>5, <2>1, <2>2 DEF IInv, Renewals
    <2> QED
        BY <1>11, <2>2 DEF IInv, Renewals, Spent, At
<1>17. OneChild'
    BY <1>4, <1>11 DEF IInv, OneChild
<1>18. SessionCanBeRenewed'
    <2> SUFFICES ASSUME NEW v \in Tabs, session'[v].refresh # NoPair,
                        \E n \in Signed' : parent'[n] = session'[v].refresh,
                        session'[v].refresh \notin shared \cup missed
                 PROVE  \E r \in Requests : req[r].tab = v /\ At(r, "renewed")
                                            /\ req[r].refresh = session'[v].refresh
        BY <1>11 DEF SessionCanBeRenewed, At
    <2>1. v # t /\ session'[v] = session[v]
        BY <1>5, <1>7, <1>8
    <2>2. Spent(session[v].refresh)
        BY <1>5, <2>1
    <2> QED
        BY <2>1, <2>2 DEF IInv, SessionCanBeRenewed, Spent
<1> QED
    BY <1>5, <1>9, <1>10, <1>12, <1>13, <1>14, <1>15, <1>16, <1>17, <1>18 DEF IInv
\* A refresh buys the next pair; its token had bought nothing unless it overlapped.
LEMMA RotateStep ==
    ASSUME IInv, NEW r \in Requests, Rotate(r)
    PROVE  IInv'
<1> DEFINE p == req[r].refresh
<1>1. /\ At(r, "renewable") /\ Flying(r) /\ ~At(r, "renewed")
      /\ UNCHANGED <<stores, stale, revoked, ending, inactive, client, history>>
    BY DEF Rotate, At, Flying, Refreshes
<1>2. /\ TypeOK /\ Len(owner) \in Nat /\ p \in Signed /\ p # NoPair /\ p \in 0 .. Len(owner)
      /\ owner[p] \in Users
    <2>1. p \in Signed /\ p # NoPair /\ Len(owner) \in Nat /\ owner \in Seq(Users)
        BY <1>1, CarriedPair DEF IInv, TypeOK
    <2> QED
        BY <2>1 DEF Signed, IInv
<1>3. CASE Goes(r, "refused") /\ UNCHANGED <<owner, parent, rotated>>
    <2>1. missed' \cup overlapped' \subseteq Signed
        BY <1>1, <1>2 DEF TypeOK, history
    <2> QED
        BY <1>1, <1>3, <2>1, RefusalStep DEF tokens, history
<1>4. CASE /\ Sign(owner[p], p) /\ rotated' = rotated \cup {p}
           /\ req' = [req EXCEPT ![r].stage = "renewed", ![r].new = Len(owner) + 1]
    <2> DEFINE call == [req[r] EXCEPT !.stage = "renewed", !.new = NextPair]
    <2>1. /\ owner' \in Seq(Users) /\ parent' \in Seq(0 .. MaxPairs)
          /\ NextPair \in 1 .. MaxPairs /\ Len(owner') = NextPair /\ Len(parent') = NextPair
          /\ Signed' = Signed \cup {NextPair} /\ Signed \subseteq Signed'
          /\ \A n \in Signed : owner'[n] = owner[n] /\ parent'[n] = parent[n] /\ n # NextPair
          /\ owner'[NextPair] = owner[p] /\ parent'[NextPair] = p
          /\ \A s \in Session : Sound(s) => Sound(s)'
        BY <1>2, <1>4, Signing
    <2>2. /\ Parents' /\ ~Spent(NextPair) /\ \A n \in Signed' : parent'[n] # NextPair
          /\ \A n : (\E m \in Signed' : parent'[m] = n) => Spent(n) \/ n = p
        BY <1>2, <1>4, NewChild
    <2>3. /\ persisted.refresh # NextPair /\ \A t \in Tabs : session[t].refresh # NextPair
          /\ \A q \in Requests : req[q].refresh # NextPair /\ req[q].new # NextPair
        BY NextIsNew
    <2>4. NextPair # NoPair
        BY <2>1 DEF NoPair
    <2>5. req' = [req EXCEPT ![r] = call] /\ req[r] \in Call
        BY <1>2, <1>4 DEF NextPair, TypeOK
    <2>6. /\ call \in Call /\ call.stage = "renewed" /\ call.tab = req[r].tab
          /\ call.refresh = p /\ call.new = NextPair
        <3>1. NextPair \in 0 .. MaxPairs
            BY <2>1
        <3> HIDE DEF NextPair
        <3> QED
            BY <2>5, <3>1 DEF Call, Stage, Refreshes
    <2> HIDE DEF call
    <2>7. /\ req' \in [Requests -> Call] /\ req'[r] = call
          /\ \A q \in Requests \ {r} : req'[q] = req[q]
        BY <1>2, <2>5, <2>6 DEF TypeOK
    <2>8. /\ session' = session /\ persisted' = persisted /\ refreshing' = refreshing
          /\ shared' = shared /\ missed' = missed /\ overlapped' = overlapped
        BY <1>1 DEF client, history
    <2>9. TypeOK'
        BY <1>1, <1>2, <1>4, <2>1, <2>7, <2>8 DEF TypeOK
    <2>10. /\ \A q \in Requests :
                /\ (Flying(q)' <=> Flying(q)) /\ (At(q, "waiting")' <=> At(q, "waiting"))
                /\ req'[q].tab = req[q].tab /\ req'[q].refresh = req[q].refresh
           /\ \A q \in Requests : At(q, "renewed")' <=> q = r \/ At(q, "renewed")
           /\ \A q \in Requests : At(q, "renewable")' => q # r /\ At(q, "renewable")
        <3>1. /\ Flying(r)' /\ ~At(r, "waiting")' /\ ~At(r, "waiting") /\ ~At(r, "renewable")'
              /\ At(r, "renewed")' /\ req'[r].tab = req[r].tab /\ req'[r].refresh = req[r].refresh
            BY <1>1, <2>6, <2>7 DEF Flying, At, Refreshes
        <3>2. \A q \in Requests \ {r} : /\ Flying(q)' <=> Flying(q)
                                        /\ At(q, "waiting")' <=> At(q, "waiting")
                                        /\ At(q, "renewed")' <=> At(q, "renewed")
                                        /\ At(q, "renewable")' <=> At(q, "renewable")
            BY <2>7 DEF Flying, At
        <3> QED
            BY <1>1, <2>7, <3>1, <3>2
    <2>11. Stores'
        BY <1>2, <2>1, <2>8 DEF IInv, Stores, Sound, TypeOK
    <2>12. Calls'
        <3>1. ASSUME NEW q \in Requests
              PROVE  /\ req'[q].refresh <= Len(owner') /\ req'[q].new <= Len(owner')
                     /\ Flying(q)' => req'[q].refresh # NoPair
                     /\ At(q, "renewed")' => req'[q].new # NoPair
                                             /\ owner'[req'[q].new] = owner'[req'[q].refresh]
            <4>1. /\ req[q].refresh \in Nat /\ req[q].new \in Nat
                  /\ At(q, "renewed") => req[q].new \in Signed /\ req[q].refresh \in Signed
                  /\ req[q].refresh <= Len(owner) /\ req[q].new <= Len(owner)
                BY CarriedPair DEF IInv, Calls
            <4>2. req[q].refresh <= Len(owner') /\ req[q].new <= Len(owner')
                BY <1>2, <2>1, <4>1 DEF NextPair
            <4>3. CASE q = r
                <5>1. req'[q].refresh = p /\ req'[q].new = NextPair
                    BY <2>6, <2>7, <4>3
                <5>2. NextPair <= Len(owner')
                    BY <1>2, <2>1 DEF NextPair
                <5> QED
                    BY <1>2, <2>1, <2>4, <4>2, <4>3, <5>1, <5>2
            <4>4. CASE q # r
                BY <2>1, <2>7, <2>10, <4>1, <4>2, <4>4 DEF IInv, Calls
            <4> QED
                BY <4>3, <4>4
        <3> QED
            BY <3>1 DEF Calls
    <2>13. Flights'
        BY <2>8, <2>10, FlightsGoOn
    <2>14. Undelivered'
        <3> SUFFICES ASSUME NEW q \in Requests, At(q, "renewed")'
                     PROVE  /\ persisted'.refresh # req'[q].new /\ ~Spent(req[q].new)'
                            /\ \A t \in Tabs : session'[t].refresh # req'[q].new
                            /\ \A x \in Requests : req'[x].refresh # req'[q].new
                            /\ \A x \in Requests \ {q} : At(x, "renewed")' => req'[x].new # req'[q].new
            BY DEF Undelivered
        <3>1. CASE q = r
            <4>1. req'[q].new = NextPair
                BY <2>6, <2>7, <3>1
            <4>2. ~Spent(req[q].new)'
                BY <2>2, <4>1 DEF Spent
            <4>3. \A x \in Requests : req'[x].refresh # NextPair
                BY <2>3, <2>10
            <4>4. \A x \in Requests \ {q} : req'[x].new # NextPair
                BY <2>3, <2>7, <3>1
            <4> QED
                BY <2>3, <2>8, <4>1, <4>2, <4>3, <4>4
        <3>2. CASE q # r
            <4>1. At(q, "renewed") /\ req'[q] = req[q] /\ req[q].new # p /\ ~Spent(req[q].new)
                BY <2>7, <2>10, <3>2 DEF IInv, Undelivered
            <4>2. ~Spent(req[q].new)'
                BY <2>2, <4>1 DEF Spent
            <4>3. \A x \in Requests : req'[x].refresh # req[q].new
                BY <2>10, <4>1 DEF IInv, Undelivered
            <4>4. \A x \in Requests \ {q} : At(x, "renewed")' => req'[x].new # req[q].new
                <5> SUFFICES ASSUME NEW x \in Requests \ {q}, At(x, "renewed")'
                             PROVE  req'[x].new # req[q].new
                    OBVIOUS
                <5>1. CASE x = r
                    BY <2>3, <2>6, <2>7, <5>1
                <5>2. CASE x # r
                    BY <2>7, <2>10, <4>1, <5>2 DEF IInv, Undelivered
                <5> QED
                    BY <5>1, <5>2
            <4> QED
                BY <2>8, <4>1, <4>2, <4>3, <4>4 DEF IInv, Undelivered
        <3> QED
            BY <3>1, <3>2
    <2>15. Holders'
        BY <2>8, <2>10 DEF IInv, Holders
    <2>16. Renewals'
        <3>1. \A x, q \in Requests : x # q /\ At(x, "renewable")' /\ At(q, "renewable")'
                  /\ req'[x].refresh = req'[q].refresh => req'[x].refresh \in overlapped
            BY <2>10 DEF IInv, Renewals
        <3>2. ASSUME NEW q \in Requests, At(q, "renewable")', \E n \in Signed' : parent'[n] = req[q].refresh
              PROVE  req[q].refresh \in overlapped
            <4>1. q # r /\ At(q, "renewable")
                BY <2>10, <3>2
            <4>2. CASE Spent(req[q].refresh)
                BY <4>1, <4>2 DEF IInv, Renewals
            <4>3. CASE req[q].refresh = p
                BY <1>1, <4>1, <4>3 DEF IInv, Renewals
            <4> QED
                BY <2>2, <3>2, <4>2, <4>3
        <3>3. \A q \in Requests : Spent(req[q].refresh)' => \E n \in Signed' : parent'[n] = req[q].refresh
            BY <2>10 DEF Spent
        <3> QED
            BY <2>8, <2>10, <3>1, <3>2, <3>3 DEF Renewals
    <2>17. OneChild'
        <3>1. Spent(p) => p \in overlapped
            BY <1>1 DEF IInv, Renewals
        <3> SUFFICES ASSUME NEW m \in Signed', NEW n \in Signed',
                            parent'[m] = parent'[n], parent'[m] # NoPair, m # n
                     PROVE  parent'[m] \in overlapped
            BY <2>8 DEF OneChild
        <3>2. CASE m \in Signed /\ n \in Signed
            BY <2>1, <3>2 DEF IInv, OneChild
        <3>3. CASE m = NextPair \/ n = NextPair
            <4>1. parent'[m] = p /\ Spent(p)
                BY <2>1, <3>3 DEF Spent
            <4> QED
                BY <3>1, <4>1
        <3> QED
            BY <2>1, <3>2, <3>3
    <2>18. SessionCanBeRenewed'
        <3> SUFFICES ASSUME NEW t \in Tabs, session[t].refresh # NoPair,
                            \E n \in Signed' : parent'[n] = session[t].refresh,
                            session[t].refresh \notin shared \cup missed
                     PROVE  \E q \in Requests : req'[q].tab = t /\ At(q, "renewed")'
                                                /\ req'[q].refresh = session[t].refresh
            BY <2>8 DEF SessionCanBeRenewed
        <3>1. CASE Spent(session[t].refresh)
            <4>1. PICK q \in Requests : req[q].tab = t /\ At(q, "renewed")
                                        /\ req[q].refresh = session[t].refresh
                BY <3>1 DEF IInv, SessionCanBeRenewed, Spent
            <4> QED
                BY <2>10, <4>1
        <3>2. CASE session[t].refresh = p
            <4>1. req[r].tab = t
                BY <1>1, <3>2 DEF IInv, Holders
            <4> QED
                BY <2>10, <3>2, <4>1
        <3> QED
            BY <2>2, <3>1, <3>2
    <2> QED
        BY <2>2, <2>9, <2>11, <2>12, <2>13, <2>14, <2>15, <2>16, <2>17, <2>18 DEF IInv
<1> QED
    BY <1>3, <1>4 DEF Rotate
\* The answer of the refresh goes into the store and to the calls that waited.
LEMMA RenewedStep ==
    ASSUME IInv, NEW r \in Requests, Renewed(r)
    PROVE  IInv'
<1> DEFINE t == req[r].tab
           n == req[r].new
           new == [session[t] EXCEPT !.access = n, !.refresh = n]
<1>1. /\ At(r, "renewed") /\ Flying(r) /\ UNCHANGED <<stores, tokens, history>> /\ TypeOK
    BY DEF Renewed, At, Flying, Refreshes, IInv
<1>2. CASE t = None
    <2>1. req' = [req EXCEPT ![r] = Settled] /\ UNCHANGED client
        BY <1>2 DEF Renewed
    <2> QED
        BY <1>1, <1>2, <2>1, OrphanStep
<1>3. CASE t # None
    <2>1. /\ session' = [session EXCEPT ![t] = new] /\ persisted' = new
          /\ refreshing' = [refreshing EXCEPT ![t] = FALSE]
          /\ req' = [q \in Requests |->
                        CASE q = r -> [Resent(r, n) EXCEPT !.refresh = NoPair]
                          [] q \in Waiting(t) -> Resent(q, n)
                          [] OTHER -> req[q]]
        BY <1>3 DEF Renewed, SetStore, RenewedSession
    <2>2. /\ t \in Tabs /\ req[r] \in Call /\ session[t] \in Session /\ n \in 0 .. MaxPairs
          /\ n # NoPair /\ n \in Signed /\ n <= Len(owner) /\ owner[n] = owner[req[r].refresh]
          /\ req[r].refresh # NoPair
        BY <1>1, <1>3, CarriedPair DEF TypeOK, Call, IInv, Calls
    <2>3. /\ persisted.refresh # n /\ ~Spent(n)
          /\ \A u \in Tabs : session[u].refresh # n
          /\ \A q \in Requests : req[q].refresh # n
          /\ \A q \in Requests \ {r} : At(q, "renewed") => req[q].new # n
        BY <1>1 DEF IInv, Undelivered
    <2>4. \A q \in Requests : Flying(q) /\ req[q].tab = t => q = r
        BY <1>1, <1>3 DEF IInv, Flights
    <2>5. r \notin Waiting(t)
        BY <1>1 DEF Waiting, At
    <2>6. /\ req'[r] = [Resent(r, n) EXCEPT !.refresh = NoPair]
          /\ \A q \in Waiting(t) : req'[q] = Resent(q, n)
          /\ \A q \in Requests \ Waiting(t) : q # r => req'[q] = req[q]
        BY <2>1, <2>5 DEF Waiting
    <2>7. /\ req'[r] \in Call /\ req'[r].stage = "sent"
          /\ req'[r].refresh = NoPair /\ req'[r].new = NoPair
        <3> DEFINE again == Resent(r, n)
        <3>1. NoPair \in 0 .. MaxPairs
            BY SessionAssumption DEF NoPair
        <3> HIDE DEF n, t
        <3>2. again \in Call /\ again.stage = "sent" /\ again.new = NoPair
            BY <2>2, <3>1 DEF Resent, Call, Stage
        <3>3. req'[r] = [again EXCEPT !.refresh = NoPair]
            BY <2>6
        <3> HIDE DEF again
        <3> QED
            BY <3>1, <3>2, <3>3 DEF Call
    <2>8. \A q \in Waiting(t) : /\ req'[q] \in Call /\ req'[q].stage = "sent"
                                /\ req'[q].refresh = req[q].refresh /\ req'[q].new = NoPair
        <3> SUFFICES ASSUME NEW q \in Waiting(t)
                     PROVE  /\ req'[q] \in Call /\ req'[q].stage = "sent"
                            /\ req'[q].refresh = req[q].refresh /\ req'[q].new = NoPair
            OBVIOUS
        <3>1. req[q] \in Call
            BY <1>1 DEF TypeOK, Waiting
        <3>2. NoPair \in 0 .. MaxPairs
            BY SessionAssumption DEF NoPair
        <3>3. req'[q] = [req[q] EXCEPT !.stage = "sent", !.access = n, !.new = NoPair]
            BY <2>6 DEF Resent
        <3> HIDE DEF n, t
        <3> QED
            BY <2>2, <3>1, <3>2, <3>3 DEF Call, Stage
    <2> HIDE DEF n, t
    <2>9. req' \in [Requests -> Call]
        <3>1. \A q \in Requests : req'[q] \in Call
            BY <1>1, <2>6, <2>7, <2>8 DEF TypeOK
        <3>2. req' = [q \in Requests |-> req'[q]]
            BY <2>1
        <3> QED
            BY <3>1, <3>2
    <2>10. /\ ~Flying(r)' /\ ~At(r, "waiting")'
           /\ \A q \in Waiting(t) : ~Flying(q)' /\ ~At(q, "waiting")' /\ ~Flying(q)
        BY <2>7, <2>8 DEF Flying, At, Refreshes, Waiting
    <2>11. \A q \in Requests : Flying(q)' \/ At(q, "waiting")' => q # r /\ req'[q] = req[q]
        BY <2>6, <2>10
    <2>12. \A q \in Requests : Flying(q)' => Flying(q) /\ q # r /\ req'[q] = req[q] /\ req[q].tab # t
        BY <2>4, <2>11 DEF Flying
    <2>13. \A q \in Requests : Calmer(q)
        <3> SUFFICES ASSUME NEW q \in Requests PROVE Calmer(q)
            OBVIOUS
        <3>1. CASE q = r
            BY <2>7, <2>10, <3>1 DEF Calmer
        <3>2. CASE q \in Waiting(t)
            BY <2>8, <2>10, <3>2 DEF Calmer
        <3>3. CASE q # r /\ q \notin Waiting(t)
            BY <2>6, <3>3 DEF Calmer, Flying
        <3> QED
            BY <3>1, <3>2, <3>3
    <2>14. /\ new \in Session /\ new.access = n /\ new.refresh = n
           /\ new.user = session[t].user /\ new.moved = session[t].moved
        BY <2>2 DEF Session
    <2>15. ~session[t].moved => owner[n] = session[t].user
        <3> SUFFICES ASSUME ~session[t].moved PROVE owner[n] = session[t].user
            OBVIOUS
        <3>1. session[t].refresh = req[r].refresh
            BY <1>1, <1>3 DEF IInv, Flights, t
        <3> QED
            BY <2>2, <3>1 DEF IInv, Stores, Sound
    <2> HIDE DEF new
    <2>16. /\ session' \in [Tabs -> Session] /\ session'[t] = new
           /\ \A u \in Tabs \ {t} : session'[u] = session[u]
           /\ refreshing' \in [Tabs -> BOOLEAN]
        BY <1>1, <2>1, <2>2, <2>14 DEF TypeOK
    <2>17. /\ owner' = owner /\ parent' = parent /\ HistoryGrows
           /\ shared' = shared /\ missed' = missed
        BY <1>1 DEF tokens, history, HistoryGrows
    <2>18. TypeOK'
        BY <1>1, <2>1, <2>9, <2>14, <2>16 DEF TypeOK, tokens, history, Signed
    <2>19. /\ Parents' /\ OneChild' /\ Signed' = Signed
           /\ \A s \in Session : Sound(s) => Sound(s)'
        BY <2>17, PairsStay
    <2>20. Calls' /\ Renewals'
        BY <2>13, <2>17, CalmCalls
    <2>21. Stores'
        <3>1. \A s : s = new => Sound(s)'
            BY <2>2, <2>14, <2>15, <2>17 DEF Sound
        <3>2. ASSUME NEW u \in Tabs PROVE Sound(session[u])'
            <4>1. CASE u = t
                BY <2>16, <3>1, <4>1 DEF Sound
            <4>2. CASE u # t
                BY <1>1, <2>16, <2>19, <4>2 DEF IInv, Stores, Sound, TypeOK
            <4> QED
                BY <4>1, <4>2
        <3> QED
            BY <2>1, <3>1, <3>2 DEF Stores, Sound
    <2>22. Flights'
        <3>1. \A q \in Requests : req[q].tab # t => req'[q] = req[q]
            BY <2>6 DEF t, Waiting
        <3>2. \A q \in Requests : req[q].tab = t => ~Flying(q)'
            BY <2>12
        <3>3. \A q \in Requests : req[q].tab = t => ~At(q, "waiting")'
            BY <2>10, <2>11 DEF Waiting, At
        <3>4. t # None
            BY <1>3 DEF t
        <3> QED
            BY <1>1, <2>1, <2>2, <2>16, <3>1, <3>2, <3>3, <3>4, RestOfFlights
    <2>23. Undelivered'
        <3> SUFFICES ASSUME NEW q \in Requests, At(q, "renewed")'
                     PROVE  /\ persisted'.refresh # req'[q].new /\ ~Spent(req[q].new)'
                            /\ \A u \in Tabs : session'[u].refresh # req'[q].new
                            /\ \A x \in Requests : req'[x].refresh # req'[q].new
                            /\ \A x \in Requests \ {q} : At(x, "renewed")' => req'[x].new # req'[q].new
            BY DEF Undelivered
        <3>1. \A x \in Requests : At(x, "renewed")' => Flying(x)'
            BY DEF At, Flying, Refreshes
        <3>2. \A x \in Requests : At(x, "renewed")' => x # r /\ req'[x] = req[x] /\ At(x, "renewed")
            BY <2>12, <3>1 DEF At
        <3>3. /\ q # r /\ req'[q] = req[q] /\ At(q, "renewed") /\ req[q].new # n
              /\ req[q].new # NoPair
            BY <2>3, <3>2 DEF IInv, Calls
        <3>4. /\ ~Spent(req[q].new) /\ \A u \in Tabs : session[u].refresh # req[q].new
              /\ \A x \in Requests : req[x].refresh # req[q].new
              /\ \A x \in Requests \ {q} : At(x, "renewed") => req[x].new # req[q].new
            BY <3>3 DEF IInv, Undelivered
        <3>5. ~Spent(req[q].new)'
            BY <2>17, <2>19, <3>3, <3>4 DEF Spent
        <3>6. \A x \in Requests : req'[x].refresh # req'[q].new
            BY <2>13, <3>3, <3>4 DEF Calmer
        <3>7. \A x \in Requests \ {q} : At(x, "renewed")' => req'[x].new # req'[q].new
            BY <3>2, <3>3, <3>4
        <3> QED
            BY <2>1, <2>14, <2>16, <3>3, <3>4, <3>5, <3>6, <3>7
    <2>24. Holders'
        <3>1. ASSUME NEW u \in Tabs, NEW v \in Tabs, u # v, session'[u].refresh = session'[v].refresh,
                     session'[u].refresh # NoPair
              PROVE  session'[u].refresh \in shared
            BY <2>3, <2>14, <2>16, <3>1 DEF IInv, Holders
        <3>2. ASSUME NEW q \in Requests, NEW u \in Tabs, Flying(q)', u # req'[q].tab,
                     session'[u].refresh = req'[q].refresh
              PROVE  req'[q].refresh \in shared \cup missed
            BY <2>3, <2>12, <2>14, <2>16, <3>2 DEF IInv, Holders
        <3> QED
            BY <2>17, <3>1, <3>2 DEF Holders
    <2>25. SessionCanBeRenewed'
        <3> SUFFICES ASSUME NEW u \in Tabs, session'[u].refresh # NoPair,
                            \E m \in Signed : parent[m] = session'[u].refresh,
                            session'[u].refresh \notin shared \cup missed
                     PROVE  \E q \in Requests : req'[q].tab = u /\ At(q, "renewed")'
                                                /\ req'[q].refresh = session'[u].refresh
            BY <2>17, <2>19 DEF SessionCanBeRenewed
        <3>1. u # t /\ session'[u] = session[u]
            BY <2>3, <2>14, <2>16 DEF Spent
        <3>2. PICK q \in Requests : req[q].tab = u /\ At(q, "renewed") /\ req[q].refresh = session[u].refresh
            BY <3>1 DEF IInv, SessionCanBeRenewed
        <3>3. req'[q] = req[q]
            BY <2>6, <3>1, <3>2 DEF t, Waiting
        <3> QED
            BY <3>1, <3>2, <3>3 DEF At
    <2> QED
        BY <2>18, <2>19, <2>20, <2>21, <2>22, <2>23, <2>24, <2>25 DEF IInv
<1> QED
    BY <1>2, <1>3

-----------------------------------------------------------------------------
(* The theorems.                                                           *)

LEMMA InitIInv == Init => IInv
<1> SUFFICES ASSUME Init PROVE IInv
    OBVIOUS
<1>1. /\ owner = <<>> /\ parent = <<>> /\ Len(owner) = 0 /\ Len(parent) = 0 /\ Signed = {}
      /\ owner \in Seq(Users) /\ parent \in Seq(0 .. MaxPairs)
    BY EmptySeq DEF Init, Signed
<1>2. LoggedOut(FALSE) \in Session /\ LoggedOut(FALSE).refresh = NoPair /\ Sound(LoggedOut(FALSE))
    BY LoggedOutStore
<1>3. /\ \A t \in Tabs : session[t] = LoggedOut(FALSE) /\ ~refreshing[t]
      /\ \A r \in Requests : req[r] = Settled
      /\ persisted = LoggedOut(FALSE)
    BY DEF Init
<1>4. TypeOK
    <2>1. session \in [Tabs -> Session] /\ persisted \in Session
        BY <1>2 DEF Init
    <2>2. refreshing \in [Tabs -> BOOLEAN] /\ req \in [Requests -> Call]
        BY SettledCall DEF Init
    <2>3. \A pairs \in {stale, revoked, rotated, ending, shared, missed, overlapped} : pairs \subseteq Signed
        BY DEF Init
    <2>4. stores \in StoreModes /\ inactive \subseteq Users /\ Len(owner) <= MaxPairs /\ Len(parent) = Len(owner)
        BY <1>1, SessionAssumption DEF Init
    <2> QED
        BY <1>1, <2>1, <2>2, <2>3, <2>4 DEF TypeOK
<1>5. \A r \in Requests : ~Flying(r) /\ ~At(r, "waiting") /\ ~At(r, "renewed") /\ ~At(r, "renewable")
    BY <1>3, SettledCall DEF Flying, At, Refreshes
<1>6. Stores
    BY <1>2, <1>3 DEF Stores
<1>7. Calls
    BY <1>1, <1>3, <1>5, SettledCall DEF Calls, NoPair
<1>8. Flights /\ Parents /\ Undelivered /\ Renewals /\ OneChild
    BY <1>1, <1>3, <1>5 DEF Flights, Parents, Undelivered, Renewals, OneChild
<1>9. Holders /\ SessionCanBeRenewed
    BY <1>1, <1>2, <1>3, <1>5 DEF Holders, SessionCanBeRenewed
<1> QED
    BY <1>4, <1>6, <1>7, <1>8, <1>9 DEF IInv

LEMMA StutterIInv == IInv /\ UNCHANGED vars => IInv'
<1> SUFFICES ASSUME IInv, UNCHANGED vars PROVE IInv'
    OBVIOUS
<1>1. /\ owner' = owner /\ parent' = parent /\ UNCHANGED client /\ req' = req /\ HistoryGrows
      /\ UNCHANGED <<stores, tokens, history>>
    BY DEF vars, tokens, history, HistoryGrows
<1>2. TypeOK'
    BY <1>1 DEF IInv, TypeOK, tokens, client, history, Signed
<1> QED
    BY <1>1, <1>2, CallStep

LEMMA StepIInv == IInv /\ [Next]_vars => IInv'
<1> SUFFICES ASSUME IInv, [Next]_vars PROVE IInv'
    OBVIOUS
<1>1. ASSUME NEW t \in Tabs, NEW u \in Users, Login(t, u) PROVE IInv'
    BY <1>1, LoginStep
<1>2. ASSUME NEW t \in Tabs, MenuLogout(t) PROVE IInv'
    BY <1>2, MenuLogoutStep
<1>3. ASSUME NEW t \in Tabs, Reload(t) PROVE IInv'
    BY <1>3, ReloadStep
<1>4. ASSUME NEW t \in Tabs, NEW r \in Requests, Issue(r, t) PROVE IInv'
    BY <1>4, IssueStep
<1>5. ASSUME NEW r \in Requests, Authenticate(r) PROVE IInv'
    BY <1>5, AuthenticateStep
<1>6. ASSUME NEW r \in Requests, GiveUp(r) PROVE IInv'
    BY <1>6, GiveUpStep
<1>7. ASSUME NEW r \in Requests, Enqueue(r) PROVE IInv'
    BY <1>7, EnqueueStep
<1>8. ASSUME NEW r \in Requests, StartRefresh(r) PROVE IInv'
    BY <1>8, StartRefreshStep
<1>9. ASSUME NEW r \in Requests, CheckRefresh(r) PROVE IInv'
    BY <1>9, CheckRefreshStep
<1>10. ASSUME NEW r \in Requests, Rotate(r) PROVE IInv'
    BY <1>10, RotateStep
<1>11. ASSUME NEW r \in Requests, LoseAnswer(r) PROVE IInv'
    BY <1>11, LoseAnswerStep
<1>12. ASSUME NEW r \in Requests, Renewed(r) PROVE IInv'
    BY <1>12, RenewedStep
<1>13. ASSUME NEW r \in Requests, Refused(r) PROVE IInv'
    BY <1>13, RefusedStep
<1>14. ASSUME NEW p \in Signed, Expire(p) \/ LogoutAccess(p) \/ LogoutRefresh(p) PROVE IInv'
    BY <1>14, ExpireStep
<1>15. ASSUME NEW u \in Users, Deactivate(u) PROVE IInv'
    BY <1>15, DeactivateStep
<1>16. CASE UNCHANGED vars
    BY <1>16, StutterIInv
<1> QED
    BY <1>1, <1>2, <1>3, <1>4, <1>5, <1>6, <1>7, <1>8, <1>9, <1>10, <1>11, <1>12, <1>13,
       <1>14, <1>15, <1>16 DEF Next

\* The inductive invariant holds of every behaviour of the session.
THEOREM Invariance == Spec => []IInv
<1> QED
    BY InitIInv, StepIInv, PTL DEF Spec

\* The session variables keep their types, for any tabs, users, calls and pairs.
THEOREM Types == Spec => []TypeOK
<1>1. IInv => TypeOK
    BY DEF IInv
<1> QED
    BY <1>1, Invariance, PTL

\* A tab's tokens are those of the user it shows (authStore.js, client.js), unless somebody
\* logged in or out of the tab while its refresh was under way.
THEOREM TokensOfTheUser == Spec => []ShowsTheTokensUser
<1>1. IInv => ShowsTheTokensUser
    BY DEF IInv, Stores, Sound, ShowsTheTokensUser
<1> QED
    BY <1>1, Invariance, PTL

\* The refresh token of a tab's store has not been spent (refresh's rotation), unless the
\* tab shares it, lost the answer, or is about to get the pair it bought.
THEOREM Renewable == Spec => []SessionCanBeRenewed
<1>1. IInv => SessionCanBeRenewed
    BY DEF IInv
<1> QED
    BY <1>1, Invariance, PTL

\* client.js: one refresh under way in a tab that is refreshing and none in another, and
\* no call waits in a tab where nobody refreshes.
THEOREM QueueIsServed == Spec => []QueueHasARefresh
<1>1. IInv => QueueHasARefresh
    <2> SUFFICES ASSUME IInv, NEW t \in Tabs
                 PROVE  /\ Cardinality({r \in Requests : req[r].tab = t /\ req[r].stage \in Refreshes})
                               = IF refreshing[t] THEN 1 ELSE 0
                        /\ Waiting(t) # {} => refreshing[t]
        BY DEF QueueHasARefresh
    <2> DEFINE flights == {r \in Requests : req[r].tab = t /\ req[r].stage \in Refreshes}
    <2>1. t # None /\ refreshing[t] \in BOOLEAN
        BY SessionAssumption DEF IInv, TypeOK
    <2>2. Waiting(t) # {} => refreshing[t]
        BY DEF IInv, Flights, Waiting
    <2>3. CASE refreshing[t]
        <3>1. PICK r \in Requests : Flying(r) /\ req[r].tab = t
            BY <2>3 DEF IInv, Flights
        <3>2. flights = {r}
            BY <2>1, <3>1 DEF IInv, Flights, Flying
        <3> QED
            BY <2>2, <2>3, <3>2, FS_Singleton
    <2>4. CASE ~refreshing[t]
        <3>1. flights = {}
            BY <2>1, <2>4 DEF IInv, Flights, Flying
        <3> QED
            BY <2>2, <2>4, <3>1, FS_EmptySet
    <2> QED
        BY <2>1, <2>3, <2>4
<1> QED
    BY <1>1, Invariance, PTL

\* A refresh token buys one pair (refresh's rotation), unless two refreshes with it were
\* between the check and the write at the same time.
THEOREM OnePair == Spec => []BuysOnePair
<1>1. IInv => BuysOnePair
    <2> SUFFICES ASSUME IInv, NEW p \in Signed, p \notin overlapped
                 PROVE  Cardinality({n \in Signed : parent[n] = p}) <= 1
        BY DEF BuysOnePair
    <2> DEFINE children == {n \in Signed : parent[n] = p}
    <2>1. p # NoPair
        BY DEF Signed, NoPair
    <2>2. \A m, n \in children : m = n
        BY <2>1 DEF IInv, OneChild
    <2>3. CASE children = {}
        BY <2>3, FS_EmptySet
    <2>4. CASE children # {}
        <3>1. PICK n \in children : TRUE
            BY <2>4
        <3>2. children = {n}
            BY <2>2, <3>1
        <3>3. Cardinality(children) = 1
            BY <3>2, FS_Singleton
        <3> QED
            BY <3>3
    <2> QED
        BY <2>3, <2>4
<1> QED
    BY <1>1, Invariance, PTL

-----------------------------------------------------------------------------
(* RouteTimetable: what a route says of itself.                            *)

TimetableTypes ==
    /\ vehicle \in [Routes -> Vehicles] /\ DOMAIN stops = Routes
    /\ DOMAIN shift = Routes /\ DOMAIN contract = Routes /\ DOMAIN times = Routes /\ DOMAIN timedBy = Routes
    /\ DOMAIN distance = Routes /\ DOMAIN load = Routes /\ DOMAIN cost = Routes

TimetableInvariant == TimetableTypes /\ RouteFiguresAgree

\* A route without stops carries nothing, goes nowhere and suits every vehicle.
LEMMA EmptyRoute == Load(<<>>) = 0 /\ Length(<<>>) = 0 /\ \A v \in Vehicles : ~TooHeavy(v, 0)
BY TimetableAssumption DEF Load, Length, TooHeavy

LEMMA FiguresInitially == TimetableInit => TimetableInvariant
<1> SUFFICES ASSUME TimetableInit
             PROVE  TimetableInvariant
  OBVIOUS
<1>1. vehicle \in [Routes -> Vehicles]
  BY DEF TimetableInit
<1>2. TimetableTypes
  BY <1>1 DEF TimetableInit, TimetableTypes
<1>3. RouteFiguresAgree
  BY <1>1, EmptyRoute DEF TimetableInit, RouteFiguresAgree
<1> QED
  BY <1>2, <1>3 DEF TimetableInvariant

\* Whatever a request makes of the stops, what is stored beside them is of the new ones.
LEMMA RefreshKeeps ==
  ASSUME TimetableInvariant, NEW new, DOMAIN new \subseteq Routes, Refresh(new)
  PROVE  TimetableInvariant'
<1> USE DEF TimetableInvariant
<1>1. TimetableTypes'
  BY DEF TimetableTypes, Refresh
<1>2. ASSUME NEW r \in Routes
      PROVE  /\ load'[r] = Load(stops'[r])
             /\ distance'[r] = Length(stops'[r])
             /\ stops'[r] # <<>> => cost'[r] = Cost(vehicle'[r], contract'[r], distance'[r], load'[r])
             /\ r \notin behind' => times'[r] = Timetable(stops'[r], vehicle'[r], shift'[r], timedBy'[r])
             /\ r \notin overfilled' => ~TooHeavy(vehicle'[r], load'[r])
  <2>1. UNCHANGED <<vehicle, shift, contract>>
    BY DEF Refresh
  <2>2. CASE r \notin DOMAIN new
    BY <2>1, <2>2 DEF Refresh, RouteFiguresAgree
  <2>3. CASE r \in DOMAIN new /\ new[r] = <<>>
    <3>1. /\ stops'[r] = <<>> /\ load'[r] = Load(new[r]) /\ distance'[r] = Length(new[r]) /\ r \in behind'
          /\ r \notin overfilled' => ~TooHeavy(vehicle[r], Load(new[r]))
      BY <2>3 DEF Refresh
    <3> QED
      BY <2>1, <2>3, <3>1
  <2>4. CASE r \in DOMAIN new /\ new[r] # <<>>
    <3>1. /\ stops'[r] = new[r] /\ load'[r] = Load(new[r]) /\ distance'[r] = Length(new[r])
          /\ cost'[r] = Cost(vehicle[r], contract[r], Length(new[r]), Load(new[r]))
          /\ times'[r] = Timetable(new[r], vehicle[r], shift[r], NoTraffic) /\ timedBy'[r] = NoTraffic
          /\ r \notin overfilled' => ~TooHeavy(vehicle[r], Load(new[r]))
      BY <2>4 DEF Refresh
    <3> QED
      BY <2>1, <3>1
  <2> QED
    BY <2>2, <2>3, <2>4
<1> QED
  BY <1>1, <1>2 DEF RouteFiguresAgree

\* assignRoute keeps the stops; what depends on what it changes is stored anew or marked.
LEMMA AssignKeeps ==
  ASSUME TimetableInvariant, NEW r \in Routes,
         \/ \E v \in Vehicles : SwapVehicle(r, v)
         \/ \E s \in Shifts : SetShift(r, s)
         \/ \E c \in [outsourced : BOOLEAN, service : BOOLEAN] : SetContract(r, c)
  PROVE  TimetableInvariant'
<1> USE DEF TimetableInvariant
<1>1. ASSUME NEW v \in Vehicles, SwapVehicle(r, v)
      PROVE  TimetableInvariant'
  BY <1>1 DEF SwapVehicle, TimetableTypes, RouteFiguresAgree
<1>2. ASSUME NEW s \in Shifts, SetShift(r, s)
      PROVE  TimetableInvariant'
  <2>1. TimetableTypes'
    BY <1>2 DEF SetShift, TimetableTypes
  <2>2. RouteFiguresAgree'
    <3>1. /\ shift'[r] = s /\ times'[r] = Timetable(stops[r], vehicle[r], s, NoTraffic) /\ timedBy'[r] = NoTraffic
          /\ cost'[r] = Cost(vehicle[r], contract[r], distance[r], load[r]) /\ distance'[r] = distance[r]
      BY <1>2 DEF SetShift, TimetableTypes, RouteFiguresAgree
    <3>2. \A q \in Routes \ {r} : /\ shift'[q] = shift[q] /\ times'[q] = times[q] /\ timedBy'[q] = timedBy[q]
                                 /\ cost'[q] = cost[q] /\ distance'[q] = distance[q]
      BY <1>2 DEF SetShift, TimetableTypes
    <3>3. UNCHANGED <<stops, vehicle, contract, load, overfilled>> /\ behind' = behind \ {r}
      BY <1>2 DEF SetShift
    <3> QED
      BY <3>1, <3>2, <3>3 DEF RouteFiguresAgree
  <2> QED
    BY <2>1, <2>2
<1>3. ASSUME NEW c \in [outsourced : BOOLEAN, service : BOOLEAN], SetContract(r, c)
      PROVE  TimetableInvariant'
  <2>1. TimetableTypes'
    BY <1>3 DEF SetContract, TimetableTypes
  <2>2. RouteFiguresAgree'
    <3>1. contract'[r] = c /\ cost'[r] = Cost(vehicle[r], c, distance[r], load[r])
      BY <1>3 DEF SetContract, TimetableTypes
    <3>2. \A q \in Routes \ {r} : contract'[q] = contract[q] /\ cost'[q] = cost[q]
      BY <1>3 DEF SetContract, TimetableTypes
    <3>3. UNCHANGED <<stops, vehicle, shift, times, distance, load, timedBy, behind, overfilled>>
      BY <1>3 DEF SetContract
    <3> QED
      BY <3>1, <3>2, <3>3 DEF RouteFiguresAgree
  <2> QED
    BY <2>1, <2>2
<1> QED
  BY <1>1, <1>2, <1>3

LEMMA OptimiseKeeps ==
  ASSUME TimetableInvariant, NEW p \in Packings, NEW t \in Tables, Optimise(p, t)
  PROVE  TimetableInvariant'
<1> USE DEF TimetableInvariant
<1>1. p = [r \in Routes |-> p[r]]
  BY DEF Packings
<1>2. TimetableTypes'
  BY <1>1 DEF Optimise, TimetableTypes
<1>3. RouteFiguresAgree'
  BY <1>1 DEF Optimise, RouteFiguresAgree
<1> QED
  BY <1>2, <1>3

LEMMA FiguresStep == TimetableInvariant /\ [TimetableNext]_timetable => TimetableInvariant'
<1> SUFFICES ASSUME TimetableInvariant, [TimetableNext]_timetable
             PROVE  TimetableInvariant'
  OBVIOUS
<1>1. ASSUME NEW r \in Routes, NEW o \in Orders, AddOrder(r, o) \/ RemoveOrder(r, o)
      PROVE  TimetableInvariant'
  <2>1. PICK new : DOMAIN new = {r} /\ Refresh(new)
    BY <1>1 DEF AddOrder, RemoveOrder
  <2> QED
    BY <2>1, RefreshKeeps
<1>2. ASSUME NEW r \in Routes, NEW q \in Routes, NEW o \in Orders, NEW i, Reorder(r, q, o, i)
      PROVE  TimetableInvariant'
  <2>1. PICK new : DOMAIN new = {r, q} /\ Refresh(new)
    BY <1>2 DEF Reorder
  <2> QED
    BY <2>1, RefreshKeeps
<1>3. CASE UNCHANGED timetable
  BY <1>3 DEF timetable, TimetableInvariant, TimetableTypes, RouteFiguresAgree
<1> QED
  BY <1>1, <1>2, <1>3, AssignKeeps, OptimiseKeeps DEF TimetableNext

\* With any routes, orders, vehicles, distances and traffic tables, what a route stores of
\* itself (routePlanController.js 194-271, 315-376) follows from its stops, vehicle, shift
\* and contract: load and distance always, cost of a route with stops, times unless the
\* vehicle was swapped or the route emptied since, and it is within its vehicle's limit
\* unless orders were added by hand.
THEOREM FiguresAgree == TimetableSpec => []RouteFiguresAgree
<1>1. TimetableInvariant => RouteFiguresAgree
  BY DEF TimetableInvariant
<1> QED
  BY <1>1, FiguresInitially, FiguresStep, PTL DEF TimetableSpec

-----------------------------------------------------------------------------
(* TrafficFactors: reported jams and the tables plans are timed with.      *)

LEMMA LeastMember ==
    ASSUME NEW N \in Nat, NEW T, T \subseteq 1 .. N, T # {}
    PROVE  \E k \in T : \A j \in T : k <= j
<1> DEFINE Upto == {1 .. k : k \in T}
           R == StrictSubsetOrdering(1 .. N)
<1>1. IsFiniteSet(1 .. N)
    BY FS_Interval
<1>2. IsWellFoundedOn(R, SUBSET (1 .. N))
    BY <1>1, FS_FiniteSubsetsOfFinite, FS_StrictSubsetOrderingWellFounded
<1>3. Upto \subseteq SUBSET (1 .. N) /\ Upto # {}
    <2>1. \A k \in T : 1 .. k \subseteq 1 .. N
        OBVIOUS
    <2> QED
        BY <2>1
<1>4. PICK u \in Upto : \A v \in Upto : <<v, u>> \notin R
    <2> HIDE DEF R, Upto
    <2> QED
        BY <1>2, <1>3, WFMin
<1>5. PICK k \in T : u = 1 .. k
    BY <1>4
<1>6. ASSUME NEW j \in T, j < k PROVE FALSE
    <2>1. 1 .. j \in Upto /\ 1 .. j \subseteq 1 .. k /\ 1 .. j # 1 .. k
        <3>1. k \in 1 .. k /\ k \notin 1 .. j
            BY <1>6
        <3> QED
            BY <1>6, <3>1
    <2>2. <<1 .. j, u>> \in R
        BY <1>3, <1>5, <2>1 DEF StrictSubsetOrdering
    <2> QED
        BY <1>4, <2>1, <2>2
<1> QED
    BY <1>6


FactorOf(F) ==
    [id : Nat, scope : {"HOUR", "DOW", "ZONE"}, at : Nat, from : Nat, to : Nat, factor : F, until : Nat]
JamReports == [at : {"idle", "create", "refresh"}, zone : Nat, id : Nat, until : Nat]
TrafficTypes ==
    /\ \E F : factors \in Seq(FactorOf(F))
    /\ made \in Nat /\ clock \in Nat /\ clock > 0
    /\ report \in [Reports -> JamReports]
    /\ build.cut \in Nat /\ \E at, cut, table : build = [at |-> at, cut |-> cut, table |-> table]
    /\ promised \in [Zones -> Nat]

\* A number names one record.
FactorIds ==
    \A i \in DOMAIN factors :
        /\ factors[i].id \in 1 .. made
        /\ \A k \in DOMAIN factors : factors[i].id = factors[k].id => factors[i].at = factors[k].at
\* A report that refreshes a jam finds the one of its zone.
Finds(r) ==
    report[r].at = "refresh" =>
        /\ report[r].id \in 1 .. made
        /\ \A i \in DOMAIN factors : factors[i].id = report[r].id => factors[i].at = report[r].zone
\* Outside the disputed zones a report is alone and outlives every promise.
Alone(r) ==
    report[r].zone \notin disputed =>
        /\ promised[report[r].zone] <= report[r].until
        /\ \A q \in Reports : report[q].at # "idle" /\ report[q].zone = report[r].zone => q = r
ReportsFollow ==
    \A r \in Reports : report[r].at # "idle" =>
        report[r].zone \in Zones /\ report[r].until \in clock .. clock + Ttl /\ Finds(r) /\ Alone(r)
PromisesHold ==
    \A z \in Zones :
        /\ promised[z] <= clock + Ttl
        /\ z \notin disputed /\ promised[z] > clock =>
              \E i \in DOMAIN factors : factors[i].at = z /\ factors[i].until >= promised[z]
TableIsFresh ==
    /\ build.cut <= clock
    /\ build.at = "reading" => \A i \in DOMAIN factors : factors[i].until > 0 => factors[i].until >= build.cut
    /\ \A i \in DOMAIN build.table : build.table[i].until > 0 => build.table[i].until >= build.cut

TrafficInvariant == TrafficTypes /\ FactorIds /\ ReportsFollow /\ PromisesHold /\ TableIsFresh

LEMMA LongerSeq == ASSUME NEW F, NEW G, F \subseteq G PROVE Seq(FactorOf(F)) \subseteq Seq(FactorOf(G))
<1>1. FactorOf(F) \subseteq FactorOf(G)
  BY DEF FactorOf
<1> QED
  BY <1>1

LEMMA RecordTypes ==
  TrafficTypes => \A i \in DOMAIN factors : factors[i].id \in Nat /\ factors[i].at \in Nat /\ factors[i].until \in Nat
<1> SUFFICES ASSUME TrafficTypes, NEW i \in DOMAIN factors
             PROVE  factors[i].id \in Nat /\ factors[i].at \in Nat /\ factors[i].until \in Nat
  OBVIOUS
<1>1. PICK F : factors \in Seq(FactorOf(F))
  BY DEF TrafficTypes
<1>2. factors[i] \in FactorOf(F)
  BY <1>1
<1> QED
  BY <1>2 DEF FactorOf

LEMMA JamsAreKept == TrafficInvariant => JamsRunTheirTime
<1> SUFFICES ASSUME TrafficInvariant
             PROVE  JamsRunTheirTime
  OBVIOUS
<1>1. ASSUME NEW z \in Zones \ disputed, promised[z] > clock
      PROVE  \E f \in Jams(z) : f.until >= promised[z]
  <2>1. PICK i \in DOMAIN factors : factors[i].at = z /\ factors[i].until >= promised[z]
    BY <1>1 DEF TrafficInvariant, PromisesHold
  <2>2. factors[i].until > 0
    <3>1. factors[i].until \in Nat
      BY RecordTypes DEF TrafficInvariant
    <3>2. promised[z] \in Nat /\ clock \in Nat
      BY DEF TrafficInvariant, TrafficTypes
    <3> QED
      BY <1>1, <2>1, <3>1, <3>2
  <2>3. factors[i] \in Jams(z)
    BY <2>1, <2>2 DEF Jams, Temporary, ToSet
  <2> QED
    BY <2>1, <2>3
<1>2. \A i \in DOMAIN build.table : Temporary(build.table[i]) => build.table[i].until >= build.cut
  BY DEF TrafficInvariant, TableIsFresh, Temporary
<1> QED
  BY <1>1, <1>2 DEF JamsRunTheirTime

LEMMA TrafficInitially == TrafficInit => TrafficInvariant
<1> SUFFICES ASSUME TrafficInit
             PROVE  TrafficInvariant
  OBVIOUS
<1>1. NotReporting \in JamReports /\ NotReporting.at = "idle"
  BY DEF NotReporting, JamReports
<1>2. build = [at |-> "idle", cut |-> 0, table |-> <<>>]
  BY DEF TrafficInit, NoTable
<1>3. factors = <<>> /\ factors \in Seq(FactorOf({})) /\ DOMAIN factors = {}
  BY DEF TrafficInit
<1>4. TrafficTypes
  <2>1. \E F : factors \in Seq(FactorOf(F))
    BY <1>3
  <2>2. build.cut \in Nat /\ \E at, cut, table : build = [at |-> at, cut |-> cut, table |-> table]
    BY <1>2
  <2>3. made \in Nat /\ clock \in Nat /\ clock > 0
    BY DEF TrafficInit
  <2>4. report \in [Reports -> JamReports] /\ promised \in [Zones -> Nat]
    BY <1>1 DEF TrafficInit
  <2> QED
    BY <2>1, <2>2, <2>3, <2>4 DEF TrafficTypes
<1>5. PromisesHold
  BY TrafficAssumption DEF TrafficInit, PromisesHold
<1> QED
  BY <1>1, <1>2, <1>3, <1>4, <1>5 DEF TrafficInit, TrafficInvariant, FactorIds, ReportsFollow, TableIsFresh

\* Reports are answered, or lost, while the records change: every record is one that was
\* there, with its number and place, or has a number of its own.
Same(f, g) == f.id = g.id /\ f.at = g.at
Kept(z) ==
    \A j \in DOMAIN factors : factors[j].at = z /\ factors[j].until >= clock =>
        \E i \in DOMAIN factors' : factors'[i].at = z /\ factors'[i].until >= factors[j].until
InRecords(z) ==
    /\ promised[z] <= clock + Ttl
    /\ z \notin disputed =>
          /\ \E i \in DOMAIN factors : factors[i].at = z /\ factors[i].until >= promised[z]
          /\ \A q \in Reports : report[q].at # "idle" => report[q].zone # z
LEMMA RecordsChange ==
  ASSUME TrafficInvariant, clock' = clock, disputed \subseteq disputed',
         report' \in [Reports -> JamReports], \A r \in Reports : report'[r] = report[r] \/ report'[r].at = "idle",
         made' \in Nat, made <= made', \E F : factors' \in Seq(FactorOf(F)),
         promised' \in [Zones -> Nat], \A z \in Zones : (promised'[z] = promised[z] /\ Kept(z)) \/ InRecords(z)',
         \A i \in DOMAIN factors' :
             \/ \E j \in DOMAIN factors : Same(factors'[i], factors[j])
             \/ factors'[i].id \in made + 1 .. made'
                /\ \A k \in DOMAIN factors' : factors'[i].id = factors'[k].id => factors'[i].at = factors'[k].at,
         build'.cut \in Nat, \E at, cut, table : build' = [at |-> at, cut |-> cut, table |-> table], TableIsFresh'
  PROVE  TrafficInvariant'
<1> USE DEF TrafficInvariant
<1>1. TrafficTypes'
  BY DEF TrafficTypes
<1>2. FactorIds'
  <2> SUFFICES ASSUME NEW i \in DOMAIN factors'
               PROVE  /\ factors'[i].id \in 1 .. made'
                      /\ \A k \in DOMAIN factors' : factors'[i].id = factors'[k].id => factors'[i].at = factors'[k].at
    BY DEF FactorIds
  <2>1. CASE factors'[i].id \in made + 1 .. made'
             /\ \A k \in DOMAIN factors' : factors'[i].id = factors'[k].id => factors'[i].at = factors'[k].at
    BY <2>1 DEF TrafficTypes
  <2>2. ASSUME NEW j \in DOMAIN factors, Same(factors'[i], factors[j])
        PROVE  /\ factors'[i].id \in 1 .. made'
               /\ \A k \in DOMAIN factors' : factors'[i].id = factors'[k].id => factors'[i].at = factors'[k].at
    <3>1. factors'[i].id = factors[j].id /\ factors'[i].at = factors[j].at /\ factors[j].id \in 1 .. made
      BY <2>2 DEF Same, FactorIds
    <3>2. ASSUME NEW k \in DOMAIN factors', factors'[i].id = factors'[k].id
          PROVE  factors'[i].at = factors'[k].at
      <4>1. CASE \E l \in DOMAIN factors : Same(factors'[k], factors[l])
        BY <3>1, <3>2, <4>1 DEF Same, FactorIds
      <4>2. CASE \A l \in DOMAIN factors' : factors'[k].id = factors'[l].id => factors'[k].at = factors'[l].at
        BY <3>2, <4>2
      <4> QED
        BY <4>1, <4>2
    <3> QED
      BY <3>1, <3>2 DEF TrafficTypes
  <2> QED
    BY <2>1, <2>2
<1>3. ReportsFollow'
  <2> SUFFICES ASSUME NEW r \in Reports, report'[r].at # "idle"
               PROVE  /\ report'[r].zone \in Zones /\ report'[r].until \in clock' .. clock' + Ttl
                      /\ Finds(r)' /\ Alone(r)'
    BY DEF ReportsFollow
  <2>0. report'[r] = report[r]
    OBVIOUS
  <2>1. report[r].zone \in Zones /\ report[r].until \in clock .. clock + Ttl /\ Finds(r) /\ Alone(r)
    BY <2>0 DEF ReportsFollow
  <2>2. Alone(r)'
    <3> SUFFICES ASSUME report[r].zone \notin disputed'
                 PROVE  /\ promised'[report[r].zone] <= report[r].until
                        /\ \A q \in Reports : report'[q].at # "idle" /\ report'[q].zone = report[r].zone => q = r
      BY <2>0 DEF Alone
    <3>1. ~ InRecords(report[r].zone)'
      BY <2>0 DEF InRecords
    <3>2. promised'[report[r].zone] = promised[report[r].zone]
      BY <2>1, <3>1
    <3>3. \A q \in Reports : report'[q].at # "idle" => report'[q] = report[q]
      OBVIOUS
    <3> QED
      BY <2>1, <3>2, <3>3 DEF Alone
  <2>3. ASSUME report[r].at = "refresh", NEW i \in DOMAIN factors', factors'[i].id = report[r].id
        PROVE  factors'[i].at = report[r].zone
    <3>1. factors'[i].id \notin made + 1 .. made'
      BY <2>1, <2>3 DEF Finds, TrafficTypes
    <3>2. PICK j \in DOMAIN factors : Same(factors'[i], factors[j])
      BY <3>1
    <3> QED
      BY <2>1, <2>3, <3>2 DEF Finds, Same
  <2>4. report[r].at = "refresh" => report[r].id \in 1 .. made'
    BY <2>1 DEF Finds, TrafficTypes
  <2>5. Finds(r)'
    BY <2>0, <2>3, <2>4 DEF Finds
  <2> QED
    BY <2>0, <2>1, <2>2, <2>5
<1>4. PromisesHold'
  <2> SUFFICES ASSUME NEW z \in Zones
               PROVE  /\ promised'[z] <= clock + Ttl
                      /\ z \notin disputed' /\ promised'[z] > clock =>
                            \E i \in DOMAIN factors' : factors'[i].at = z /\ factors'[i].until >= promised'[z]
    BY DEF PromisesHold
  <2>1. CASE InRecords(z)'
    BY <2>1 DEF InRecords
  <2>2. CASE promised'[z] = promised[z] /\ Kept(z)
    <3>1. promised[z] <= clock + Ttl
      BY DEF PromisesHold
    <3>2. ASSUME z \notin disputed, promised[z] > clock
          PROVE  \E i \in DOMAIN factors' : factors'[i].at = z /\ factors'[i].until >= promised[z]
      <4>1. PICK j \in DOMAIN factors : factors[j].at = z /\ factors[j].until >= promised[z]
        BY <3>2 DEF PromisesHold
      <4>2. promised[z] \in Nat /\ clock \in Nat /\ factors[j].until \in Nat
        BY RecordTypes DEF TrafficTypes
      <4>3. PICK i \in DOMAIN factors' : factors'[i].at = z /\ factors'[i].until >= factors[j].until
        BY <2>2, <3>2, <4>1, <4>2 DEF Kept
      <4>4. factors'[i].until \in Nat
        <5>1. PICK F : factors' \in Seq(FactorOf(F))
          OBVIOUS
        <5>2. factors'[i] \in FactorOf(F)
          BY <5>1
        <5> QED
          BY <5>2 DEF FactorOf
      <4> QED
        BY <4>1, <4>2, <4>3, <4>4
    <3> QED
      BY <2>2, <3>1, <3>2
  <2> QED
    BY <2>1, <2>2
<1> QED
  BY <1>1, <1>2, <1>3, <1>4

-----------------------------------------------------------------------------
(* What a purge leaves.                                                    *)

\* k[n] is what it leaves of the first n records.
KeepsOf(fs, N, k) ==
    k = [n \in 0 .. N |-> IF n = 0 THEN <<>> ELSE IF InForce(fs[n]) THEN Append(k[n - 1], fs[n]) ELSE k[n - 1]]

LEMMA KeepsExist ==
  ASSUME NEW N \in Nat, NEW fs
  PROVE  \E k : KeepsOf(fs, N, k)
<1> DEFINE Bad == {n \in 1 .. N : ~ \E k : KeepsOf(fs, n, k)}
<1>0. KeepsOf(fs, 0, [m \in 0 .. 0 |-> <<>>])
  BY DEF KeepsOf
<1> SUFFICES ASSUME N \in Bad PROVE FALSE
  BY <1>0
<1>1. PICK n \in Bad : \A m \in Bad : n <= m
  BY LeastMember
<1>2. n \in 1 .. N /\ n - 1 \in Nat /\ n - 1 \notin Bad
  BY <1>1
<1>3. \E k : KeepsOf(fs, n - 1, k)
  BY <1>0, <1>2
<1>4. PICK k : KeepsOf(fs, n - 1, k)
  BY <1>3
<1> DEFINE After(g, m) == IF InForce(fs[m]) THEN Append(g[m - 1], fs[m]) ELSE g[m - 1]
           h == [m \in 0 .. n |-> IF m = n THEN After(k, n) ELSE k[m]]
<1>5. k = [m \in 0 .. n - 1 |-> IF m = 0 THEN <<>> ELSE After(k, m)]
  BY <1>4 DEF KeepsOf
<1>6. ASSUME NEW m \in 0 .. n PROVE h[m] = IF m = 0 THEN <<>> ELSE After(h, m)
  <2>1. CASE m = n
    <3>1. h[n] = After(k, n) /\ h[n - 1] = k[n - 1]
      BY <1>2
    <3> QED
      BY <1>2, <2>1, <3>1
  <2>2. CASE m # n
    <3>1. m \in 0 .. n - 1 /\ h[m] = k[m]
      BY <1>2, <2>2
    <3>2. m # 0 => m - 1 \in 0 .. n /\ h[m - 1] = k[m - 1]
      BY <1>2, <2>2
    <3>3. k[m] = IF m = 0 THEN <<>> ELSE After(k, m)
      BY <1>5, <3>1
    <3> QED
      BY <3>1, <3>2, <3>3
  <2> QED
    BY <2>1, <2>2
<1>7. KeepsOf(fs, n, h)
  BY <1>6 DEF KeepsOf
<1> QED
  BY <1>2, <1>7

\* fs is what is left of es: the records of es that are in force, and no other.
LeftOf(fs, es, N) ==
    /\ \A i \in DOMAIN fs : \E j \in 1 .. N : fs[i] = es[j] /\ InForce(es[j])
    /\ \A j \in 1 .. N : InForce(es[j]) => \E i \in DOMAIN fs : fs[i] = es[j]

LEMMA KeepsAreLeft ==
  ASSUME NEW S, NEW es \in Seq(S), NEW k, KeepsOf(es, Len(es), k), NEW n \in 0 .. Len(es)
  PROVE  k[n] \in Seq(S) /\ LeftOf(k[n], es, n)
<1> DEFINE N == Len(es)
           Good(m) == k[m] \in Seq(S) /\ LeftOf(k[m], es, m)
           Bad == {m \in 1 .. N : ~ Good(m)}
<1>1. k[0] = <<>> /\ \A m \in 1 .. N : k[m] = IF InForce(es[m]) THEN Append(k[m - 1], es[m]) ELSE k[m - 1]
  <2>1. N \in Nat /\ \A m \in 1 .. N : m \in 0 .. N /\ m # 0
    OBVIOUS
  <2>2. \A m \in 0 .. N : k[m] = IF m = 0 THEN <<>> ELSE IF InForce(es[m]) THEN Append(k[m - 1], es[m]) ELSE k[m - 1]
    <3>1. k = [m \in 0 .. N |-> IF m = 0 THEN <<>> ELSE IF InForce(es[m]) THEN Append(k[m - 1], es[m]) ELSE k[m - 1]]
      BY DEF KeepsOf
    <3> HIDE DEF N
    <3> QED
      BY <3>1, Zenon
  <2>3. 0 \in 0 .. N
    BY <2>1
  <2> HIDE DEF N
  <2> QED
    BY <2>1, <2>2, <2>3
<1>2. Good(0)
  BY <1>1 DEF LeftOf
<1>3. ASSUME NEW m \in 1 .. N, Good(m - 1) PROVE Good(m)
  <2>0. es[m] \in S /\ m \in Nat /\ k[m - 1] \in Seq(S)
    BY <1>3
  <2>1. CASE InForce(es[m])
    <3>1. k[m] = Append(k[m - 1], es[m])
      BY <1>1, <2>1
    <3>2. PICK was \in Seq(S) : was = k[m - 1]
      BY <2>0
    <3>3. /\ k[m] \in Seq(S) /\ DOMAIN k[m] = 1 .. Len(was) + 1 /\ k[m][Len(was) + 1] = es[m]
          /\ \A i \in DOMAIN was : k[m][i] = was[i]
          /\ DOMAIN was = 1 .. Len(was) /\ Len(was) \in Nat
      BY <2>0, <3>1, <3>2
    <3>4. LeftOf(was, es, m - 1)
      BY <1>3, <3>2
    <3>5. ASSUME NEW i \in DOMAIN k[m] PROVE \E j \in 1 .. m : k[m][i] = es[j] /\ InForce(es[j])
      <4>1. CASE i = Len(was) + 1
        BY <2>1, <3>3, <4>1
      <4>2. CASE i \in DOMAIN was
        BY <3>3, <3>4, <4>2 DEF LeftOf
      <4> QED
        BY <3>3, <4>1, <4>2
    <3>6. ASSUME NEW j \in 1 .. m, InForce(es[j]) PROVE \E i \in DOMAIN k[m] : k[m][i] = es[j]
      <4>1. CASE j = m
        BY <3>3, <4>1
      <4>2. CASE j # m
        <5>1. PICK i \in DOMAIN was : was[i] = es[j]
          BY <3>4, <3>6, <4>2 DEF LeftOf
        <5> QED
          BY <3>3, <5>1
      <4> QED
        BY <4>1, <4>2
    <3> QED
      BY <3>3, <3>5, <3>6 DEF LeftOf
  <2>2. CASE ~ InForce(es[m])
    <3>1. k[m] = k[m - 1]
      BY <1>1, <2>2
    <3>2. \A j \in 1 .. m : InForce(es[j]) => j \in 1 .. m - 1
      BY <2>2
    <3>3. LeftOf(k[m - 1], es, m - 1)
      BY <1>3
    <3> QED
      BY <2>0, <3>1, <3>2, <3>3 DEF LeftOf
  <2> QED
    BY <2>1, <2>2
<1>4. ASSUME Bad # {} PROVE FALSE
  <2>1. PICK m \in Bad : \A l \in Bad : m <= l
    <3>1. N \in Nat /\ Bad \subseteq 1 .. N
      OBVIOUS
    <3> HIDE DEF Bad
    <3> QED
      BY <1>4, <3>1, LeastMember
  <2>2. m \in 1 .. N /\ m - 1 \in 0 .. N /\ m - 1 \notin Bad
    BY <2>1
  <2>3. Good(m - 1)
    <3>1. CASE m = 1
      BY <1>2, <3>1
    <3>2. CASE m # 1
      BY <2>2, <3>2
    <3> QED
      BY <3>1, <3>2
  <2> QED
    BY <1>3, <2>1, <2>2, <2>3
<1> QED
  BY <1>2, <1>4

LEMMA RemainingFacts ==
  ASSUME NEW S, NEW es \in Seq(S)
  PROVE  Remaining(es) \in Seq(S) /\ LeftOf(Remaining(es), es, Len(es))
<1> DEFINE Keeps(k) == k = [n \in 0 .. Len(es) |->
               IF n = 0 THEN <<>> ELSE IF InForce(es[n]) THEN Append(k[n - 1], es[n]) ELSE k[n - 1]]
           kept == CHOOSE k : Keeps(k)
<1>1. Len(es) \in Nat
  OBVIOUS
<1>2. PICK g : KeepsOf(es, Len(es), g)
  BY <1>1, KeepsExist
<1>3. Keeps(g)
  BY <1>2 DEF KeepsOf
<1>4. Keeps(kept)
  <2> HIDE DEF Keeps
  <2> QED
    BY <1>3, Zenon
<1>5. Remaining(es) = kept[Len(es)]
  BY DEF Remaining
<1>6. KeepsOf(es, Len(es), kept)
  <2> HIDE DEF kept
  <2> QED
    BY <1>4 DEF KeepsOf
<1> HIDE DEF kept, Keeps
<1> QED
  BY <1>1, <1>5, <1>6, KeepsAreLeft

-----------------------------------------------------------------------------
(* The steps that answer no report.                                        *)

LEMMA RecordsStay ==
  ASSUME TrafficInvariant, factors' = factors
  PROVE  /\ \E F : factors' \in Seq(FactorOf(F))
         /\ \A i \in DOMAIN factors' : \E j \in DOMAIN factors : Same(factors'[i], factors[j])
         /\ \A z \in Zones : Kept(z)
<1>1. \E F : factors' \in Seq(FactorOf(F))
  BY DEF TrafficInvariant, TrafficTypes
<1>2. \A i \in DOMAIN factors' : \E j \in DOMAIN factors : Same(factors'[i], factors[j])
  BY DEF Same
<1>3. \A j \in DOMAIN factors : factors[j].until \in Nat
  BY RecordTypes DEF TrafficInvariant
<1>4. \A z \in Zones : Kept(z)
  BY <1>3 DEF Kept
<1> QED
  BY <1>1, <1>2, <1>4

LEMMA NoReportIsIdle == NotReporting \in JamReports /\ NotReporting.at = "idle"
BY DEF NotReporting, JamReports

LEMMA JobKeeps ==
  TrafficInvariant /\ (CountRecords \/ NextDay \/ RestartJob \/ BuildReads \/ BuildDone) => TrafficInvariant'
<1> SUFFICES ASSUME TrafficInvariant, CountRecords \/ NextDay \/ RestartJob \/ BuildReads \/ BuildDone
             PROVE  TrafficInvariant'
  OBVIOUS
<1>1. factors' = factors /\ made' = made /\ clock' = clock /\ promised' = promised /\ disputed' = disputed
  BY DEF CountRecords, NextDay, RestartJob, BuildReads, BuildDone
<1>2. report' \in [Reports -> JamReports] /\ \A r \in Reports : report'[r] = report[r] \/ report'[r].at = "idle"
  <2>1. report \in [Reports -> JamReports]
    BY DEF TrafficInvariant, TrafficTypes
  <2>2. report' = report \/ report' = [r \in Reports |-> NotReporting]
    BY DEF CountRecords, NextDay, RestartJob, BuildReads, BuildDone
  <2> QED
    BY <2>1, <2>2, NoReportIsIdle
<1>3. build'.cut \in Nat /\ (\E a, c, t : build' = [at |-> a, cut |-> c, table |-> t]) /\ TableIsFresh'
  <2>1. PICK at, cut, table : build = [at |-> at, cut |-> cut, table |-> table]
    BY DEF TrafficInvariant, TrafficTypes
  <2>2. build.cut \in Nat /\ clock \in Nat /\ TableIsFresh
    BY DEF TrafficInvariant, TrafficTypes
  <2>3. CASE build' = build
    BY <1>1, <2>1, <2>2, <2>3 DEF TableIsFresh
  <2>4. CASE build' = NoTable
    <3>1. build'.cut = 0 /\ build'.at = "idle" /\ DOMAIN build'.table = {}
      BY <2>4 DEF NoTable
    <3>2. build' = [at |-> "idle", cut |-> 0, table |-> <<>>]
      BY <2>4 DEF NoTable
    <3>3. TableIsFresh'
      BY <1>1, <2>2, <3>1 DEF TableIsFresh
    <3>4. build'.cut \in Nat
      BY <3>1
    <3>5. \E a, c, t : build' = [at |-> a, cut |-> c, table |-> t]
      BY <3>2
    <3> QED
      BY <3>3, <3>4, <3>5
  <2>5. CASE BuildReads
    <3>1. build.at = "reading" /\ build' = [at |-> "built", cut |-> cut, table |-> factors]
      BY <2>1, <2>5 DEF BuildReads
    <3>2. build'.cut = build.cut /\ build'.at = "built" /\ build'.table = factors
      BY <2>1, <3>1
    <3> QED
      BY <1>1, <2>2, <3>1, <3>2 DEF TableIsFresh
  <2> QED
    BY <2>3, <2>4, <2>5 DEF CountRecords, NextDay, RestartJob, BuildReads, BuildDone
<1>4. promised \in [Zones -> Nat] /\ made \in Nat
  BY DEF TrafficInvariant, TrafficTypes
<1>5. /\ \E F : factors' \in Seq(FactorOf(F))
      /\ \A i \in DOMAIN factors' : \E j \in DOMAIN factors : Same(factors'[i], factors[j])
      /\ \A z \in Zones : promised'[z] = promised[z] /\ Kept(z)
  BY <1>1, RecordsStay
<1>6. promised' \in [Zones -> Nat] /\ made' \in Nat /\ made <= made' /\ disputed \subseteq disputed'
  BY <1>1, <1>4
<1> QED
  BY <1>1, <1>2, <1>3, <1>5, <1>6, RecordsChange

\* The job changes the records and nothing else.
LEMMA JobWrites ==
  ASSUME TrafficInvariant, UNCHANGED <<clock, report, build, promised, disputed>>,
         made' \in Nat, made <= made', \E F : factors' \in Seq(FactorOf(F)),
         \A z \in Zones : Kept(z),
         \A i \in DOMAIN factors' :
             \/ \E j \in DOMAIN factors : Same(factors'[i], factors[j]) /\ factors'[i].until = factors[j].until
             \/ /\ factors'[i].id \in made + 1 .. made' /\ factors'[i].until = 0
                /\ \A k \in DOMAIN factors' : factors'[i].id = factors'[k].id => factors'[i].at = factors'[k].at
  PROVE  TrafficInvariant'
<1>1. clock' = clock /\ report' = report /\ build' = build /\ promised' = promised /\ disputed' = disputed
  OBVIOUS
<1>2. report \in [Reports -> JamReports] /\ promised \in [Zones -> Nat] /\ build.cut \in Nat
      /\ \E at, cut, table : build = [at |-> at, cut |-> cut, table |-> table]
  BY DEF TrafficInvariant, TrafficTypes
<1>3. \A i \in DOMAIN factors' :
          \/ \E j \in DOMAIN factors : Same(factors'[i], factors[j])
          \/ factors'[i].id \in made + 1 .. made'
             /\ \A k \in DOMAIN factors' : factors'[i].id = factors'[k].id => factors'[i].at = factors'[k].at
  OBVIOUS
<1>4. TableIsFresh'
  <2>1. \A i \in DOMAIN factors' : factors'[i].until > 0 => \E j \in DOMAIN factors : factors'[i].until = factors[j].until
    OBVIOUS
  <2>2. TableIsFresh
    BY DEF TrafficInvariant
  <2> QED
    BY <1>1, <2>1, <2>2 DEF TableIsFresh
<1> QED
  BY <1>1, <1>2, <1>3, <1>4, RecordsChange

LEMMA DefaultsAreUsual ==
  /\ Len(Defaults) = 6 /\ DOMAIN Defaults = 1 .. 6
  /\ \A i \in 1 .. 6 : /\ Defaults[i][1] \in {"HOUR", "DOW", "ZONE"}
                       /\ Defaults[i][2] \in Nat /\ Defaults[i][3] \in Nat /\ Defaults[i][4] \in Nat
BY DEF Defaults

LEMMA SeedKeeps == TrafficInvariant /\ Seed => TrafficInvariant'
<1> SUFFICES ASSUME TrafficInvariant, Seed
             PROVE  TrafficInvariant'
  OBVIOUS
<1> DEFINE new == [i \in DOMAIN Defaults |-> LET d == Defaults[i] IN Factor(made + i, d[1], d[2], d[3], d[4], d[5], 0)]
<1>1. PICK F : factors \in Seq(FactorOf(F))
  BY DEF TrafficInvariant, TrafficTypes
<1>2. made \in Nat /\ made' = made + 6 /\ factors' = factors \o new
      /\ UNCHANGED <<clock, report, build, promised, disputed>>
  BY DefaultsAreUsual DEF Seed, TrafficInvariant, TrafficTypes
<1> DEFINE G == F \cup {Defaults[i][5] : i \in 1 .. 6}
<1>3. \A i \in 1 .. 6 : new[i] \in FactorOf(G) /\ new[i].id = made + i /\ new[i].until = 0
  <2> SUFFICES ASSUME NEW i \in 1 .. 6
               PROVE  new[i] \in FactorOf(G) /\ new[i].id = made + i /\ new[i].until = 0
    OBVIOUS
  <2>1. new[i] = [id |-> made + i, scope |-> Defaults[i][1], at |-> Defaults[i][2], from |-> Defaults[i][3],
                  to |-> Defaults[i][4], factor |-> Defaults[i][5], until |-> 0]
    BY DefaultsAreUsual DEF Factor
  <2>2. Defaults[i][5] \in G /\ made + i \in Nat
    BY <1>2
  <2> HIDE DEF new, G
  <2> QED
    BY <2>1, <2>2, DefaultsAreUsual DEF FactorOf
<1>4. new \in Seq(FactorOf(G)) /\ Len(new) = 6 /\ DOMAIN new = 1 .. 6
  <2>1. DOMAIN new = 1 .. 6 /\ new = [i \in 1 .. 6 |-> new[i]]
    BY DefaultsAreUsual
  <2> HIDE DEF new, G
  <2> QED
    BY <1>3, <2>1
<1> HIDE DEF new
<1>5. factors \in Seq(FactorOf(G))
  BY <1>1, LongerSeq
<1> HIDE DEF G
<1>6. /\ factors' \in Seq(FactorOf(G)) /\ Len(factors') = Len(factors) + 6 /\ Len(factors) \in Nat
      /\ DOMAIN factors = 1 .. Len(factors) /\ DOMAIN factors' = 1 .. Len(factors')
      /\ \A i \in 1 .. Len(factors) : factors'[i] = factors[i]
      /\ \A i \in 1 .. Len(factors) + 6 : i > Len(factors) => factors'[i] = new[i - Len(factors)]
  <2>1. PICK old \in Seq(FactorOf(G)) : old = factors
    BY <1>5
  <2>2. PICK more \in Seq(FactorOf(G)) : more = new
    BY <1>4
  <2>3. /\ old \o more \in Seq(FactorOf(G)) /\ Len(old \o more) = Len(old) + Len(more) /\ Len(old) \in Nat
        /\ \A i \in 1 .. Len(old) + Len(more) :
              (old \o more)[i] = IF i <= Len(old) THEN old[i] ELSE more[i - Len(old)]
    BY ConcatProperties
  <2>4. DOMAIN old = 1 .. Len(old) /\ DOMAIN (old \o more) = 1 .. Len(old \o more)
    BY <2>3
  <2>5. factors' = old \o more /\ Len(more) = 6
    BY <1>2, <1>4, <2>1, <2>2
  <2> QED
    BY <2>1, <2>2, <2>3, <2>4, <2>5
<1>7. \A i \in DOMAIN factors : factors[i].id \in 1 .. made /\ factors[i].until \in Nat
  BY RecordTypes DEF TrafficInvariant, FactorIds
<1>8. \A i \in DOMAIN factors' : i \notin DOMAIN factors =>
          factors'[i].id = made + (i - Len(factors)) /\ i - Len(factors) \in 1 .. 6 /\ factors'[i].until = 0
  BY <1>3, <1>6
<1>9. \A z \in Zones : Kept(z)
  <2> SUFFICES ASSUME NEW z \in Zones, NEW j \in DOMAIN factors, factors[j].at = z
               PROVE  \E i \in DOMAIN factors' : factors'[i].at = z /\ factors'[i].until >= factors[j].until
    BY DEF Kept
  <2>1. j \in DOMAIN factors' /\ factors'[j] = factors[j] /\ factors[j].until \in Nat
    BY <1>6, <1>7
  <2> QED
    BY <2>1
<1>10. ASSUME NEW i \in DOMAIN factors'
       PROVE  \/ \E j \in DOMAIN factors : Same(factors'[i], factors[j]) /\ factors'[i].until = factors[j].until
              \/ /\ factors'[i].id \in made + 1 .. made' /\ factors'[i].until = 0
                 /\ \A k \in DOMAIN factors' : factors'[i].id = factors'[k].id => factors'[i].at = factors'[k].at
  <2>1. CASE i \in DOMAIN factors
    BY <1>6, <2>1 DEF Same
  <2>2. CASE i \notin DOMAIN factors
    <3>1. \A k \in DOMAIN factors' : factors'[i].id = factors'[k].id => k = i
      <4> SUFFICES ASSUME NEW k \in DOMAIN factors', factors'[i].id = factors'[k].id PROVE k = i
        OBVIOUS
      <4>1. CASE k \in DOMAIN factors
        BY <1>2, <1>6, <1>7, <1>8, <2>2, <4>1
      <4>2. CASE k \notin DOMAIN factors
        BY <1>2, <1>6, <1>8, <2>2, <4>2
      <4> QED
        BY <4>1, <4>2
    <3>2. factors'[i].id \in made + 1 .. made' /\ factors'[i].until = 0
      <4>1. PICK d \in 1 .. 6 : d = i - Len(factors) /\ factors'[i].id = made + d /\ factors'[i].until = 0
        BY <1>8, <2>2
      <4> QED
        BY <1>2, <4>1
    <3> QED
      BY <3>1, <3>2
  <2> QED
    BY <2>1, <2>2
<1>11. made' \in Nat /\ made <= made' /\ \E H : factors' \in Seq(FactorOf(H))
  BY <1>2, <1>6
<1> QED
  BY <1>2, <1>9, <1>10, <1>11, JobWrites

LEMMA LearnKeeps == TrafficInvariant /\ RecomputeFromHistory => TrafficInvariant'
<1> SUFFICES ASSUME TrafficInvariant, RecomputeFromHistory
             PROVE  TrafficInvariant'
  OBVIOUS
<1>1. PICK seen \in [Hours -> Histories] :
          factors' = [i \in DOMAIN factors |->
             IF factors[i].scope = "HOUR" /\ Len(seen[factors[i].at]) >= 3
             THEN [factors[i] EXCEPT !.factor = Average(@, UpperQuartile(seen[factors[i].at]))]
             ELSE factors[i]]
  BY DEF RecomputeFromHistory
<1>2. made' = made /\ UNCHANGED <<clock, report, build, promised, disputed>> /\ made \in Nat
  BY DEF RecomputeFromHistory, TrafficInvariant, TrafficTypes
<1>3. PICK F : factors \in Seq(FactorOf(F))
  BY DEF TrafficInvariant, TrafficTypes
<1> DEFINE G == F \cup {Average(factors[i].factor, UpperQuartile(seen[factors[i].at])) : i \in DOMAIN factors}
<1>4. DOMAIN factors' = DOMAIN factors
  BY <1>1
<1>5. ASSUME NEW i \in DOMAIN factors
      PROVE  factors'[i] \in FactorOf(G) /\ Same(factors'[i], factors[i]) /\ factors'[i].until = factors[i].until
  <2>1. factors[i] \in FactorOf(F)
    BY <1>3
  <2>2. PICK new \in G : new = Average(factors[i].factor, UpperQuartile(seen[factors[i].at]))
    OBVIOUS
  <2>3. factors'[i] = factors[i] \/ factors'[i] = [factors[i] EXCEPT !.factor = new]
    BY <1>1, <2>2
  <2>4. F \subseteq G
    OBVIOUS
  <2> HIDE DEF G
  <2> QED
    BY <2>1, <2>2, <2>3, <2>4 DEF FactorOf, Same
<1> HIDE DEF G
<1>6. factors' \in Seq(FactorOf(G))
  <2>1. DOMAIN factors = 1 .. Len(factors) /\ Len(factors) \in Nat
    BY <1>3
  <2>2. factors' = [i \in 1 .. Len(factors) |-> factors'[i]]
    BY <1>1, <2>1
  <2> QED
    BY <1>5, <2>1, <2>2
<1>7. \A z \in Zones : Kept(z)
  <2> SUFFICES ASSUME NEW z \in Zones, NEW j \in DOMAIN factors, factors[j].at = z
               PROVE  \E i \in DOMAIN factors' : factors'[i].at = z /\ factors'[i].until >= factors[j].until
    BY DEF Kept
  <2>1. factors[j].until \in Nat
    BY RecordTypes DEF TrafficInvariant
  <2> QED
    BY <1>4, <1>5, <2>1 DEF Same
<1>8. made' \in Nat /\ made <= made' /\ \E H : factors' \in Seq(FactorOf(H))
  BY <1>2, <1>6
<1>9. \A i \in DOMAIN factors' : \E j \in DOMAIN factors :
          Same(factors'[i], factors[j]) /\ factors'[i].until = factors[j].until
  BY <1>4, <1>5
<1> QED
  BY <1>2, <1>7, <1>8, <1>9, JobWrites

LEMMA PurgeKeeps == TrafficInvariant /\ BuildPurges => TrafficInvariant'
<1> SUFFICES ASSUME TrafficInvariant, BuildPurges
             PROVE  TrafficInvariant'
  OBVIOUS
<1>1. /\ factors' = Remaining(factors) /\ build' = [at |-> "reading", cut |-> clock, table |-> <<>>]
      /\ made' = made /\ clock' = clock /\ report' = report /\ promised' = promised /\ disputed' = disputed
  BY DEF BuildPurges, NoTable
<1>2. PICK F : factors \in Seq(FactorOf(F))
  BY DEF TrafficInvariant, TrafficTypes
<1>3. factors' \in Seq(FactorOf(F)) /\ LeftOf(factors', factors, Len(factors)) /\ DOMAIN factors = 1 .. Len(factors)
  BY <1>1, <1>2, RemainingFacts
<1>4. \A j \in DOMAIN factors : factors[j].until \in Nat /\ clock \in Nat
  BY RecordTypes DEF TrafficInvariant, TrafficTypes
<1>5. \A i \in DOMAIN factors' : \E j \in DOMAIN factors : factors'[i] = factors[j] /\ InForce(factors[j])
  BY <1>3 DEF LeftOf
<1>6. \A i \in DOMAIN factors' : \E j \in DOMAIN factors : Same(factors'[i], factors[j])
  BY <1>5 DEF Same
<1>7. \A z \in Zones : promised'[z] = promised[z] /\ Kept(z)
  <2> SUFFICES ASSUME NEW z \in Zones, NEW j \in DOMAIN factors, factors[j].at = z, factors[j].until >= clock
               PROVE  \E i \in DOMAIN factors' : factors'[i].at = z /\ factors'[i].until >= factors[j].until
    BY <1>1 DEF Kept
  <2>1. InForce(factors[j])
    BY DEF InForce
  <2>2. PICK i \in DOMAIN factors' : factors'[i] = factors[j]
    BY <1>3, <2>1 DEF LeftOf
  <2> QED
    BY <1>4, <2>2
<1>8. TableIsFresh'
  <2>1. build'.cut = clock /\ build'.table = <<>> /\ clock \in Nat
    BY <1>1 DEF TrafficInvariant, TrafficTypes
  <2>2. ASSUME NEW i \in DOMAIN factors', factors'[i].until > 0
        PROVE  factors'[i].until >= clock
    BY <1>5, <2>2 DEF InForce, Temporary
  <2>3. DOMAIN build'.table = {}
    BY <2>1
  <2> QED
    BY <1>1, <2>1, <2>2, <2>3 DEF TableIsFresh
<1>9. build'.cut \in Nat
  BY <1>1 DEF TrafficInvariant, TrafficTypes
<1>10. \E at, cut, table : build' = [at |-> at, cut |-> cut, table |-> table]
  BY <1>1
<1>11. report' \in [Reports -> JamReports] /\ promised' \in [Zones -> Nat] /\ made' \in Nat /\ made <= made'
       /\ \A r \in Reports : report'[r] = report[r]
  BY <1>1 DEF TrafficInvariant, TrafficTypes
<1>12. (\E H : factors' \in Seq(FactorOf(H))) /\ disputed \subseteq disputed'
  BY <1>1, <1>3
<1> QED
  BY <1>1, <1>6, <1>7, <1>8, <1>9, <1>10, <1>11, <1>12, RecordsChange

LEMMA TickKeeps == TrafficInvariant /\ TickClock => TrafficInvariant'
<1> SUFFICES ASSUME TrafficInvariant, TickClock
             PROVE  TrafficInvariant'
  OBVIOUS
<1>1. /\ clock' = clock + 1 /\ \A r \in Reports : report[r].at = "idle" \/ report[r].until > clock + 1
      /\ factors' = factors /\ made' = made /\ report' = report /\ build' = build /\ promised' = promised
      /\ disputed \subseteq disputed'
  BY DEF TickClock
<1>2. clock \in Nat /\ Ttl \in Nat /\ promised \in [Zones -> Nat] /\ report \in [Reports -> JamReports] /\ build.cut \in Nat
  BY TrafficAssumption DEF TrafficInvariant, TrafficTypes
<1>3. TrafficTypes'
  <2>1. (\E F : factors' \in Seq(FactorOf(F))) /\ \E at, cut, table : build' = [at |-> at, cut |-> cut, table |-> table]
    BY <1>1 DEF TrafficInvariant, TrafficTypes
  <2>2. clock' \in Nat /\ clock' > 0 /\ made' \in Nat /\ build'.cut \in Nat
    BY <1>1, <1>2 DEF TrafficInvariant, TrafficTypes
  <2>3. report' \in [Reports -> JamReports] /\ promised' \in [Zones -> Nat]
    BY <1>1, <1>2
  <2> QED
    BY <2>1, <2>2, <2>3 DEF TrafficTypes
<1>4. FactorIds'
  BY <1>1 DEF TrafficInvariant, FactorIds
<1>5. ReportsFollow'
  <2> SUFFICES ASSUME NEW r \in Reports, report[r].at # "idle"
               PROVE  report[r].zone \in Zones /\ report[r].until \in clock' .. clock' + Ttl /\ Finds(r)' /\ Alone(r)'
    BY <1>1 DEF ReportsFollow
  <2>1. report[r].zone \in Zones /\ report[r].until \in clock .. clock + Ttl /\ Finds(r) /\ Alone(r)
    BY DEF TrafficInvariant, ReportsFollow
  <2>2. Finds(r)'
    BY <1>1, <2>1 DEF Finds
  <2>3. Alone(r)'
    BY <1>1, <2>1 DEF Alone
  <2>4. report[r].until \in clock' .. clock' + Ttl
    BY <1>1, <1>2, <2>1
  <2> QED
    BY <2>1, <2>2, <2>3, <2>4
<1>6. PromisesHold'
  <2> SUFFICES ASSUME NEW z \in Zones
               PROVE  /\ promised[z] <= clock' + Ttl
                      /\ z \notin disputed' /\ promised[z] > clock' =>
                            \E i \in DOMAIN factors : factors[i].at = z /\ factors[i].until >= promised[z]
    BY <1>1 DEF PromisesHold
  <2>1. /\ promised[z] <= clock + Ttl
        /\ z \notin disputed /\ promised[z] > clock =>
              \E i \in DOMAIN factors : factors[i].at = z /\ factors[i].until >= promised[z]
    BY DEF TrafficInvariant, PromisesHold
  <2>2. promised[z] \in Nat
    BY <1>2
  <2> QED
    BY <1>1, <1>2, <2>1, <2>2
<1>7. TableIsFresh'
  BY <1>1, <1>2 DEF TrafficInvariant, TableIsFresh
<1> QED
  BY <1>3, <1>4, <1>5, <1>6, <1>7 DEF TrafficInvariant

-----------------------------------------------------------------------------
(* The steps of a report.                                                  *)

\* Of some records of jams one has the least number.
LEMMA OldestJam ==
  ASSUME TrafficInvariant, NEW known, known \subseteq ToSet(factors), known # {}
  PROVE  (CHOOSE f \in known : \A g \in known : f.id <= g.id) \in known
<1> DEFINE numbers == {f.id : f \in known}
<1>1. \A f \in known : f.id \in 1 .. made
  BY DEF ToSet, TrafficInvariant, FactorIds
<1>2. numbers \subseteq 1 .. made /\ numbers # {} /\ made \in Nat
  BY <1>1 DEF TrafficInvariant, TrafficTypes
<1> HIDE DEF numbers
<1>3. PICK n \in numbers : \A m \in numbers : n <= m
  BY <1>2, LeastMember
<1>4. \E f \in known : \A g \in known : f.id <= g.id
  BY <1>3 DEF numbers
<1> QED
  BY <1>4

LEMMA LooksKeeps ==
  ASSUME TrafficInvariant, NEW r \in Reports, NEW z \in Jammed, ReportLooks(r, z)
  PROVE  TrafficInvariant'
<1> DEFINE known == {f \in Jams(z) : f.until > clock}
           oldest == CHOOSE f \in known : \A g \in known : f.id <= g.id
<1>1. /\ report[r].at = "idle"
      /\ report' = [report EXCEPT ![r] = [at |-> IF known = {} THEN "create" ELSE "refresh", zone |-> z,
                                          until |-> clock + Ttl, id |-> IF known = {} THEN 0 ELSE oldest.id]]
      /\ disputed' = IF Reporting(z) = {} THEN disputed ELSE disputed \cup {z}
      /\ factors' = factors /\ made' = made /\ clock' = clock /\ build' = build /\ promised' = promised
  BY DEF ReportLooks
<1>2. z \in Zones /\ clock \in Nat /\ Ttl \in Nat /\ z \in Nat
  BY TrafficAssumption DEF Zones, TrafficInvariant, TrafficTypes
<1>3. promised \in [Zones -> Nat] /\ report \in [Reports -> JamReports] /\ made \in Nat
  BY DEF TrafficInvariant, TrafficTypes
<1>4. known # {} => \E i \in DOMAIN factors : oldest = factors[i] /\ factors[i].at = z
  <2> SUFFICES ASSUME known # {} PROVE \E i \in DOMAIN factors : oldest = factors[i] /\ factors[i].at = z
    OBVIOUS
  <2>1. known \subseteq ToSet(factors) /\ \A f \in known : f.at = z
    BY DEF Jams
  <2>2. oldest \in known
    <3> HIDE DEF known
    <3> QED
      BY <2>1, OldestJam
  <2> HIDE DEF oldest, known
  <2> QED
    BY <2>1, <2>2 DEF ToSet
<1>5. known # {} => /\ oldest.id \in 1 .. made
                    /\ \A i \in DOMAIN factors : factors[i].id = oldest.id => factors[i].at = z
  <2> HIDE DEF oldest, known
  <2> QED
    BY <1>4 DEF TrafficInvariant, FactorIds
<1>6. PICK at \in {"create", "refresh"}, id \in Nat :
          /\ at = (IF known = {} THEN "create" ELSE "refresh") /\ id = (IF known = {} THEN 0 ELSE oldest.id)
  <2> HIDE DEF oldest, known
  <2> QED
    BY <1>3, <1>5
<1>7. at = "refresh" => id \in 1 .. made /\ \A i \in DOMAIN factors : factors[i].id = id => factors[i].at = z
  <2> HIDE DEF oldest, known
  <2> QED
    BY <1>5, <1>6
<1>8. report' = [report EXCEPT ![r] = [at |-> at, zone |-> z, until |-> clock + Ttl, id |-> id]]
  <2> HIDE DEF oldest, known
  <2> QED
    BY <1>1, <1>6
<1> HIDE DEF oldest, known
<1>9. [at |-> at, zone |-> z, until |-> clock + Ttl, id |-> id] \in JamReports
  BY <1>2 DEF JamReports
<1>10. /\ report' \in [Reports -> JamReports] /\ \A q \in Reports : q # r => report'[q] = report[q]
       /\ report'[r].at = at /\ report'[r].zone = z /\ report'[r].until = clock + Ttl /\ report'[r].id = id
  BY <1>3, <1>8, <1>9
<1>11. TrafficTypes'
  <2>1. (\E F : factors' \in Seq(FactorOf(F))) /\ \E c, cut, table : build' = [at |-> c, cut |-> cut, table |-> table]
    BY <1>1 DEF TrafficInvariant, TrafficTypes
  <2>2. clock' \in Nat /\ clock' > 0 /\ made' \in Nat /\ build'.cut \in Nat
    BY <1>1 DEF TrafficInvariant, TrafficTypes
  <2>3. report' \in [Reports -> JamReports] /\ promised' \in [Zones -> Nat]
    BY <1>1, <1>3, <1>10
  <2> QED
    BY <2>1, <2>2, <2>3 DEF TrafficTypes
<1>12. FactorIds' /\ TableIsFresh'
  BY <1>1 DEF TrafficInvariant, FactorIds, TableIsFresh
<1>13. PromisesHold'
  BY <1>1 DEF TrafficInvariant, PromisesHold
<1>14. ReportsFollow'
  <2> SUFFICES ASSUME NEW q \in Reports, report'[q].at # "idle"
               PROVE  /\ report'[q].zone \in Zones /\ report'[q].until \in clock .. clock + Ttl
                      /\ Finds(q)' /\ Alone(q)'
    BY <1>1 DEF ReportsFollow
  <2>1. CASE q = r
    <3>1. report'[r].zone \in Zones /\ report'[r].until \in clock .. clock + Ttl
      BY <1>2, <1>10
    <3>2. Finds(r)'
      BY <1>1, <1>7, <1>10 DEF Finds
    <3>3. Alone(r)'
      <4> SUFFICES ASSUME z \notin disputed'
                   PROVE  /\ promised[z] <= clock + Ttl
                          /\ \A p \in Reports : report'[p].at # "idle" /\ report'[p].zone = z => p = r
        BY <1>1, <1>10 DEF Alone
      <4>1. Reporting(z) = {}
        BY <1>1
      <4>2. promised[z] <= clock + Ttl
        BY <1>2 DEF TrafficInvariant, PromisesHold
      <4> QED
        BY <1>10, <4>1, <4>2 DEF Reporting
    <3> QED
      BY <2>1, <3>1, <3>2, <3>3
  <2>2. CASE q # r
    <3>1. report'[q] = report[q]
      BY <1>10, <2>2
    <3>2. report[q].zone \in Zones /\ report[q].until \in clock .. clock + Ttl /\ Finds(q) /\ Alone(q)
      BY <3>1 DEF TrafficInvariant, ReportsFollow
    <3>3. Finds(q)'
      BY <1>1, <3>1, <3>2 DEF Finds
    <3>4. Alone(q)'
      <4> SUFFICES ASSUME report[q].zone \notin disputed'
                   PROVE  /\ promised[report[q].zone] <= report[q].until
                          /\ \A p \in Reports : report'[p].at # "idle" /\ report'[p].zone = report[q].zone => p = q
        BY <1>1, <3>1 DEF Alone
      <4>1. report[q].zone \notin disputed /\ report[q].zone # z
        <5>1. report[q].zone = z => q \in Reporting(z)
          BY <3>1 DEF Reporting
        <5> QED
          BY <1>1, <5>1
      <4> QED
        BY <1>10, <3>2, <4>1 DEF Alone
    <3> QED
      BY <3>1, <3>2, <3>3, <3>4
  <2> QED
    BY <2>1, <2>2
<1> QED
  BY <1>11, <1>12, <1>13, <1>14 DEF TrafficInvariant

LEMMA FailsKeeps ==
  ASSUME TrafficInvariant, NEW r \in Reports, ReportFails(r)
  PROVE  TrafficInvariant'
<1>1. /\ factors' = factors /\ made' = made /\ clock' = clock /\ build' = build /\ promised' = promised
      /\ disputed \subseteq disputed' /\ report' = [report EXCEPT ![r] = NotReporting]
  BY DEF ReportFails
<1>2. report' \in [Reports -> JamReports] /\ \A q \in Reports : report'[q] = report[q] \/ report'[q].at = "idle"
  BY <1>1, NoReportIsIdle DEF TrafficInvariant, TrafficTypes
<1>3. /\ \E F : factors' \in Seq(FactorOf(F))
      /\ \A i \in DOMAIN factors' : \E j \in DOMAIN factors : Same(factors'[i], factors[j])
      /\ \A z \in Zones : promised'[z] = promised[z] /\ Kept(z)
  BY <1>1, RecordsStay
<1>4. promised' \in [Zones -> Nat] /\ made' \in Nat /\ made <= made' /\ build'.cut \in Nat
  BY <1>1 DEF TrafficInvariant, TrafficTypes
<1>5. \E at, cut, table : build' = [at |-> at, cut |-> cut, table |-> table]
  BY <1>1 DEF TrafficInvariant, TrafficTypes
<1>6. TableIsFresh'
  BY <1>1 DEF TrafficInvariant, TableIsFresh
<1> QED
  BY <1>1, <1>2, <1>3, <1>4, <1>5, <1>6, RecordsChange

\* The promises of an answered report that has its jam in the records.
LEMMA AnswerSettles ==
  ASSUME TrafficInvariant, NEW r \in Reports, report[r].at # "idle", Answered(r),
         clock' = clock, disputed' = disputed,
         report[r].zone \notin disputed =>
             \E i \in DOMAIN factors' : factors'[i].at = report[r].zone /\ factors'[i].until >= report[r].until
  PROVE  /\ report' \in [Reports -> JamReports] /\ \A q \in Reports : report'[q] = report[q] \/ report'[q].at = "idle"
         /\ promised' \in [Zones -> Nat]
         /\ \A z \in Zones : IF z = report[r].zone THEN InRecords(z)' ELSE promised'[z] = promised[z]
<1> DEFINE z == report[r].zone
           until == report[r].until
<1>1. promised \in [Zones -> Nat] /\ report \in [Reports -> JamReports] /\ clock \in Nat /\ Ttl \in Nat
  BY TrafficAssumption DEF TrafficInvariant, TrafficTypes
<1>2. z \in Zones /\ until \in clock .. clock + Ttl /\ Alone(r)
  BY DEF TrafficInvariant, ReportsFollow
<1>3. until \in Nat /\ promised[z] \in Nat /\ promised[z] <= clock + Ttl
  BY <1>1, <1>2 DEF TrafficInvariant, PromisesHold
<1>4. /\ report' = [report EXCEPT ![r] = NotReporting]
      /\ promised' = [promised EXCEPT ![z] = IF promised[z] > until THEN promised[z] ELSE until]
  BY DEF Answered
<1>5. report'[r].at = "idle" /\ \A q \in Reports : q # r => report'[q] = report[q]
  BY <1>1, <1>4, NoReportIsIdle
<1>6. report' \in [Reports -> JamReports]
  BY <1>1, <1>4, NoReportIsIdle
<1> HIDE DEF z, until
<1>7. /\ promised'[z] = (IF promised[z] > until THEN promised[z] ELSE until)
      /\ promised' \in [Zones -> Nat] /\ \A y \in Zones : y # z => promised'[y] = promised[y]
  BY <1>1, <1>2, <1>3, <1>4
<1>8. promised'[z] <= clock + Ttl
  BY <1>1, <1>2, <1>3, <1>7
<1>9. ASSUME z \notin disputed
      PROVE  /\ promised'[z] = until /\ \A q \in Reports : report'[q].at # "idle" => report'[q].zone # z
             /\ \E i \in DOMAIN factors' : factors'[i].at = z /\ factors'[i].until >= until
  <2>1. promised[z] <= until /\ \A q \in Reports : report[q].at # "idle" /\ report[q].zone = z => q = r
    BY <1>2, <1>9 DEF Alone, z, until
  <2>2. promised'[z] = until
    BY <1>3, <1>7, <2>1
  <2>3. \A q \in Reports : report'[q].at # "idle" => report'[q].zone # z
    BY <1>5, <2>1
  <2>4. \E i \in DOMAIN factors' : factors'[i].at = z /\ factors'[i].until >= until
    BY <1>9 DEF z, until
  <2> QED
    BY <2>2, <2>3, <2>4
<1>10. ASSUME NEW y \in Zones, y = z PROVE InRecords(y)'
  BY <1>8, <1>9, <1>10 DEF InRecords
<1>11. \A y \in Zones : IF y = z THEN InRecords(y)' ELSE promised'[y] = promised[y]
  BY <1>7, <1>10
<1>12. \A q \in Reports : report'[q] = report[q] \/ report'[q].at = "idle"
  BY <1>5
<1> QED
  BY <1>6, <1>7, <1>11, <1>12 DEF z

LEMMA CreatesKeeps ==
  ASSUME TrafficInvariant, NEW r \in Reports, ReportCreates(r)
  PROVE  TrafficInvariant'
<1> DEFINE z == report[r].zone
           until == report[r].until
           new == Factor(made + 1, "ZONE", z, 0, 9999, JamFactor, until)
<1>1. /\ report[r].at = "create" /\ factors' = Append(factors, new) /\ made' = made + 1 /\ Answered(r)
      /\ clock' = clock /\ build' = build /\ disputed' = disputed
  BY DEF ReportCreates
<1>2. PICK F : factors \in Seq(FactorOf(F))
  BY DEF TrafficInvariant, TrafficTypes
<1>3. made \in Nat /\ clock \in Nat /\ build.cut \in Nat /\ z \in Nat /\ until \in Nat /\ until >= clock
  <2>1. made \in Nat /\ clock \in Nat /\ build.cut \in Nat /\ Ttl \in Nat
    BY TrafficAssumption DEF TrafficInvariant, TrafficTypes
  <2>2. z \in Zones /\ until \in clock .. clock + Ttl
    BY <1>1 DEF TrafficInvariant, ReportsFollow
  <2>3. z \in Nat
    BY <2>2 DEF Zones
  <2> HIDE DEF z, until
  <2> QED
    BY <2>1, <2>2, <2>3
<1> DEFINE G == F \cup {JamFactor}
<1>4. new \in FactorOf(G) /\ new.id = made + 1 /\ new.at = z /\ new.until = until
  <2> HIDE DEF z, until
  <2> QED
    BY <1>3 DEF Factor, FactorOf
<1>5. factors \in Seq(FactorOf(G))
  BY <1>2, LongerSeq
<1> HIDE DEF new, G, z, until
<1>6. /\ factors' \in Seq(FactorOf(G)) /\ Len(factors) \in Nat
      /\ DOMAIN factors = 1 .. Len(factors) /\ DOMAIN factors' = 1 .. Len(factors) + 1
      /\ \A i \in 1 .. Len(factors) : factors'[i] = factors[i]
      /\ factors'[Len(factors) + 1] = new
  BY <1>1, <1>4, <1>5
<1>7. \A i \in DOMAIN factors : factors[i].id \in 1 .. made /\ factors[i].until \in Nat
  BY RecordTypes DEF TrafficInvariant, FactorIds
<1>8. \E i \in DOMAIN factors' : factors'[i].at = report[r].zone /\ factors'[i].until >= report[r].until
  BY <1>3, <1>4, <1>6 DEF z, until
<1>9. /\ report' \in [Reports -> JamReports] /\ \A q \in Reports : report'[q] = report[q] \/ report'[q].at = "idle"
      /\ promised' \in [Zones -> Nat]
      /\ \A y \in Zones : IF y = report[r].zone THEN InRecords(y)' ELSE promised'[y] = promised[y]
  BY <1>1, <1>8, AnswerSettles
<1>10. \A y \in Zones : (promised'[y] = promised[y] /\ Kept(y)) \/ InRecords(y)'
  <2> SUFFICES ASSUME NEW y \in Zones, y # report[r].zone
               PROVE  promised'[y] = promised[y] /\ Kept(y)
    BY <1>9
  <2>1. \A j \in DOMAIN factors : j \in DOMAIN factors' /\ factors'[j] = factors[j]
    BY <1>6
  <2> QED
    BY <1>7, <1>9, <2>1 DEF Kept
<1>11. ASSUME NEW i \in DOMAIN factors'
       PROVE  \/ \E j \in DOMAIN factors : Same(factors'[i], factors[j])
              \/ factors'[i].id \in made + 1 .. made'
                 /\ \A k \in DOMAIN factors' : factors'[i].id = factors'[k].id => factors'[i].at = factors'[k].at
  <2>1. CASE i \in DOMAIN factors
    BY <1>6, <2>1 DEF Same
  <2>2. CASE i \notin DOMAIN factors
    <3>1. i = Len(factors) + 1 /\ factors'[i].id = made + 1
      BY <1>4, <1>6, <2>2
    <3>2. \A k \in DOMAIN factors' : factors'[i].id = factors'[k].id => k = i
      BY <1>3, <1>6, <1>7, <3>1
    <3>3. factors'[i].id \in made + 1 .. made'
      BY <1>1, <1>3, <3>1
    <3> QED
      BY <3>2, <3>3
  <2> QED
    BY <2>1, <2>2
<1>12. TableIsFresh'
  <2>1. \A i \in DOMAIN factors' : (i \in DOMAIN factors /\ factors'[i] = factors[i]) \/ factors'[i].until = until
    BY <1>4, <1>6
  <2>2. TableIsFresh /\ build.cut <= clock
    BY DEF TrafficInvariant, TableIsFresh
  <2>3. until >= build.cut
    BY <1>3, <2>2
  <2> QED
    BY <1>1, <2>1, <2>2, <2>3 DEF TableIsFresh
<1>13. (\E H : factors' \in Seq(FactorOf(H))) /\ \E at, cut, table : build' = [at |-> at, cut |-> cut, table |-> table]
  BY <1>1, <1>6 DEF TrafficInvariant, TrafficTypes
<1>14. made' \in Nat /\ made <= made' /\ build'.cut \in Nat /\ disputed \subseteq disputed'
  BY <1>1, <1>3
<1> QED
  BY <1>1, <1>9, <1>10, <1>11, <1>12, <1>13, <1>14, RecordsChange

LEMMA RefreshesKeeps ==
  ASSUME TrafficInvariant, NEW r \in Reports, ReportRefreshes(r)
  PROVE  TrafficInvariant'
<1> DEFINE z == report[r].zone
           until == report[r].until
           id == report[r].id
<1>1. /\ report[r].at = "refresh" /\ Answered(r) /\ \E i \in DOMAIN factors : factors[i].id = id
      /\ factors' = [i \in DOMAIN factors |-> IF factors[i].id = id THEN Extended(factors[i], until) ELSE factors[i]]
      /\ made' = made /\ clock' = clock /\ build' = build /\ disputed' = disputed
  BY DEF ReportRefreshes, IsStored
<1>2. PICK F : factors \in Seq(FactorOf(F))
  BY DEF TrafficInvariant, TrafficTypes
<1>3. /\ made \in Nat /\ clock \in Nat /\ build.cut \in Nat /\ until \in Nat /\ until >= clock
      /\ \A i \in DOMAIN factors : factors[i].id = id => factors[i].at = z
  BY <1>1 DEF TrafficInvariant, TrafficTypes, ReportsFollow, Finds
<1> DEFINE G == F \cup {JamFactor}
<1> HIDE DEF z, until, id
<1>4. ASSUME NEW i \in DOMAIN factors
      PROVE  /\ factors'[i] \in FactorOf(G) /\ Same(factors'[i], factors[i])
             /\ factors[i].id = id => factors'[i].until = until
             /\ factors[i].id # id => factors'[i] = factors[i]
  <2>1. factors[i] \in FactorOf(F) /\ F \subseteq G
    BY <1>2
  <2>2. CASE factors[i].id # id
    <3>1. factors'[i] = factors[i]
      BY <1>1, <2>2
    <3> QED
      BY <2>1, <2>2, <3>1 DEF FactorOf, Same
  <2>3. CASE factors[i].id = id
    <3>1. PICK f \in G : f = (IF factors[i].factor > JamFactor THEN factors[i].factor ELSE JamFactor)
      BY <2>1 DEF FactorOf
    <3>2. factors'[i] = [factors[i] EXCEPT !.factor = f, !.until = until]
      BY <1>1, <2>3, <3>1 DEF Extended
    <3> HIDE DEF G
    <3> QED
      BY <1>3, <2>1, <2>3, <3>2 DEF FactorOf, Same
  <2> QED
    BY <2>2, <2>3
<1> HIDE DEF G
<1>5. DOMAIN factors' = DOMAIN factors /\ factors' \in Seq(FactorOf(G))
  <2>1. DOMAIN factors = 1 .. Len(factors) /\ Len(factors) \in Nat /\ DOMAIN factors' = DOMAIN factors
    BY <1>1, <1>2
  <2>2. factors' = [i \in 1 .. Len(factors) |-> factors'[i]]
    BY <1>1, <2>1
  <2> QED
    BY <1>4, <2>1, <2>2
<1>6. \A i \in DOMAIN factors : factors[i].until \in Nat
  BY RecordTypes DEF TrafficInvariant
<1>7. \E i \in DOMAIN factors' : factors'[i].at = report[r].zone /\ factors'[i].until >= report[r].until
  <2>1. PICK i \in DOMAIN factors : factors[i].id = id
    BY <1>1
  <2>2. factors'[i].at = z /\ factors'[i].until = until
    BY <1>3, <1>4, <2>1 DEF Same
  <2> QED
    BY <1>3, <1>5, <2>2 DEF z, until
<1>8. /\ report' \in [Reports -> JamReports] /\ \A q \in Reports : report'[q] = report[q] \/ report'[q].at = "idle"
      /\ promised' \in [Zones -> Nat]
      /\ \A y \in Zones : IF y = report[r].zone THEN InRecords(y)' ELSE promised'[y] = promised[y]
  BY <1>1, <1>7, AnswerSettles
<1>9. \A y \in Zones : (promised'[y] = promised[y] /\ Kept(y)) \/ InRecords(y)'
  <2> SUFFICES ASSUME NEW y \in Zones, y # z
               PROVE  promised'[y] = promised[y] /\ Kept(y)
    BY <1>8 DEF z
  <2>1. ASSUME NEW j \in DOMAIN factors, factors[j].at = y
        PROVE  j \in DOMAIN factors' /\ factors'[j] = factors[j] /\ factors[j].until \in Nat
    BY <1>3, <1>4, <1>5, <1>6, <2>1
  <2>2. Kept(y)
    BY <2>1 DEF Kept
  <2> QED
    BY <1>8, <2>2 DEF z
<1>10. \A i \in DOMAIN factors' : \E j \in DOMAIN factors : Same(factors'[i], factors[j])
  BY <1>4, <1>5
<1>11. TableIsFresh'
  <2>1. \A i \in DOMAIN factors' : i \in DOMAIN factors /\ (factors'[i] = factors[i] \/ factors'[i].until = until)
    BY <1>4, <1>5
  <2>2. TableIsFresh /\ build.cut <= clock
    BY DEF TrafficInvariant, TableIsFresh
  <2>3. until >= build.cut
    BY <1>3, <2>2
  <2> QED
    BY <1>1, <2>1, <2>2, <2>3 DEF TableIsFresh
<1>12. (\E H : factors' \in Seq(FactorOf(H))) /\ \E at, cut, table : build' = [at |-> at, cut |-> cut, table |-> table]
  BY <1>1, <1>5 DEF TrafficInvariant, TrafficTypes
<1>13. made' \in Nat /\ made <= made' /\ build'.cut \in Nat /\ disputed \subseteq disputed'
  BY <1>1, <1>3
<1> QED
  BY <1>1, <1>8, <1>9, <1>10, <1>11, <1>12, <1>13, RecordsChange

-----------------------------------------------------------------------------

LEMMA TrafficStep == TrafficInvariant /\ [TrafficNext]_traffic => TrafficInvariant'
<1> SUFFICES ASSUME TrafficInvariant, [TrafficNext]_traffic
             PROVE  TrafficInvariant'
  OBVIOUS
<1>1. ASSUME UNCHANGED traffic PROVE TrafficInvariant'
  <2>1. /\ factors' = factors /\ made' = made /\ clock' = clock /\ build' = build /\ promised' = promised
        /\ disputed' = disputed /\ report' = report
    BY <1>1 DEF traffic
  <2>2. TrafficTypes'
    BY <2>1 DEF TrafficInvariant, TrafficTypes
  <2>3. FactorIds' /\ PromisesHold' /\ TableIsFresh'
    BY <2>1 DEF TrafficInvariant, FactorIds, PromisesHold, TableIsFresh
  <2>4. ReportsFollow'
    BY <2>1 DEF TrafficInvariant, ReportsFollow, Finds, Alone
  <2> QED
    BY <2>2, <2>3, <2>4 DEF TrafficInvariant
<1>2. CASE CountRecords \/ NextDay \/ RestartJob \/ BuildReads \/ BuildDone
  BY <1>2, JobKeeps
<1>3. CASE Seed \/ RecomputeFromHistory \/ BuildPurges \/ TickClock
  BY <1>3, SeedKeeps, LearnKeeps, PurgeKeeps, TickKeeps
<1>4. ASSUME NEW r \in Reports, NEW z \in Jammed, ReportLooks(r, z) PROVE TrafficInvariant'
  BY <1>4, LooksKeeps
<1>5. ASSUME NEW r \in Reports, ReportCreates(r) \/ ReportRefreshes(r) \/ ReportFails(r) PROVE TrafficInvariant'
  BY <1>5, CreatesKeeps, RefreshesKeeps, FailsKeeps
<1> QED
  BY <1>1, <1>2, <1>3, <1>4, <1>5 DEF TrafficNext

\* An answered jam report (trafficFactorService.js:147) is in the records until its time is
\* over, unless reports of its zone overlapped or the jam it extended ended meanwhile, and
\* no table of a plan holds a jam that was over: for any number of reports, any life of a
\* jam and any history the job learns from.
THEOREM JamsLast == TrafficSpec => []JamsRunTheirTime
<1>1. TrafficSpec => []TrafficInvariant
  BY TrafficInitially, TrafficStep, PTL DEF TrafficSpec
<1> QED
  BY <1>1, JamsAreKept, PTL
=============================================================================
