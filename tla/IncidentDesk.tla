----------------------------- MODULE IncidentDesk -----------------------------
(***************************************************************************)
(* The incidents on the dispatchers' screens: the feed of                  *)
(* MonitoringPage.jsx, which polls the open and the acknowledged incidents *)
(* with two requests, and updateIncident of tripController.js.             *)
(*                                                                         *)
(* External: drivers report incidents (EtaCascade, LiveDeviation).         *)
(***************************************************************************)
EXTENDS Integers, FiniteSets

CONSTANTS Incidents, Desks, Clicks, NoOne,
          MaxUpdates  \* bound: calls that are made
ASSUME DeskAssumption == MaxUpdates \in Nat

Lists == {"OPEN", "ACKNOWLEDGED"}
Closed == {"RESOLVED", "DISMISSED"}

VARIABLES incident,   \* TripIncident: [status, acknowledged, resolved]
          feed,       \* of each desk: its two lists, each a set of incidents
          poll,       \* the answers under way: NoOne, or the set that was read
          click,      \* ackM calls: [desk, incident, status, served, unaware]
          updates,
          closedFor   \* history: of each incident, the desks that may not know it is closed

desk == <<incident, feed, poll, click, updates, closedFor>>

Unreported == [status |-> "none", acknowledged |-> FALSE, resolved |-> FALSE]
NoClick == [desk |-> NoOne, incident |-> NoOne, status |-> NoOne, served |-> FALSE, unaware |-> FALSE]

DeskInit ==
    /\ incident = [i \in Incidents |-> Unreported]
    /\ feed = [d \in Desks |-> [l \in Lists |-> {}]]
    /\ poll = [d \in Desks |-> [l \in Lists |-> NoOne]]
    /\ click = [c \in Clicks |-> NoClick]
    /\ updates = 0
    /\ closedFor = [i \in Incidents |-> {}]

Report(i) ==
    /\ incident[i] = Unreported
    /\ incident' = [incident EXCEPT ![i].status = "OPEN"]
    /\ UNCHANGED <<feed, poll, click, updates, closedFor>>

\* Mutant: the acknowledged list is not filtered.
ListedAll(l) == {i \in Incidents : incident[i].status = l \/ (l = "ACKNOWLEDGED" /\ incident[i].acknowledged)}

\* listIncidents with a status.
Listed(l) == {i \in Incidents : incident[i].status = l}

\* refetchInterval 4000, each list on its own.
PollRead(d, l) ==
    /\ poll[d][l] = NoOne
    /\ poll' = [poll EXCEPT ![d][l] = Listed(l)]
    /\ UNCHANGED <<incident, feed, click, updates, closedFor>>

\* A desk whose lists no longer have an incident knows that it is closed.
PollArrives(d, l) ==
    /\ poll[d][l] # NoOne
    /\ feed' = [feed EXCEPT ![d][l] = poll[d][l]]
    /\ poll' = [poll EXCEPT ![d][l] = NoOne]
    /\ closedFor' = [i \in Incidents |-> IF \E m \in Lists : i \in feed'[d][m] \/ (m # l /\ poll[d][m] # NoOne /\ i \in poll[d][m])
                                         THEN closedFor[i] ELSE closedFor[i] \ {d}]
    /\ UNCHANGED <<incident, click, updates>>

\* "Tiếp nhận" on an open card unless a call is under way; "Đã xử lý" and "Bỏ qua" on any card.
Offers(d, i) ==
    (IF i \in feed[d]["OPEN"] /\ \A c \in Clicks : click[c].desk # d THEN {"ACKNOWLEDGED"} ELSE {})
        \cup (IF \E l \in Lists : i \in feed[d][l] THEN Closed ELSE {})

ClickCard(c, d, i, status) ==
    /\ click[c] = NoClick /\ updates < MaxUpdates
    /\ status \in Offers(d, i)
    /\ updates' = updates + 1
    /\ click' = [click EXCEPT ![c] = [NoClick EXCEPT !.desk = d, !.incident = i, !.status = status,
                                                     !.unaware = incident[i].status \notin Closed \/ d \in closedFor[i]]]
    /\ UNCHANGED <<incident, feed, poll, closedFor>>

\* updateIncident: any status follows any other, and the marks of the former stay.
UpdateIncident(c) ==
    /\ click[c] # NoClick /\ ~click[c].served
    /\ LET i == click[c].incident
           s == click[c].status
       IN /\ incident' = [incident EXCEPT ![i] =
                [status |-> s, acknowledged |-> @.acknowledged \/ s = "ACKNOWLEDGED", resolved |-> @.resolved \/ s \in Closed]]
          /\ closedFor' = [closedFor EXCEPT ![i] = IF s \in Closed THEN Desks ELSE {}]
    /\ click' = [click EXCEPT ![c].served = TRUE]
    /\ UNCHANGED <<feed, poll, updates>>

\* onSuccess invalidates both lists: what was read before is dropped, PollRead reads anew.
Updated(c) ==
    /\ click[c].served
    /\ poll' = [poll EXCEPT ![click[c].desk] = [l \in Lists |-> NoOne]]
    /\ click' = [click EXCEPT ![c] = NoClick]
    /\ UNCHANGED <<incident, feed, updates, closedFor>>

DeskNext ==
    \/ \E i \in Incidents : Report(i)
    \/ \E d \in Desks, l \in Lists : PollRead(d, l) \/ PollArrives(d, l)
    \/ \E c \in Clicks : \/ \E d \in Desks, i \in Incidents : \E s \in Offers(d, i) : ClickCard(c, d, i, s)
                         \/ UpdateIncident(c) \/ Updated(c)

-----------------------------------------------------------------------------
\* updateIncident (tripController.js:395) takes any status after any other.  A closed
\* incident comes back to life, or its closing is closed over, only through a card that
\* the desk had not seen go: a click made before the closing, or on a card read before it.
ClosedReopensUnaware ==
    [][\A i \in Incidents : incident[i].status \in Closed /\ incident'[i].status # incident[i].status =>
          \E c \in Clicks : click[c].incident = i /\ click[c].unaware /\ ~click[c].served /\ click'[c].served]_desk
=============================================================================
