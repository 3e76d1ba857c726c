------------------------------ MODULE RouteEdits ------------------------------
(***************************************************************************)
(* Concurrent edits of the routes of one plan, at the grain of the awaits  *)
(* in routePlanController.  A request reads documents into memory, changes *)
(* them there and saves them one by one; other requests run in between.    *)
(*                                                                         *)
(* What Mongoose's save() guarantees (external, from how the schemas and   *)
(* handlers use it):                                                       *)
(*   - every edit of Stops rewrites an array, so save() sends the version  *)
(*     (__v) it read, fails with a VersionError if the document has moved  *)
(*     on or is gone, and otherwise increments it;                         *)
(*   - a save of Status alone, of a route or of an order, checks no        *)
(*     version: it overwrites what is there, and fails only if the         *)
(*     document is gone;                                                   *)
(*   - there is no transaction: a failed second save undoes nothing.       *)
(*                                                                         *)
(* Orders are approved and never voided here (RoutePlanning has those      *)
(* handlers), trips and the plan's status are in RouteCommits.             *)
(***************************************************************************)
EXTENDS FiniteSets

CONSTANTS Orders,    \* SalesOrder documents
          Routes,    \* DeliveryRoute documents of the plan
          Requests,  \* slots for requests being served at the same time
          None       \* no order, no route

ASSUME NoneAssumption == None \notin Orders \cup Routes

VARIABLES planning,  \* SalesOrder.PlanningStatus
          status,    \* DeliveryRoute.Status, or DELETED
          stops,     \* the orders of DeliveryRoute.Stops
          at,        \* the await a request is suspended at
          local,     \* the variables and documents a request has in memory
          fresh,     \* the routes whose __v is still the one the request read
          gone,      \* history: orders on no route at first, or taken off one
          lost,      \* history: orders whose move failed at its second save
          doubled,   \* history: orders added while another route had them
          disturbed  \* history: two requests have overlapped

documents == <<planning, status, stops>>
history   == <<gone, lost, doubled>>
vars == <<planning, status, stops, at, local, fresh, gone, lost, doubled, disturbed>>

Planning == {"PENDING", "PLANNED", "LOCKED", "FINALIZED"}
RouteStatus == {"PLANNED", "LOCKED", "FINALIZED"}
Stage == {"idle", "find", "saveFrom", "saveTo", "saveRemoved", "readRemoved",
          "savePending", "readAdded", "savePlanned", "saveAdded",
          "saveStatus", "nextOrder", "saveOrder"}

\* from and to are the routes read, copy their stops as read, todo the orders
\* the loop of bulkUpdateOrderPlanningStatus has left to move from was to becomes.
Local == [order : Orders \cup {None}, from : Routes \cup {None}, to : Routes \cup {None},
          copy : [Routes -> SUBSET Orders], todo : SUBSET Orders,
          was : Planning, becomes : Planning]

Blank == [order |-> None, from |-> None, to |-> None, copy |-> [r \in Routes |-> {}],
          todo |-> {}, was |-> "PENDING", becomes |-> "PENDING"]

TypeOK ==
  /\ planning \in [Orders -> Planning]
  /\ status \in [Routes -> RouteStatus \cup {"DELETED"}]
  /\ stops \in [Routes -> SUBSET Orders]
  /\ at \in [Requests -> Stage]
  /\ local \in [Requests -> Local]
  /\ fresh \in [Requests -> SUBSET Routes]
  /\ gone \in SUBSET Orders /\ lost \in SUBSET Orders /\ doubled \in SUBSET Orders
  /\ disturbed \in BOOLEAN

\* A plan as the optimiser leaves it: the routes are PLANNED, and each order is
\* PLANNED on one of them or PENDING on none.
Init ==
  /\ \E place \in [Orders -> Routes \cup {None}] :
       /\ stops = [r \in Routes |-> {o \in Orders : place[o] = r}]
       /\ planning = [o \in Orders |-> IF place[o] = None THEN "PENDING" ELSE "PLANNED"]
       /\ gone = {o \in Orders : place[o] = None}
  /\ status = [r \in Routes |-> "PLANNED"]
  /\ at = [q \in Requests |-> "idle"]
  /\ local = [q \in Requests |-> Blank]
  /\ fresh = [q \in Requests |-> {}]
  /\ lost = {} /\ doubled = {} /\ disturbed = FALSE

-----------------------------------------------------------------------------
(* Requests and documents.                                                 *)

Carrying(o) == {r \in Routes : o \in stops[r]}

\* The moves between their two saves: the order is on no route but in hand.
Moving(o) == {q \in Requests : at[q] = "saveTo" /\ local[q].order = o}

ReadStops(R) == [r \in Routes |-> IF r \in R THEN stops[r] ELSE {}]

\* A request arrives and runs to its first await, with R in memory.
Arrives(q, stage, memory, R) ==
  /\ at[q] = "idle"
  /\ at' = [at EXCEPT ![q] = stage]
  /\ local' = [local EXCEPT ![q] = memory]
  /\ fresh' = [fresh EXCEPT ![q] = R]
  /\ disturbed' = (disturbed \/ \E p \in Requests : at[p] # "idle")

\* The request is answered: its memory is gone.
Answers(q) ==
  /\ at' = [at EXCEPT ![q] = "idle"]
  /\ local' = [local EXCEPT ![q] = Blank]

GoesTo(q, stage) == at' = [at EXCEPT ![q] = stage] /\ UNCHANGED local

\* Mutant: save() sends no version.
SaveStopsBlindly(q, r, S) ==
  /\ status[r] # "DELETED"
  /\ stops' = [stops EXCEPT ![r] = S]
  /\ fresh' = [p \in Requests |-> fresh[p] \ {r}]

\* route.save() with a changed Stops array.
SaveStops(q, r, S) ==
  /\ r \in fresh[q]
  /\ stops' = [stops EXCEPT ![r] = S]
  /\ fresh' = [p \in Requests |-> fresh[p] \ {r}]

\* order.save() after PlanningStatus was set.
SaveOrder(o, to) == planning' = [planning EXCEPT ![o] = to]

\* The handler throws: the request is answered with an error, nothing is undone.
Fails(q) ==
  /\ Answers(q)
  /\ fresh' = [fresh EXCEPT ![q] = {}]
  /\ UNCHANGED <<documents, disturbed>>

-----------------------------------------------------------------------------
(* moveOrderBetweenRoutes and reorderOrder.                                *)

MoveOrder(q, o, to) ==
  /\ planning[o] = "PLANNED"
  /\ Arrives(q, "find", [Blank EXCEPT !.order = o, !.to = to], {})
  /\ UNCHANGED <<documents, history>>

\* The handlers look for any route of the plan that has the order; from = to is
\* reorderOrder within a route (moveOrderBetweenRoutes refuses it).
FindRoutes(q, from) ==
  LET o == local[q].order  to == local[q].to IN
  /\ at[q] = "find"
  /\ o \in stops[from]
  /\ status[from] = "PLANNED"
  /\ status[to] = "PLANNED"
  /\ at' = [at EXCEPT ![q] = "saveFrom"]
  /\ local' = [local EXCEPT ![q].from = from, ![q].copy = ReadStops({from, to})]
  /\ fresh' = [fresh EXCEPT ![q] = {from, to}]
  /\ UNCHANGED <<documents, history, disturbed>>

\* The order is on no route, or on one that is not PLANNED, or the target is not.
MoveRefused(q) ==
  LET o == local[q].order  to == local[q].to IN
  /\ at[q] = "find"
  /\ \/ Carrying(o) = {}
     \/ status[to] # "PLANNED"
     \/ \E r \in Carrying(o) : status[r] # "PLANNED"
  /\ Fails(q)
  /\ UNCHANGED history

SaveFrom(q) ==
  LET o == local[q].order  from == local[q].from  to == local[q].to IN
  /\ at[q] = "saveFrom"
  /\ \/ /\ from = to
        /\ SaveStops(q, from, local[q].copy[from])
        /\ Answers(q)
     \/ /\ from # to
        /\ SaveStops(q, from, local[q].copy[from] \ {o})
        /\ GoesTo(q, "saveTo")
  /\ UNCHANGED <<planning, status, history, disturbed>>

SaveTo(q) ==
  LET o == local[q].order  to == local[q].to IN
  /\ at[q] = "saveTo"
  /\ SaveStops(q, to, local[q].copy[to] \cup {o})
  /\ Answers(q)
  /\ UNCHANGED <<planning, status, history, disturbed>>

\* VersionError on either save.  After the first one has gone through, the order
\* is on no route any more.
MoveConflicts(q) ==
  /\ \/ /\ at[q] = "saveFrom"
        /\ local[q].from \notin fresh[q]
        /\ UNCHANGED lost
     \/ /\ at[q] = "saveTo"
        /\ local[q].to \notin fresh[q]
        /\ lost' = lost \cup {local[q].order}
  /\ Fails(q)
  /\ UNCHANGED <<gone, doubled>>

-----------------------------------------------------------------------------
(* removeOrderFromRoute.                                                   *)

RemoveOrder(q, o, r) ==
  /\ status[r] = "PLANNED"
  /\ o \in stops[r]
  /\ Arrives(q, "saveRemoved", [Blank EXCEPT !.order = o, !.from = r, !.copy = ReadStops({r})], {r})
  /\ UNCHANGED <<documents, history>>

SaveRemoved(q) ==
  LET o == local[q].order  r == local[q].from IN
  /\ at[q] = "saveRemoved"
  /\ SaveStops(q, r, local[q].copy[r] \ {o})
  /\ GoesTo(q, "readRemoved")
  /\ gone' = gone \cup {o}
  /\ UNCHANGED <<planning, status, lost, doubled, disturbed>>

RemoveConflicts(q) ==
  /\ at[q] = "saveRemoved"
  /\ local[q].from \notin fresh[q]
  /\ Fails(q)
  /\ UNCHANGED history

\* Mutant: the order is left as it is.
ReadRemovedOnly(q) ==
  /\ at[q] = "readRemoved"
  /\ Answers(q)
  /\ UNCHANGED <<documents, fresh, history, disturbed>>

ReadRemoved(q) ==
  /\ at[q] = "readRemoved"
  /\ IF planning[local[q].order] = "PLANNED" THEN GoesTo(q, "savePending") ELSE Answers(q)
  /\ UNCHANGED <<documents, fresh, history, disturbed>>

SavePending(q) ==
  /\ at[q] = "savePending"
  /\ SaveOrder(local[q].order, "PENDING")
  /\ Answers(q)
  /\ UNCHANGED <<status, stops, fresh, history, disturbed>>

-----------------------------------------------------------------------------
(* addOrderToRoute.                                                        *)

AddOrder(q, o, r) ==
  /\ status[r] = "PLANNED"
  /\ Arrives(q, "readAdded", [Blank EXCEPT !.order = o, !.to = r, !.copy = ReadStops({r})], {r})
  /\ UNCHANGED <<documents, history>>

ReadAdded(q) ==
  LET o == local[q].order IN
  /\ at[q] = "readAdded"
  /\ IF o \in local[q].copy[local[q].to] THEN Fails(q)
     ELSE /\ GoesTo(q, IF planning[o] = "PENDING" THEN "savePlanned" ELSE "saveAdded")
          /\ UNCHANGED <<documents, fresh, disturbed>>
  /\ UNCHANGED history

SavePlanned(q) ==
  /\ at[q] = "savePlanned"
  /\ SaveOrder(local[q].order, "PLANNED")
  /\ GoesTo(q, "saveAdded")
  /\ UNCHANGED <<status, stops, fresh, history, disturbed>>

SaveAdded(q) ==
  LET o == local[q].order  r == local[q].to IN
  /\ at[q] = "saveAdded"
  /\ SaveStops(q, r, local[q].copy[r] \cup {o})
  /\ Answers(q)
  /\ doubled' = IF Carrying(o) \cup Moving(o) = {} THEN doubled ELSE doubled \cup {o}
  /\ UNCHANGED <<planning, status, gone, lost, disturbed>>

AddConflicts(q) ==
  /\ at[q] = "saveAdded"
  /\ local[q].to \notin fresh[q]
  /\ Fails(q)
  /\ UNCHANGED history

-----------------------------------------------------------------------------
(* lockRoute, unlockRoute, finalizeRoute and removeRoute: the route, then  *)
(* its orders one by one.                                                  *)

\* The handler has read route r in status was and will set it to becomes.
Recommit(q, r, was, becomes) ==
  /\ status[r] = was
  /\ Arrives(q, "saveStatus", [Blank EXCEPT !.to = r, !.todo = stops[r],
                                            !.was = was, !.becomes = becomes], {})
  /\ UNCHANGED <<documents, history>>

LockRoute(q, r) == stops[r] # {} /\ Recommit(q, r, "PLANNED", "LOCKED")

UnlockRoute(q, r) == Recommit(q, r, "LOCKED", "PLANNED")

FinalizeRoute(q, r) == Recommit(q, r, "LOCKED", "FINALIZED")

SaveStatus(q) ==
  LET r == local[q].to IN
  /\ at[q] = "saveStatus"
  /\ IF status[r] = "DELETED" THEN Fails(q)
     ELSE /\ status' = [status EXCEPT ![r] = local[q].becomes]
          /\ GoesTo(q, "nextOrder")
          /\ UNCHANGED <<planning, stops, fresh, disturbed>>
  /\ UNCHANGED history

RemoveRoute(q, r) ==
  /\ status[r] \in {"PLANNED", "LOCKED"}
  /\ Arrives(q, "nextOrder", [Blank EXCEPT !.to = r, !.todo = stops[r], !.was = status[r]], {})
  /\ UNCHANGED <<documents, history>>

\* bulkUpdateOrderPlanningStatus reads an order, and saves it if it is in was.
NextOrder(q, o) ==
  /\ at[q] = "nextOrder"
  /\ o \in local[q].todo
  /\ local' = [local EXCEPT ![q].order = o, ![q].todo = @ \ {o}]
  /\ at' = [at EXCEPT ![q] = IF planning[o] = local[q].was THEN "saveOrder" ELSE @]
  /\ UNCHANGED <<documents, fresh, history, disturbed>>

\* Mutant: the order takes the status its route has by now.
SaveNextAsRoute(q) ==
  /\ at[q] = "saveOrder"
  /\ SaveOrder(local[q].order, status[local[q].to])
  /\ GoesTo(q, "nextOrder")
  /\ UNCHANGED <<status, stops, fresh, history, disturbed>>

SaveNext(q) ==
  /\ at[q] = "saveOrder"
  /\ SaveOrder(local[q].order, local[q].becomes)
  /\ GoesTo(q, "nextOrder")
  /\ UNCHANGED <<status, stops, fresh, history, disturbed>>

\* The loop is over.  removeRoute deletes the route, whatever it has become since
\* it was read; the others are done.
LoopEnds(q) ==
  LET r == local[q].to IN
  /\ at[q] = "nextOrder"
  /\ local[q].todo = {}
  /\ Answers(q)
  /\ IF local[q].becomes = "PENDING"
     THEN /\ status' = [status EXCEPT ![r] = "DELETED"]
          /\ stops' = [stops EXCEPT ![r] = {}]
          /\ fresh' = [p \in Requests |-> fresh[p] \ {r}]
          /\ gone' = gone \cup stops[r]
     ELSE UNCHANGED <<status, stops, fresh, gone>>
  /\ UNCHANGED <<planning, lost, doubled, disturbed>>

-----------------------------------------------------------------------------

Next ==
  \E q \in Requests :
    \/ \E o \in Orders, r \in Routes :
         MoveOrder(q, o, r) \/ RemoveOrder(q, o, r) \/ AddOrder(q, o, r)
    \/ \E r \in Routes : \/ FindRoutes(q, r)
                         \/ LockRoute(q, r) \/ UnlockRoute(q, r) \/ FinalizeRoute(q, r)
                         \/ RemoveRoute(q, r)
    \/ MoveRefused(q) \/ SaveFrom(q) \/ SaveTo(q) \/ MoveConflicts(q)
    \/ SaveRemoved(q) \/ RemoveConflicts(q) \/ ReadRemoved(q) \/ SavePending(q)
    \/ ReadAdded(q) \/ SavePlanned(q) \/ SaveAdded(q) \/ AddConflicts(q)
    \/ SaveStatus(q) \/ \E o \in Orders : NextOrder(q, o)
    \/ SaveNext(q) \/ LoopEnds(q)

Spec == Init /\ [][Next]_vars

-----------------------------------------------------------------------------
(* Properties.                                                             *)

\* Two dispatchers dragging the same order never put it on two trucks: whatever
\* moves, removals, locks and deletions overlap, an order is on at most one
\* route, or in the hands of at most one move.  (addOrderToRoute looks at no
\* other route: the orders it doubles are exempt.)
AtMostOnePlace ==
  \A o \in Orders \ doubled :
    /\ \A r, s \in Carrying(o) : r = s
    /\ \A q, p \in Moving(o) : q = p
    /\ Carrying(o) = {} \/ Moving(o) = {}

\* No order vanishes silently: unless someone took it off its route, or a move
\* was answered with an error after its first save, it is on a route or in the
\* hands of a move.
NoSilentLoss ==
  \A o \in Orders \ (gone \cup lost) : Carrying(o) \cup Moving(o) # {}

\* However requests overlap, an order is kept: in one place, and in one unless its loss
\* was answered (moveOrder, routePlanController.js:1057-1100, saves the two routes apart).
OrdersAreKept == AtMostOnePlace /\ NoSilentLoss

\* No lost update: a step changes the stops of a route by the order of the
\* request that takes it, and by no other, however old the copy it saves.
SavesOnlyItsOrder ==
  \A r \in Routes, o \in Orders :
    (o \in stops[r]) # (o \in stops'[r]) /\ status'[r] # "DELETED" =>
      \E q \in Requests : at'[q] # at[q] /\ local[q].order = o

EditsAreNotLost == [][SavesOnlyItsOrder]_vars

\* Served one at a time, the requests keep orders and routes in agreement: the
\* steps add up to the atomic handlers of RoutePlanning.
SerialRequestsAgree ==
  (\A q \in Requests : at[q] = "idle") /\ ~disturbed =>
    \A o \in Orders \ doubled :
      IF planning[o] = "PENDING"
      THEN Carrying(o) = {}
      ELSE \E r \in Routes : Carrying(o) = {r} /\ status[r] = planning[o]
=============================================================================
