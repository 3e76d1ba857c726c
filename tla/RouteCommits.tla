----------------------------- MODULE RouteCommits -----------------------------
(***************************************************************************)
(* Committing the routes of one plan while other requests are served: the  *)
(* plan's status, the routes' statuses and the trips, split at the awaits  *)
(* of routePlanController, tripService and tripController.  Statuses are   *)
(* scalars, so save() checks no version: it writes over whatever is there  *)
(* by then, and writes nothing when the value is the one that was read.    *)
(*                                                                         *)
(* A trip's Tasks are an array: writing them takes the version that was    *)
(* read and makes the next one, which is what `current` keeps.             *)
(*                                                                         *)
(* ACCEPTED stands for DRIVER_CONFIRMED and LOADING, RUNNING for           *)
(* IN_PROGRESS, RETURNING and COMPLETED.  Every route has stops; the       *)
(* orders' loops are in RouteEdits.                                        *)
(***************************************************************************)

CONSTANTS Routes,    \* DeliveryRoute documents of the plan, never reused
          Requests,  \* slots for the requests of dispatchers and drivers
          Monitor,   \* the slot of the trip list the monitoring page polls
          NoRoute

ASSUME MonitorAssumption == Monitor \notin Requests /\ NoRoute \notin Routes

VARIABLES planStatus,  \* RoutePlan.Status
          status,      \* DeliveryRoute.Status, NONE before, DELETED after
          trip,        \* Trip.Status of the route's trip
          at,          \* the await a request is suspended at
          local,       \* what a request has read
          disturbed    \* history: requests have overlapped, or one has failed

documents == <<planStatus, status, trip>>
vars == <<planStatus, status, trip, at, local, disturbed>>

Slots       == Requests \cup {Monitor}
PlanStatus  == {"DRAFT", "LOCKED", "FINALIZED"}
RouteStatus == {"PLANNED", "LOCKED", "FINALIZED"}
Committed   == {"LOCKED", "FINALIZED"}
TripStatus  == {"NONE", "ASSIGNED", "ACCEPTED", "RUNNING", "CANCELLED"}
Startable   == {"ASSIGNED", "ACCEPTED"}
Live        == TripStatus \ {"NONE", "CANCELLED"}
Stage       == {"idle", "readRoute", "createRoute", "saveStatus", "ensureRoute",
                "ensureTrip", "ensureSave", "cancelRead", "cancelSave", "deleteRoute",
                "readRoutes", "savePlan", "driverSave"}
Handler     == {"none", "lock", "unlock", "finalize", "remove", "add", "list", "drive"}

\* plan and seen are the plan and trip statuses read (for a driver's request, seen
\* is the one it asks for), current says that the trip has the version read, todo
\* the routes a trip list has left.
Local == [by : Handler, route : Routes \cup {NoRoute}, plan : PlanStatus,
          seen : TripStatus, current : BOOLEAN, todo : SUBSET Routes]

Blank == [by |-> "none", route |-> NoRoute, plan |-> "DRAFT", seen |-> "NONE",
          current |-> TRUE, todo |-> {}]

TypeOK ==
  /\ planStatus \in PlanStatus
  /\ status \in [Routes -> RouteStatus \cup {"NONE", "DELETED"}]
  /\ trip \in [Routes -> TripStatus]
  /\ at \in [Slots -> Stage]
  /\ local \in [Slots -> Local]
  /\ disturbed \in BOOLEAN

Init ==
  /\ planStatus = "DRAFT"
  /\ status = [r \in Routes |-> "NONE"]
  /\ trip = [r \in Routes |-> "NONE"]
  /\ at = [q \in Slots |-> "idle"]
  /\ local = [q \in Slots |-> Blank]
  /\ disturbed = FALSE

-----------------------------------------------------------------------------
(* Requests.                                                               *)

PlanRoutes == {r \in Routes : status[r] \in RouteStatus}

Arrives(q, stage, memory) ==
  /\ at[q] = "idle"
  /\ at' = [at EXCEPT ![q] = stage]
  /\ local' = [local EXCEPT ![q] = memory]
  /\ disturbed' = (disturbed \/ \E p \in Slots : at[p] # "idle")
  /\ UNCHANGED documents

GoesTo(q, stage) == at' = [at EXCEPT ![q] = stage] /\ UNCHANGED local

Answers(q) ==
  /\ at' = [at EXCEPT ![q] = "idle"]
  /\ local' = [local EXCEPT ![q] = Blank]

\* The database or the process fails at an await, or a versioned save conflicts:
\* the request is over, what it saved stays.
Fails(q) ==
  /\ q # Monitor
  /\ at[q] # "idle"
  /\ Answers(q)
  /\ disturbed' = TRUE
  /\ UNCHANGED documents

\* A request about an existing route reads the plan first.
ReadPlan(q, by, r) ==
  /\ status[r] \in RouteStatus
  /\ Arrives(q, "readRoute", [Blank EXCEPT !.by = by, !.route = r, !.plan = planStatus])

LockRoute(q, r)     == ReadPlan(q, "lock", r)
FinalizeRoute(q, r) == ReadPlan(q, "finalize", r)
RemoveRoute(q, r)   == planStatus # "FINALIZED" /\ ReadPlan(q, "remove", r)

\* unlockRoute makes no use of the plan's status.
UnlockRoute(q, r) ==
  /\ status[r] \in RouteStatus
  /\ Arrives(q, "readRoute", [Blank EXCEPT !.by = "unlock", !.route = r])

AddRoute(q, r) ==
  /\ planStatus # "FINALIZED"
  /\ status[r] = "NONE"
  /\ Arrives(q, "createRoute", [Blank EXCEPT !.by = "add", !.route = r])

\* Mutant: a new route takes the plan's initial status.
CreateRouteAsDraft(q) ==
  LET r == local[q].route IN
  /\ at[q] = "createRoute"
  /\ status[r] = "NONE"
  /\ status' = [status EXCEPT ![r] = "DRAFT"]
  /\ Answers(q)
  /\ UNCHANGED <<planStatus, trip, disturbed>>

CreateRoute(q) ==
  LET r == local[q].route IN
  /\ at[q] = "createRoute"
  /\ status[r] = "NONE"
  /\ status' = [status EXCEPT ![r] = "PLANNED"]
  /\ Answers(q)
  /\ UNCHANGED <<planStatus, trip, disturbed>>

\* The status each handler asks of the route, and the one it gives it.
Accepts(by) == CASE by = "lock"     -> {"PLANNED"}
                 [] by = "unlock"   -> {"LOCKED"}
                 [] by = "finalize" -> {"LOCKED"}
                 [] by = "remove"   -> {"PLANNED", "LOCKED"}

Gives(by) == CASE by = "lock"     -> "LOCKED"
               [] by = "unlock"   -> "PLANNED"
               [] by = "finalize" -> "FINALIZED"

ReadRoute(q) ==
  LET r == local[q].route  by == local[q].by IN
  /\ at[q] = "readRoute"
  /\ IF status[r] \in Accepts(by)
     THEN GoesTo(q, IF by = "remove" THEN "cancelRead" ELSE "saveStatus")
     ELSE Answers(q)
  /\ UNCHANGED <<documents, disturbed>>

\* route.save(): the status, unless the document is gone.
SaveStatus(q) ==
  LET r == local[q].route  by == local[q].by IN
  /\ at[q] = "saveStatus"
  /\ IF status[r] = "DELETED"
     THEN Answers(q) /\ UNCHANGED status
     ELSE /\ status' = [status EXCEPT ![r] = Gives(by)]
          /\ GoesTo(q, IF by = "unlock" THEN "cancelRead" ELSE "ensureRoute")
  /\ UNCHANGED <<planStatus, trip, disturbed>>

-----------------------------------------------------------------------------
(* ensureTripForRouteId and cancelTripForRouteId.                          *)

\* Where a handler goes on after ensureTripForRouteId; a trip list, to its next
\* route.
AfterEnsure(q) ==
  CASE local[q].by = "list"     -> IF local[q].todo = {} THEN "idle" ELSE "ensureRoute"
    [] local[q].by = "finalize" -> "readRoutes"
    [] local[q].by = "lock"     -> IF local[q].plan = "DRAFT" THEN "savePlan" ELSE "idle"

Forgets(m) == [m EXCEPT !.seen = "NONE", !.current = TRUE]

\* The request leaves ensureTripForRouteId; memory is what all requests remember.
LeavesEnsure(q, memory) ==
  LET m == Forgets(memory[q]) IN
  /\ at' = [at EXCEPT ![q] = AfterEnsure(q)]
  /\ CASE AfterEnsure(q) = "idle" -> local' = [memory EXCEPT ![q] = Blank]
       [] AfterEnsure(q) = "ensureRoute" ->
            \E r \in m.todo :
              local' = [memory EXCEPT ![q] = [m EXCEPT !.route = r, !.todo = @ \ {r}]]
       [] OTHER -> local' = [memory EXCEPT ![q] = m]

EnsureRoute(q) ==
  /\ at[q] = "ensureRoute"
  /\ IF status[local[q].route] \in Committed THEN GoesTo(q, "ensureTrip")
     ELSE LeavesEnsure(q, local)
  /\ UNCHANGED <<documents, disturbed>>

EnsureTrip(q) ==
  /\ at[q] = "ensureTrip"
  /\ at' = [at EXCEPT ![q] = "ensureSave"]
  /\ local' = [local EXCEPT ![q].seen = trip[local[q].route], ![q].current = TRUE]
  /\ UNCHANGED <<documents, disturbed>>

\* Mutant: a cancelled trip stays cancelled.
TripSavedKeepingCancelled(r, seen) ==
  IF seen \in {"NONE", "ACCEPTED"} THEN [trip EXCEPT ![r] = "ASSIGNED"] ELSE trip

\* The trips after existing.save() or Trip.create: Status is written only where
\* it differs from the one read.
TripSaved(r, seen) ==
  IF seen \in {"NONE", "ACCEPTED", "CANCELLED"} THEN [trip EXCEPT ![r] = "ASSIGNED"] ELSE trip

\* The requests that have read the trip of r and are about to save it.
Stale(r, q) ==
  [p \in Slots |->
     IF p # q /\ at[p] = "ensureSave" /\ local[p].route = r
     THEN [local[p] EXCEPT !.current = FALSE] ELSE local[p]]

\* Trip.create fails on the unique DeliveryRouteID if another request was faster.
CreateTrip(q) ==
  LET r == local[q].route IN
  /\ at[q] = "ensureSave"
  /\ local[q].seen = "NONE"
  /\ IF trip[r] = "NONE"
     THEN LeavesEnsure(q, local) /\ trip' = TripSaved(r, "NONE")
     ELSE Answers(q) /\ UNCHANGED trip
  /\ UNCHANGED <<planStatus, status, disturbed>>

\* existing.save(): Tasks that differ are sent with the version that was read.
EnsureSave(q) ==
  LET r == local[q].route  seen == local[q].seen IN
  /\ at[q] = "ensureSave"
  /\ seen # "NONE"
  /\ \E differ \in BOOLEAN :
       /\ seen = "RUNNING" => ~differ
       /\ IF differ /\ ~local[q].current
          THEN Answers(q) /\ UNCHANGED trip
          ELSE /\ LeavesEnsure(q, IF differ THEN Stale(r, q) ELSE local)
               /\ trip' = TripSaved(r, seen)
  /\ UNCHANGED <<planStatus, status, disturbed>>

AfterCancel(q) ==
  IF local[q].by = "remove" THEN GoesTo(q, "deleteRoute") ELSE Answers(q)

\* Mutant: a trip that was accepted is not cancelled.
CancelReadAssigned(q) ==
  LET seen == trip[local[q].route] IN
  /\ at[q] = "cancelRead"
  /\ IF seen = "ASSIGNED" THEN GoesTo(q, "cancelSave") ELSE AfterCancel(q)
  /\ UNCHANGED <<documents, disturbed>>

CancelRead(q) ==
  LET seen == trip[local[q].route] IN
  /\ at[q] = "cancelRead"
  /\ IF seen \in Startable THEN GoesTo(q, "cancelSave") ELSE AfterCancel(q)
  /\ UNCHANGED <<documents, disturbed>>

CancelSave(q) ==
  /\ at[q] = "cancelSave"
  /\ trip' = [trip EXCEPT ![local[q].route] = "CANCELLED"]
  /\ AfterCancel(q)
  /\ UNCHANGED <<planStatus, status, disturbed>>

-----------------------------------------------------------------------------
(* The end of removeRoute, finalizeRoute and lockRoute.                    *)

DeleteRoute(q) ==
  /\ at[q] = "deleteRoute"
  /\ status' = [status EXCEPT ![local[q].route] = "DELETED"]
  /\ GoesTo(q, "readRoutes")
  /\ UNCHANGED <<planStatus, trip, disturbed>>

\* The plan status each handler sets, and whether removeRoute and finalizeRoute
\* conclude from the routes that they should.
PlanBecomes == [lock |-> "LOCKED", finalize |-> "FINALIZED", remove |-> "DRAFT"]

\* Mutant: some instead of every.
ConcludesFromOne(by) ==
  IF by = "remove"
  THEN \E r \in PlanRoutes : status[r] \notin Committed
  ELSE \E r \in PlanRoutes : status[r] = "FINALIZED"

Concludes(by) ==
  IF by = "remove"
  THEN \A r \in PlanRoutes : status[r] \notin Committed
  ELSE PlanRoutes # {} /\ \A r \in PlanRoutes : status[r] = "FINALIZED"

\* save() sends nothing if the plan already had the status when it was read.
ReadRoutes(q) ==
  /\ at[q] = "readRoutes"
  /\ IF Concludes(local[q].by) /\ local[q].plan # PlanBecomes[local[q].by]
     THEN GoesTo(q, "savePlan")
     ELSE Answers(q)
  /\ UNCHANGED <<documents, disturbed>>

\* Mutant: plan.save() sends back the status it read.
SavePlanAsRead(q) ==
  /\ at[q] = "savePlan"
  /\ planStatus' = local[q].plan
  /\ Answers(q)
  /\ UNCHANGED <<status, trip, disturbed>>

SavePlan(q) ==
  /\ at[q] = "savePlan"
  /\ planStatus' = PlanBecomes[local[q].by]
  /\ Answers(q)
  /\ UNCHANGED <<status, trip, disturbed>>

-----------------------------------------------------------------------------
(* Trip lists and the driver's app.                                        *)

\* listTrips, syncPlanTrips and getMyTrips: every committed route, one by one.
ListTrips(q) ==
  LET committed == {r \in Routes : status[r] \in Committed} IN
  \E r \in committed :
    Arrives(q, "ensureRoute",
            [Blank EXCEPT !.by = "list", !.route = r, !.todo = committed \ {r}])

\* What the driver may make of a trip: confirmTrip and startLoading, startTrip and
\* updateTask.
DriverMoves == [ASSIGNED |-> {"ACCEPTED", "RUNNING"}, ACCEPTED |-> {"RUNNING"}]

DriverRequest(q, r, to) ==
  /\ trip[r] \in DOMAIN DriverMoves
  /\ to \in DriverMoves[trip[r]]
  /\ Arrives(q, "driverSave", [Blank EXCEPT !.by = "drive", !.route = r, !.seen = to])

DriverSave(q) ==
  /\ at[q] = "driverSave"
  /\ trip' = [trip EXCEPT ![local[q].route] = local[q].seen]
  /\ Answers(q)
  /\ UNCHANGED <<planStatus, status, disturbed>>

-----------------------------------------------------------------------------

\* A request goes on to its next await.
Continues(q) ==
  \/ CreateRoute(q) \/ ReadRoute(q) \/ SaveStatus(q)
  \/ EnsureRoute(q) \/ EnsureTrip(q) \/ CreateTrip(q) \/ EnsureSave(q)
  \/ CancelRead(q) \/ CancelSave(q)
  \/ DeleteRoute(q) \/ ReadRoutes(q) \/ SavePlan(q) \/ DriverSave(q)

Next ==
  \/ \E q \in Requests, r \in Routes :
       \/ LockRoute(q, r) \/ UnlockRoute(q, r) \/ FinalizeRoute(q, r)
       \/ RemoveRoute(q, r) \/ AddRoute(q, r)
       \/ \E to \in TripStatus : DriverRequest(q, r, to)
  \/ \E q \in Requests : Fails(q)
  \/ ListTrips(Monitor)
  \/ \E q \in Slots : Continues(q)

Spec == Init /\ [][Next]_vars

\* The monitoring page polls the trip list every five seconds, and Node serves
\* the poll's awaits in turn.
Polling == WF_vars(ListTrips(Monitor)) /\ WF_vars(Continues(Monitor))

FairSpec == Spec /\ Polling

-----------------------------------------------------------------------------
(* Properties.                                                             *)

PlanAgrees ==
  /\ planStatus = "DRAFT" => \A r \in PlanRoutes : status[r] = "PLANNED"
  /\ planStatus = "FINALIZED" =>
       PlanRoutes # {} /\ \A r \in PlanRoutes : status[r] = "FINALIZED"

TripAgrees(r) ==
  /\ status[r] \in Committed => trip[r] \in Live
  /\ trip[r] \in Startable => status[r] \in Committed

\* Served one at a time and to the end, the requests leave plan, routes and trips
\* in agreement: every disagreement takes an overlap or a failure.
SerialRequestsAgree ==
  (\A q \in Slots : at[q] = "idle") /\ ~disturbed =>
    PlanAgrees /\ \A r \in Routes : TripAgrees(r)

\* A lock or finalize that died before its trip, or whose trip a slower unlock
\* then cancelled, is made good by the trip lists: once the other requests rest,
\* every committed route comes to have a live trip for good.
ListingHeals ==
  <>[](\A q \in Requests : at[q] = "idle") =>
    <>[](\A r \in Routes : status[r] \in Committed => trip[r] \in Live)

\* test-cases.md says of a finalized plan "không sửa được nữa" (it can no longer be
\* edited): none of its routes may be open for editing again.  Not kept: a slow
\* lockRoute writes LOCKED over a route finalized meanwhile (README, section 5; to see
\* it, name this invariant in the cfg).
FinalizedIsFinal ==
  planStatus = "FINALIZED" => \A r \in PlanRoutes : status[r] = "FINALIZED"
=============================================================================
