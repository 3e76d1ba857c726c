---------------------------- MODULE TripExecution ----------------------------
(***************************************************************************)
(* The trips of one route plan, handler by handler: what the driver app    *)
(* calls (tripController), what planning does to a trip (lock, unlock,     *)
(* finalize, remove, assign) and the synchronisation every trip list       *)
(* performs (ensureTripForRouteId).  RoutePlanning sees the same trips     *)
(* through classes of statuses; here the statuses, the tasks and the       *)
(* driver are the code's own.                                              *)
(*                                                                         *)
(* Abstractions: every route has the same stops 1..NStops (RoutePlanning   *)
(* edits stops); photos, times, cash and odometer are left out; an         *)
(* outsourced route is one that may be locked without a driver.            *)
(***************************************************************************)
EXTENDS Integers, FiniteSets

CONSTANTS Routes,    \* DeliveryRoute documents of one plan, and their trips
          Drivers,   \* Driver documents, Active and linked to a user
          NoDriver,  \* DriverID = null
          NStops     \* stops of a route

ASSUME NoDriverAssumption == NoDriver \notin Drivers
ASSUME NStopsAssumption == NStops \in Nat \ {0}

VARIABLES route,       \* DeliveryRoute.Status, DELETED once removed
          driver,      \* DeliveryRoute.DriverID
          status,      \* Trip.Status, NONE before the route is first locked
          tripDriver,  \* Trip.DriverID, a copy of the route's
          task,        \* Trip.Tasks[i].Status
          current      \* Trip.CurrentTaskIndex

routeVars == <<route, driver>>
vars == <<route, driver, status, tripDriver, task, current>>

Stops      == 1..NStops
TripStatus == {"ASSIGNED", "DRIVER_CONFIRMED", "LOADING", "IN_PROGRESS", "RETURNING",
               "COMPLETED", "CANCELLED"}
TaskStatus == {"PENDING", "EN_ROUTE", "ARRIVED", "COMPLETED", "FAILED"}
Committed  == {"LOCKED", "FINALIZED"}
Started    == {"IN_PROGRESS", "RETURNING", "COMPLETED"}
doneStatuses == {"COMPLETED", "FAILED"}

TypeOK ==
  /\ route \in [Routes -> {"PLANNED", "DELETED"} \cup Committed]
  /\ driver \in [Routes -> Drivers \cup {NoDriver}]
  /\ status \in [Routes -> TripStatus \cup {"NONE"}]
  /\ tripDriver \in [Routes -> Drivers \cup {NoDriver}]
  /\ task \in [Routes -> [Stops -> TaskStatus]]
  /\ current \in [Routes -> Stops]

Init ==
  /\ route = [r \in Routes |-> "PLANNED"]
  /\ driver = [r \in Routes |-> NoDriver]
  /\ status = [r \in Routes |-> "NONE"]
  /\ tripDriver = [r \in Routes |-> NoDriver]
  /\ task = [r \in Routes |-> [i \in Stops |-> "PENDING"]]
  /\ current = [r \in Routes |-> 1]

-----------------------------------------------------------------------------
(* tripService.                                                            *)

\* Mutant: the started-trip branch is forgotten.
EnsureTripAlways(r, d) ==
  /\ status' = [status EXCEPT ![r] = "ASSIGNED"]
  /\ task' = [task EXCEPT ![r] = [i \in Stops |-> "PENDING"]]
  /\ tripDriver' = [tripDriver EXCEPT ![r] = d]
  /\ UNCHANGED current

\* ensureTripForRouteId of a committed route whose driver is d: a started trip
\* takes over the driver only, any other is assigned afresh with all its tasks
\* pending (the stops it copies are never anything but PENDING).
EnsureTrip(r, d) ==
  /\ tripDriver' = [tripDriver EXCEPT ![r] = d]
  /\ \/ /\ status[r] \in Started
        /\ UNCHANGED <<status, task>>
     \/ /\ status[r] \notin Started
        /\ status' = [status EXCEPT ![r] = "ASSIGNED"]
        /\ task' = [task EXCEPT ![r] = [i \in Stops |-> "PENDING"]]
  /\ UNCHANGED current

\* Mutant: only a completed trip is safe from cancellation.
CancelTripUnlessCompleted(r) ==
  /\ status' = [status EXCEPT ![r] = IF @ \in {"NONE", "COMPLETED"} THEN @ ELSE "CANCELLED"]
  /\ UNCHANGED <<tripDriver, task, current>>

CancelTrip(r) ==
  /\ status' = [status EXCEPT ![r] = IF @ \in Started \cup {"NONE"} THEN @ ELSE "CANCELLED"]
  /\ UNCHANGED <<tripDriver, task, current>>

-----------------------------------------------------------------------------
(* Planning (routePlanController), on the routes of this plan.             *)

\* The locked route keeps its driver; one without gets an available driver the
\* plan does not use yet, or none if it is outsourced.
LockRoute(r, d) ==
  /\ route[r] = "PLANNED"
  /\ \/ d = driver[r]
     \/ /\ driver[r] = NoDriver
        /\ \A q \in Routes \ {r} : route[q] # "DELETED" => driver[q] # d
  /\ route' = [route EXCEPT ![r] = "LOCKED"]
  /\ driver' = [driver EXCEPT ![r] = d]
  /\ EnsureTrip(r, d)

UnlockRoute(r) ==
  /\ route[r] = "LOCKED"
  /\ route' = [route EXCEPT ![r] = "PLANNED"]
  /\ CancelTrip(r)
  /\ UNCHANGED driver

FinalizeRoute(r) ==
  /\ route[r] = "LOCKED"
  /\ route' = [route EXCEPT ![r] = "FINALIZED"]
  /\ EnsureTrip(r, driver[r])
  /\ UNCHANGED driver

\* removeRoute, and deleteRoutePlan for each route of the plan.
RemoveRoute(r) ==
  /\ route[r] \in {"PLANNED", "LOCKED"}
  /\ route' = [route EXCEPT ![r] = "DELETED"]
  /\ CancelTrip(r)
  /\ UNCHANGED driver

\* A locked route may change driver, or lose it; its trip is not told.
AssignRoute(r, d) ==
  /\ route[r] \in {"PLANNED", "LOCKED"}
  /\ driver' = [driver EXCEPT ![r] = d]
  /\ UNCHANGED <<route, status, tripDriver, task, current>>

\* Listing trips synchronises the trips of the committed routes, one by one.
SyncTrip(r) ==
  /\ route[r] \in Committed
  /\ EnsureTrip(r, driver[r])
  /\ UNCHANGED routeVars

-----------------------------------------------------------------------------
(* The driver app (tripController).                                        *)

\* loadDriverTrip: the trip is driver d's and has not ended.
DriverTrip(d, r) == tripDriver[r] = d /\ status[r] \in TripStatus \ {"COMPLETED", "CANCELLED"}

AllDone(t) == \A i \in Stops : t[i] \in doneStatuses

SetStatus(r, s) ==
  /\ status' = [status EXCEPT ![r] = s]
  /\ UNCHANGED <<routeVars, tripDriver, task, current>>

ConfirmTrip(d, r) ==
  /\ DriverTrip(d, r)
  /\ status[r] = "ASSIGNED"
  /\ SetStatus(r, "DRIVER_CONFIRMED")

StartLoading(d, r) ==
  /\ DriverTrip(d, r)
  /\ status[r] \in {"ASSIGNED", "DRIVER_CONFIRMED"}
  /\ SetStatus(r, "LOADING")

StartTrip(d, r) ==
  /\ DriverTrip(d, r)
  /\ status[r] \notin Started
  /\ SetStatus(r, "IN_PROGRESS")

ReturnTrip(d, r) ==
  /\ DriverTrip(d, r)
  /\ AllDone(task[r])
  /\ SetStatus(r, "RETURNING")

FinishTrip(d, r) ==
  /\ DriverTrip(d, r)
  /\ AllDone(task[r])
  /\ SetStatus(r, "COMPLETED")

taskActions == [en_route |-> "EN_ROUTE", arrive |-> "ARRIVED",
                complete |-> "COMPLETED", fail |-> "FAILED"]

\* CurrentTaskIndex: the first task still to do, unchanged when there is none.
FirstOpen(t, now) ==
  IF AllDone(t) THEN now
  ELSE CHOOSE i \in Stops : t[i] \notin doneStatuses /\ \A j \in 1..(i-1) : t[j] \in doneStatuses

\* Mutant: a trip whose last stop failed stays on the road.
nextTripStatusIfDelivered(t, now) ==
  IF \A i \in Stops : t[i] = "COMPLETED" THEN "RETURNING"
  ELSE IF \E i \in Stops : t[i] # "PENDING" THEN "IN_PROGRESS" ELSE now

nextTripStatus(t, now) ==
  IF AllDone(t) THEN "RETURNING"
  ELSE IF \E i \in Stops : t[i] # "PENDING" THEN "IN_PROGRESS" ELSE now

\* Mutant: closed tasks may be reported again.
TaskOpenAlways(r, i) == TRUE

TaskOpen(r, i) == task[r][i] \notin doneStatuses

\* Any open task, in any order, also on a trip that was never started.
UpdateTask(d, r, i, action) ==
  /\ DriverTrip(d, r)
  /\ TaskOpen(r, i)
  /\ task' = [task EXCEPT ![r][i] = taskActions[action]]
  /\ current' = [current EXCEPT ![r] = FirstOpen(task'[r], @)]
  /\ status' = [status EXCEPT ![r] = nextTripStatus(task'[r], @)]
  /\ UNCHANGED <<routeVars, tripDriver>>

\* The route of the former app: what it says of a stop names the action, and what it
\* says otherwise completes the task.
legacyActions == [IN_PROGRESS |-> "en_route", EN_ROUTE |-> "en_route", ARRIVED |-> "arrive",
                  FAILED |-> "fail", COMPLETED |-> "complete"]
UpdateLegacyStopStatus(d, r, i, said) == UpdateTask(d, r, i, legacyActions[said])

-----------------------------------------------------------------------------

Planning ==
  \E r \in Routes :
    \/ \E d \in Drivers \cup {NoDriver} : LockRoute(r, d) \/ AssignRoute(r, d)
    \/ UnlockRoute(r)
    \/ FinalizeRoute(r)
    \/ RemoveRoute(r)
    \/ SyncTrip(r)

ClosesTask(d, r) == \E i \in Stops, a \in {"complete", "fail"} : UpdateTask(d, r, i, a)

Driving(d, r) ==
  \/ ConfirmTrip(d, r)
  \/ StartLoading(d, r)
  \/ StartTrip(d, r)
  \/ \E i \in Stops, a \in {"en_route", "arrive"} : UpdateTask(d, r, i, a)
  \/ ClosesTask(d, r)
  \/ \E i \in Stops, said \in DOMAIN legacyActions : UpdateLegacyStopStatus(d, r, i, said)
  \/ ReturnTrip(d, r)
  \/ FinishTrip(d, r)

Next == Planning \/ \E d \in Drivers, r \in Routes : Driving(d, r)

Spec == Init /\ [][Next]_vars

\* The one assumption about people: whoever holds a trip goes on closing its
\* tasks, and finishes it when none is left.  Nothing is assumed of planners.
DiligentDriver ==
  \A r \in Routes : /\ WF_vars(\E d \in Drivers : ClosesTask(d, r))
                    /\ WF_vars(\E d \in Drivers : FinishTrip(d, r))

FairSpec == Spec /\ DiligentDriver

-----------------------------------------------------------------------------
(* Properties.                                                             *)

\* The trip status always tells the truth about the tasks: a task can only have
\* moved on a started trip, a trip on the road has work left, a returning or
\* completed one has none.  (updateTask, startTrip, returnTrip, finishTrip and
\* the reset in ensureTripForRouteId each write one side of this.)
StatusTracksTasks ==
  \A r \in Routes :
    /\ status[r] \notin Started => \A i \in Stops : task[r][i] = "PENDING"
    /\ status[r] = "IN_PROGRESS" => ~ AllDone(task[r])
    /\ status[r] \in {"RETURNING", "COMPLETED"} => AllDone(task[r])

\* The app always points the driver at the first open stop, also after the trip
\* was cancelled, reassigned or synchronised in between.
CurrentIsFirstOpen ==
  \A r \in Routes : ~ AllDone(task[r]) =>
    /\ TaskOpen(r, current[r])
    /\ \A i \in 1..(current[r] - 1) : ~ TaskOpen(r, i)

\* What the driver reported about a stop is never lost or rewritten: not by a
\* later report, and not by unlocking, relocking, finalizing or listing.
ReportsAreKept ==
  [][\A r \in Routes, i \in Stops :
       task[r][i] \in doneStatuses => task'[r][i] = task[r][i]]_vars

\* Nothing the planners do can strand a trip on the road: as long as it is not
\* left without a driver for good, a started trip is completed.
StartedTripsFinish ==
  \A r \in Routes :
    [](status[r] \in {"IN_PROGRESS", "RETURNING"} /\ [](tripDriver[r] # NoDriver)
         => <>(status[r] = "COMPLETED"))

\* The trips implement the lifecycle planning relies on.
TripClass(s) ==
  CASE s \in {"ASSIGNED", "DRIVER_CONFIRMED", "LOADING"} -> "OPEN"
    [] s \in {"IN_PROGRESS", "RETURNING"} -> "RUNNING"
    [] s = "COMPLETED" -> "ENDED"
    [] OTHER -> s

Lifecycle == INSTANCE TripLifecycle
               WITH trip <- [r \in Routes |-> TripClass(status[r])],
                    load <- [r \in Routes |-> Stops],
                    Loads <- {Stops}

ImplementsLifecycle == Lifecycle!Spec

rank == [NONE |-> 0, CANCELLED |-> 0, ASSIGNED |-> 1, DRIVER_CONFIRMED |-> 2, LOADING |-> 3,
         IN_PROGRESS |-> 4, RETURNING |-> 5, COMPLETED |-> 6]

\* README's workflow: ASSIGNED, DRIVER_CONFIRMED, LOADING, IN_PROGRESS, RETURNING,
\* COMPLETED, in this order unless the trip is cancelled.  Not kept: listing the
\* trips (or finalizing the route) sends a confirmed or loading trip back to
\* ASSIGNED.
WorkflowOnlyAdvances ==
  [][\A r \in Routes : status'[r] # "CANCELLED" => rank[status'[r]] >= rank[status[r]]]_vars
=============================================================================
