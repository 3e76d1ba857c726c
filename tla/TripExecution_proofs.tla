------------------------ MODULE TripExecution_proofs ------------------------
(***************************************************************************)
(* Proofs about TripExecution, for any routes, drivers and number of       *)
(* stops: a trip's status tells the truth about its tasks, the driver is   *)
(* sent to the first open stop, no report is lost, and every handler keeps *)
(* the abstract lifecycle; about DriverScreens, for any number of stops,   *)
(* requests and presses: what the driver is shown is the trip; and about   *)
(* OrderEntry, for any orders and updates of them: what an order costs.    *)
(***************************************************************************)
EXTENDS TripExecution, DriverScreens, OrderEntry,
        SequenceTheorems, FiniteSetTheorems, WellFoundedInduction, TLAPS

-----------------------------------------------------------------------------
(* The first open stop.                                                    *)

\* Every nonempty set of naturals has a least element.
LEMMA LeastNatural ==
  ASSUME NEW S, S \subseteq Nat, S # {}
  PROVE  \E x \in S : \A y \in S : ~ (y < x)
<1> DEFINE Less == {p \in Nat \X Nat : p[1] < p[2]}
<1>1. IsWellFoundedOn(Less, Nat)
  BY NatLessThanWellFounded DEF OpToRel
<1>2. \A x, y \in Nat : <<y, x>> \in Less <=> y < x
  OBVIOUS
<1> HIDE DEF Less
<1>3. \E x \in S : \A y \in S : ~ (<<y, x>> \in Less)
  BY <1>1, WFMin
<1> QED
  BY <1>2, <1>3

\* FirstOpen's CHOOSE has a witness: updateTask always finds the first open task.
LEMMA FirstOpenIsFirst ==
  ASSUME NEW t \in [Stops -> TaskStatus], NEW now, ~ AllDone(t)
  PROVE  /\ FirstOpen(t, now) \in Stops
         /\ t[FirstOpen(t, now)] \notin doneStatuses
         /\ \A j \in 1..(FirstOpen(t, now) - 1) : t[j] \in doneStatuses
<1> DEFINE Undone == {i \in Stops : t[i] \notin doneStatuses}
           First(i) == t[i] \notin doneStatuses /\ \A j \in 1..(i-1) : t[j] \in doneStatuses
<1>1. Undone # {} /\ Undone \subseteq Nat
  BY NStopsAssumption DEF AllDone, Stops
<1>2. PICK x \in Undone : \A y \in Undone : ~ (y < x)
  <2> HIDE DEF Undone
  <2> QED  BY <1>1, LeastNatural
<1>3. x \in Stops /\ First(x)
  BY <1>2, NStopsAssumption DEF Stops
<1>4. FirstOpen(t, now) = CHOOSE i \in Stops : First(i)
  BY DEF FirstOpen
<1> HIDE DEF First
<1>5. FirstOpen(t, now) \in Stops /\ First(FirstOpen(t, now))
  BY <1>3, <1>4
<1> QED
  BY <1>5 DEF First

-----------------------------------------------------------------------------
(* The inductive invariant.                                                *)

\* The trip's half of TypeOK, with what ties status, tasks and current stop.
TripOK ==
  /\ status \in [Routes -> TripStatus \cup {"NONE"}]
  /\ tripDriver \in [Routes -> Drivers \cup {NoDriver}]
  /\ task \in [Routes -> [Stops -> TaskStatus]]
  /\ current \in [Routes -> Stops]
  /\ StatusTracksTasks
  /\ CurrentIsFirstOpen

IInv == TypeOK /\ StatusTracksTasks /\ CurrentIsFirstOpen

RouteOK ==
  /\ route \in [Routes -> {"PLANNED", "DELETED"} \cup Committed]
  /\ driver \in [Routes -> Drivers \cup {NoDriver}]

\* The invariant has a part about trips and a part about routes: a handler mostly
\* disturbs one of them.
LEMMA InvSplits == IInv => TripOK /\ RouteOK
  BY DEF IInv, TripOK, RouteOK, TypeOK

\* The two parts make the invariant again after the step.
LEMMA InvJoins == TripOK' /\ RouteOK' => IInv'
  BY DEF IInv, TripOK, RouteOK, TypeOK

\* With all tasks pending the current stop is the first.
LEMMA InitInv == Init => IInv
<1> SUFFICES ASSUME Init PROVE IInv
  OBVIOUS
<1>1. Stops # {} /\ 1 \in Stops /\ 1..(1-1) = {}
  BY NStopsAssumption DEF Stops
<1>2. TypeOK
  BY <1>1 DEF Init, TypeOK, TripStatus, TaskStatus, Committed
<1>3. StatusTracksTasks
  BY DEF Init, StatusTracksTasks, Started
<1>4. CurrentIsFirstOpen
  BY <1>1 DEF Init, CurrentIsFirstOpen, TaskOpen, doneStatuses
<1> QED
  BY <1>2, <1>3, <1>4 DEF IInv

\* A step that leaves tasks and current stop alone keeps TripOK if each status
\* it sets agrees with the tasks.
LEMMA StatusStep ==
  ASSUME TripOK, UNCHANGED <<task, current>>,
         tripDriver' \in [Routes -> Drivers \cup {NoDriver}],
         NEW r \in Routes, NEW s \in TripStatus \cup {"NONE"},
         status' = [status EXCEPT ![r] = s],
         s \notin Started => \A i \in Stops : task[r][i] = "PENDING",
         s = "IN_PROGRESS" => ~ AllDone(task[r]),
         s \in {"RETURNING", "COMPLETED"} => AllDone(task[r])
  PROVE  TripOK'
<1>1. status' \in [Routes -> TripStatus \cup {"NONE"}]
  BY DEF TripOK
<1>2. StatusTracksTasks'
  BY DEF TripOK, StatusTracksTasks, AllDone
<1>3. CurrentIsFirstOpen'
  BY DEF TripOK, CurrentIsFirstOpen, AllDone, TaskOpen
<1> QED
  BY <1>1, <1>2, <1>3 DEF TripOK

\* ensureTripForRouteId resets tasks only where they are all pending anyway.
LEMMA EnsureKeeps ==
  ASSUME TripOK, NEW r \in Routes, NEW d \in Drivers \cup {NoDriver}, EnsureTrip(r, d)
  PROVE  TripOK' /\ UNCHANGED <<task, current>>
<1>1. tripDriver' \in [Routes -> Drivers \cup {NoDriver}] /\ UNCHANGED current
  BY DEF TripOK, EnsureTrip
<1>2. CASE status[r] \in Started
  <2>1. UNCHANGED <<status, task>>
    BY <1>2 DEF EnsureTrip
  <2> QED
    BY <1>1, <2>1 DEF TripOK, StatusTracksTasks, CurrentIsFirstOpen, AllDone, TaskOpen
<1>3. CASE status[r] \notin Started
  <2>1. /\ status' = [status EXCEPT ![r] = "ASSIGNED"]
        /\ task' = [task EXCEPT ![r] = [i \in Stops |-> "PENDING"]]
    BY <1>3 DEF EnsureTrip
  <2>2. \A i \in Stops : task[r][i] = "PENDING"
    BY <1>3 DEF TripOK, StatusTracksTasks
  <2>3. task[r] = [i \in Stops |-> "PENDING"]
    BY <2>2 DEF TripOK
  <2>4. task' = task
    BY <2>1, <2>3 DEF TripOK
  <2>5. TripOK'
    BY <1>1, <2>1, <2>2, <2>4, StatusStep DEF TripStatus, Started
  <2> QED
    BY <1>1, <2>4, <2>5
<1> QED
  BY <1>2, <1>3

\* cancelTripForRouteId only touches trips that have not started.
LEMMA CancelKeeps ==
  ASSUME TripOK, NEW r \in Routes, CancelTrip(r)
  PROVE  TripOK' /\ UNCHANGED <<task, current>>
<1> DEFINE s == IF status[r] \in Started \cup {"NONE"} THEN status[r] ELSE "CANCELLED"
<1>1. status' = [status EXCEPT ![r] = s] /\ UNCHANGED <<tripDriver, task, current>>
  BY DEF CancelTrip
<1>2. s \in TripStatus \cup {"NONE"}
  BY DEF TripOK, TripStatus
<1>3. /\ s \notin Started => \A i \in Stops : task[r][i] = "PENDING"
      /\ s = "IN_PROGRESS" => ~ AllDone(task[r])
      /\ s \in {"RETURNING", "COMPLETED"} => AllDone(task[r])
  BY DEF TripOK, StatusTracksTasks, Started
<1>4. tripDriver' \in [Routes -> Drivers \cup {NoDriver}]
  BY <1>1 DEF TripOK
<1> HIDE DEF s
<1> QED
  BY <1>1, <1>2, <1>3, <1>4, StatusStep

\* confirm, load, start, return and finish: the status follows the tasks.
LEMMA SetStatusKeeps ==
  ASSUME TripOK, NEW r \in Routes, NEW s \in TripStatus, SetStatus(r, s),
         s \notin Started => \A i \in Stops : task[r][i] = "PENDING",
         s = "IN_PROGRESS" => ~ AllDone(task[r]),
         s \in {"RETURNING", "COMPLETED"} => AllDone(task[r])
  PROVE  TripOK' /\ UNCHANGED <<task, current, routeVars>>
<1>1. /\ status' = [status EXCEPT ![r] = s]
      /\ UNCHANGED <<task, current, tripDriver, routeVars>>
  BY DEF SetStatus
<1>2. tripDriver' \in [Routes -> Drivers \cup {NoDriver}]
  BY <1>1 DEF TripOK
<1> QED
  BY <1>1, <1>2, StatusStep

\* A report leaves status, tasks and current stop in step, and closed tasks alone.
LEMMA UpdateTaskKeeps ==
  ASSUME TripOK, NEW d \in Drivers, NEW r \in Routes, NEW i \in Stops,
         NEW a \in {"en_route", "arrive", "complete", "fail"}, UpdateTask(d, r, i, a)
  PROVE  /\ TripOK'
         /\ UNCHANGED routeVars
         /\ \A q \in Routes, j \in Stops :
              task[q][j] \in doneStatuses => task'[q][j] = task[q][j]
<1> DEFINE t == [task[r] EXCEPT ![i] = taskActions[a]]
<1>1. taskActions[a] \in TaskStatus \ {"PENDING"}
  BY DEF taskActions, TaskStatus
<1>2. /\ TaskOpen(r, i)
      /\ task' = [task EXCEPT ![r] = t]
      /\ current' = [current EXCEPT ![r] = FirstOpen(task'[r], current[r])]
      /\ status' = [status EXCEPT ![r] = nextTripStatus(task'[r], status[r])]
      /\ UNCHANGED <<routeVars, tripDriver>>
  BY DEF UpdateTask
<1>3. t \in [Stops -> TaskStatus] /\ t[i] # "PENDING"
      /\ \A j \in Stops \ {i} : t[j] = task[r][j]
  BY <1>1 DEF TripOK
<1> HIDE DEF t
<1>4. task'[r] = t /\ \A q \in Routes \ {r} : task'[q] = task[q]
  BY <1>2 DEF TripOK
<1>5. task' \in [Routes -> [Stops -> TaskStatus]]
  BY <1>2, <1>3 DEF TripOK
<1>6. nextTripStatus(t, status[r]) = IF AllDone(t) THEN "RETURNING" ELSE "IN_PROGRESS"
  BY <1>3 DEF nextTripStatus
<1>7. status' = [status EXCEPT ![r] = IF AllDone(t) THEN "RETURNING" ELSE "IN_PROGRESS"]
  BY <1>2, <1>4, <1>6
<1>8. FirstOpen(t, current[r]) \in Stops
  <2>1. CASE AllDone(t)
    BY <2>1 DEF FirstOpen, TripOK
  <2>2. CASE ~ AllDone(t)
    BY <2>2, <1>3, FirstOpenIsFirst
  <2> QED
    BY <2>1, <2>2
<1>9. current'[r] = FirstOpen(t, current[r]) /\ \A q \in Routes \ {r} : current'[q] = current[q]
  BY <1>2, <1>4 DEF TripOK
<1>10. current' \in [Routes -> Stops]
  BY <1>2, <1>4, <1>8 DEF TripOK
<1>11. status' \in [Routes -> TripStatus \cup {"NONE"}]
  BY <1>7 DEF TripOK, TripStatus
<1>12. StatusTracksTasks'
  <2> SUFFICES ASSUME NEW q \in Routes
               PROVE  /\ status'[q] \notin Started => \A j \in Stops : task'[q][j] = "PENDING"
                      /\ status'[q] = "IN_PROGRESS" => ~ AllDone(task'[q])
                      /\ status'[q] \in {"RETURNING", "COMPLETED"} => AllDone(task'[q])
    BY DEF StatusTracksTasks, AllDone
  <2>1. CASE q = r
    BY <2>1, <1>4, <1>7 DEF TripOK, Started
  <2>2. CASE q # r
    BY <2>2, <1>4, <1>7 DEF TripOK, StatusTracksTasks
  <2> QED
    BY <2>1, <2>2
<1>13. CurrentIsFirstOpen'
  <2> SUFFICES ASSUME NEW q \in Routes, ~ AllDone(task'[q])
               PROVE  /\ task'[q][current'[q]] \notin doneStatuses
                      /\ \A j \in 1..(current'[q] - 1) : task'[q][j] \in doneStatuses
    BY DEF CurrentIsFirstOpen, AllDone, TaskOpen
  <2>1. CASE q = r
    BY <2>1, <1>3, <1>4, <1>9, FirstOpenIsFirst
  <2>2. CASE q # r
    BY <2>2, <1>4, <1>9 DEF TripOK, CurrentIsFirstOpen, TaskOpen
  <2> QED
    BY <2>1, <2>2
<1>14. \A q \in Routes, j \in Stops :
         task[q][j] \in doneStatuses => task'[q][j] = task[q][j]
  BY <1>2, <1>3, <1>4 DEF TaskOpen
<1> QED
  BY <1>2, <1>5, <1>10, <1>11, <1>12, <1>13, <1>14 DEF TripOK

-----------------------------------------------------------------------------
(* The steps.                                                              *)

\* No planning step touches tasks: a reset only meets tasks that are pending.
LEMMA PlanningKeeps ==
  ASSUME IInv, Planning
  PROVE  IInv' /\ UNCHANGED <<task, current>>
<1> USE InvSplits, InvJoins DEF RouteOK
<1>1. PICK r \in Routes :
        \/ \E d \in Drivers \cup {NoDriver} : LockRoute(r, d) \/ AssignRoute(r, d)
        \/ UnlockRoute(r) \/ FinalizeRoute(r) \/ RemoveRoute(r) \/ SyncTrip(r)
  BY DEF Planning
<1>2. ASSUME NEW d \in Drivers \cup {NoDriver}, LockRoute(r, d)
      PROVE  IInv' /\ UNCHANGED <<task, current>>
  BY <1>2, EnsureKeeps DEF LockRoute, Committed
<1>3. ASSUME NEW d \in Drivers \cup {NoDriver}, AssignRoute(r, d)
      PROVE  IInv' /\ UNCHANGED <<task, current>>
  BY <1>3 DEF AssignRoute, TripOK, StatusTracksTasks, CurrentIsFirstOpen, AllDone, TaskOpen
<1>4. CASE UnlockRoute(r)
  BY <1>4, CancelKeeps DEF UnlockRoute, Committed
<1>5. CASE FinalizeRoute(r)
  BY <1>5, EnsureKeeps DEF FinalizeRoute, Committed
<1>6. CASE RemoveRoute(r)
  BY <1>6, CancelKeeps DEF RemoveRoute, Committed
<1>7. CASE SyncTrip(r)
  BY <1>7, EnsureKeeps DEF SyncTrip, routeVars
<1> QED
  BY <1>1, <1>2, <1>3, <1>4, <1>5, <1>6, <1>7

\* A closed task stays as it was reported.
KeepsReports ==
  \A r \in Routes, i \in Stops : task[r][i] \in doneStatuses => task'[r][i] = task[r][i]

\* The former app's reports are reports of the present one.
LEMMA LegacyReports ==
  \A said \in DOMAIN legacyActions :
     legacyActions[said] \in {"en_route", "arrive", "complete", "fail"}
BY DEF legacyActions

\* Every driver handler keeps the invariant and the reports.
LEMMA DrivingKeeps ==
  ASSUME IInv, NEW d \in Drivers, NEW r \in Routes, Driving(d, r)
  PROVE  IInv' /\ KeepsReports
<1> USE InvSplits, InvJoins DEF KeepsReports, RouteOK
<1>0. Stops # {}
  BY NStopsAssumption DEF Stops
<1>1. CASE ConfirmTrip(d, r)
  BY <1>1, SetStatusKeeps DEF ConfirmTrip, TripOK, StatusTracksTasks, TripStatus, Started, routeVars
<1>2. CASE StartLoading(d, r)
  BY <1>2, SetStatusKeeps
  DEF StartLoading, TripOK, StatusTracksTasks, TripStatus, Started, routeVars
<1>3. CASE StartTrip(d, r)
  <2>1. \A i \in Stops : task[r][i] = "PENDING"
    BY <1>3 DEF StartTrip, TripOK, StatusTracksTasks
  <2>2. ~ AllDone(task[r])
    BY <1>0, <2>1 DEF AllDone, doneStatuses
  <2> QED
    BY <1>3, <2>2, SetStatusKeeps DEF StartTrip, TripStatus, Started, routeVars
<1>4. CASE ReturnTrip(d, r)
  BY <1>4, SetStatusKeeps DEF ReturnTrip, TripStatus, Started, routeVars
<1>5. CASE FinishTrip(d, r)
  BY <1>5, SetStatusKeeps DEF FinishTrip, TripStatus, Started, routeVars
<1>6. ASSUME NEW i \in Stops, NEW a \in {"en_route", "arrive", "complete", "fail"},
             UpdateTask(d, r, i, a)
      PROVE  IInv' /\ KeepsReports
  BY <1>6, UpdateTaskKeeps DEF routeVars
<1>7. ASSUME NEW i \in Stops, NEW said \in DOMAIN legacyActions, UpdateLegacyStopStatus(d, r, i, said)
      PROVE  IInv' /\ KeepsReports
  BY <1>6, <1>7, LegacyReports DEF UpdateLegacyStopStatus
<1> QED
  BY <1>1, <1>2, <1>3, <1>4, <1>5, <1>6, <1>7 DEF Driving, ClosesTask

\* Every step of planner, poll or driver keeps the invariant and the reports.
LEMMA InvStep == IInv /\ [Next]_vars => IInv' /\ KeepsReports
<1> SUFFICES ASSUME IInv, [Next]_vars PROVE IInv' /\ KeepsReports
  OBVIOUS
<1>1. CASE Planning
  BY <1>1, PlanningKeeps DEF KeepsReports
<1>2. ASSUME NEW d \in Drivers, NEW r \in Routes, Driving(d, r)
      PROVE  IInv' /\ KeepsReports
  BY <1>2, DrivingKeeps
<1>3. CASE UNCHANGED vars
  BY <1>3 DEF vars, IInv, TypeOK, StatusTracksTasks, CurrentIsFirstOpen, AllDone, TaskOpen,
              KeepsReports
<1> QED
  BY <1>1, <1>2, <1>3 DEF Next

-----------------------------------------------------------------------------
(* Theorems.                                                               *)

\* The inductive invariant: types, statuses and tasks in step, and the current
\* stop the first open one.
THEOREM ExecutionInvariance == Spec => []IInv
<1>1. IInv /\ [Next]_vars => IInv'
  BY InvStep
<1> QED
  BY InitInv, <1>1, PTL DEF Spec

\* Every handler keeps route, trip and tasks within their enumerations.
THEOREM ExecutionTypes == Spec => []TypeOK
<1>1. IInv => TypeOK
  BY DEF IInv
<1> QED
  BY ExecutionInvariance, <1>1, PTL

\* Trip.Status and Trip.Tasks never contradict each other.
THEOREM StatusIsTrue == Spec => []StatusTracksTasks
<1>1. IInv => StatusTracksTasks
  BY DEF IInv
<1> QED
  BY ExecutionInvariance, <1>1, PTL

\* CurrentTaskIndex is the first open stop as long as there is one.
THEOREM DriverSentToFirstOpen == Spec => []CurrentIsFirstOpen
<1>1. IInv => CurrentIsFirstOpen
  BY DEF IInv
<1> QED
  BY ExecutionInvariance, <1>1, PTL

\* No handler of the planner or the driver loses or rewrites a report.
THEOREM NoReportLost == Spec => ReportsAreKept
<1>1. IInv /\ [Next]_vars =>
        [\A r \in Routes, i \in Stops :
           task[r][i] \in doneStatuses => task'[r][i] = task[r][i]]_vars
  BY InvStep DEF KeepsReports
<1> QED
  BY ExecutionInvariance, <1>1, PTL DEF Spec, ReportsAreKept

-----------------------------------------------------------------------------
(* The abstract lifecycle.                                                 *)

\* A trip's class goes one step of its lifecycle, or stays.
Class(r) == TripClass(status[r])

Steps(r) ==
  \/ Class(r)' = Class(r)
  \/ Class(r) \in {"NONE", "OPEN", "CANCELLED"} /\ Class(r)' = "OPEN"
  \/ Class(r) = "OPEN" /\ Class(r)' = "CANCELLED"
  \/ Class(r) = "OPEN" /\ Class(r)' = "RUNNING"
  \/ Class(r) = "RUNNING" /\ Class(r)' = "ENDED"

\* A step that sets one trip's status steps that trip and leaves the others.
LEMMA OneTripSteps ==
  ASSUME IInv, NEW r \in Routes, NEW s \in TripStatus \cup {"NONE"},
         status' = [status EXCEPT ![r] = s],
         \/ s = status[r]
         \/ status[r] \notin Started /\ s # "NONE" /\ s \notin Started
            /\ (s = "CANCELLED" => status[r] # "NONE")
         \/ status[r] \notin Started \cup {"NONE", "CANCELLED"} /\ s \in {"IN_PROGRESS", "RETURNING"}
         \/ status[r] \in {"IN_PROGRESS", "RETURNING"} /\ s \in Started
  PROVE  \A q \in Routes : Steps(q)
<1>1. status[r] \in TripStatus \cup {"NONE"} /\ status'[r] = s
  BY DEF IInv, TypeOK
<1>2. Steps(r)
  BY <1>1 DEF Steps, Class, TripClass, TripStatus, Started
<1>3. \A q \in Routes \ {r} : status'[q] = status[q]
  BY DEF IInv, TypeOK
<1>4. \A q \in Routes \ {r} : Steps(q)
  BY <1>3 DEF Steps, Class
<1> QED
  BY <1>2, <1>4

\* ensureTripForRouteId opens a trip, or leaves a started one as it is.
LEMMA EnsureSteps ==
  ASSUME IInv, NEW r \in Routes, NEW d, EnsureTrip(r, d)
  PROVE  \A q \in Routes : Steps(q)
<1>1. CASE status[r] \in Started
  BY <1>1 DEF EnsureTrip, Steps, Class
<1>2. CASE status[r] \notin Started
  BY <1>2, OneTripSteps DEF EnsureTrip, TripStatus, Started
<1> QED
  BY <1>1, <1>2

\* cancelTripForRouteId cancels a trip that is open, or leaves it as it is.
LEMMA CancelSteps ==
  ASSUME IInv, NEW r \in Routes, CancelTrip(r)
  PROVE  \A q \in Routes : Steps(q)
<1>1. CASE status[r] \in Started \cup {"NONE"}
  BY <1>1, OneTripSteps DEF CancelTrip, IInv, TypeOK
<1>2. CASE status[r] \notin Started \cup {"NONE"}
  BY <1>2, OneTripSteps DEF CancelTrip, TripStatus, Started
<1> QED
  BY <1>1, <1>2

\* Planner handlers and polls only open and cancel trips.
LEMMA PlanningSteps ==
  ASSUME IInv, Planning
  PROVE  \A q \in Routes : Steps(q)
<1>1. ASSUME NEW r \in Routes, NEW d \in Drivers \cup {NoDriver}, AssignRoute(r, d)
      PROVE  \A q \in Routes : Steps(q)
  BY <1>1 DEF AssignRoute, Steps, Class
<1>2. ASSUME NEW r \in Routes, NEW d \in Drivers \cup {NoDriver}, LockRoute(r, d)
      PROVE  \A q \in Routes : Steps(q)
  BY <1>2, EnsureSteps DEF LockRoute
<1>3. ASSUME NEW r \in Routes, UnlockRoute(r) \/ RemoveRoute(r)
      PROVE  \A q \in Routes : Steps(q)
  BY <1>3, CancelSteps DEF UnlockRoute, RemoveRoute
<1>4. ASSUME NEW r \in Routes, FinalizeRoute(r) \/ SyncTrip(r)
      PROVE  \A q \in Routes : Steps(q)
  BY <1>4, EnsureSteps DEF FinalizeRoute, SyncTrip
<1> QED
  BY <1>1, <1>2, <1>3, <1>4 DEF Planning

\* Driver handlers only start and end their own open or running trip.
LEMMA DrivingSteps ==
  ASSUME IInv, NEW d \in Drivers, NEW r \in Routes, Driving(d, r)
  PROVE  \A q \in Routes : Steps(q)
<1>0. Stops # {} /\ status[r] \in TripStatus \cup {"NONE"}
  BY NStopsAssumption DEF Stops, IInv, TypeOK
<1>1. CASE ConfirmTrip(d, r)
  BY <1>1, OneTripSteps DEF ConfirmTrip, SetStatus, TripStatus, Started
<1>2. CASE StartLoading(d, r)
  BY <1>2, OneTripSteps DEF StartLoading, SetStatus, TripStatus, Started
<1>3. CASE StartTrip(d, r)
  BY <1>3, OneTripSteps DEF StartTrip, DriverTrip, SetStatus, TripStatus, Started
<1>4. ASSUME AllDone(task[r]), DriverTrip(d, r)
      PROVE  status[r] \in {"IN_PROGRESS", "RETURNING"}
  <2>1. \E i \in Stops : task[r][i] # "PENDING"
    BY <1>0, <1>4 DEF AllDone, doneStatuses
  <2>2. status[r] \in Started
    BY <2>1 DEF IInv, StatusTracksTasks
  <2> QED
    BY <1>4, <2>2 DEF DriverTrip, Started
<1>5. CASE ReturnTrip(d, r)
  BY <1>4, <1>5, OneTripSteps DEF ReturnTrip, SetStatus, TripStatus, Started
<1>6. CASE FinishTrip(d, r)
  BY <1>4, <1>6, OneTripSteps DEF FinishTrip, SetStatus, TripStatus, Started
<1>7. ASSUME NEW i \in Stops, NEW a \in {"en_route", "arrive", "complete", "fail"},
             UpdateTask(d, r, i, a)
      PROVE  \A q \in Routes : Steps(q)
  <2>1. taskActions[a] # "PENDING"
    BY DEF taskActions
  <2>2. task'[r][i] # "PENDING"
    BY <1>7, <2>1 DEF UpdateTask, IInv, TypeOK
  <2>3. nextTripStatus(task'[r], status[r]) \in {"IN_PROGRESS", "RETURNING"}
    BY <2>2 DEF nextTripStatus
  <2> DEFINE s == nextTripStatus(task'[r], status[r])
  <2>4. status' = [status EXCEPT ![r] = s] /\ DriverTrip(d, r)
    BY <1>7 DEF UpdateTask
  <2> HIDE DEF s
  <2>5. s \in {"IN_PROGRESS", "RETURNING"}
    BY <2>3 DEF s
  <2> QED
    BY <1>0, <2>4, <2>5, OneTripSteps DEF DriverTrip, TripStatus, Started
<1>8. ASSUME NEW i \in Stops, NEW said \in DOMAIN legacyActions, UpdateLegacyStopStatus(d, r, i, said)
      PROVE  \A q \in Routes : Steps(q)
  BY <1>7, <1>8, LegacyReports DEF UpdateLegacyStopStatus
<1> QED
  BY <1>1, <1>2, <1>3, <1>5, <1>6, <1>7, <1>8 DEF Driving, ClosesTask

\* Together: a step of the abstract trip lifecycle, or none.
LEMMA LifecycleStep == IInv /\ Next => Lifecycle!Next
<1> SUFFICES ASSUME IInv, Next PROVE Lifecycle!Next
  OBVIOUS
<1>1. \A q \in Routes : Steps(q)
  BY PlanningSteps, DrivingSteps DEF Next
<1> QED
  BY <1>1 DEF Steps, Class, Lifecycle!Next, Lifecycle!Stays, Lifecycle!Opens, Lifecycle!Cancels,
              Lifecycle!Starts, Lifecycle!Ends

\* Every handler of planner and driver is a step of the abstract trip lifecycle,
\* or changes nothing of it.
THEOREM ExecutionImplementsLifecycle == Spec => ImplementsLifecycle
<1>1. Init => Lifecycle!Init
  BY DEF Init, Lifecycle!Init, TripClass
<1>2. IInv /\ [Next]_vars => [Lifecycle!Next]_<<[r \in Routes |-> TripClass(status[r])],
                                                [r \in Routes |-> Stops]>>
  BY LifecycleStep DEF vars
<1> QED
  BY <1>1, <1>2, ExecutionInvariance, PTL DEF Spec, ImplementsLifecycle, Lifecycle!Spec

-----------------------------------------------------------------------------
(* DriverScreens.  While the history is clear, two requests are under way  *)
(* together only if both look at the trip, so an answer that comes in is   *)
(* the trip as it is; a screen that is not up to date has an answer on its *)
(* way.                                                                    *)

Statuses == {"unread", "ASSIGNED", "DRIVER_CONFIRMED", "LOADING", "IN_PROGRESS", "RETURNING", "COMPLETED"}
TaskStates == {"PENDING", "ARRIVED", "COMPLETED", "FAILED"}
TripRecords == [status : Statuses, task : [TripStops -> TaskStates]]
Requests == {"look", "confirm", "load", "start", "return", "finish", "arrive", "complete", "fail"}
LineRecords ==
    [at : {"sent", "ok", "refused", "lost"}, from : ScreenNames, what : Requests, stop : {0} \cup TripStops,
     got : TripRecords, live : BOOLEAN]

\* The ways to walk through the screens.
Walks == {<<>>, <<"detail">>, <<"detail", "map">>, <<"detail", "stop">>, <<"detail", "map", "stop">>,
          <<"detail", "map", "pod">>, <<"detail", "stop", "pod">>, <<"detail", "map", "stop", "pod">>}
On(w, screen) == \E i \in DOMAIN w : w[i] = screen

ScreensType ==
    /\ trip \in TripRecords
    /\ stack \in Walks
    /\ atStop \in {0} \cup TripStops
    /\ (On(stack, "stop") \/ On(stack, "pod")) => atStop \in TripStops
    /\ shownTrip \in [ScreenNames -> TripRecords]
    /\ line \in [Lines -> LineRecords \cup {Free}]
    /\ \A l \in Lines : line[l].what \in DOMAIN StopButtons => line[l].stop \in TripStops
    /\ tracker \in BOOLEAN /\ overlap \in BOOLEAN

\* A request whose screen still listens comes from a screen on the walk.
ListenersAreOnTheWalk == \A l \in Lines : line[l] # Free /\ line[l].live => On(stack, line[l].from)

\* Two requests are under way together only if both look, and what was answered is the trip.
Uncrossed ==
    /\ \A k, l \in Lines : k # l /\ line[k] # Free /\ line[l] # Free => line[k].what = "look"
    /\ \A l \in Lines : line[l].at = "ok" => line[l].got = trip

\* An answer is on its way that brings the screen up to date, or makes the history true.
UpdateIsComing(screen) ==
    \E l \in Lines : /\ line[l] # Free /\ line[l].from = screen /\ line[l].live
                     /\ line[l].at \in {"ok", "lost"} \/ (line[l].what = "look" /\ line[l].at = "sent")

RouteIsTrue == shownTrip["detail"] = trip /\ (tracker <=> trip.status \in Working)
RouteFollows ==
    /\ RouteIsTrue \/ UpdateIsComing("detail")
    /\ \A l \in Lines : line[l] # Free => line[l].what = "look" \/ (line[l].from = "detail" /\ line[l].live)
MapFollows ==
    /\ shownTrip["map"] = trip \/ UpdateIsComing("map")
    /\ \A l \in Lines : line[l] # Free => line[l].what = "look"

ScreensTruth ==
    ~overlap => /\ Uncrossed
                /\ stack = <<"detail">> => RouteFollows
                /\ stack = <<"detail", "map">> => MapFollows

ScreensInvariant == ScreensType /\ ListenersAreOnTheWalk /\ ScreensTruth

-----------------------------------------------------------------------------
(* The walks.                                                              *)

\* Appending to tuples, and taking off again what was appended.
LEMMA AppendFirst ==
  ASSUME NEW a \in ScreenNames
  PROVE  Append(<<>>, a) = <<a>>
<1>1. <<>> \in Seq(ScreenNames) /\ Len(<<>>) = 0 /\ <<a>> \in Seq(ScreenNames) /\ Len(<<a>>) = 1
  OBVIOUS
<1>2. /\ Append(<<>>, a) \in Seq(ScreenNames) /\ Len(Append(<<>>, a)) = 1
      /\ Append(<<>>, a)[1] = a
  BY <1>1
<1>3. \A i \in 1..1 : Append(<<>>, a)[i] = <<a>>[i]
  BY <1>2
<1> QED
  BY <1>1, <1>2, <1>3, SeqEqual

LEMMA AppendSecond ==
  ASSUME NEW a \in ScreenNames, NEW b \in ScreenNames
  PROVE  Append(<<a>>, b) = <<a, b>>
<1>1. <<a>> \in Seq(ScreenNames) /\ Len(<<a>>) = 1
  OBVIOUS
<1>2. <<a, b>> \in Seq(ScreenNames) /\ Len(<<a, b>>) = 2
  OBVIOUS
<1>3. /\ Append(<<a>>, b) \in Seq(ScreenNames) /\ Len(Append(<<a>>, b)) = 2
      /\ Append(<<a>>, b)[1] = a /\ Append(<<a>>, b)[2] = b
  BY <1>1
<1>4. \A i \in 1..2 : Append(<<a>>, b)[i] = <<a, b>>[i]
  BY <1>3
<1> QED
  BY <1>2, <1>3, <1>4, SeqEqual

LEMMA AppendThird ==
  ASSUME NEW a \in ScreenNames, NEW b \in ScreenNames, NEW c \in ScreenNames
  PROVE  Append(<<a, b>>, c) = <<a, b, c>>
<1>1. <<a, b>> \in Seq(ScreenNames) /\ Len(<<a, b>>) = 2
  OBVIOUS
<1>2. <<a, b, c>> \in Seq(ScreenNames) /\ Len(<<a, b, c>>) = 3
  OBVIOUS
<1>3. /\ Append(<<a, b>>, c) \in Seq(ScreenNames) /\ Len(Append(<<a, b>>, c)) = 3
      /\ Append(<<a, b>>, c)[1] = a /\ Append(<<a, b>>, c)[2] = b /\ Append(<<a, b>>, c)[3] = c
  BY <1>1
<1>4. \A i \in 1..3 : Append(<<a, b>>, c)[i] = <<a, b, c>>[i]
  BY <1>3
<1> QED
  BY <1>2, <1>3, <1>4, SeqEqual

LEMMA AppendFourth ==
  ASSUME NEW a \in ScreenNames, NEW b \in ScreenNames, NEW c \in ScreenNames, NEW d \in ScreenNames
  PROVE  Append(<<a, b, c>>, d) = <<a, b, c, d>>
<1>1. <<a, b, c>> \in Seq(ScreenNames) /\ Len(<<a, b, c>>) = 3
  OBVIOUS
<1>2. <<a, b, c, d>> \in Seq(ScreenNames) /\ Len(<<a, b, c, d>>) = 4
  OBVIOUS
<1>3. /\ Append(<<a, b, c>>, d) \in Seq(ScreenNames) /\ Len(Append(<<a, b, c>>, d)) = 4
      /\ Append(<<a, b, c>>, d)[1] = a /\ Append(<<a, b, c>>, d)[2] = b
      /\ Append(<<a, b, c>>, d)[3] = c /\ Append(<<a, b, c>>, d)[4] = d
  BY <1>1
<1>4. \A i \in 1..4 : Append(<<a, b, c>>, d)[i] = <<a, b, c, d>>[i]
  BY <1>3
<1> QED
  BY <1>2, <1>3, <1>4, SeqEqual

LEMMA FrontOfAppended ==
  ASSUME NEW S, NEW w \in Seq(S), NEW e \in S
  PROVE  Front(Append(w, e)) = w /\ Last(Append(w, e)) = e
<1>1. Append(w, e) \in Seq(S) /\ Len(Append(w, e)) = Len(w) + 1 /\ Len(w) \in Nat
  OBVIOUS
<1>2. Append(w, e)[Len(w) + 1] = e /\ \A i \in 1..Len(w) : Append(w, e)[i] = w[i] /\ w[i] \in S
  OBVIOUS
<1>3. Front(Append(w, e)) = SubSeq(Append(w, e), 1, Len(w))
  BY <1>1 DEF Front
<1>4. /\ SubSeq(Append(w, e), 1, Len(w)) \in Seq(S)
      /\ Len(SubSeq(Append(w, e), 1, Len(w))) = Len(w)
      /\ \A i \in 1..Len(w) : SubSeq(Append(w, e), 1, Len(w))[i] = Append(w, e)[i]
  BY <1>1, <1>2, SubSeqProperties
<1>5. SubSeq(Append(w, e), 1, Len(w)) = w
  BY <1>2, <1>4, SeqEqual
<1> QED
  BY <1>1, <1>2, <1>3, <1>5 DEF Last

\* What is on a tuple.
LEMMA OnNone == \A x : ~ On(<<>>, x)
BY DEF On
LEMMA OnOne == \A a, x : On(<<a>>, x) <=> x = a
BY DEF On
LEMMA OnTwo == \A a, b, x : On(<<a, b>>, x) <=> x \in {a, b}
BY DEF On
LEMMA OnThree == \A a, b, c, x : On(<<a, b, c>>, x) <=> x \in {a, b, c}
<1> TAKE a, b, c, x
<1>1. DOMAIN <<a, b, c>> = 1..3
  OBVIOUS
<1> QED
  BY <1>1 DEF On
LEMMA OnFour == \A a, b, c, d, x : On(<<a, b, c, d>>, x) <=> x \in {a, b, c, d}
<1> TAKE a, b, c, d, x
<1>1. DOMAIN <<a, b, c, d>> = 1..4
  OBVIOUS
<1> QED
  BY <1>1 DEF On

\* Every walk but the empty one is a walk and a screen after it.
LEMMA WalkParts ==
  /\ Append(<<>>, "detail") = <<"detail">>
  /\ Append(<<"detail">>, "map") = <<"detail", "map">>
  /\ Append(<<"detail">>, "stop") = <<"detail", "stop">>
  /\ Append(<<"detail", "map">>, "stop") = <<"detail", "map", "stop">>
  /\ Append(<<"detail", "map">>, "pod") = <<"detail", "map", "pod">>
  /\ Append(<<"detail", "stop">>, "pod") = <<"detail", "stop", "pod">>
  /\ Append(<<"detail", "map", "stop">>, "pod") = <<"detail", "map", "stop", "pod">>
<1>1. "detail" \in ScreenNames /\ "map" \in ScreenNames /\ "stop" \in ScreenNames /\ "pod" \in ScreenNames
  BY DEF ScreenNames
<1> QED
  BY <1>1, AppendFirst, AppendSecond, AppendThird, AppendFourth

LEMMA WalksAreSequences == \A w \in Walks : w \in Seq(ScreenNames)
<1>1. /\ <<>> \in Seq(ScreenNames) /\ "detail" \in ScreenNames /\ "map" \in ScreenNames
      /\ "stop" \in ScreenNames /\ "pod" \in ScreenNames
  BY DEF ScreenNames
<1>2. \A w \in Seq(ScreenNames), s \in ScreenNames : Append(w, s) \in Seq(ScreenNames)
  OBVIOUS
<1>3. <<"detail">> \in Seq(ScreenNames)
  BY <1>1, <1>2, WalkParts
<1>4. <<"detail", "map">> \in Seq(ScreenNames) /\ <<"detail", "stop">> \in Seq(ScreenNames)
  BY <1>1, <1>2, <1>3, WalkParts
<1>5. <<"detail", "map", "stop">> \in Seq(ScreenNames)
  BY <1>1, <1>2, <1>4, WalkParts
<1>6. /\ <<"detail", "map", "pod">> \in Seq(ScreenNames) /\ <<"detail", "stop", "pod">> \in Seq(ScreenNames)
      /\ <<"detail", "map", "stop", "pod">> \in Seq(ScreenNames)
  BY <1>1, <1>2, <1>4, <1>5, WalkParts
<1> QED
  BY <1>1, <1>3, <1>4, <1>5, <1>6 DEF Walks

\* Going back from a walk.
LEMMA BackOnWalk ==
  ASSUME NEW w \in Walks, w # <<>>
  PROVE  /\ Front(w) \in Walks
         /\ Last(w) \in ScreenNames
         /\ \A x : On(w, x) <=> x = Last(w) \/ On(Front(w), x)
         /\ Last(w) = "detail" <=> w = <<"detail">>
         /\ Last(w) = "map" <=> w = <<"detail", "map">>
         /\ Last(w) = "stop" => ~ On(Front(w), "pod")
<1>1. \A v \in Walks, s \in ScreenNames : Front(Append(v, s)) = v /\ Last(Append(v, s)) = s
  BY WalksAreSequences, FrontOfAppended
<1>2. CASE w = <<"detail">>
  <2>1. Front(w) = <<>> /\ Last(w) = "detail"
    BY <1>1, <1>2, WalkParts DEF Walks, ScreenNames
  <2>2. \A x : On(w, x) <=> x \in {"detail"}
    BY <1>2, OnOne
  <2>3. \A x : On(<<>>, x) <=> x \in {}
    BY OnNone
  <2> QED
    BY <1>2, <2>1, <2>2, <2>3 DEF Walks, ScreenNames
<1>3. CASE w = <<"detail", "map">>
  <2>1. Front(w) = <<"detail">> /\ Last(w) = "map"
    BY <1>1, <1>3, WalkParts DEF Walks, ScreenNames
  <2>2. \A x : On(w, x) <=> x \in {"detail", "map"}
    BY <1>3, OnTwo
  <2>3. \A x : On(<<"detail">>, x) <=> x \in {"detail"}
    BY OnOne
  <2> QED
    BY <1>3, <2>1, <2>2, <2>3 DEF Walks, ScreenNames
<1>4. CASE w = <<"detail", "stop">>
  <2>1. Front(w) = <<"detail">> /\ Last(w) = "stop"
    BY <1>1, <1>4, WalkParts DEF Walks, ScreenNames
  <2>2. \A x : On(w, x) <=> x \in {"detail", "stop"}
    BY <1>4, OnTwo
  <2>3. \A x : On(<<"detail">>, x) <=> x \in {"detail"}
    BY OnOne
  <2> QED
    BY <1>4, <2>1, <2>2, <2>3 DEF Walks, ScreenNames
<1>5. CASE w = <<"detail", "map", "stop">>
  <2>1. Front(w) = <<"detail", "map">> /\ Last(w) = "stop"
    BY <1>1, <1>5, WalkParts DEF Walks, ScreenNames
  <2>2. \A x : On(w, x) <=> x \in {"detail", "map", "stop"}
    BY <1>5, OnThree
  <2>3. \A x : On(<<"detail", "map">>, x) <=> x \in {"detail", "map"}
    BY OnTwo
  <2> QED
    BY <1>5, <2>1, <2>2, <2>3 DEF Walks, ScreenNames
<1>6. CASE w = <<"detail", "map", "pod">>
  <2>1. Front(w) = <<"detail", "map">> /\ Last(w) = "pod"
    BY <1>1, <1>6, WalkParts DEF Walks, ScreenNames
  <2>2. \A x : On(w, x) <=> x \in {"detail", "map", "pod"}
    BY <1>6, OnThree
  <2>3. \A x : On(<<"detail", "map">>, x) <=> x \in {"detail", "map"}
    BY OnTwo
  <2> QED
    BY <1>6, <2>1, <2>2, <2>3 DEF Walks, ScreenNames
<1>7. CASE w = <<"detail", "stop", "pod">>
  <2>1. Front(w) = <<"detail", "stop">> /\ Last(w) = "pod"
    BY <1>1, <1>7, WalkParts DEF Walks, ScreenNames
  <2>2. \A x : On(w, x) <=> x \in {"detail", "stop", "pod"}
    BY <1>7, OnThree
  <2>3. \A x : On(<<"detail", "stop">>, x) <=> x \in {"detail", "stop"}
    BY OnTwo
  <2> QED
    BY <1>7, <2>1, <2>2, <2>3 DEF Walks, ScreenNames
<1>8. CASE w = <<"detail", "map", "stop", "pod">>
  <2>1. Front(w) = <<"detail", "map", "stop">> /\ Last(w) = "pod"
    BY <1>1, <1>8, WalkParts DEF Walks, ScreenNames
  <2>2. \A x : On(w, x) <=> x \in {"detail", "map", "stop", "pod"}
    BY <1>8, OnFour
  <2>3. \A x : On(<<"detail", "map", "stop">>, x) <=> x \in {"detail", "map", "stop"}
    BY OnThree
  <2> QED
    BY <1>8, <2>1, <2>2, <2>3 DEF Walks, ScreenNames
<1> QED
  BY <1>2, <1>3, <1>4, <1>5, <1>6, <1>7, <1>8 DEF Walks

\* Going on.
Leads(w, screen) ==
    \/ w = <<>> /\ screen = "detail"
    \/ w # <<>> /\ Last(w) = "detail" /\ screen \in {"map", "stop"}
    \/ w # <<>> /\ Last(w) = "map" /\ screen \in {"stop", "pod"}
    \/ w # <<>> /\ Last(w) = "stop" /\ screen = "pod"
LEMMA OnwardOnWalk ==
  ASSUME NEW w \in Walks, NEW s \in ScreenNames, Leads(w, s)
  PROVE  /\ Append(w, s) \in Walks
         /\ \A x : On(Append(w, s), x) <=> On(w, x) \/ x = s
         /\ Append(w, s) = <<"detail">> => s = "detail"
         /\ Append(w, s) = <<"detail", "map">> => s = "map"
<1>1. Front(Append(w, s)) = w /\ Last(Append(w, s)) = s
  BY WalksAreSequences, FrontOfAppended
<1>2. Append(w, s) \in Walks
  <2>1. CASE w = <<>>
    BY <2>1, WalkParts DEF Leads, Walks
  <2>2. CASE w # <<>> /\ Last(w) = "detail"
    <3>1. w = <<"detail">> /\ s \in {"map", "stop"}
      BY <2>2, BackOnWalk DEF Leads
    <3> QED
      BY <3>1, WalkParts DEF Walks
  <2>3. CASE w # <<>> /\ Last(w) = "map"
    <3>1. w = <<"detail", "map">> /\ s \in {"stop", "pod"}
      BY <2>3, BackOnWalk DEF Leads
    <3> QED
      BY <3>1, WalkParts DEF Walks
  <2>4. CASE w # <<>> /\ Last(w) = "stop"
    <3>1. w \in {<<"detail", "stop">>, <<"detail", "map", "stop">>} /\ s = "pod"
      <4>1. s = "pod" /\ Last(w) # "detail" /\ Last(w) # "map"
        BY <2>4 DEF Leads
      <4>2. ~ On(w, "pod")
        BY <2>4, BackOnWalk
      <4>3. \A a, b, c, d : On(<<a, b, c>>, c) /\ On(<<a, b, c, d>>, d)
        BY OnThree, OnFour
      <4> QED
        BY <2>4, <4>1, <4>2, <4>3, BackOnWalk DEF Walks
    <3> QED
      BY <3>1, WalkParts DEF Walks
  <2> QED
    BY <2>1, <2>2, <2>3, <2>4 DEF Leads
<1>3. PICK v \in Walks : v = Append(w, s)
  BY <1>2
<1>4. v # <<>> /\ Front(v) = w /\ Last(v) = s
  BY <1>1, <1>3, WalksAreSequences
<1>5. \A x : On(v, x) <=> On(w, x) \/ x = s
  BY <1>4, BackOnWalk
<1>6. (v = <<"detail">> => s = "detail") /\ (v = <<"detail", "map">> => s = "map")
  BY <1>4, BackOnWalk
<1> QED
  BY <1>2, <1>3, <1>5, <1>6

-----------------------------------------------------------------------------
(* The requests.                                                           *)

\* A request that leaves the history clear either is alone, or looks while others look.
LEMMA NotCrossed ==
  ASSUME NEW l \in Lines, NEW what, overlap \in BOOLEAN, ~ CrossedAfter(l, what)
  PROVE  \/ (\A k \in Lines \ {l} : line[k] = Free) /\ (what # "look" => ~overlap)
         \/ ~overlap /\ what = "look" /\ \A k \in Lines \ {l} : line[k] # Free => line[k].what = "look"
<1> DEFINE others == {line[k].what : k \in {j \in Lines \ {l} : line[j] # Free}}
<1>1. CASE others = {}
  <2>1. \A k \in Lines \ {l} : line[k] = Free
    BY <1>1
  <2> QED
    BY <1>1, <2>1 DEF CrossedAfter
<1>2. CASE others # {}
  <2>1. ~overlap /\ others \cup {what} = {"look"}
    BY <1>2 DEF CrossedAfter
  <2> QED
    BY <2>1
<1> QED
  BY <1>1, <1>2

LEMMA CrossedIsBoolean ==
  ASSUME NEW l, NEW what, overlap \in BOOLEAN
  PROVE  CrossedAfter(l, what) \in BOOLEAN
BY DEF CrossedAfter

\* What a request makes of a trip is a trip; a look makes nothing of it.
LEMMA TripAfterType ==
  ASSUME NEW c \in LineRecords, trip \in TripRecords,
         c.what \in DOMAIN StopButtons => c.stop \in TripStops
  PROVE  /\ TripAfter(c) \in TripRecords
         /\ c.what = "look" => TripAfter(c) = trip /\ Allows(c)
<1>1. DOMAIN StopButtons = {"arrive", "complete", "fail"}
  BY DEF StopButtons
<1>2. CASE c.what \in {"arrive", "complete", "fail"}
  <2>1. StopButtons[c.what] \in TaskStates
    <3>1. StopButtons["arrive"] \in TaskStates /\ StopButtons["complete"] \in TaskStates /\ StopButtons["fail"] \in TaskStates
      BY DEF StopButtons, TaskStates
    <3> QED
      BY <1>2, <3>1
  <2> DEFINE done == [trip.task EXCEPT ![c.stop] = StopButtons[c.what]]
  <2>2. done \in [TripStops -> TaskStates]
    BY <1>1, <1>2, <2>1 DEF TripRecords
  <2>3. trip.status \in Statuses
    BY DEF TripRecords
  <2>4. StatusAfter(done, trip.status) \in Statuses
    BY <2>3 DEF StatusAfter, Statuses
  <2>5. TripAfter(c) = [status |-> StatusAfter(done, trip.status), task |-> done]
    BY <1>1, <1>2 DEF TripAfter
  <2> QED
    BY <1>2, <2>2, <2>4, <2>5 DEF TripRecords
<1>3. CASE c.what \notin {"arrive", "complete", "fail"}
  <2>1. TripAfter(c) = trip \/ \E s \in Statuses : TripAfter(c) = [trip EXCEPT !.status = s]
    <3>1. CASE c.what = "confirm" /\ trip.status = "ASSIGNED"
      BY <1>1, <3>1 DEF TripAfter, Statuses, Working
    <3>2. CASE c.what = "load" /\ trip.status \in {"ASSIGNED", "DRIVER_CONFIRMED"}
      BY <1>1, <3>2 DEF TripAfter, Statuses, Working
    <3>3. CASE c.what = "start" /\ trip.status \notin Working
      BY <1>1, <3>3 DEF TripAfter, Statuses, Working
    <3>4. CASE c.what = "return"
      BY <1>1, <3>4 DEF TripAfter, Statuses, Working
    <3>5. CASE c.what = "finish"
      BY <1>1, <3>5 DEF TripAfter, Statuses, Working
    <3>6. CASE /\ c.what \notin {"return", "finish"} /\ ~ (c.what = "confirm" /\ trip.status = "ASSIGNED")
               /\ ~ (c.what = "load" /\ trip.status \in {"ASSIGNED", "DRIVER_CONFIRMED"})
               /\ ~ (c.what = "start" /\ trip.status \notin Working)
      BY <1>1, <1>3, <3>6 DEF TripAfter
    <3> QED
      BY <3>1, <3>2, <3>3, <3>4, <3>5, <3>6
  <2>2. c.what = "look" => TripAfter(c) = trip /\ Allows(c)
    BY <1>1 DEF TripAfter, Allows
  <2> QED
    BY <1>3, <2>1, <2>2 DEF TripRecords
<1> QED
  BY <1>2, <1>3

LEMMA StopButtonNames == DOMAIN StopButtons = {"arrive", "complete", "fail"}
BY DEF StopButtons

LEMMA FreeIsNoAnswer == Free.at = "free"
BY DEF Free

LEMMA UnreadType == Unread \in TripRecords
BY DEF Unread, TripRecords, Statuses, TaskStates

LEMMA SentType ==
  ASSUME NEW from \in ScreenNames, NEW what \in Requests, NEW s \in {0} \cup TripStops
  PROVE  /\ Sent(from, what, s) \in LineRecords
         /\ Sent(from, what, s) # Free
         /\ Sent(from, what, s).at = "sent" /\ Sent(from, what, s).from = from
         /\ Sent(from, what, s).what = what /\ Sent(from, what, s).stop = s /\ Sent(from, what, s).live
BY UnreadType DEF Sent, LineRecords, Free

LEMMA BusyAreRecords ==
  ASSUME ScreensType, NEW l \in Lines
  PROVE  /\ line[l] # Free => line[l] \in LineRecords
         /\ line[l].at \in {"sent", "ok", "refused", "lost"} => line[l] # Free
         /\ line[l].from \in ScreenNames => line[l] # Free
         /\ Free \notin LineRecords
BY DEF ScreensType, Free, LineRecords, ScreenNames

\* A screen that is left listens no more.
LEMMA LeaveFacts ==
  ASSUME ScreensType, NEW screen \in ScreenNames
  PROVE  /\ Leave(screen) \in [Lines -> LineRecords \cup {Free}]
         /\ \A k \in Lines : Leave(screen)[k] # Free =>
               /\ line[k] # Free
               /\ Leave(screen)[k].at = line[k].at /\ Leave(screen)[k].from = line[k].from
               /\ Leave(screen)[k].what = line[k].what /\ Leave(screen)[k].stop = line[k].stop
               /\ Leave(screen)[k].got = line[k].got
               /\ Leave(screen)[k].live => line[k].live /\ line[k].from # screen
<1> SUFFICES ASSUME NEW k \in Lines
             PROVE  /\ Leave(screen)[k] \in LineRecords \cup {Free}
                    /\ Leave(screen)[k] # Free =>
                          /\ line[k] # Free
                          /\ Leave(screen)[k].at = line[k].at /\ Leave(screen)[k].from = line[k].from
                          /\ Leave(screen)[k].what = line[k].what /\ Leave(screen)[k].stop = line[k].stop
                          /\ Leave(screen)[k].got = line[k].got
                          /\ Leave(screen)[k].live => line[k].live /\ line[k].from # screen
  BY DEF Leave
<1>1. line[k] = Free \/ line[k] \in LineRecords
  BY BusyAreRecords
<1>2. CASE line[k].from # screen
  BY <1>1, <1>2 DEF Leave
<1>3. CASE line[k].from = screen
  <2>1. line[k] \in LineRecords
    BY <1>1, <1>3 DEF Free, ScreenNames
  <2>2. CASE screen # "detail" /\ line[k].what = "look"
    BY <1>3, <2>2 DEF Leave
  <2>3. CASE ~ (screen # "detail" /\ line[k].what = "look")
    <3> DEFINE r == line[k]
    <3>1. Leave(screen)[k] = [r EXCEPT !.live = FALSE]
      BY <1>3, <2>3 DEF Leave
    <3>2. /\ [r EXCEPT !.live = FALSE] \in LineRecords
          /\ [r EXCEPT !.live = FALSE].at = r.at /\ [r EXCEPT !.live = FALSE].from = r.from
          /\ [r EXCEPT !.live = FALSE].what = r.what /\ [r EXCEPT !.live = FALSE].stop = r.stop
          /\ [r EXCEPT !.live = FALSE].got = r.got /\ [r EXCEPT !.live = FALSE].live = FALSE
      BY <2>1 DEF LineRecords
    <3>3. line[k] # Free
      BY <2>1, BusyAreRecords
    <3> QED
      BY <3>1, <3>2, <3>3
  <2> QED
    BY <2>2, <2>3
<1> QED
  BY <1>2, <1>3

\* Where a screen leads.
LEMMA ShowScreenLeads ==
  ASSUME ScreensType, NEW l \in Lines, NEW screen \in ScreenNames, NEW s \in TripStops, ShowScreen(l, screen, s)
  PROVE  Leads(stack, screen)
<1>1. Offered(screen, s) /\ stack \in Walks
  BY DEF ShowScreen, ScreensType
<1>2. CASE stack = <<>>
  BY <1>1, <1>2 DEF Offered, InFocus, Leads
<1>3. CASE stack # <<>> /\ Last(stack) = "detail"
  BY <1>1, <1>3 DEF Offered, InFocus, RouteOffers, Leads
<1>4. CASE stack # <<>> /\ Last(stack) = "map"
  BY <1>1, <1>4 DEF Offered, InFocus, MarkerOffers, PanelOffers, Leads
<1>5. CASE stack # <<>> /\ Last(stack) = "stop"
  BY <1>1, <1>5 DEF Offered, InFocus, StopOffers, Leads
<1>6. CASE stack # <<>> /\ Last(stack) = "pod"
  BY <1>1, <1>6 DEF Offered, InFocus
<1> QED
  BY <1>1, <1>2, <1>3, <1>4, <1>5, <1>6, BackOnWalk DEF ScreenNames

-----------------------------------------------------------------------------
(* Steps.                                                                  *)

LEMMA ShowScreenStep ==
  ASSUME ScreensInvariant, NEW l \in Lines, NEW screen \in ScreenNames, NEW s \in TripStops, ShowScreen(l, screen, s)
  PROVE  ScreensType' /\ ListenersAreOnTheWalk'
<1> USE DEF ScreensInvariant
<1>1. /\ stack \in Walks /\ Leads(stack, screen) /\ stack' = Append(stack, screen)
      /\ trip' = trip /\ tracker' = tracker
  BY ShowScreenLeads DEF ShowScreen, ScreensType
<1>2. stack' \in Walks /\ \A x : On(stack', x) <=> On(stack, x) \/ x = screen
  BY <1>1, OnwardOnWalk
<1>3. shownTrip' \in [ScreenNames -> TripRecords]
  <2>1. stack # <<>> => shownTrip[Last(stack)] \in TripRecords
    BY <1>1, BackOnWalk DEF ScreensType
  <2> QED
    BY <2>1, UnreadType DEF ShowScreen, ScreensType
<1>4. \/ line' = line /\ overlap' = overlap
      \/ /\ line[l] = Free /\ line' = [line EXCEPT ![l] = Sent(screen, "look", 0)]
         /\ overlap' = CrossedAfter(l, "look")
  BY DEF ShowScreen, Request
<1>5. Sent(screen, "look", 0) \in LineRecords /\ Sent(screen, "look", 0).what = "look" /\ Sent(screen, "look", 0).from = screen
  BY SentType DEF Requests
<1>6. atStop' \in {0} \cup TripStops /\ (On(stack', "stop") \/ On(stack', "pod") => atStop' \in TripStops)
  BY <1>2 DEF ShowScreen, ScreensType
<1>7. overlap' \in BOOLEAN
  BY <1>4, CrossedIsBoolean DEF ScreensType
<1>8. /\ line' \in [Lines -> LineRecords \cup {Free}]
      /\ \A k \in Lines : line'[k].what \in DOMAIN StopButtons => line'[k].stop \in TripStops
  BY <1>4, <1>5, StopButtonNames DEF ScreensType
<1>9. ListenersAreOnTheWalk'
  BY <1>2, <1>4, <1>5 DEF ListenersAreOnTheWalk, ScreensType
<1> QED
  BY <1>1, <1>2, <1>3, <1>6, <1>7, <1>8, <1>9 DEF ScreensType

LEMMA GoBackStep ==
  ASSUME ScreensInvariant, NEW l \in Lines, GoBack(l)
  PROVE  ScreensType' /\ ListenersAreOnTheWalk'
<1> USE DEF ScreensInvariant
<1> DEFINE left == Leave(Last(stack))
<1>1. stack \in Walks /\ stack # <<>> /\ stack' = Front(stack) /\ trip' = trip /\ tracker' = tracker
  BY DEF GoBack, ScreensType
<1>2. /\ stack' \in Walks /\ Last(stack) \in ScreenNames
      /\ \A x : On(stack, x) <=> x = Last(stack) \/ On(stack', x)
      /\ Last(stack) = "stop" => ~ On(stack', "pod")
  BY <1>1, BackOnWalk
<1>3. /\ left \in [Lines -> LineRecords \cup {Free}]
      /\ \A k \in Lines : left[k] # Free =>
            /\ left[k].from = line[k].from /\ left[k].what = line[k].what /\ left[k].stop = line[k].stop
            /\ line[k] # Free /\ (left[k].live => line[k].live /\ line[k].from # Last(stack))
  BY <1>2, LeaveFacts
<1>4. shownTrip' \in [ScreenNames -> TripRecords]
  BY <1>2, UnreadType DEF GoBack, ScreensType
<1>5. \/ stack' = <<>> /\ line' = left /\ overlap' = overlap
      \/ /\ stack' # <<>> /\ overlap' = CrossedAfter(l, "look")
         /\ line' = [left EXCEPT ![l] = Sent(Last(stack'), "look", 0)]
  BY DEF GoBack
<1>6. stack' # <<>> => Last(stack') \in ScreenNames /\ On(stack', Last(stack'))
  BY <1>2, BackOnWalk
<1>7. stack' # <<>> => /\ Sent(Last(stack'), "look", 0) \in LineRecords /\ Sent(Last(stack'), "look", 0).what = "look"
                       /\ Sent(Last(stack'), "look", 0).from = Last(stack')
  BY <1>6, SentType DEF Requests
<1>8. atStop' \in {0} \cup TripStops /\ (On(stack', "stop") \/ On(stack', "pod") => atStop' \in TripStops)
  <2>1. atStop' = IF On(stack', "stop") \/ On(stack', "pod") THEN atStop ELSE 0
    BY DEF GoBack, On
  <2> QED
    BY <1>2, <2>1 DEF ScreensType
<1>9. overlap' \in BOOLEAN
  BY <1>5, CrossedIsBoolean DEF ScreensType
<1> HIDE DEF left
<1>10. \A k \in Lines : left[k].what \in DOMAIN StopButtons => left[k].stop \in TripStops
  BY <1>3, StopButtonNames DEF ScreensType, Free
<1>11. /\ line' \in [Lines -> LineRecords \cup {Free}]
       /\ \A k \in Lines : line'[k].what \in DOMAIN StopButtons => line'[k].stop \in TripStops
  BY <1>3, <1>5, <1>7, <1>10, StopButtonNames
<1>12. ListenersAreOnTheWalk'
  <2> SUFFICES ASSUME NEW k \in Lines, line'[k] # Free, line'[k].live
               PROVE  On(stack', line'[k].from)
    BY DEF ListenersAreOnTheWalk
  <2>1. CASE line'[k] = left[k]
    <3>1. line[k] # Free /\ line[k].live /\ line[k].from # Last(stack) /\ left[k].from = line[k].from
      BY <1>3, <2>1
    <3> QED
      BY <1>2, <2>1, <3>1 DEF ListenersAreOnTheWalk
  <2>2. CASE k = l /\ stack' # <<>> /\ line'[k] = Sent(Last(stack'), "look", 0)
    BY <1>6, <1>7, <2>2
  <2> QED
    BY <1>3, <1>5, <2>1, <2>2
<1> QED
  BY <1>1, <1>2, <1>4, <1>8, <1>9, <1>11, <1>12 DEF ScreensType

\* A request for a change comes from the screen in focus, which is not the map.
LEMMA PressStep ==
  ASSUME ScreensInvariant, NEW l \in Lines, NEW screen \in ScreenNames, NEW what \in Requests,
         NEW s \in {0} \cup TripStops, Press(l, screen, what, s), what \in DOMAIN StopButtons => s \in TripStops
  PROVE  ScreensType' /\ ListenersAreOnTheWalk'
<1> USE DEF ScreensInvariant
<1>1. /\ stack # <<>> /\ screen = Last(stack) /\ overlap' = CrossedAfter(l, what)
      /\ line[l] = Free /\ line' = [line EXCEPT ![l] = Sent(screen, what, s)]
      /\ UNCHANGED <<trip, stack, atStop, shownTrip, tracker>>
  BY DEF Press, InFocus, Request
<1>2. On(stack, screen) /\ overlap' \in BOOLEAN
  BY <1>1, BackOnWalk, CrossedIsBoolean DEF ScreensType
<1>3. /\ Sent(screen, what, s) \in LineRecords /\ Sent(screen, what, s).from = screen
      /\ Sent(screen, what, s).what = what /\ Sent(screen, what, s).stop = s
  BY SentType
<1>4. /\ line' \in [Lines -> LineRecords \cup {Free}]
      /\ \A k \in Lines : line'[k].what \in DOMAIN StopButtons => line'[k].stop \in TripStops
  BY <1>1, <1>3 DEF ScreensType
<1>5. ListenersAreOnTheWalk'
  BY <1>1, <1>2, <1>3 DEF ListenersAreOnTheWalk, ScreensType
<1> QED
  BY <1>1, <1>2, <1>4, <1>5 DEF ScreensType

\* What the server makes of a request.
LEMMA ServeFacts ==
  ASSUME ScreensType, NEW l \in Lines, Serve(l)
  PROVE  /\ trip' \in TripRecords
         /\ line[l] \in LineRecords /\ line[l].at = "sent"
         /\ line' \in [Lines -> LineRecords \cup {Free}]
         /\ \A k \in Lines \ {l} : line'[k] = line[k]
         /\ line'[l] # Free
         /\ line'[l].from = line[l].from /\ line'[l].what = line[l].what /\ line'[l].stop = line[l].stop
         /\ line'[l].live = line[l].live
         /\ line'[l].at \in {"ok", "refused", "lost"}
         /\ line'[l].at = "ok" => line'[l].got = trip'
         /\ line'[l].at = "refused" => trip' = trip
         /\ line[l].what = "look" => trip' = trip /\ line'[l].at # "refused"
<1> DEFINE c == line[l]
<1>1. c \in LineRecords /\ c.at = "sent"
  BY BusyAreRecords DEF Serve
<1>2. c.what \in DOMAIN StopButtons => c.stop \in TripStops
  BY DEF ScreensType
<1>3. /\ trip' = IF Allows(c) THEN TripAfter(c) ELSE trip
      /\ \E answer \in {"ok", "lost"} :
            line' = IF answer = "ok" /\ Allows(c) THEN [line EXCEPT ![l].at = "ok", ![l].got = trip']
                    ELSE [line EXCEPT ![l].at = IF answer = "ok" THEN "refused" ELSE "lost"]
  BY DEF Serve
<1>4. trip' \in TripRecords /\ (c.what = "look" => trip' = trip /\ Allows(c))
  <2>1. TripAfter(c) \in TripRecords /\ (c.what = "look" => TripAfter(c) = trip /\ Allows(c))
    BY <1>1, <1>2, TripAfterType DEF ScreensType
  <2> QED
    BY <1>3, <2>1 DEF ScreensType
<1>5. line \in [Lines -> LineRecords \cup {Free}]
  BY DEF ScreensType
<1>6. \A r \in LineRecords : r # Free
  BY BusyAreRecords
<1>7. CASE Allows(c) /\ line' = [line EXCEPT ![l].at = "ok", ![l].got = trip']
  <2> DEFINE r == [c EXCEPT !.at = "ok", !.got = trip']
  <2>1. line' = [line EXCEPT ![l] = r]
    BY <1>5, <1>7
  <2>2. /\ r \in LineRecords /\ r.from = c.from /\ r.what = c.what /\ r.stop = c.stop /\ r.live = c.live
        /\ r.at = "ok" /\ r.got = trip'
    BY <1>1, <1>4 DEF LineRecords
  <2> HIDE DEF r
  <2>3. line'[l] = r /\ line' \in [Lines -> LineRecords \cup {Free}] /\ \A k \in Lines \ {l} : line'[k] = line[k]
    BY <1>5, <2>1, <2>2
  <2> QED
    BY <1>1, <1>4, <1>6, <2>2, <2>3
<1>8. ASSUME NEW a \in {"refused", "lost"}, line' = [line EXCEPT ![l].at = a],
             a = "refused" => ~ Allows(c)
      PROVE  /\ line' \in [Lines -> LineRecords \cup {Free}]
             /\ \A k \in Lines \ {l} : line'[k] = line[k]
             /\ line'[l] # Free
             /\ line'[l].from = line[l].from /\ line'[l].what = line[l].what /\ line'[l].stop = line[l].stop
             /\ line'[l].live = line[l].live
             /\ line'[l].at = a
  <2> DEFINE r == [c EXCEPT !.at = a]
  <2>1. line' = [line EXCEPT ![l] = r]
    BY <1>5, <1>8
  <2>2. /\ r \in LineRecords /\ r.from = c.from /\ r.what = c.what /\ r.stop = c.stop /\ r.live = c.live
        /\ r.at = a
    BY <1>1, <1>8 DEF LineRecords
  <2> HIDE DEF r
  <2>3. line'[l] = r /\ line' \in [Lines -> LineRecords \cup {Free}] /\ \A k \in Lines \ {l} : line'[k] = line[k]
    BY <1>5, <2>1, <2>2
  <2> QED
    BY <1>6, <2>2, <2>3
<1>9. \/ Allows(c) /\ line' = [line EXCEPT ![l].at = "ok", ![l].got = trip']
      \/ \E a \in {"refused", "lost"} : line' = [line EXCEPT ![l].at = a] /\ (a = "refused" => ~ Allows(c))
  BY <1>3
<1>10. CASE ~ (Allows(c) /\ line' = [line EXCEPT ![l].at = "ok", ![l].got = trip'])
  <2>1. PICK a \in {"refused", "lost"} : line' = [line EXCEPT ![l].at = a] /\ (a = "refused" => ~ Allows(c))
    BY <1>9, <1>10
  <2>2. /\ line' \in [Lines -> LineRecords \cup {Free}]
        /\ \A k \in Lines \ {l} : line'[k] = line[k]
        /\ line'[l] # Free
        /\ line'[l].from = line[l].from /\ line'[l].what = line[l].what /\ line'[l].stop = line[l].stop
        /\ line'[l].live = line[l].live
        /\ line'[l].at = a
    BY <1>8, <2>1
  <2>3. a = "refused" => trip' = trip /\ c.what # "look"
    BY <1>3, <1>4, <2>1
  <2> QED
    BY <1>1, <1>4, <2>1, <2>2, <2>3
<1> QED
  BY <1>7, <1>10

LEMMA ServeStep ==
  ASSUME ScreensInvariant, NEW l \in Lines, Serve(l)
  PROVE  ScreensType' /\ ListenersAreOnTheWalk'
<1> USE DEF ScreensInvariant
<1>1. /\ trip' \in TripRecords /\ line[l] \in LineRecords /\ line' \in [Lines -> LineRecords \cup {Free}]
      /\ \A k \in Lines \ {l} : line'[k] = line[k]
      /\ line'[l].from = line[l].from /\ line'[l].what = line[l].what /\ line'[l].stop = line[l].stop
      /\ line'[l].live = line[l].live
  BY ServeFacts
<1>2. UNCHANGED <<stack, atStop, shownTrip, waiting, tracker, overlap, presses>>
  BY DEF Serve
<1>3. \A k \in Lines : line'[k].what \in DOMAIN StopButtons => line'[k].stop \in TripStops
  BY <1>1 DEF ScreensType
<1>4. ListenersAreOnTheWalk'
  <2>1. line[l] # Free
    BY <1>1, BusyAreRecords
  <2> QED
    BY <1>1, <1>2, <2>1 DEF ListenersAreOnTheWalk
<1> QED
  BY <1>1, <1>2, <1>3, <1>4 DEF ScreensType

\* An answer that is taken frees its line.
LEMMA AnswerStep ==
  ASSUME ScreensInvariant, NEW l \in Lines, RouteAnswer(l) \/ OtherAnswer(l) \/ PodAnswer(l)
  PROVE  ScreensType' /\ ListenersAreOnTheWalk'
<1> USE DEF ScreensInvariant
<1>1. line' = [line EXCEPT ![l] = Free] /\ UNCHANGED <<trip, stack, atStop, overlap>>
  BY DEF RouteAnswer, OtherAnswer, PodAnswer
<1>2. line[l] \in LineRecords
  BY BusyAreRecords DEF RouteAnswer, OtherAnswer, PodAnswer
<1>3. line[l].got \in TripRecords
  BY <1>2 DEF LineRecords
<1>4. shownTrip' \in [ScreenNames -> TripRecords]
  BY <1>3 DEF RouteAnswer, OtherAnswer, PodAnswer, ScreensType
<1>5. tracker' \in BOOLEAN
  <2>1. CASE RouteAnswer(l)
    <3>1. tracker' = (line[l].got.status \in TrackedStatuses)
      BY <2>1 DEF RouteAnswer
    <3>2. CASE line[l].got.status \in TrackedStatuses
      BY <3>1, <3>2
    <3>3. CASE line[l].got.status \notin TrackedStatuses
      BY <3>1, <3>3
    <3> QED
      BY <3>2, <3>3
  <2>2. CASE OtherAnswer(l) \/ PodAnswer(l)
    BY <2>2 DEF OtherAnswer, PodAnswer, ScreensType
  <2> QED
    BY <2>1, <2>2
<1>6. /\ line' \in [Lines -> LineRecords \cup {Free}]
      /\ \A k \in Lines : line'[k].what \in DOMAIN StopButtons => line'[k].stop \in TripStops
  BY <1>1, StopButtonNames DEF ScreensType, Free
<1>7. ListenersAreOnTheWalk'
  BY <1>1 DEF ListenersAreOnTheWalk, ScreensType
<1> QED
  BY <1>1, <1>4, <1>5, <1>6, <1>7 DEF ScreensType

LEMMA FailedAnswerStep ==
  ASSUME ScreensInvariant, NEW l \in Lines, FailedAnswer(l)
  PROVE  ScreensType' /\ ListenersAreOnTheWalk'
<1> USE DEF ScreensInvariant
<1>1. UNCHANGED <<trip, stack, atStop, shownTrip, tracker, presses>>
  BY DEF FailedAnswer
<1>2. line[l] # Free
  BY BusyAreRecords DEF FailedAnswer
<1>3. \/ /\ line[l].from = "stop" /\ line[l].live /\ overlap' = CrossedAfter(l, "look")
         /\ line' = [line EXCEPT ![l] = Sent("stop", "look", 0)]
      \/ overlap' = (overlap \/ line[l].at = "lost") /\ line' = [line EXCEPT ![l] = Free]
  BY DEF FailedAnswer
<1>4. /\ Sent("stop", "look", 0) \in LineRecords /\ Sent("stop", "look", 0).from = "stop"
      /\ Sent("stop", "look", 0).what = "look"
  BY SentType DEF ScreenNames, Requests
<1>5. overlap' \in BOOLEAN
  <2>1. CrossedAfter(l, "look") \in BOOLEAN
    BY CrossedIsBoolean DEF ScreensType
  <2>2. (overlap \/ line[l].at = "lost") \in BOOLEAN
    BY Zenon
  <2> QED
    BY <1>3, <2>1, <2>2, Zenon
<1>6. /\ line' \in [Lines -> LineRecords \cup {Free}]
      /\ \A k \in Lines : line'[k].what \in DOMAIN StopButtons => line'[k].stop \in TripStops
  BY <1>3, <1>4, StopButtonNames DEF ScreensType, Free
<1>7. ListenersAreOnTheWalk'
  BY <1>1, <1>2, <1>3, <1>4 DEF ListenersAreOnTheWalk, ScreensType
<1> QED
  BY <1>1, <1>5, <1>6, <1>7 DEF ScreensType

-----------------------------------------------------------------------------
(* What the screens show.                                                  *)

\* A look that leaves the history clear goes out while others look, if anyone.
LEMMA LookSent ==
  ASSUME ScreensInvariant, NEW l \in Lines, overlap' = CrossedAfter(l, "look"), ~overlap', trip' = trip,
         line'[l].what = "look", line'[l].at = "sent",
         \A k \in Lines \ {l} : line'[k] # Free =>
            /\ line[k] # Free /\ line'[k].at = line[k].at
            /\ line'[k].what = line[k].what /\ line'[k].got = line[k].got
  PROVE  Uncrossed' /\ \A k \in Lines : line'[k] # Free => line'[k].what = "look"
<1>1. \/ \A k \in Lines \ {l} : line[k] = Free
      \/ ~overlap /\ \A k \in Lines \ {l} : line[k] # Free => line[k].what = "look"
  BY NotCrossed DEF ScreensInvariant, ScreensType
<1>2. \A k \in Lines : line'[k] # Free => line'[k].what = "look"
  BY <1>1
<1>3. ASSUME NEW k \in Lines, line'[k].at = "ok"
      PROVE  line'[k].got = trip'
  <2>1. k # l /\ line'[k] # Free
    BY <1>3 DEF Free
  <2>2. line[k] # Free /\ line[k].at = "ok" /\ line'[k].got = line[k].got
    BY <1>3, <2>1
  <2> QED
    BY <1>1, <2>1, <2>2 DEF ScreensInvariant, ScreensTruth, Uncrossed
<1> QED
  BY <1>2, <1>3 DEF Uncrossed

\* The screen that looks is about to be up to date.
LEMMA LookUpdates ==
  ASSUME NEW l \in Lines, NEW screen, line'[l] = Sent(screen, "look", 0)
  PROVE  UpdateIsComing(screen)'
<1>1. line'[l] # Free /\ line'[l].from = screen /\ line'[l].live /\ line'[l].what = "look" /\ line'[l].at = "sent"
  BY DEF Sent, Free
<1> QED
  BY <1>1 DEF UpdateIsComing

LEMMA ShowScreenTruth ==
  ASSUME ScreensInvariant, NEW l \in Lines, NEW screen \in ScreenNames, NEW s \in TripStops, ShowScreen(l, screen, s)
  PROVE  ScreensTruth'
<1> SUFFICES ASSUME ~overlap'
             PROVE  /\ Uncrossed'
                    /\ stack' = <<"detail">> => RouteFollows'
                    /\ stack' = <<"detail", "map">> => MapFollows'
  BY DEF ScreensTruth
<1>1. stack \in Walks /\ Leads(stack, screen) /\ stack' = Append(stack, screen) /\ trip' = trip
  BY ShowScreenLeads DEF ShowScreen, ScreensType, ScreensInvariant
<1>2. (stack' = <<"detail">> => screen = "detail") /\ (stack' = <<"detail", "map">> => screen = "map")
  BY <1>1, OnwardOnWalk
<1>3. CASE screen = "pod"
  <2>1. line' = line /\ overlap' = overlap
    BY <1>3 DEF ShowScreen
  <2> QED
    BY <1>1, <1>2, <1>3, <2>1 DEF ScreensInvariant, ScreensTruth, Uncrossed
<1>4. CASE screen # "pod"
  <2>1. line' = [line EXCEPT ![l] = Sent(screen, "look", 0)] /\ overlap' = CrossedAfter(l, "look")
    BY <1>4 DEF ShowScreen, Request
  <2>2. line'[l] = Sent(screen, "look", 0) /\ \A k \in Lines \ {l} : line'[k] = line[k]
    BY <2>1 DEF ScreensInvariant, ScreensType
  <2>3. line'[l].what = "look" /\ line'[l].at = "sent"
    BY <2>2 DEF Sent
  <2>4. Uncrossed' /\ \A k \in Lines : line'[k] # Free => line'[k].what = "look"
    BY <1>1, <2>1, <2>2, <2>3, LookSent
  <2>5. UpdateIsComing(screen)'
    BY <2>2, LookUpdates
  <2> QED
    BY <1>2, <2>4, <2>5 DEF RouteFollows, MapFollows
<1> QED
  BY <1>3, <1>4

LEMMA GoBackTruth ==
  ASSUME ScreensInvariant, NEW l \in Lines, GoBack(l)
  PROVE  ScreensTruth'
<1> SUFFICES ASSUME ~overlap'
             PROVE  /\ Uncrossed'
                    /\ stack' = <<"detail">> => RouteFollows'
                    /\ stack' = <<"detail", "map">> => MapFollows'
  BY DEF ScreensTruth
<1> DEFINE left == Leave(Last(stack))
<1>1. stack \in Walks /\ stack # <<>> /\ stack' = Front(stack) /\ trip' = trip
  BY DEF GoBack, ScreensInvariant, ScreensType
<1>2. stack' \in Walks /\ Last(stack) \in ScreenNames
  BY <1>1, BackOnWalk
<1>3. /\ left \in [Lines -> LineRecords \cup {Free}]
      /\ \A k \in Lines : left[k] # Free =>
            /\ line[k] # Free /\ left[k].at = line[k].at /\ left[k].what = line[k].what /\ left[k].got = line[k].got
  BY <1>2, LeaveFacts DEF ScreensInvariant
<1>4. CASE stack' = <<>>
  <2>1. line' = left /\ overlap' = overlap
    BY <1>4 DEF GoBack
  <2>2. Uncrossed
    BY <2>1 DEF ScreensInvariant, ScreensTruth
  <2> HIDE DEF left
  <2>3. Uncrossed'
    <3>1. \A k \in Lines : line'[k].at = "ok" => line'[k] # Free
      BY DEF Free
    <3> QED
      BY <1>1, <1>3, <2>1, <2>2, <3>1 DEF Uncrossed
  <2> QED
    BY <1>4, <2>3
<1>5. CASE stack' # <<>>
  <2>1. line' = [left EXCEPT ![l] = Sent(Last(stack'), "look", 0)] /\ overlap' = CrossedAfter(l, "look")
    BY <1>5 DEF GoBack
  <2> HIDE DEF left
  <2>2. line'[l] = Sent(Last(stack'), "look", 0) /\ \A k \in Lines \ {l} : line'[k] = left[k]
    BY <1>3, <2>1
  <2>3. line'[l].what = "look" /\ line'[l].at = "sent"
    BY <2>2 DEF Sent
  <2>4. Uncrossed' /\ \A k \in Lines : line'[k] # Free => line'[k].what = "look"
    BY <1>1, <1>3, <2>1, <2>2, <2>3, LookSent
  <2>5. PICK screen : screen = Last(stack')
    OBVIOUS
  <2>6. UpdateIsComing(screen)'
    BY <2>2, <2>5, LookUpdates
  <2>7. (stack' = <<"detail">> => screen = "detail") /\ (stack' = <<"detail", "map">> => screen = "map")
    BY <1>2, <1>5, <2>5, BackOnWalk
  <2> QED
    BY <2>4, <2>6, <2>7 DEF RouteFollows, MapFollows
<1> QED
  BY <1>4, <1>5

\* An update to come from another line is still to come.
LEMMA OtherLineUpdates ==
  ASSUME NEW l \in Lines, NEW screen, UpdateIsComing(screen),
         \A k \in Lines \ {l} : line'[k] = line[k],
         ~ (/\ line[l] # Free /\ line[l].from = screen /\ line[l].live
            /\ line[l].at \in {"ok", "lost"} \/ (line[l].what = "look" /\ line[l].at = "sent"))
  PROVE  UpdateIsComing(screen)'
BY DEF UpdateIsComing

LEMMA PressTruth ==
  ASSUME ScreensInvariant, NEW l \in Lines, NEW screen \in {"detail", "stop", "pod"}, NEW what \in Requests \ {"look"},
         NEW s, Press(l, screen, what, s)
  PROVE  ScreensTruth'
<1> SUFFICES ASSUME ~overlap'
             PROVE  /\ Uncrossed'
                    /\ stack' = <<"detail">> => RouteFollows'
                    /\ stack' = <<"detail", "map">> => MapFollows'
  BY DEF ScreensTruth
<1>1. /\ stack # <<>> /\ screen = Last(stack) /\ overlap' = CrossedAfter(l, what)
      /\ line[l] = Free /\ line' = [line EXCEPT ![l] = Sent(screen, what, s)]
      /\ UNCHANGED <<trip, stack, atStop, shownTrip, tracker>>
  BY DEF Press, InFocus, Request
<1>2. ~overlap /\ \A k \in Lines : line[k] = Free
  BY <1>1, NotCrossed DEF ScreensInvariant, ScreensType
<1>3. line'[l] = Sent(screen, what, s) /\ \A k \in Lines \ {l} : line'[k] = Free
  BY <1>1, <1>2 DEF ScreensInvariant, ScreensType
<1>4. line'[l].at = "sent" /\ line'[l].from = screen /\ line'[l].live
  BY <1>3 DEF Sent
<1>5. Uncrossed'
  BY <1>3, <1>4, FreeIsNoAnswer DEF Uncrossed
<1>6. stack # <<"detail", "map">>
  BY <1>1, BackOnWalk DEF ScreensInvariant, ScreensType
<1>7. ASSUME stack = <<"detail">>
      PROVE  RouteFollows'
  <2>1. screen = "detail"
    BY <1>1, <1>7, BackOnWalk DEF ScreensInvariant, ScreensType
  <2>2. RouteFollows /\ ~ UpdateIsComing("detail")
    BY <1>2, <1>7 DEF ScreensInvariant, ScreensTruth, UpdateIsComing
  <2>3. RouteIsTrue'
    BY <1>1, <2>2 DEF RouteFollows, RouteIsTrue
  <2> QED
    BY <1>3, <1>4, <2>1, <2>3 DEF RouteFollows
<1> QED
  BY <1>1, <1>5, <1>6, <1>7

LEMMA ServeTruth ==
  ASSUME ScreensInvariant, NEW l \in Lines, Serve(l)
  PROVE  ScreensTruth'
<1> SUFFICES ASSUME ~overlap'
             PROVE  /\ Uncrossed'
                    /\ stack' = <<"detail">> => RouteFollows'
                    /\ stack' = <<"detail", "map">> => MapFollows'
  BY DEF ScreensTruth
<1>1. UNCHANGED <<stack, atStop, shownTrip, waiting, tracker, overlap, presses>>
  BY DEF Serve
<1>2. /\ line[l].at = "sent" /\ line[l] # Free /\ line'[l] # Free
      /\ \A k \in Lines \ {l} : line'[k] = line[k]
      /\ line'[l].from = line[l].from /\ line'[l].what = line[l].what /\ line'[l].live = line[l].live
      /\ line'[l].at \in {"ok", "refused", "lost"}
      /\ line'[l].at = "ok" => line'[l].got = trip'
      /\ line'[l].at = "refused" => trip' = trip
      /\ line[l].what = "look" => trip' = trip /\ line'[l].at # "refused"
  BY ServeFacts, BusyAreRecords DEF ScreensInvariant
<1>3. Uncrossed
  BY <1>1 DEF ScreensInvariant, ScreensTruth
<1>4. Uncrossed'
  <2>1. \A j, k \in Lines : j # k /\ line'[j] # Free /\ line'[k] # Free => line'[j].what = "look"
    BY <1>2, <1>3 DEF Uncrossed
  <2>2. ASSUME NEW k \in Lines, line'[k].at = "ok"
        PROVE  line'[k].got = trip'
    <3>1. CASE k = l
      BY <1>2, <2>2, <3>1
    <3>2. CASE k # l
      <4>1. line[k].at = "ok" /\ line[k] # Free /\ line'[k].got = line[k].got
        BY <1>2, <2>2, <3>2 DEF Free
      <4>2. line[l].what = "look" /\ line[k].got = trip
        BY <1>2, <1>3, <3>2, <4>1 DEF Uncrossed
      <4> QED
        BY <1>2, <4>1, <4>2
    <3> QED
      BY <3>1, <3>2
  <2> QED
    BY <2>1, <2>2 DEF Uncrossed
<1>5. ASSUME NEW screen, UpdateIsComing(screen)
      PROVE  UpdateIsComing(screen)'
  <2>1. CASE line[l].from = screen /\ line[l].live /\ line[l].what = "look"
    BY <1>2, <2>1 DEF UpdateIsComing
  <2>2. CASE ~ (line[l].from = screen /\ line[l].live /\ line[l].what = "look")
    BY <1>2, <1>5, <2>2, OtherLineUpdates
  <2> QED
    BY <2>1, <2>2
<1>6. ASSUME stack = <<"detail">>
      PROVE  RouteFollows'
  <2>1. RouteFollows
    BY <1>1, <1>6 DEF ScreensInvariant, ScreensTruth
  <2>2. \A k \in Lines : line'[k] # Free => line'[k].what = "look" \/ (line'[k].from = "detail" /\ line'[k].live)
    BY <1>2, <2>1 DEF RouteFollows
  <2>3. CASE UpdateIsComing("detail")
    BY <1>5, <2>2, <2>3 DEF RouteFollows
  <2>4. CASE RouteIsTrue /\ trip' = trip
    BY <1>1, <2>2, <2>4 DEF RouteFollows, RouteIsTrue
  <2>5. CASE trip' # trip
    <3>1. line[l].from = "detail" /\ line[l].live /\ line'[l].at \in {"ok", "lost"}
      BY <1>2, <2>1, <2>5 DEF RouteFollows
    <3> QED
      BY <1>2, <2>2, <3>1 DEF RouteFollows, UpdateIsComing
  <2> QED
    BY <2>1, <2>3, <2>4, <2>5 DEF RouteFollows
<1>7. ASSUME stack = <<"detail", "map">>
      PROVE  MapFollows'
  <2>1. MapFollows
    BY <1>1, <1>7 DEF ScreensInvariant, ScreensTruth
  <2>2. trip' = trip /\ \A k \in Lines : line'[k] # Free => line'[k].what = "look"
    BY <1>2, <2>1 DEF MapFollows
  <2> QED
    BY <1>1, <1>5, <2>1, <2>2 DEF MapFollows
<1> QED
  BY <1>1, <1>4, <1>6, <1>7

\* What was answered is the trip, so a screen that takes it shows the trip.
LEMMA AnswerTruth ==
  ASSUME ScreensInvariant, NEW l \in Lines, RouteAnswer(l) \/ OtherAnswer(l) \/ PodAnswer(l)
  PROVE  ScreensTruth'
<1> SUFFICES ASSUME ~overlap'
             PROVE  /\ Uncrossed'
                    /\ stack' = <<"detail">> => RouteFollows'
                    /\ stack' = <<"detail", "map">> => MapFollows'
  BY DEF ScreensTruth
<1>1. line' = [line EXCEPT ![l] = Free] /\ UNCHANGED <<trip, stack, atStop, overlap>> /\ line[l].at = "ok"
  BY DEF RouteAnswer, OtherAnswer, PodAnswer
<1>2. line'[l] = Free /\ \A k \in Lines \ {l} : line'[k] = line[k]
  BY <1>1 DEF ScreensInvariant, ScreensType
<1>3. Uncrossed /\ line[l].got = trip /\ line[l] # Free
  BY <1>1, BusyAreRecords DEF ScreensInvariant, ScreensTruth, Uncrossed
<1>4. Uncrossed'
  BY <1>1, <1>2, <1>3, FreeIsNoAnswer DEF Uncrossed
<1>5. shownTrip \in [ScreenNames -> TripRecords]
  BY DEF ScreensInvariant, ScreensType
<1>6. ASSUME stack = <<"detail">>
      PROVE  RouteFollows'
  <2>1. RouteFollows
    BY <1>1, <1>6 DEF ScreensInvariant, ScreensTruth
  <2>2. \A k \in Lines : line'[k] # Free => line'[k].what = "look" \/ (line'[k].from = "detail" /\ line'[k].live)
    BY <1>2, <2>1 DEF RouteFollows
  <2>3. CASE RouteAnswer(l)
    <3>1. tracker' = (trip'.status \in Working)
      BY <1>1, <1>3, <2>3 DEF RouteAnswer, TrackedStatuses, Working
    <3>2. CASE line[l].live
      <4>1. shownTrip'["detail"] = trip'
        BY <1>1, <1>3, <1>5, <2>3, <3>2 DEF RouteAnswer, ScreenNames
      <4> QED
        BY <2>2, <3>1, <4>1 DEF RouteFollows, RouteIsTrue
    <3>3. CASE ~ line[l].live
      <4>1. shownTrip' = shownTrip
        BY <2>3, <3>3 DEF RouteAnswer
      <4>2. UpdateIsComing("detail") => UpdateIsComing("detail")'
        BY <1>2, <3>3, OtherLineUpdates
      <4> QED
        BY <1>1, <2>1, <2>2, <3>1, <4>1, <4>2 DEF RouteFollows, RouteIsTrue
    <3> QED
      BY <3>2, <3>3
  <2>4. CASE OtherAnswer(l) \/ PodAnswer(l)
    <3>1. line[l].from \in {"map", "stop", "pod"} /\ tracker' = tracker
      BY <2>4 DEF OtherAnswer, PodAnswer
    <3>2. shownTrip'["detail"] = shownTrip["detail"]
      BY <1>5, <2>4 DEF OtherAnswer, PodAnswer, ScreenNames
    <3>3. UpdateIsComing("detail") => UpdateIsComing("detail")'
      BY <1>2, <3>1, OtherLineUpdates
    <3> QED
      BY <1>1, <2>1, <2>2, <3>1, <3>2, <3>3 DEF RouteFollows, RouteIsTrue
  <2> QED
    BY <2>3, <2>4
<1>7. ASSUME stack = <<"detail", "map">>
      PROVE  MapFollows'
  <2>1. MapFollows
    BY <1>1, <1>7 DEF ScreensInvariant, ScreensTruth
  <2>2. \A k \in Lines : line'[k] # Free => line'[k].what = "look"
    BY <1>2, <2>1 DEF MapFollows
  <2>3. CASE OtherAnswer(l) /\ line[l].from = "map" /\ line[l].live
    <3>1. shownTrip'["map"] = trip'
      BY <1>1, <1>3, <1>5, <2>3 DEF OtherAnswer, ScreenNames
    <3> QED
      BY <2>2, <3>1 DEF MapFollows
  <2>4. CASE ~ (OtherAnswer(l) /\ line[l].from = "map" /\ line[l].live)
    <3>1. ~ (line[l].from = "map" /\ line[l].live)
      BY <2>4 DEF RouteAnswer, OtherAnswer, PodAnswer
    <3>2. shownTrip'["map"] = shownTrip["map"]
      BY <1>5, <2>4, <3>1 DEF RouteAnswer, OtherAnswer, PodAnswer, ScreenNames
    <3>3. UpdateIsComing("map") => UpdateIsComing("map")'
      BY <1>2, <3>1, OtherLineUpdates
    <3> QED
      BY <1>1, <2>1, <2>2, <3>2, <3>3 DEF MapFollows
  <2> QED
    BY <2>3, <2>4
<1> QED
  BY <1>1, <1>4, <1>6, <1>7

LEMMA FailedAnswerTruth ==
  ASSUME ScreensInvariant, NEW l \in Lines, FailedAnswer(l)
  PROVE  ScreensTruth'
<1> SUFFICES ASSUME ~overlap'
             PROVE  /\ Uncrossed'
                    /\ stack' = <<"detail">> => RouteFollows'
                    /\ stack' = <<"detail", "map">> => MapFollows'
  BY DEF ScreensTruth
<1>1. UNCHANGED <<trip, stack, shownTrip, tracker>> /\ line[l] # Free
  BY BusyAreRecords DEF FailedAnswer, ScreensInvariant
<1>2. CASE line[l].from = "stop" /\ line[l].what # "look" /\ line[l].live
  <2>1. line' = [line EXCEPT ![l] = Sent("stop", "look", 0)] /\ overlap' = CrossedAfter(l, "look")
    BY <1>2 DEF FailedAnswer
  <2>2. line'[l] = Sent("stop", "look", 0) /\ \A k \in Lines \ {l} : line'[k] = line[k]
    BY <2>1 DEF ScreensInvariant, ScreensType
  <2>3. line'[l].what = "look" /\ line'[l].at = "sent"
    BY <2>2 DEF Sent
  <2>4. Uncrossed'
    BY <1>1, <2>1, <2>2, <2>3, LookSent
  <2>5. stack # <<"detail">> /\ stack # <<"detail", "map">>
    <3>1. On(stack, "stop")
      BY <1>1, <1>2 DEF ScreensInvariant, ListenersAreOnTheWalk
    <3> QED
      BY <3>1, OnOne, OnTwo
  <2> QED
    BY <1>1, <2>4, <2>5
<1>3. CASE ~ (line[l].from = "stop" /\ line[l].what # "look" /\ line[l].live)
  <2>1. line' = [line EXCEPT ![l] = Free] /\ overlap' = (overlap \/ line[l].at = "lost")
    BY <1>3 DEF FailedAnswer
  <2>2. ~overlap /\ line[l].at = "refused"
    BY <2>1 DEF FailedAnswer
  <2>3. line'[l] = Free /\ \A k \in Lines \ {l} : line'[k] = line[k]
    BY <2>1 DEF ScreensInvariant, ScreensType
  <2>4. Uncrossed'
    BY <1>1, <2>2, <2>3, FreeIsNoAnswer DEF ScreensInvariant, ScreensTruth, Uncrossed
  <2>5. \A screen : UpdateIsComing(screen) => UpdateIsComing(screen)'
    BY <2>2, <2>3, OtherLineUpdates
  <2>6. stack = <<"detail">> => RouteFollows'
    BY <1>1, <2>2, <2>3, <2>5 DEF ScreensInvariant, ScreensTruth, RouteFollows, RouteIsTrue
  <2>7. stack = <<"detail", "map">> => MapFollows'
    BY <1>1, <2>2, <2>3, <2>5 DEF ScreensInvariant, ScreensTruth, MapFollows
  <2> QED
    BY <1>1, <2>4, <2>6, <2>7
<1> QED
  BY <1>2, <1>3

-----------------------------------------------------------------------------
(* The specification.                                                      *)

LEMMA ScreensInitially == DriverScreensInit => ScreensInvariant
<1> SUFFICES ASSUME DriverScreensInit
             PROVE  ScreensInvariant
  OBVIOUS
<1>1. trip \in TripRecords /\ tracker \in BOOLEAN
  <2>1. PICK told \in {"ASSIGNED", "IN_PROGRESS"}, first \in {"PENDING", "COMPLETED"} :
          trip = [status |-> told, task |-> [s \in TripStops |-> IF s = 1 THEN first ELSE "PENDING"]]
    BY DEF DriverScreensInit
  <2>2. trip \in TripRecords
    BY <2>1 DEF TripRecords, Statuses, TaskStates
  <2>3. tracker = (trip.status \in Working)
    BY DEF DriverScreensInit
  <2>4. CASE trip.status \in Working
    BY <2>2, <2>3, <2>4
  <2>5. CASE trip.status \notin Working
    BY <2>2, <2>3, <2>5
  <2> QED
    BY <2>4, <2>5
<1>2. stack = <<>> /\ stack \in Walks /\ ~ On(stack, "stop") /\ ~ On(stack, "pod")
  BY OnNone DEF DriverScreensInit, Walks
<1>3. \A l \in Lines : line[l] = Free
  BY DEF DriverScreensInit
<1>4. ScreensType
  BY <1>1, <1>2, <1>3, UnreadType, StopButtonNames DEF ScreensType, DriverScreensInit, Free
<1>5. ListenersAreOnTheWalk
  BY <1>3 DEF ListenersAreOnTheWalk
<1>6. ScreensTruth
  BY <1>2, <1>3, FreeIsNoAnswer DEF ScreensTruth, Uncrossed
<1> QED
  BY <1>4, <1>5, <1>6 DEF ScreensInvariant

LEMMA ScreensNext ==
  ASSUME ScreensInvariant, [DriverScreensNext]_driving
  PROVE  ScreensInvariant'
<1>1. CASE UNCHANGED driving
  BY <1>1 DEF driving, ScreensInvariant, ScreensType, ListenersAreOnTheWalk, ScreensTruth, Uncrossed,
              RouteFollows, MapFollows, RouteIsTrue, UpdateIsComing
<1>2. CASE DriverScreensNext
  <2>1. PICK l \in Lines :
          \/ \E screen \in ScreenNames, s \in TripStops : ShowScreen(l, screen, s)
          \/ GoBack(l)
          \/ \E what \in {"confirm", "load", "start", "return", "finish"} : PressTrip(l, what)
          \/ \E what \in DOMAIN StopButtons : PressStop(l, what)
          \/ PressPod(l)
          \/ Serve(l) \/ RouteAnswer(l) \/ OtherAnswer(l) \/ PodAnswer(l) \/ FailedAnswer(l)
    BY <1>2 DEF DriverScreensNext
  <2>2. ASSUME NEW screen \in ScreenNames, NEW s \in TripStops, ShowScreen(l, screen, s)
        PROVE  ScreensInvariant'
    BY <2>2, ShowScreenStep, ShowScreenTruth DEF ScreensInvariant
  <2>3. CASE GoBack(l)
    BY <2>3, GoBackStep, GoBackTruth DEF ScreensInvariant
  <2>4. ASSUME NEW screen \in {"detail", "stop", "pod"}, NEW what \in Requests \ {"look"}, NEW s \in {0} \cup TripStops,
               Press(l, screen, what, s), what \in DOMAIN StopButtons => s \in TripStops
        PROVE  ScreensInvariant'
    <3>1. screen \in ScreenNames
      BY DEF ScreenNames
    <3> QED
      BY <2>4, <3>1, PressStep, PressTruth DEF ScreensInvariant
  <2>5. ASSUME NEW what \in {"confirm", "load", "start", "return", "finish"}, PressTrip(l, what)
        PROVE  ScreensInvariant'
    <3>1. Press(l, "detail", what, 0) /\ what \in Requests \ {"look"} /\ what \notin DOMAIN StopButtons
      BY <2>5, StopButtonNames DEF PressTrip, Requests
    <3> QED
      BY <2>4, <3>1
  <2>6. InFocus("stop") \/ InFocus("pod") => atStop \in TripStops
    <3>1. stack \in Walks
      BY DEF ScreensInvariant, ScreensType
    <3>2. InFocus("stop") \/ InFocus("pod") => On(stack, "stop") \/ On(stack, "pod")
      BY <3>1, BackOnWalk DEF InFocus
    <3> QED
      BY <3>2 DEF ScreensInvariant, ScreensType
  <2>7. ASSUME NEW what \in DOMAIN StopButtons, PressStop(l, what)
        PROVE  ScreensInvariant'
    <3>1. Press(l, "stop", what, atStop) /\ InFocus("stop") /\ what \in Requests \ {"look"}
      BY <2>7, StopButtonNames DEF PressStop, Requests
    <3> QED
      BY <2>4, <2>6, <3>1
  <2>8. CASE PressPod(l)
    <3>1. Press(l, "pod", "complete", atStop) /\ InFocus("pod") /\ "complete" \in Requests \ {"look"}
      BY <2>8 DEF PressPod, Requests
    <3> QED
      BY <2>4, <2>6, <3>1
  <2>9. CASE Serve(l)
    BY <2>9, ServeStep, ServeTruth DEF ScreensInvariant
  <2>10. CASE RouteAnswer(l) \/ OtherAnswer(l) \/ PodAnswer(l)
    BY <2>10, AnswerStep, AnswerTruth DEF ScreensInvariant
  <2>11. CASE FailedAnswer(l)
    BY <2>11, FailedAnswerStep, FailedAnswerTruth DEF ScreensInvariant
  <2> QED
    BY <2>1, <2>2, <2>3, <2>5, <2>7, <2>8, <2>9, <2>10, <2>11
<1> QED
  BY <1>1, <1>2

LEMMA InvariantShows == ScreensInvariant => ScreensFollowTheTrip
<1> SUFFICES ASSUME ScreensInvariant, AtRest, ~overlap
             PROVE  /\ InFocus("detail") => shownTrip["detail"] = trip /\ (tracker <=> trip.status \in Working)
                    /\ InFocus("map") => Destination(shownTrip["map"]) = Destination(trip)
  BY DEF ScreensFollowTheTrip
<1>1. \A screen : ~ UpdateIsComing(screen)
  BY DEF AtRest, UpdateIsComing
<1>2. (InFocus("detail") => stack = <<"detail">>) /\ (InFocus("map") => stack = <<"detail", "map">>)
  BY BackOnWalk DEF InFocus, ScreensInvariant, ScreensType
<1> QED
  BY <1>1, <1>2 DEF ScreensInvariant, ScreensTruth, RouteFollows, MapFollows, RouteIsTrue

\* With any number of stops, of requests under way and of presses, the route screen shows
\* the trip as it is and GPS is sent just while the trip is on the road, and the map points
\* to the next stop, whenever nothing is under way: RouteDetailScreen.jsx, MapScreen.jsx.
THEOREM ScreensFollow == DriverScreensSpec => []ScreensFollowTheTrip
<1>1. DriverScreensSpec => []ScreensInvariant
  BY ScreensInitially, ScreensNext, PTL DEF DriverScreensSpec
<1> QED
  BY <1>1, InvariantShows, PTL

-----------------------------------------------------------------------------
(* OrderEntry: the totals of orders.                                       *)

Totals == {0} \cup {SumFunction(list) : list \in UNION {[A -> Prices] : A \in SUBSET Goods}}
EntryRecords ==
    [is : {"none", "there", "deleted"}, items : SUBSET Goods, total : Totals,
     approval : {"none", "PENDING", "APPROVED", "REJECTED"}, locked : BOOLEAN]
EditRecords ==
    [at : {"none", "loaded", "priced"}, code : OrderCodes \cup {"none"}, items : SUBSET Goods, loaded : EntryRecords,
     total : Totals, behind : BOOLEAN, crossed : BOOLEAN, dated : BOOLEAN]
EntryTypes ==
    /\ price \in [Goods -> Prices]
    /\ entry \in [OrderCodes -> EntryRecords]
    /\ edit \in [Edits -> EditRecords]
    /\ upload \subseteq [code : OrderCodes, items : SUBSET Goods]

UnderWay(e) == edit[e].at # "none"

\* What an update that nobody overtook has loaded is still stored.
LoadedIsStored ==
    \A e \in Edits : UnderWay(e) =>
        /\ edit[e].code \in OrderCodes /\ entry[edit[e].code].is # "none"
        /\ entry[edit[e].code].is = "there" /\ ~edit[e].behind =>
              /\ edit[e].loaded.items = entry[edit[e].code].items
              /\ ~edit[e].crossed => edit[e].loaded.total = entry[edit[e].code].total
\* What it is about to save costs what it carries.
PricedAgrees ==
    \A e \in Edits : edit[e].at = "priced" /\ ~edit[e].dated => edit[e].total = TotalPrice(edit[e].items)

EntryInvariant == EntryTypes /\ LoadedIsStored /\ PricedAgrees /\ TotalIsOfItsItems

LEMMA TotalFacts ==
  ASSUME NEW prices \in [Goods -> Prices], NEW items \in SUBSET Goods
  PROVE  /\ Total(prices, items) \in Totals
         /\ \A p \in Goods \ items, n \in Prices : Total([prices EXCEPT ![p] = n], items) = Total(prices, items)
<1>1. Total(prices, items) \in Totals
  <2>1. [p \in items |-> prices[p]] \in [items -> Prices]
    OBVIOUS
  <2>2. SumFunction([p \in items |-> prices[p]]) \in Totals
    BY <2>1 DEF Totals
  <2> QED
    BY <2>2 DEF Total, Totals
<1>2. ASSUME NEW p \in Goods \ items, NEW n \in Prices
      PROVE  Total([prices EXCEPT ![p] = n], items) = Total(prices, items)
  <2>1. [q \in items |-> [prices EXCEPT ![p] = n][q]] = [q \in items |-> prices[q]]
    OBVIOUS
  <2> QED
    BY <2>1 DEF Total
<1> QED
  BY <1>1, <1>2

LEMMA NothingEntered ==
  /\ NoEntry \in EntryRecords /\ NoEntry.items = {} /\ NoEntry.total = 0 /\ NoEntry.is = "none"
  /\ NoEdit \in EditRecords /\ NoEdit.at = "none"
  /\ \A prices : Total(prices, {}) = 0
<1>1. 0 \in Totals
  BY DEF Totals
<1> QED
  BY <1>1 DEF NoEntry, NoEdit, EntryRecords, EditRecords, Total

LEMMA EntryInitially == EntryInit => EntryInvariant
<1> SUFFICES ASSUME EntryInit
             PROVE  EntryInvariant
  OBVIOUS
<1>1. EntryTypes
  BY NothingEntered DEF EntryInit, EntryTypes, Prices
<1>2. LoadedIsStored /\ PricedAgrees /\ TotalIsOfItsItems
  BY NothingEntered DEF EntryInit, LoadedIsStored, UnderWay, PricedAgrees, TotalIsOfItsItems, TotalPrice
<1> QED
  BY <1>1, <1>2 DEF EntryInvariant

LEMMA RepriceKeeps ==
  ASSUME EntryInvariant, NEW p \in Goods, NEW n \in Prices, Reprice(p, n)
  PROVE  EntryInvariant'
<1> USE DEF EntryInvariant
<1>1. /\ price' = [price EXCEPT ![p] = n] /\ UNCHANGED <<entry, upload>>
      /\ dated' = dated \cup {o \in OrderCodes : p \in entry[o].items}
      /\ edit' = [e \in Edits |-> IF edit[e].at = "priced" /\ p \in edit[e].items
                                  THEN [edit[e] EXCEPT !.dated = TRUE] ELSE edit[e]]
  BY DEF Reprice
<1>2. \A e \in Edits : /\ edit'[e] \in EditRecords
                       /\ edit'[e].at = edit[e].at /\ edit'[e].code = edit[e].code /\ edit'[e].items = edit[e].items
                       /\ edit'[e].loaded = edit[e].loaded /\ edit'[e].total = edit[e].total
                       /\ edit'[e].behind = edit[e].behind /\ edit'[e].crossed = edit[e].crossed
                       /\ edit'[e].at = "priced" /\ ~edit'[e].dated => ~edit[e].dated /\ p \notin edit[e].items
  BY <1>1 DEF EntryTypes, EditRecords
<1>3. EntryTypes'
  BY <1>1, <1>2 DEF EntryTypes
<1>4. LoadedIsStored'
  BY <1>1, <1>2 DEF LoadedIsStored, UnderWay
<1>5. \A items \in SUBSET Goods : p \notin items => Total(price', items) = Total(price, items)
  <2> SUFFICES ASSUME NEW items \in SUBSET Goods, p \notin items
               PROVE  Total(price', items) = Total(price, items)
    OBVIOUS
  <2>1. PICK old \in [Goods -> Prices] : old = price
    BY DEF EntryTypes
  <2>2. Total([old EXCEPT ![p] = n], items) = Total(old, items)
    BY TotalFacts
  <2> QED
    BY <1>1, <2>1, <2>2
<1>6. PricedAgrees'
  <2> SUFFICES ASSUME NEW e \in Edits, edit'[e].at = "priced", ~edit'[e].dated
               PROVE  edit'[e].total = Total(price', edit'[e].items)
    BY DEF PricedAgrees, TotalPrice
  <2>1. edit[e].at = "priced" /\ ~edit[e].dated /\ p \notin edit[e].items
    BY <1>2
  <2>2. edit[e].total = Total(price, edit[e].items)
    BY <2>1 DEF PricedAgrees, TotalPrice
  <2>3. edit[e].items \in SUBSET Goods
    BY DEF EntryTypes, EditRecords
  <2> QED
    BY <1>2, <1>5, <2>1, <2>2, <2>3
<1>7. TotalIsOfItsItems'
  BY <1>1, <1>5 DEF TotalIsOfItsItems, TotalPrice, EntryTypes, EntryRecords
<1> QED
  BY <1>3, <1>4, <1>6, <1>7

LEMMA StoredEntry ==
  ASSUME EntryTypes, NEW o, NEW items \in SUBSET Goods
  PROVE  /\ Stored(o, items) \in EntryRecords
         /\ Stored(o, items).items = items /\ Stored(o, items).total = Total(price, items)
<1>1. PICK t \in Totals : t = Total(price, items)
  BY TotalFacts DEF EntryTypes
<1>2. Stored(o, items) = [NoEntry EXCEPT !.is = "there", !.items = items, !.total = t, !.approval = "PENDING"]
  BY <1>1 DEF Stored, TotalPrice
<1> QED
  BY <1>1, <1>2 DEF NoEntry, EntryRecords

\* An order is stored whole; no update of it is under way.
LEMMA StoreKeeps ==
  ASSUME EntryInvariant, NEW o \in OrderCodes, NEW items \in SUBSET Goods, entry[o] = NoEntry,
         entry' = [entry EXCEPT ![o] = Stored(o, items)], UNCHANGED <<price, edit, dated>>, upload' \subseteq upload
  PROVE  EntryInvariant'
<1> USE DEF EntryInvariant
<1>1. PICK w \in EntryRecords : w = Stored(o, items) /\ w.items = items /\ w.total = Total(price, items)
  BY StoredEntry
<1>2. /\ entry' \in [OrderCodes -> EntryRecords] /\ entry'[o] = w
      /\ \A c \in OrderCodes \ {o} : entry'[c] = entry[c]
  BY <1>1 DEF EntryTypes
<1>3. EntryTypes'
  BY <1>2 DEF EntryTypes
<1>4. LoadedIsStored'
  <2>1. \A e \in Edits : UnderWay(e) => edit[e].code # o
    BY NothingEntered DEF LoadedIsStored
  <2> QED
    BY <1>2, <2>1 DEF LoadedIsStored, UnderWay
<1>5. PricedAgrees' /\ TotalIsOfItsItems'
  BY <1>1, <1>2 DEF PricedAgrees, TotalIsOfItsItems, TotalPrice
<1> QED
  BY <1>3, <1>4, <1>5

\* Steps of one update.
LEMMA LoadPriceKeeps ==
  ASSUME EntryInvariant, NEW e \in Edits,
         PriceOrder(e) \/ \E o \in OrderCodes, items \in SUBSET Goods : LoadOrder(e, o, items)
  PROVE  EntryInvariant'
<1> USE DEF EntryInvariant
<1>1. UNCHANGED <<price, entry, upload, dated>>
  BY DEF PriceOrder, LoadOrder
<1>2. TotalIsOfItsItems'
  BY <1>1 DEF TotalIsOfItsItems, TotalPrice
<1>3. CASE PriceOrder(e)
  <2>1. PICK t \in Totals : t = Total(price, edit[e].items)
    BY TotalFacts DEF EntryTypes, EditRecords
  <2>2. edit' = [edit EXCEPT ![e].at = "priced", ![e].total = t] /\ edit[e].at = "loaded"
    BY <1>3, <2>1 DEF PriceOrder, TotalPrice
  <2>3. /\ edit'[e] \in EditRecords /\ edit'[e].at = "priced" /\ edit'[e].total = t
        /\ edit'[e].code = edit[e].code /\ edit'[e].items = edit[e].items /\ edit'[e].loaded = edit[e].loaded
        /\ edit'[e].behind = edit[e].behind /\ edit'[e].crossed = edit[e].crossed
    BY <2>2 DEF EntryTypes, EditRecords
  <2>4. \A f \in Edits \ {e} : edit'[f] = edit[f]
    BY <2>2 DEF EntryTypes
  <2>5. EntryTypes'
    BY <1>1, <2>2, <2>3, <2>4 DEF EntryTypes
  <2>6. LoadedIsStored'
    <3>1. \A f \in Edits : /\ edit'[f].at # "none" => edit[f].at # "none"
                          /\ edit'[f].code = edit[f].code /\ edit'[f].loaded = edit[f].loaded
                          /\ edit'[f].behind = edit[f].behind /\ edit'[f].crossed = edit[f].crossed
      BY <2>2, <2>3, <2>4
    <3> QED
      BY <1>1, <3>1 DEF LoadedIsStored, UnderWay
  <2>7. PricedAgrees'
    BY <1>1, <2>1, <2>3, <2>4 DEF PricedAgrees, TotalPrice
  <2> QED
    BY <1>2, <2>5, <2>6, <2>7
<1>4. ASSUME NEW o \in OrderCodes, NEW items \in SUBSET Goods, LoadOrder(e, o, items)
      PROVE  EntryInvariant'
  <2>1. entry[o] \in EntryRecords /\ entry[o].is = "there"
    BY <1>4 DEF LoadOrder, EntryTypes
  <2>2. PICK goods \in SUBSET Goods : goods = IF items = {} THEN entry[o].items ELSE items
    BY <2>1 DEF EntryRecords
  <2>3. PICK w : w = [NoEdit EXCEPT !.at = "loaded", !.code = o, !.loaded = entry[o], !.items = goods]
    OBVIOUS
  <2>4. edit' = [edit EXCEPT ![e] = w]
    BY <1>4, <2>2, <2>3 DEF LoadOrder
  <2>5. w \in EditRecords /\ w.at = "loaded" /\ w.code = o /\ w.loaded = entry[o]
    BY <2>1, <2>3, NothingEntered DEF NoEdit, EditRecords
  <2>6. edit' \in [Edits -> EditRecords] /\ edit'[e] = w /\ \A f \in Edits \ {e} : edit'[f] = edit[f]
    BY <2>4, <2>5 DEF EntryTypes
  <2>7. EntryTypes'
    BY <1>1, <2>6 DEF EntryTypes
  <2>8. LoadedIsStored'
    BY <1>1, <2>1, <2>5, <2>6 DEF LoadedIsStored, UnderWay
  <2>9. PricedAgrees'
    BY <1>1, <2>5, <2>6 DEF PricedAgrees, TotalPrice
  <2> QED
    BY <1>2, <2>7, <2>8, <2>9
<1> QED
  BY <1>3, <1>4

LEMMA SaveKeeps ==
  ASSUME EntryInvariant, NEW e \in Edits, SaveOrder(e)
  PROVE  EntryInvariant'
<1> USE DEF EntryInvariant
<1>1. PICK o \in OrderCodes : o = edit[e].code
  BY DEF LoadedIsStored, UnderWay, SaveOrder
<1>2. PICK x \in EditRecords : x = edit[e]
  BY DEF EntryTypes
<1>3. x.at = "priced" /\ x.code = o /\ UNCHANGED <<price, upload>>
  BY <1>1, <1>2 DEF SaveOrder
<1>4. CASE ~MaySave(e)
  <2>1. UNCHANGED <<price, entry, upload, dated>>
    BY <1>4 DEF SaveOrder
  <2>2. /\ edit' \in [Edits -> EditRecords] /\ edit'[e] = NoEdit
        /\ \A f \in Edits \ {e} : edit'[f] = edit[f]
    BY <1>4, NothingEntered DEF SaveOrder, EntryTypes
  <2> QED
    BY <2>1, <2>2, NothingEntered
       DEF EntryTypes, LoadedIsStored, UnderWay, PricedAgrees, TotalIsOfItsItems, TotalPrice
<1>5. CASE MaySave(e)
  <2>1. PICK y \in EntryRecords : y = entry[o] /\ y.is = "there"
    BY <1>1, <1>5 DEF EntryTypes, MaySave
  <2>2. PICK items \in SUBSET Goods : items = IF WritesItems(e) THEN x.items ELSE y.items
    BY <1>2, <2>1 DEF EditRecords, EntryRecords
  <2>3. PICK total \in Totals : total = IF WritesTotal(e) THEN x.total ELSE y.total
    BY <1>2, <2>1 DEF EditRecords, EntryRecords
  <2>4. entry' = [entry EXCEPT ![o].items = items, ![o].total = total]
    BY <1>1, <1>2, <1>5, <2>1, <2>2, <2>3 DEF SaveOrder, EntryTypes
  <2>5. /\ entry' \in [OrderCodes -> EntryRecords]
        /\ entry'[o].items = items /\ entry'[o].total = total /\ entry'[o].is = "there"
        /\ \A c \in OrderCodes \ {o} : entry'[c] = entry[c]
    BY <2>1, <2>4 DEF EntryTypes, EntryRecords
  <2>6. \A f \in Edits \ {e} :
           /\ edit'[f] \in EditRecords
           /\ edit'[f].at = edit[f].at /\ edit'[f].code = edit[f].code /\ edit'[f].items = edit[f].items
           /\ edit'[f].loaded = edit[f].loaded /\ edit'[f].total = edit[f].total /\ edit'[f].dated = edit[f].dated
           /\ edit'[f].code = o /\ ~edit'[f].behind => ~WritesItems(e) /\ ~edit[f].behind
           /\ edit'[f].code = o /\ ~edit'[f].behind /\ ~edit'[f].crossed => ~WritesTotal(e) /\ ~edit[f].crossed
           /\ edit'[f].code # o => edit'[f] = edit[f]
    <3>1. ASSUME NEW f \in Edits \ {e}
          PROVE  edit'[f] = IF edit[f].code # o THEN edit[f]
                            ELSE IF WritesItems(e) THEN [edit[f] EXCEPT !.behind = TRUE]
                            ELSE [edit[f] EXCEPT !.crossed = @ \/ WritesTotal(e)]
      BY <1>1, <1>5, <3>1 DEF SaveOrder, Editing
    <3>2. ASSUME NEW f \in Edits \ {e}
          PROVE  \E b \in BOOLEAN : /\ b = (edit[f].crossed \/ WritesTotal(e))
                                    /\ [edit[f] EXCEPT !.crossed = @ \/ WritesTotal(e)] = [edit[f] EXCEPT !.crossed = b]
      OBVIOUS
    <3> SUFFICES ASSUME NEW f \in Edits \ {e}, NEW z \in EditRecords, z = edit[f]
                 PROVE  /\ edit'[f] \in EditRecords
                        /\ edit'[f].at = z.at /\ edit'[f].code = z.code /\ edit'[f].items = z.items
                        /\ edit'[f].loaded = z.loaded /\ edit'[f].total = z.total /\ edit'[f].dated = z.dated
                        /\ z.code = o /\ ~edit'[f].behind => ~WritesItems(e) /\ ~z.behind
                        /\ z.code = o /\ ~edit'[f].behind /\ ~edit'[f].crossed => ~WritesTotal(e) /\ ~z.crossed
                        /\ z.code # o => edit'[f] = z
      BY DEF EntryTypes
    <3>3. CASE z.code # o
      BY <3>1, <3>3
    <3>4. CASE z.code = o /\ WritesItems(e)
      <4>1. edit'[f] = [z EXCEPT !.behind = TRUE]
        BY <3>1, <3>4
      <4> QED
        BY <3>4, <4>1 DEF EditRecords
    <3>5. CASE z.code = o /\ ~WritesItems(e)
      <4>1. PICK b \in BOOLEAN : b = (z.crossed \/ WritesTotal(e)) /\ edit'[f] = [z EXCEPT !.crossed = b]
        BY <3>1, <3>2, <3>5
      <4>2. b \/ (~z.crossed /\ ~WritesTotal(e))
        BY <4>1
      <4>3. /\ edit'[f] \in EditRecords /\ edit'[f].crossed = b
            /\ edit'[f].at = z.at /\ edit'[f].code = z.code /\ edit'[f].items = z.items /\ edit'[f].behind = z.behind
            /\ edit'[f].loaded = z.loaded /\ edit'[f].total = z.total /\ edit'[f].dated = z.dated
        BY <4>1 DEF EditRecords
      <4> QED
        BY <3>5, <4>2, <4>3
    <3> QED
      BY <3>3, <3>4, <3>5
  <2>7. edit' = [f \in Edits |-> edit'[f]] /\ edit'[e] = NoEdit
    BY DEF SaveOrder
  <2>8. EntryTypes'
    BY <1>3, <2>5, <2>6, <2>7, NothingEntered DEF EntryTypes
  <2>9. LoadedIsStored'
    <3>1. ASSUME NEW f \in Edits, UnderWay(f)', edit'[f].code = o
          PROVE  /\ edit'[f].code \in OrderCodes /\ entry'[edit'[f].code].is # "none"
                 /\ ~edit'[f].behind =>
                       /\ edit'[f].loaded.items = entry'[o].items
                       /\ ~edit'[f].crossed => edit'[f].loaded.total = entry'[o].total
      <4>1. f # e /\ UnderWay(f) /\ edit[f].code = o
        BY <2>6, <2>7, <3>1, NothingEntered DEF UnderWay
      <4> QED
        BY <2>1, <2>2, <2>3, <2>5, <2>6, <4>1, <3>1 DEF LoadedIsStored
    <3>2. ASSUME NEW f \in Edits, UnderWay(f)', edit'[f].code # o
          PROVE  /\ edit'[f].code \in OrderCodes /\ entry'[edit'[f].code] = entry[edit'[f].code]
                 /\ edit'[f] = edit[f] /\ UnderWay(f)
      BY <2>5, <2>6, <2>7, <3>2, NothingEntered DEF LoadedIsStored, UnderWay
    <3> QED
      BY <3>1, <3>2 DEF LoadedIsStored
  <2>10. PricedAgrees'
    BY <1>3, <2>6, <2>7, NothingEntered DEF PricedAgrees, TotalPrice
  <2>11. o \notin dated' => total = Total(price, items)
    <3> SUFFICES ASSUME o \notin dated'
                 PROVE  total = Total(price, items)
      OBVIOUS
    <3>1. y.total = Total(price, y.items) \/ o \in dated
      BY <2>1 DEF TotalIsOfItsItems, TotalPrice
    <3>2. CASE ~WritesItems(e) /\ ~WritesTotal(e)
      BY <1>5, <2>2, <2>3, <3>1, <3>2 DEF SaveOrder
    <3>3. CASE WritesItems(e) \/ WritesTotal(e)
      <4>1. ~x.dated /\ ~Crosses(e)
        BY <1>1, <1>2, <1>5, <3>3 DEF SaveOrder
      <4>2. x.total = Total(price, x.items)
        BY <1>2, <1>3, <4>1 DEF PricedAgrees, TotalPrice
      <4>3. CASE WritesItems(e)
        <5>1. ~x.behind /\ ~x.crossed
          BY <1>2, <1>5, <4>1, <4>3 DEF MaySave, Crosses
        <5>2. x.loaded.total = y.total
          BY <1>1, <1>2, <1>3, <2>1, <5>1 DEF LoadedIsStored, UnderWay
        <5> QED
          BY <1>2, <2>2, <2>3, <4>2, <4>3, <5>2 DEF WritesTotal
      <4>4. CASE ~WritesItems(e)
        <5>1. x.items = x.loaded.items /\ y.items = x.loaded.items
          BY <1>1, <1>2, <2>1, <4>1, <4>4 DEF WritesItems, Crosses
        <5> QED
          BY <2>2, <2>3, <3>3, <4>2, <4>4, <5>1
      <4> QED
        BY <4>3, <4>4
    <3> QED
      BY <3>2, <3>3
  <2>12. TotalIsOfItsItems'
    <3>1. \A c \in OrderCodes \ {o} : c \notin dated' => c \notin dated
      BY <1>1, <1>5 DEF SaveOrder
    <3> QED
      BY <1>3, <2>5, <2>11, <3>1 DEF TotalIsOfItsItems, TotalPrice
  <2> QED
    BY <2>8, <2>9, <2>10, <2>12
<1> QED
  BY <1>4, <1>5

\* The lock, the approval and the deletion leave what an order carries and costs.
LEMMA ApproveKeeps ==
  ASSUME EntryInvariant, NEW o \in OrderCodes,
         LockOrder(o) \/ DeleteOrder(o) \/ \E to \in {"PENDING", "APPROVED", "REJECTED"} : ApproveOrder(o, to)
  PROVE  EntryInvariant'
<1> USE DEF EntryInvariant
<1>1. PICK y \in EntryRecords : y = entry[o] /\ y.is = "there"
  BY DEF LockOrder, DeleteOrder, ApproveOrder, EntryTypes
<1>2. UNCHANGED <<price, upload>>
  BY DEF LockOrder, DeleteOrder, ApproveOrder
<1>3. \A f \in Edits : /\ edit'[f] \in EditRecords
                       /\ edit'[f].at = edit[f].at /\ edit'[f].code = edit[f].code /\ edit'[f].items = edit[f].items
                       /\ edit'[f].loaded = edit[f].loaded /\ edit'[f].total = edit[f].total
                       /\ edit'[f].dated = edit[f].dated /\ edit'[f].crossed = edit[f].crossed
                       /\ ~edit'[f].behind => ~edit[f].behind
  <2>1. \A f \in Edits : edit'[f] = edit[f] \/ edit'[f] = [edit[f] EXCEPT !.behind = TRUE]
    BY DEF LockOrder, DeleteOrder, ApproveOrder
  <2>2. ASSUME NEW f \in Edits, NEW z \in EditRecords, z = edit[f]
        PROVE  /\ edit'[f] \in EditRecords
               /\ edit'[f].at = z.at /\ edit'[f].code = z.code /\ edit'[f].items = z.items
               /\ edit'[f].loaded = z.loaded /\ edit'[f].total = z.total
               /\ edit'[f].dated = z.dated /\ edit'[f].crossed = z.crossed
               /\ ~edit'[f].behind => ~z.behind
    BY <2>1, <2>2 DEF EditRecords
  <2> QED
    BY <2>2 DEF EntryTypes
<1>4. edit' = [f \in Edits |-> edit'[f]]
  BY DEF LockOrder, DeleteOrder, ApproveOrder, EntryTypes
<1>5. /\ entry' \in [OrderCodes -> EntryRecords]
      /\ \A c \in OrderCodes \ {o} : entry'[c] = entry[c]
      /\ \/ entry'[o].is = "there" /\ entry'[o].items = y.items /\ entry'[o].total = y.total /\ dated' = dated
         \/ entry'[o].is = "deleted" /\ entry'[o].items = {} /\ entry'[o].total = 0 /\ dated' = dated \ {o}
  <2>1. CASE LockOrder(o)
    BY <1>1, <2>1 DEF LockOrder, EntryTypes, EntryRecords
  <2>2. CASE DeleteOrder(o)
    <3>1. [NoEntry EXCEPT !.is = "deleted"] \in EntryRecords
      BY NothingEntered DEF NoEntry, EntryRecords
    <3> QED
      BY <2>2, <3>1 DEF DeleteOrder, EntryTypes, NoEntry
  <2>3. ASSUME NEW to \in {"PENDING", "APPROVED", "REJECTED"}, ApproveOrder(o, to)
        PROVE  /\ entry' \in [OrderCodes -> EntryRecords]
               /\ \A c \in OrderCodes \ {o} : entry'[c] = entry[c]
               /\ entry'[o].is = "there" /\ entry'[o].items = y.items /\ entry'[o].total = y.total /\ dated' = dated
    <3>1. PICK b \in BOOLEAN : b = (y.locked /\ to # "REJECTED")
      OBVIOUS
    <3>2. entry' = [entry EXCEPT ![o].approval = to, ![o].locked = b] /\ dated' = dated
      BY <1>1, <2>3, <3>1 DEF ApproveOrder, EntryTypes
    <3> QED
      BY <1>1, <3>2 DEF EntryTypes, EntryRecords
  <2> QED
    BY <2>1, <2>2, <2>3
<1>6. EntryTypes'
  BY <1>2, <1>3, <1>4, <1>5 DEF EntryTypes
<1>7. LoadedIsStored'
  BY <1>1, <1>3, <1>5 DEF LoadedIsStored, UnderWay
<1>8. PricedAgrees'
  BY <1>2, <1>3 DEF PricedAgrees, TotalPrice
<1>9. TotalIsOfItsItems'
  <2>1. \A c \in OrderCodes \ {o} : entry'[c] = entry[c] /\ (c \notin dated' => c \notin dated)
    BY <1>5
  <2>2. o \notin dated' => entry'[o].total = Total(price, entry'[o].items)
    <3>1. CASE entry'[o].items = y.items /\ entry'[o].total = y.total /\ dated' = dated
      BY <1>1, <3>1 DEF TotalIsOfItsItems, TotalPrice
    <3>2. CASE entry'[o].items = {} /\ entry'[o].total = 0
      BY <3>2, NothingEntered
    <3> QED
      BY <1>5, <3>1, <3>2
  <2> QED
    BY <1>2, <2>1, <2>2 DEF TotalIsOfItsItems, TotalPrice
<1> QED
  BY <1>6, <1>7, <1>8, <1>9

LEMMA UploadKeeps ==
  ASSUME EntryInvariant, NEW r \in Rows, NEW s \in Rows, NEW orders, UploadOrders({r, s}, orders)
  PROVE  EntryInvariant'
<1> USE DEF EntryInvariant
<1>1. UNCHANGED <<price, entry, edit, dated>> /\ upload' \subseteq ImportOrders({r, s})
  BY DEF UploadOrders
<1>2. ImportOrders({r, s}) \subseteq [code : OrderCodes, items : SUBSET Goods]
  BY DEF ImportOrders, Rows
<1> QED
  BY <1>1, <1>2 DEF EntryTypes, LoadedIsStored, UnderWay, PricedAgrees, TotalIsOfItsItems, TotalPrice

LEMMA ImportKeeps ==
  ASSUME EntryInvariant, NEW w \in upload, ImportOrder(w)
  PROVE  EntryInvariant'
<1>1. PICK o \in OrderCodes, items \in SUBSET Goods : o = w.code /\ items = w.items
  BY DEF EntryInvariant, EntryTypes
<1>2. UNCHANGED <<price, edit, dated>> /\ upload' \subseteq upload
  BY DEF ImportOrder
<1>3. CASE entry[o] = NoEntry /\ \A p \in items : price[p] # 0
  <2>1. entry' = [entry EXCEPT ![o] = Stored(o, items)]
    BY <1>1, <1>3 DEF ImportOrder
  <2> QED
    BY <1>2, <1>3, <2>1, StoreKeeps
<1>4. CASE ~(entry[o] = NoEntry /\ \A p \in items : price[p] # 0)
  <2>1. UNCHANGED entry
    BY <1>1, <1>4 DEF ImportOrder
  <2> QED
    BY <1>2, <2>1 DEF EntryInvariant, EntryTypes, LoadedIsStored, UnderWay, PricedAgrees, TotalIsOfItsItems, TotalPrice
<1> QED
  BY <1>3, <1>4

LEMMA EntryStep == EntryInvariant /\ [EntryNext]_entering => EntryInvariant'
<1> SUFFICES ASSUME EntryInvariant, [EntryNext]_entering
             PROVE  EntryInvariant'
  OBVIOUS
<1>1. CASE UNCHANGED entering
  BY <1>1 DEF entering, EntryInvariant, EntryTypes, LoadedIsStored, UnderWay, PricedAgrees, TotalIsOfItsItems, TotalPrice
<1>2. ASSUME NEW o \in OrderCodes, NEW items \in Baskets, CreateOrder(o, items)
      PROVE  EntryInvariant'
  <2>1. items \in SUBSET Goods
    BY DEF Baskets
  <2> QED
    BY <1>2, <2>1, StoreKeeps DEF CreateOrder
<1>3. ASSUME NEW o \in OrderCodes, NEW e \in Edits, NEW items \in SUBSET Goods, LoadOrder(e, o, items)
      PROVE  EntryInvariant'
  BY <1>3, LoadPriceKeeps
<1> QED
  BY <1>1, <1>2, <1>3, RepriceKeeps, LoadPriceKeeps, SaveKeeps, ApproveKeeps, UploadKeeps, ImportKeeps DEF EntryNext

\* With any products, orders and updates of them under way, an order costs what it carries
\* at the prices of when it was last written (orderController.js 38, 394), unless a price
\* has changed since or an update that leaves the items alone crossed one that replaces them.
THEOREM TotalsAgree == EntrySpec => []TotalIsOfItsItems
<1>1. EntryInvariant => TotalIsOfItsItems
  BY DEF EntryInvariant
<1> QED
  BY <1>1, EntryInitially, EntryStep, PTL DEF EntrySpec
=============================================================================
