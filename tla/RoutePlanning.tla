---------------------------- MODULE RoutePlanning ----------------------------
(***************************************************************************)
(* The planning core of the TMS: sales orders, route plans, delivery       *)
(* routes and the trip each committed route owns.  Every HTTP handler of   *)
(* orderController, routePlanController (and the services it calls) that   *)
(* changes these collections is one atomic action; RouteEdits and          *)
(* RouteCommits split the planner's handlers at their awaits.              *)
(*                                                                         *)
(* Abstractions, each dropping only what no property here tells apart:     *)
(*   - OPEN, PICKED_PACKED and SHIPPED are one order status, OPEN (no      *)
(*     handler tests which); CANCELLED and REJECTED are VOID (they are     *)
(*     always tested together); approval is the Boolean the guards test;   *)
(*   - a route's Stops are the set of the orders they carry;               *)
(*   - a trip is OPEN (ASSIGNED, DRIVER_CONFIRMED, LOADING), RUNNING       *)
(*     (IN_PROGRESS, RETURNING), ENDED (COMPLETED) or CANCELLED: the       *)
(*     classes ensureTripForRouteId and cancelTripForRouteId test;         *)
(*   - capacity, capability, driver and 3PL guards only make an action     *)
(*     refuse; here it is then simply not taken.                           *)
(***************************************************************************)
EXTENDS FiniteSets

CONSTANTS Orders,   \* SalesOrder documents that may ever exist
          Plans,    \* RoutePlan documents
          Routes,   \* DeliveryRoute documents, never reused once deleted
          NoPlan    \* the plan of a route that does not exist

ASSUME NoPlanAssumption == NoPlan \notin Plans

VARIABLES orderStatus,  \* SalesOrder.OrderStatus, NONE before creation
          approved,     \* SalesOrder.ApprovalStatus = APPROVED
          planning,     \* SalesOrder.PlanningStatus
          overridden,   \* history: orders whose planning status was once set
                        \* by hand, away from any route operation
          planStatus,   \* RoutePlan.Status, NONE when there is no document
          routePlan,    \* DeliveryRoute.RoutePlanID
          routeStatus,  \* DeliveryRoute.Status
          stops,        \* the orders of DeliveryRoute.Stops
          trip,         \* class of Trip.Status for the route's trip
          manifest,     \* the orders of Trip.Tasks
          detached      \* history: routes unlocked or deleted when their trip
                        \* had already started

orderVars == <<orderStatus, approved, planning, overridden>>
routeVars == <<planStatus, routePlan, routeStatus, stops>>
tripVars  == <<trip, manifest, detached>>
vars == <<orderStatus, approved, planning, overridden,
          planStatus, routePlan, routeStatus, stops, trip, manifest, detached>>

OrderStatus    == {"OPEN", "DELIVERED", "VOID"}
PlanningStatus == {"PENDING", "PLANNED", "LOCKED", "FINALIZED"}
PlanStatus     == {"DRAFT", "LOCKED", "FINALIZED"}
RouteStatus    == {"PLANNED", "LOCKED", "FINALIZED"}
Committed      == {"LOCKED", "FINALIZED"}
TripClass      == {"NONE", "OPEN", "RUNNING", "ENDED", "CANCELLED"}
Started        == {"RUNNING", "ENDED"}

TypeOK ==
  /\ orderStatus \in [Orders -> OrderStatus \cup {"NONE", "DELETED"}]
  /\ approved \in [Orders -> BOOLEAN]
  /\ planning \in [Orders -> PlanningStatus]
  /\ overridden \in SUBSET Orders
  /\ planStatus \in [Plans -> PlanStatus \cup {"NONE"}]
  /\ routePlan \in [Routes -> Plans \cup {NoPlan}]
  /\ routeStatus \in [Routes -> RouteStatus \cup {"NONE", "DELETED"}]
  /\ stops \in [Routes -> SUBSET Orders]
  /\ trip \in [Routes -> TripClass]
  /\ manifest \in [Routes -> SUBSET Orders]
  /\ detached \in SUBSET Routes

Init ==
  /\ orderStatus = [o \in Orders |-> "NONE"]
  /\ approved = [o \in Orders |-> FALSE]
  /\ planning = [o \in Orders |-> "PENDING"]
  /\ overridden = {}
  /\ planStatus = [p \in Plans |-> "NONE"]
  /\ routePlan = [r \in Routes |-> NoPlan]
  /\ routeStatus = [r \in Routes |-> "NONE"]
  /\ stops = [r \in Routes |-> {}]
  /\ trip = [r \in Routes |-> "NONE"]
  /\ manifest = [r \in Routes |-> {}]
  /\ detached = {}

-----------------------------------------------------------------------------
(* Vocabulary of the handlers.                                             *)

Exists(o)   == orderStatus[o] \in OrderStatus
RoutesOf(p) == {r \in Routes : routePlan[r] = p /\ routeStatus[r] \in RouteStatus}
Carrying(o) == {r \in Routes : routeStatus[r] \in RouteStatus /\ o \in stops[r]}

\* bulkUpdateOrderPlanningStatus: only the orders still in status from move.
BulkPlanning(S, from, to) ==
  [o \in Orders |-> IF o \in S /\ Exists(o) /\ planning[o] = from
                    THEN to ELSE planning[o]]

\* The planning status the orders of a route are taken back from when the
\* route goes: PLANNED, or LOCKED if the route is locked.
CarriedAs(r) == IF routeStatus[r] = "LOCKED" THEN "LOCKED" ELSE "PLANNED"

\* Mutants: the trip of a committed route is reopened even when it has started;
\* a trip that was cancelled by an unlock is not reopened by the next lock.
EnsureTripAlways(r) ==
  /\ trip' = [trip EXCEPT ![r] = "OPEN"]
  /\ manifest' = [manifest EXCEPT ![r] = stops[r]]
  /\ UNCHANGED detached

EnsureTripOnce(r) ==
  /\ trip' = [trip EXCEPT ![r] = IF @ = "NONE" THEN "OPEN" ELSE @]
  /\ manifest' = [manifest EXCEPT ![r] = IF trip[r] \in Started THEN @ ELSE stops[r]]
  /\ UNCHANGED detached

\* ensureTripForRouteId for a committed route: a started trip keeps its tasks,
\* any other is (re)opened with one task per stop.
EnsureTrip(r) ==
  /\ trip' = [trip EXCEPT ![r] = IF @ \in Started THEN @ ELSE "OPEN"]
  /\ manifest' = [manifest EXCEPT ![r] = IF trip[r] \in Started THEN @ ELSE stops[r]]
  /\ UNCHANGED detached

\* cancelTripForRouteId: no effect on a started trip, or where there is none.
CancelTrips(R) ==
  /\ trip' = [r \in Routes |-> IF r \in R /\ trip[r] = "OPEN"
                               THEN "CANCELLED" ELSE trip[r]]
  /\ detached' = detached \cup {r \in R : trip[r] \in Started}
  /\ UNCHANGED manifest

-----------------------------------------------------------------------------
(* orderController.                                                        *)

\* createOrder and uploadOrders: the body may carry any of the statuses.
CreateOrder(o, status, pl, ok) ==
  /\ orderStatus[o] = "NONE"
  /\ orderStatus' = [orderStatus EXCEPT ![o] = status]
  /\ planning' = [planning EXCEPT ![o] = pl]
  /\ approved' = [approved EXCEPT ![o] = ok]
  /\ overridden' = IF pl = "PENDING" THEN overridden ELSE overridden \cup {o}
  /\ UNCHANGED <<routeVars, tripVars>>

DeleteOrder(o) ==
  /\ Exists(o)
  /\ planning[o] = "PENDING"
  /\ orderStatus' = [orderStatus EXCEPT ![o] = "DELETED"]
  /\ UNCHANGED <<approved, planning, overridden, routeVars, tripVars>>

\* Mutant: the new order status is written into the planning status too.
VoidOrderTwice(o) ==
  /\ orderStatus' = [orderStatus EXCEPT ![o] = "VOID"]
  /\ planning' = [planning EXCEPT ![o] = "VOID"]
  /\ overridden' = IF planning[o] = "PENDING" THEN overridden ELSE overridden \cup {o}

\* Cancelling or rejecting sends the order back to PENDING wherever it is; the
\* route that carries it is not touched.
VoidOrder(o) ==
  /\ orderStatus' = [orderStatus EXCEPT ![o] = "VOID"]
  /\ planning' = [planning EXCEPT ![o] = "PENDING"]
  /\ overridden' = IF planning[o] = "PENDING" THEN overridden ELSE overridden \cup {o}

\* VOID stands for two statuses, so a VOID order may be voided again.
ChangeOrderStatus(o, to) ==
  /\ Exists(o)
  /\ \/ /\ to = "VOID"
        /\ VoidOrder(o)
     \/ /\ to # "VOID"
        /\ to # orderStatus[o]
        /\ orderStatus' = [orderStatus EXCEPT ![o] = to]
        /\ UNCHANGED <<planning, overridden>>
  /\ UNCHANGED <<approved, routeVars, tripVars>>

planningTransitions ==
  [PENDING   |-> {"PLANNED"},
   PLANNED   |-> {"LOCKED", "PENDING"},
   LOCKED    |-> {"FINALIZED", "PLANNED"},
   FINALIZED |-> {}]

\* The loop saves order by order and throws at the first illegal transition:
\* S is what it saved before it threw, or every order that had to move.
ChangePlanningStatus(S, to) ==
  /\ S # {}
  /\ \A o \in S : Exists(o) /\ to \in planningTransitions[planning[o]]
  /\ planning' = [o \in Orders |-> IF o \in S THEN to ELSE planning[o]]
  /\ overridden' = overridden \cup S
  /\ UNCHANGED <<orderStatus, approved, routeVars, tripVars>>

\* allocateOrderToTrip: an allocation names a trip code, not a route.
AllocateOrderToTrip(o) ==
  /\ Exists(o)
  /\ planning[o] = "PENDING"
  /\ planning' = [planning EXCEPT ![o] = "PLANNED"]
  /\ overridden' = overridden \cup {o}
  /\ UNCHANGED <<orderStatus, approved, routeVars, tripVars>>

\* The approval may be changed at any time, planned or not.
ApproveOrder(o, ok) ==
  /\ Exists(o)
  /\ approved' = [approved EXCEPT ![o] = ok]
  /\ UNCHANGED <<orderStatus, planning, overridden, routeVars, tripVars>>

RejectOrder(o) ==
  /\ Exists(o)
  /\ approved' = [approved EXCEPT ![o] = FALSE]
  /\ VoidOrder(o)
  /\ UNCHANGED <<routeVars, tripVars>>

-----------------------------------------------------------------------------
(* routePlanController: plans and routes.                                  *)

CreateRoutePlan(p) ==
  /\ planStatus[p] = "NONE"
  /\ planStatus' = [planStatus EXCEPT ![p] = "DRAFT"]
  /\ UNCHANGED <<orderVars, routePlan, routeStatus, stops, tripVars>>

DropRoutes(R) ==
  /\ routeStatus' = [r \in Routes |-> IF r \in R THEN "DELETED" ELSE routeStatus[r]]
  /\ routePlan' = [r \in Routes |-> IF r \in R THEN NoPlan ELSE routePlan[r]]
  /\ stops' = [r \in Routes |-> IF r \in R THEN {} ELSE stops[r]]

\* An order's status is compared with each route that carries it in turn, so it
\* is taken back if any of them carried it in the status it is in.
DeleteRoutePlan(p) ==
  /\ planStatus[p] \in {"DRAFT", "LOCKED"}
  /\ \A r \in RoutesOf(p) : routeStatus[r] # "FINALIZED"
  /\ planStatus' = [planStatus EXCEPT ![p] = "NONE"]
  /\ planning' = [o \in Orders |->
        IF Exists(o) /\ \E r \in RoutesOf(p) : o \in stops[r] /\ planning[o] = CarriedAs(r)
        THEN "PENDING" ELSE planning[o]]
  /\ CancelTrips(RoutesOf(p))
  /\ DropRoutes(RoutesOf(p))
  /\ UNCHANGED <<orderStatus, approved, overridden>>

AddRoute(p, r) ==
  /\ planStatus[p] \in {"DRAFT", "LOCKED"}
  /\ routeStatus[r] = "NONE"
  /\ routePlan' = [routePlan EXCEPT ![r] = p]
  /\ routeStatus' = [routeStatus EXCEPT ![r] = "PLANNED"]
  /\ UNCHANGED <<orderVars, planStatus, stops, tripVars>>

\* Mutant: removing a route reopens its plan even if another one is locked.
PlanWithoutReopened(p, r) == [planStatus EXCEPT ![p] = "DRAFT"]

\* The plan statuses once route r of plan p is gone.
PlanWithout(p, r) ==
  IF \E q \in RoutesOf(p) \ {r} : routeStatus[q] \in Committed
  THEN planStatus ELSE [planStatus EXCEPT ![p] = "DRAFT"]

RemoveRoute(p, r) ==
  /\ planStatus[p] \in {"DRAFT", "LOCKED"}
  /\ r \in RoutesOf(p)
  /\ routeStatus[r] # "FINALIZED"
  /\ planning' = BulkPlanning(stops[r], CarriedAs(r), "PENDING")
  /\ CancelTrips({r})
  /\ DropRoutes({r})
  /\ planStatus' = PlanWithout(p, r)
  /\ UNCHANGED <<orderStatus, approved, overridden>>

\* The order must be approved; its planning and delivery status are not looked
\* at, so it may already travel on another route.
AddOrderToRoute(o, r) ==
  /\ routeStatus[r] = "PLANNED"
  /\ Exists(o)
  /\ approved[o]
  /\ o \notin stops[r]
  /\ stops' = [stops EXCEPT ![r] = @ \cup {o}]
  /\ planning' = [planning EXCEPT ![o] = IF @ = "PENDING" THEN "PLANNED" ELSE @]
  /\ overridden' = IF planning[o] = "PENDING" THEN overridden ELSE overridden \cup {o}
  /\ UNCHANGED <<orderStatus, approved, planStatus, routePlan, routeStatus, tripVars>>

RemoveOrderFromRoute(o, r) ==
  /\ routeStatus[r] = "PLANNED"
  /\ o \in stops[r]
  /\ stops' = [stops EXCEPT ![r] = @ \ {o}]
  /\ planning' = BulkPlanning({o}, "PLANNED", "PENDING")
  /\ UNCHANGED <<orderStatus, approved, overridden, planStatus, routePlan,
                 routeStatus, tripVars>>

LockRoute(p, r) ==
  /\ r \in RoutesOf(p)
  /\ routeStatus[r] = "PLANNED"
  /\ stops[r] # {}
  /\ routeStatus' = [routeStatus EXCEPT ![r] = "LOCKED"]
  /\ planning' = BulkPlanning(stops[r], "PLANNED", "LOCKED")
  /\ EnsureTrip(r)
  /\ planStatus' = [planStatus EXCEPT ![p] = IF @ = "DRAFT" THEN "LOCKED" ELSE @]
  /\ UNCHANGED <<orderStatus, approved, overridden, routePlan, stops>>

\* Neither the plan nor a started trip stands in the way, and the plan stays
\* LOCKED.
UnlockRoute(r) ==
  /\ routeStatus[r] = "LOCKED"
  /\ routeStatus' = [routeStatus EXCEPT ![r] = "PLANNED"]
  /\ planning' = BulkPlanning(stops[r], "LOCKED", "PLANNED")
  /\ CancelTrips({r})
  /\ UNCHANGED <<orderStatus, approved, overridden, planStatus, routePlan, stops>>

FinalizeRoute(p, r) ==
  /\ r \in RoutesOf(p)
  /\ routeStatus[r] = "LOCKED"
  /\ routeStatus' = [routeStatus EXCEPT ![r] = "FINALIZED"]
  /\ planning' = BulkPlanning(stops[r], "LOCKED", "FINALIZED")
  /\ EnsureTrip(r)
  /\ planStatus' = IF \A q \in RoutesOf(p) \ {r} : routeStatus[q] = "FINALIZED"
                   THEN [planStatus EXCEPT ![p] = "FINALIZED"] ELSE planStatus
  /\ UNCHANGED <<orderStatus, approved, overridden, routePlan, stops>>

\* Both handlers take the order off its route and put it on another PLANNED
\* route of the same plan.
TransferOrder(o, from, to) ==
  /\ Exists(o)
  /\ planning[o] = "PLANNED"
  /\ routeStatus[from] = "PLANNED"
  /\ routeStatus[to] = "PLANNED"
  /\ routePlan[from] = routePlan[to]
  /\ o \in stops[from]
  /\ stops' = [stops EXCEPT ![from] = @ \ {o}, ![to] = @ \cup {o}]
  /\ UNCHANGED <<orderVars, planStatus, routePlan, routeStatus, tripVars>>

MoveOrderBetweenRoutes(o, from, to) == from # to /\ TransferOrder(o, from, to)

ReorderOrder(o, from, to) == TransferOrder(o, from, to)

-----------------------------------------------------------------------------
(* optimizeRoutePlan.                                                      *)

ResetRoutes(p) == {r \in RoutesOf(p) : routeStatus[r] = "PLANNED"}

AfterReset(p) ==
  [o \in Orders |-> IF Exists(o) /\ \E r \in ResetRoutes(p) : o \in stops[r]
                    THEN "PENDING" ELSE planning[o]]

\* Mutant: the optimiser does not look at the planning status.
PoolOfAll(p) == {o \in Orders : orderStatus[o] \in OrderStatus \ {"VOID"} /\ approved[o]}

\* The orders the optimiser reads after the reset.
Pool(p) == {o \in Orders : /\ orderStatus[o] \in OrderStatus \ {"VOID"}
                           /\ approved[o]
                           /\ AfterReset(p)[o] = "PENDING"}

\* The PLANNED routes are deleted first.  Whatever stops the handler afterwards
\* (no order, no free vehicle, no depot, nothing fits) leaves the plan wiped.
OptimizeFails(p) ==
  /\ planStatus[p] \in {"DRAFT", "LOCKED"}
  /\ planning' = AfterReset(p)
  /\ DropRoutes(ResetRoutes(p))
  /\ UNCHANGED <<orderStatus, approved, overridden, planStatus, tripVars>>

\* pack gives each new route the orders the packer put on it.
OptimizeSucceeds(p, new, pack) ==
  /\ planStatus[p] \in {"DRAFT", "LOCKED"}
  /\ new # {}
  /\ \A r \in new : routeStatus[r] = "NONE" /\ pack[r] # {} /\ pack[r] \subseteq Pool(p)
  /\ \A r, q \in new : r # q => pack[r] \cap pack[q] = {}
  /\ routeStatus' = [r \in Routes |-> IF r \in new THEN "PLANNED"
                                      ELSE IF r \in ResetRoutes(p) THEN "DELETED"
                                      ELSE routeStatus[r]]
  /\ routePlan' = [r \in Routes |-> IF r \in new THEN p
                                    ELSE IF r \in ResetRoutes(p) THEN NoPlan
                                    ELSE routePlan[r]]
  /\ stops' = [r \in Routes |-> IF r \in new THEN pack[r]
                                ELSE IF r \in ResetRoutes(p) THEN {}
                                ELSE stops[r]]
  /\ planning' = [o \in Orders |-> IF \E r \in new : o \in pack[r]
                                   THEN "PLANNED" ELSE AfterReset(p)[o]]
  /\ UNCHANGED <<orderStatus, approved, overridden, planStatus, tripVars>>

-----------------------------------------------------------------------------
(* What the driver app does to a trip, as far as planning can tell          *)
(* (TripExecution has the driver's handlers one by one).                   *)

TripStarts(r) ==
  /\ trip[r] = "OPEN"
  /\ trip' = [trip EXCEPT ![r] = "RUNNING"]
  /\ UNCHANGED <<orderVars, routeVars, manifest, detached>>

\* Completing stops: the orders of the task become DELIVERED whatever their
\* status is, and the trip counts as started.
TripDelivers(r, S) ==
  /\ trip[r] \in {"OPEN", "RUNNING"}
  /\ S # {}
  /\ S \subseteq manifest[r]
  /\ orderStatus' = [o \in Orders |-> IF o \in S /\ Exists(o)
                                      THEN "DELIVERED" ELSE orderStatus[o]]
  /\ trip' = [trip EXCEPT ![r] = "RUNNING"]
  /\ UNCHANGED <<approved, planning, overridden, routeVars, manifest, detached>>

TripEnds(r) ==
  /\ trip[r] = "RUNNING"
  /\ trip' = [trip EXCEPT ![r] = "ENDED"]
  /\ UNCHANGED <<orderVars, routeVars, manifest, detached>>

-----------------------------------------------------------------------------

OrderNext ==
  \E o \in Orders :
    \/ \E s \in OrderStatus, pl \in PlanningStatus, ok \in BOOLEAN : CreateOrder(o, s, pl, ok)
    \/ DeleteOrder(o)
    \/ \E s \in OrderStatus : ChangeOrderStatus(o, s)
    \/ AllocateOrderToTrip(o)
    \/ \E ok \in BOOLEAN : ApproveOrder(o, ok)
    \/ RejectOrder(o)

PlanNext ==
  \E p \in Plans :
    \/ CreateRoutePlan(p)
    \/ DeleteRoutePlan(p)
    \/ OptimizeFails(p)
    \/ \E new \in SUBSET Routes : \E pack \in [new -> SUBSET Orders] :
         OptimizeSucceeds(p, new, pack)
    \/ \E r \in Routes : \/ AddRoute(p, r)
                         \/ RemoveRoute(p, r)
                         \/ LockRoute(p, r)
                         \/ FinalizeRoute(p, r)

RouteNext ==
  \E r \in Routes :
    \/ UnlockRoute(r)
    \/ \E o \in Orders : \/ AddOrderToRoute(o, r)
                         \/ RemoveOrderFromRoute(o, r)
                         \/ \E to \in Routes : \/ MoveOrderBetweenRoutes(o, r, to)
                                               \/ ReorderOrder(o, r, to)

DriverNext ==
  \E r \in Routes : \/ TripStarts(r)
                    \/ \E S \in SUBSET Orders : TripDelivers(r, S)
                    \/ TripEnds(r)

Next ==
  \/ OrderNext
  \/ \E S \in SUBSET Orders, to \in PlanningStatus : ChangePlanningStatus(S, to)
  \/ PlanNext
  \/ RouteNext
  \/ DriverNext

Spec == Init /\ [][Next]_vars

-----------------------------------------------------------------------------
(* Properties.                                                             *)

\* An order whose planning status was only ever moved by route operations is
\* on no route while PENDING, and otherwise on exactly one route of all plans,
\* whose status is the order's planning status.
UntouchedOrdersAgree ==
  \A o \in Orders : Exists(o) /\ o \notin overridden =>
    IF planning[o] = "PENDING"
    THEN Carrying(o) = {}
    ELSE \E r \in Routes : Carrying(o) = {r} /\ routeStatus[r] = planning[o]

\* A DRAFT plan has no committed route; a FINALIZED plan has routes, and all of
\* them are FINALIZED (removeRoute, lockRoute and finalizeRoute each recompute
\* the plan status from a different part of the routes).
PlanStatusAgrees ==
  \A p \in Plans :
    /\ planStatus[p] = "DRAFT" => \A r \in RoutesOf(p) : routeStatus[r] = "PLANNED"
    /\ planStatus[p] = "FINALIZED" =>
         RoutesOf(p) # {} /\ \A r \in RoutesOf(p) : routeStatus[r] = "FINALIZED"

\* A committed route has a live trip, a trip the driver may still start belongs
\* to a committed route, and a live trip carries exactly the orders of its route
\* unless the route was unlocked or deleted after the trip had started.
LiveTrip(r) == trip[r] \in {"OPEN", "RUNNING", "ENDED"}

TripsAgree ==
  \A r \in Routes :
    /\ routeStatus[r] \in Committed => LiveTrip(r)
    /\ trip[r] = "OPEN" => r \notin detached
    /\ LiveTrip(r) /\ r \notin detached =>
         routeStatus[r] \in Committed /\ manifest[r] = stops[r]

\* No order is loaded on two trucks: two live trips never both carry an order
\* that was not overridden, as long as neither route was pulled from under its
\* running trip.
OneTruckPerOrder ==
  \A o \in Orders \ overridden, r, q \in Routes \ detached :
    Exists(o) /\ LiveTrip(r) /\ LiveTrip(q) /\ o \in manifest[r] \cap manifest[q] => r = q

\* Finalizing is final: no handler edits, unlocks, empties or deletes a
\* FINALIZED route, nor adds a route to a FINALIZED plan or reopens it.
KeepsFinalized ==
  /\ \A r \in Routes : routeStatus[r] = "FINALIZED" =>
       routeStatus'[r] = "FINALIZED" /\ stops'[r] = stops[r] /\ routePlan'[r] = routePlan[r]
  /\ \A p \in Plans : planStatus[p] = "FINALIZED" =>
       planStatus'[p] = "FINALIZED" /\ RoutesOf(p)' = RoutesOf(p)

FinalizedStaysFrozen == [][KeepsFinalized]_vars

\* Every trip lives the abstract lifecycle: planning reopens, reloads and cancels
\* it freely until the driver starts it, and never touches it afterwards, whatever
\* happens to its route and its orders.
Lifecycle == INSTANCE TripLifecycle WITH load <- manifest, Loads <- SUBSET Orders

ImplementsLifecycle == Lifecycle!Spec
=============================================================================
