------------------------ MODULE RoutePlanning_proofs ------------------------
(***************************************************************************)
(* Proofs about RoutePlanning for any orders, plans and routes, and        *)
(* about the heuristics that fill the routes, RouteSearch and              *)
(* OptimizerService, for any number of vehicles and stops and any days.    *)
(*                                                                         *)
(* The safety properties are not inductive by themselves: that locking an  *)
(* unlocked route may reopen its trip rests on which routes can be         *)
(* detached, that a new route or order starts clean rests on what a        *)
(* document that does not exist yet looks like, and that a new plan is     *)
(* empty rests on routes never outliving their plan.  FreshAndDetached and *)
(* RoutesHavePlans say so, and IInv is the conjunction of all parts.       *)
(*                                                                         *)
(* Of the heuristics, that no stop is lost or carried twice needs to say   *)
(* of every solution that is held between two steps, the best one and the  *)
(* copy that is taken apart as much as the current one, which stops it     *)
(* puts where: SearchInv and ServiceInv.  Loads that are kept up to date   *)
(* by adding and subtracting have to be the sums they stand for, because   *)
(* the next vehicle is chosen by them.                                     *)
(*                                                                         *)
(* That every move pays is arithmetic on that invariant: the length of a   *)
(* route is a sum of legs, and the sum over a part that keeps its order,   *)
(* or is turned round, differs from the old one by a constant.             *)
(***************************************************************************)
EXTENDS RoutePlanning, OptimizerService, SequenceTheorems, FiniteSetTheorems,
        WellFoundedInduction, TLAPS

\* What does not exist yet is clean, and only started trips are ever detached.
FreshAndDetached ==
  /\ \A o \in Orders : orderStatus[o] = "NONE" => Carrying(o) = {}
  /\ \A r \in Routes : routeStatus[r] = "NONE" => stops[r] = {} /\ trip[r] = "NONE"
  /\ \A r \in detached : trip[r] \in Started

\* An existing route belongs to an existing plan.
RoutesHavePlans ==
  \A r \in Routes : routeStatus[r] \in RouteStatus =>
    routePlan[r] \in Plans /\ planStatus[routePlan[r]] # "NONE"

IInv ==
  /\ TypeOK
  /\ FreshAndDetached
  /\ RoutesHavePlans
  /\ UntouchedOrdersAgree
  /\ PlanStatusAgrees
  /\ TripsAgree

-----------------------------------------------------------------------------
(* Types.                                                                  *)

\* Every handler keeps every field within its enumeration.
LEMMA TypeStep == TypeOK /\ [Next]_vars => TypeOK'
<1> SUFFICES ASSUME TypeOK, [Next]_vars PROVE TypeOK'
  OBVIOUS
<1> USE DEF TypeOK, OrderStatus, PlanningStatus, PlanStatus, RouteStatus, TripClass, Started,
            orderVars, routeVars, tripVars
<1>1. CASE OrderNext
  <2> SUFFICES ASSUME NEW o \in Orders,
                 \/ \E s \in OrderStatus, pl \in PlanningStatus, ok \in BOOLEAN : CreateOrder(o, s, pl, ok)
                 \/ DeleteOrder(o)
                 \/ \E s \in OrderStatus : ChangeOrderStatus(o, s)
                 \/ AllocateOrderToTrip(o)
                 \/ \E ok \in BOOLEAN : ApproveOrder(o, ok)
                 \/ RejectOrder(o)
               PROVE TypeOK'
    BY <1>1 DEF OrderNext
  <2>1. CASE \E s \in OrderStatus, pl \in PlanningStatus, ok \in BOOLEAN : CreateOrder(o, s, pl, ok)
    BY <2>1 DEF CreateOrder
  <2>2. CASE DeleteOrder(o)
    BY <2>2 DEF DeleteOrder
  <2>3. CASE \E s \in OrderStatus : ChangeOrderStatus(o, s)
    BY <2>3 DEF ChangeOrderStatus, VoidOrder
  <2>4. CASE AllocateOrderToTrip(o)
    BY <2>4 DEF AllocateOrderToTrip
  <2>5. CASE \E ok \in BOOLEAN : ApproveOrder(o, ok)
    BY <2>5 DEF ApproveOrder
  <2>6. CASE RejectOrder(o)
    BY <2>6 DEF RejectOrder, VoidOrder
  <2> QED BY <2>1, <2>2, <2>3, <2>4, <2>5, <2>6
<1>2. CASE \E S \in SUBSET Orders, to \in PlanningStatus : ChangePlanningStatus(S, to)
  BY <1>2 DEF ChangePlanningStatus
<1>3. CASE PlanNext
  <2> SUFFICES ASSUME NEW p \in Plans,
                 \/ CreateRoutePlan(p)
                 \/ DeleteRoutePlan(p)
                 \/ OptimizeFails(p)
                 \/ \E new \in SUBSET Routes : \E pack \in [new -> SUBSET Orders] :
                      OptimizeSucceeds(p, new, pack)
                 \/ \E r \in Routes : AddRoute(p, r) \/ RemoveRoute(p, r)
                                      \/ LockRoute(p, r) \/ FinalizeRoute(p, r)
               PROVE TypeOK'
    BY <1>3 DEF PlanNext
  <2>1. CASE CreateRoutePlan(p)
    BY <2>1 DEF CreateRoutePlan
  <2>2. CASE DeleteRoutePlan(p)
    BY <2>2 DEF DeleteRoutePlan, CancelTrips, DropRoutes, RoutesOf
  <2>3. CASE OptimizeFails(p)
    BY <2>3 DEF OptimizeFails, DropRoutes, AfterReset
  <2>4. CASE \E new \in SUBSET Routes : \E pack \in [new -> SUBSET Orders] :
               OptimizeSucceeds(p, new, pack)
    BY <2>4 DEF OptimizeSucceeds, AfterReset
  <2>5. ASSUME NEW r \in Routes, AddRoute(p, r) PROVE TypeOK'
    BY <2>5 DEF AddRoute
  <2>6. ASSUME NEW r \in Routes, RemoveRoute(p, r) PROVE TypeOK'
    BY <2>6 DEF RemoveRoute, CancelTrips, DropRoutes, BulkPlanning, PlanWithout
  <2>7. ASSUME NEW r \in Routes, LockRoute(p, r) PROVE TypeOK'
    BY <2>7 DEF LockRoute, EnsureTrip, BulkPlanning
  <2>8. ASSUME NEW r \in Routes, FinalizeRoute(p, r) PROVE TypeOK'
    BY <2>8 DEF FinalizeRoute, EnsureTrip, BulkPlanning
  <2> QED BY <2>1, <2>2, <2>3, <2>4, <2>5, <2>6, <2>7, <2>8
<1>4. CASE RouteNext
  <2>1. ASSUME NEW r \in Routes, UnlockRoute(r) PROVE TypeOK'
    BY <2>1 DEF UnlockRoute, CancelTrips, BulkPlanning
  <2>2. ASSUME NEW r \in Routes, NEW o \in Orders, AddOrderToRoute(o, r) PROVE TypeOK'
    BY <2>2 DEF AddOrderToRoute
  <2>3. ASSUME NEW r \in Routes, NEW o \in Orders, RemoveOrderFromRoute(o, r) PROVE TypeOK'
    BY <2>3 DEF RemoveOrderFromRoute, BulkPlanning
  <2>4. ASSUME NEW r \in Routes, NEW o \in Orders, NEW to \in Routes, TransferOrder(o, r, to)
        PROVE TypeOK'
    BY <2>4 DEF TransferOrder
  <2> QED BY <1>4, <2>1, <2>2, <2>3, <2>4 DEF RouteNext, MoveOrderBetweenRoutes, ReorderOrder
<1>5. CASE DriverNext
  BY <1>5 DEF DriverNext, TripStarts, TripDelivers, TripEnds
<1>6. CASE UNCHANGED vars
  BY <1>6 DEF vars
<1> QED BY <1>1, <1>2, <1>3, <1>4, <1>5, <1>6 DEF Next

\* TypeOK holds in every reachable state, whatever the sets of documents.
THEOREM TypeCorrect == Spec => []TypeOK
<1>1. Init => TypeOK
  BY DEF Init, TypeOK, OrderStatus, PlanningStatus, PlanStatus, RouteStatus, TripClass
<1> QED BY <1>1, TypeStep, PTL DEF Spec

-----------------------------------------------------------------------------
(* One lemma per operation.                                                *)

\* The parts of IInv beside the types.
Agreement == FreshAndDetached /\ RoutesHavePlans /\ UntouchedOrdersAgree /\ PlanStatusAgrees /\ TripsAgree

\* A new order is on no route; created with another status than PENDING it counts
\* as overridden.
LEMMA CreateOrderKeeps ==
  ASSUME IInv, NEW o \in Orders, NEW s \in OrderStatus, NEW pl \in PlanningStatus,
         NEW ok \in BOOLEAN, CreateOrder(o, s, pl, ok)
  PROVE  Agreement'
<1> USE DEF IInv, TypeOK, OrderStatus, PlanningStatus, PlanStatus, RouteStatus, TripClass,
            Started, Committed, orderVars, routeVars, tripVars
<1>1. FreshAndDetached'
  BY DEF CreateOrder, FreshAndDetached, Carrying
<1>2. RoutesHavePlans'
  BY DEF CreateOrder, RoutesHavePlans, RoutesOf
<1>3. UntouchedOrdersAgree'
  BY DEF CreateOrder, UntouchedOrdersAgree, FreshAndDetached, Carrying, RoutesOf, Exists
<1>4. PlanStatusAgrees'
  BY DEF CreateOrder, PlanStatusAgrees, RoutesHavePlans, RoutesOf
<1>5. TripsAgree'
  BY DEF CreateOrder, TripsAgree, FreshAndDetached, LiveTrip, RoutesOf
<1> QED BY <1>1, <1>2, <1>3, <1>4, <1>5 DEF Agreement

\* A deleted order no longer exists.
LEMMA DeleteOrderKeeps ==
  ASSUME IInv, NEW o \in Orders, DeleteOrder(o)
  PROVE  Agreement'
<1> USE DEF IInv, TypeOK, OrderStatus, PlanningStatus, PlanStatus, RouteStatus, TripClass,
            Started, Committed, orderVars, routeVars, tripVars
<1>1. FreshAndDetached'
  BY DEF DeleteOrder, FreshAndDetached, Carrying
<1>2. RoutesHavePlans'
  BY DEF DeleteOrder, RoutesHavePlans, RoutesOf
<1>3. UntouchedOrdersAgree'
  BY DEF DeleteOrder, UntouchedOrdersAgree, FreshAndDetached, Carrying, RoutesOf, Exists
<1>4. PlanStatusAgrees'
  BY DEF DeleteOrder, PlanStatusAgrees, RoutesHavePlans, RoutesOf
<1>5. TripsAgree'
  BY DEF DeleteOrder, TripsAgree, FreshAndDetached, LiveTrip, RoutesOf
<1> QED BY <1>1, <1>2, <1>3, <1>4, <1>5 DEF Agreement

\* Only cancelling moves the planning status, and marks the order overridden.
LEMMA ChangeOrderStatusKeeps ==
  ASSUME IInv, NEW o \in Orders, NEW s \in OrderStatus, ChangeOrderStatus(o, s)
  PROVE  Agreement'
<1> USE DEF IInv, TypeOK, OrderStatus, PlanningStatus, PlanStatus, RouteStatus, TripClass,
            Started, Committed, orderVars, routeVars, tripVars
<1>1. FreshAndDetached'
  BY DEF ChangeOrderStatus, VoidOrder, FreshAndDetached, Carrying
<1>2. RoutesHavePlans'
  BY DEF ChangeOrderStatus, VoidOrder, RoutesHavePlans, RoutesOf
<1>3. UntouchedOrdersAgree'
  BY DEF ChangeOrderStatus, VoidOrder, UntouchedOrdersAgree, FreshAndDetached, Carrying,
     RoutesOf, Exists
<1>4. PlanStatusAgrees'
  BY DEF ChangeOrderStatus, VoidOrder, PlanStatusAgrees, RoutesHavePlans, RoutesOf
<1>5. TripsAgree'
  BY DEF ChangeOrderStatus, VoidOrder, TripsAgree, FreshAndDetached, LiveTrip, RoutesOf
<1> QED BY <1>1, <1>2, <1>3, <1>4, <1>5 DEF Agreement

\* The orders it saves are overridden.
LEMMA ChangePlanningStatusKeeps ==
  ASSUME IInv, NEW S \in SUBSET Orders, NEW to \in PlanningStatus, ChangePlanningStatus(S, to)
  PROVE  Agreement'
<1> USE DEF IInv, TypeOK, OrderStatus, PlanningStatus, PlanStatus, RouteStatus, TripClass,
            Started, Committed, orderVars, routeVars, tripVars
<1>1. FreshAndDetached'
  BY DEF ChangePlanningStatus, FreshAndDetached, Carrying
<1>2. RoutesHavePlans'
  BY DEF ChangePlanningStatus, RoutesHavePlans, RoutesOf
<1>3. UntouchedOrdersAgree'
  BY DEF ChangePlanningStatus, UntouchedOrdersAgree, FreshAndDetached, Carrying, RoutesOf, Exists
<1>4. PlanStatusAgrees'
  BY DEF ChangePlanningStatus, PlanStatusAgrees, RoutesHavePlans, RoutesOf
<1>5. TripsAgree'
  BY DEF ChangePlanningStatus, TripsAgree, FreshAndDetached, LiveTrip, RoutesOf
<1> QED BY <1>1, <1>2, <1>3, <1>4, <1>5 DEF Agreement

\* The allocated order is overridden.
LEMMA AllocateOrderToTripKeeps ==
  ASSUME IInv, NEW o \in Orders, AllocateOrderToTrip(o)
  PROVE  Agreement'
<1> USE DEF IInv, TypeOK, OrderStatus, PlanningStatus, PlanStatus, RouteStatus, TripClass,
            Started, Committed, orderVars, routeVars, tripVars
<1>1. FreshAndDetached'
  BY DEF AllocateOrderToTrip, FreshAndDetached, Carrying
<1>2. RoutesHavePlans'
  BY DEF AllocateOrderToTrip, RoutesHavePlans, RoutesOf
<1>3. UntouchedOrdersAgree'
  BY DEF AllocateOrderToTrip, UntouchedOrdersAgree, FreshAndDetached, Carrying, RoutesOf, Exists
<1>4. PlanStatusAgrees'
  BY DEF AllocateOrderToTrip, PlanStatusAgrees, RoutesHavePlans, RoutesOf
<1>5. TripsAgree'
  BY DEF AllocateOrderToTrip, TripsAgree, FreshAndDetached, LiveTrip, RoutesOf
<1> QED BY <1>1, <1>2, <1>3, <1>4, <1>5 DEF Agreement

\* Approval is no part of the invariant.
LEMMA ApproveOrderKeeps ==
  ASSUME IInv, NEW o \in Orders, NEW ok \in BOOLEAN, ApproveOrder(o, ok)
  PROVE  Agreement'
<1> USE DEF IInv, TypeOK, OrderStatus, PlanningStatus, PlanStatus, RouteStatus, TripClass,
            Started, Committed, orderVars, routeVars, tripVars
<1>1. FreshAndDetached'
  BY DEF ApproveOrder, FreshAndDetached, Carrying
<1>2. RoutesHavePlans'
  BY DEF ApproveOrder, RoutesHavePlans, RoutesOf
<1>3. UntouchedOrdersAgree'
  BY DEF ApproveOrder, UntouchedOrdersAgree, FreshAndDetached, Carrying, RoutesOf, Exists
<1>4. PlanStatusAgrees'
  BY DEF ApproveOrder, PlanStatusAgrees, RoutesHavePlans, RoutesOf
<1>5. TripsAgree'
  BY DEF ApproveOrder, TripsAgree, FreshAndDetached, LiveTrip, RoutesOf
<1> QED BY <1>1, <1>2, <1>3, <1>4, <1>5 DEF Agreement

\* As cancelling.
LEMMA RejectOrderKeeps ==
  ASSUME IInv, NEW o \in Orders, RejectOrder(o)
  PROVE  Agreement'
<1> USE DEF IInv, TypeOK, OrderStatus, PlanningStatus, PlanStatus, RouteStatus, TripClass,
            Started, Committed, orderVars, routeVars, tripVars
<1>1. FreshAndDetached'
  BY DEF RejectOrder, VoidOrder, FreshAndDetached, Carrying
<1>2. RoutesHavePlans'
  BY DEF RejectOrder, VoidOrder, RoutesHavePlans, RoutesOf
<1>3. UntouchedOrdersAgree'
  BY DEF RejectOrder, VoidOrder, UntouchedOrdersAgree, FreshAndDetached, Carrying, RoutesOf,
     Exists
<1>4. PlanStatusAgrees'
  BY DEF RejectOrder, VoidOrder, PlanStatusAgrees, RoutesHavePlans, RoutesOf
<1>5. TripsAgree'
  BY DEF RejectOrder, VoidOrder, TripsAgree, FreshAndDetached, LiveTrip, RoutesOf
<1> QED BY <1>1, <1>2, <1>3, <1>4, <1>5 DEF Agreement

\* A plan that did not exist has no routes, so DRAFT is right.
LEMMA CreateRoutePlanKeeps ==
  ASSUME IInv, NEW p \in Plans, CreateRoutePlan(p)
  PROVE  Agreement'
<1> USE DEF IInv, TypeOK, OrderStatus, PlanningStatus, PlanStatus, RouteStatus, TripClass,
            Started, Committed, orderVars, routeVars, tripVars
<1>1. FreshAndDetached'
  BY DEF CreateRoutePlan, FreshAndDetached, Carrying
<1>2. RoutesHavePlans'
  BY DEF CreateRoutePlan, RoutesHavePlans, RoutesOf
<1>3. UntouchedOrdersAgree'
  BY DEF CreateRoutePlan, UntouchedOrdersAgree, FreshAndDetached, Carrying, RoutesOf, Exists
<1>4. PlanStatusAgrees'
  BY DEF CreateRoutePlan, PlanStatusAgrees, RoutesHavePlans, RoutesOf
<1>5. TripsAgree'
  BY DEF CreateRoutePlan, TripsAgree, FreshAndDetached, LiveTrip, RoutesOf
<1> QED BY <1>1, <1>2, <1>3, <1>4, <1>5 DEF Agreement

\* No route is FINALIZED, so each untouched order is taken back from the status of
\* the one route that carries it.
LEMMA DeleteRoutePlanKeeps ==
  ASSUME IInv, NEW p \in Plans, DeleteRoutePlan(p)
  PROVE  Agreement'
<1> USE DEF IInv, TypeOK, OrderStatus, PlanningStatus, PlanStatus, RouteStatus, TripClass,
            Started, Committed, orderVars, routeVars, tripVars
<1>1. FreshAndDetached'
  BY DEF DeleteRoutePlan, CancelTrips, DropRoutes, CarriedAs, FreshAndDetached, Carrying, RoutesOf
<1>2. RoutesHavePlans'
  BY DEF DeleteRoutePlan, CancelTrips, DropRoutes, CarriedAs, RoutesHavePlans, RoutesOf
<1>3. UntouchedOrdersAgree'
  BY DEF DeleteRoutePlan, CancelTrips, DropRoutes, CarriedAs, UntouchedOrdersAgree,
     FreshAndDetached, Carrying, RoutesOf, Exists
<1>4. PlanStatusAgrees'
  BY DEF DeleteRoutePlan, CancelTrips, DropRoutes, CarriedAs, PlanStatusAgrees, RoutesHavePlans,
     RoutesOf
<1>5. TripsAgree'
  BY DEF DeleteRoutePlan, CancelTrips, DropRoutes, CarriedAs, TripsAgree, FreshAndDetached,
     LiveTrip, RoutesOf
<1> QED BY <1>1, <1>2, <1>3, <1>4, <1>5 DEF Agreement

\* A new route is empty and has no trip; its plan is not FINALIZED.
LEMMA AddRouteKeeps ==
  ASSUME IInv, NEW p \in Plans, NEW r \in Routes, AddRoute(p, r)
  PROVE  Agreement'
<1> USE DEF IInv, TypeOK, OrderStatus, PlanningStatus, PlanStatus, RouteStatus, TripClass,
            Started, Committed, orderVars, routeVars, tripVars
<1>1. FreshAndDetached'
  BY DEF AddRoute, FreshAndDetached, Carrying
<1>2. RoutesHavePlans'
  BY DEF AddRoute, RoutesHavePlans, RoutesOf
<1>3. UntouchedOrdersAgree'
  BY DEF AddRoute, UntouchedOrdersAgree, FreshAndDetached, Carrying, RoutesOf, Exists
<1>4. PlanStatusAgrees'
  BY DEF AddRoute, PlanStatusAgrees, RoutesHavePlans, RoutesOf
<1>5. TripsAgree'
  BY DEF AddRoute, TripsAgree, FreshAndDetached, LiveTrip, RoutesOf
<1> QED BY <1>1, <1>2, <1>3, <1>4, <1>5 DEF Agreement

\* As deleting a plan, for one route; the plan is DRAFT if no committed route is left.
LEMMA RemoveRouteKeeps ==
  ASSUME IInv, NEW p \in Plans, NEW r \in Routes, RemoveRoute(p, r)
  PROVE  Agreement'
<1> USE DEF IInv, TypeOK, OrderStatus, PlanningStatus, PlanStatus, RouteStatus, TripClass,
            Started, Committed, orderVars, routeVars, tripVars
<1>1. FreshAndDetached'
  BY DEF RemoveRoute, CancelTrips, DropRoutes, BulkPlanning, CarriedAs, PlanWithout,
     FreshAndDetached, Carrying
<1>2. RoutesHavePlans'
  BY DEF RemoveRoute, CancelTrips, DropRoutes, BulkPlanning, CarriedAs, PlanWithout,
     RoutesHavePlans, RoutesOf
<1>3. UntouchedOrdersAgree'
  BY DEF RemoveRoute, CancelTrips, DropRoutes, BulkPlanning, CarriedAs, PlanWithout,
     UntouchedOrdersAgree, FreshAndDetached, Carrying, RoutesOf, Exists
<1>4. PlanStatusAgrees'
  BY DEF RemoveRoute, CancelTrips, DropRoutes, BulkPlanning, CarriedAs, PlanWithout,
     PlanStatusAgrees, RoutesHavePlans, RoutesOf
<1>5. TripsAgree'
  BY DEF RemoveRoute, CancelTrips, DropRoutes, BulkPlanning, CarriedAs, PlanWithout, TripsAgree,
     FreshAndDetached, LiveTrip, RoutesOf
<1> QED BY <1>1, <1>2, <1>3, <1>4, <1>5 DEF Agreement

\* A PENDING order was on no route; any other becomes overridden.
LEMMA AddOrderToRouteKeeps ==
  ASSUME IInv, NEW o \in Orders, NEW r \in Routes, AddOrderToRoute(o, r)
  PROVE  Agreement'
<1> USE DEF IInv, TypeOK, OrderStatus, PlanningStatus, PlanStatus, RouteStatus, TripClass,
            Started, Committed, orderVars, routeVars, tripVars
<1>1. FreshAndDetached'
  BY DEF AddOrderToRoute, FreshAndDetached, Carrying, Exists
<1>2. RoutesHavePlans'
  BY DEF AddOrderToRoute, RoutesHavePlans, RoutesOf
<1>3. UntouchedOrdersAgree'
  BY DEF AddOrderToRoute, UntouchedOrdersAgree, FreshAndDetached, Carrying, RoutesOf, Exists
<1>4. PlanStatusAgrees'
  BY DEF AddOrderToRoute, PlanStatusAgrees, RoutesHavePlans, RoutesOf
<1>5. TripsAgree'
  BY DEF AddOrderToRoute, TripsAgree, FreshAndDetached, LiveTrip, RoutesOf
<1> QED BY <1>1, <1>2, <1>3, <1>4, <1>5 DEF Agreement

\* The route is PLANNED, so an untouched order is PLANNED and on no other route.
LEMMA RemoveOrderFromRouteKeeps ==
  ASSUME IInv, NEW o \in Orders, NEW r \in Routes, RemoveOrderFromRoute(o, r)
  PROVE  Agreement'
<1> USE DEF IInv, TypeOK, OrderStatus, PlanningStatus, PlanStatus, RouteStatus, TripClass,
            Started, Committed, orderVars, routeVars, tripVars
<1>1. FreshAndDetached'
  BY DEF RemoveOrderFromRoute, BulkPlanning, FreshAndDetached, Carrying
<1>2. RoutesHavePlans'
  BY DEF RemoveOrderFromRoute, BulkPlanning, RoutesHavePlans, RoutesOf
<1>3. UntouchedOrdersAgree'
  BY DEF RemoveOrderFromRoute, BulkPlanning, UntouchedOrdersAgree, FreshAndDetached, Carrying,
     RoutesOf, Exists
<1>4. PlanStatusAgrees'
  BY DEF RemoveOrderFromRoute, BulkPlanning, PlanStatusAgrees, RoutesHavePlans, RoutesOf
<1>5. TripsAgree'
  BY DEF RemoveOrderFromRoute, BulkPlanning, TripsAgree, FreshAndDetached, LiveTrip, RoutesOf
<1> QED BY <1>1, <1>2, <1>3, <1>4, <1>5 DEF Agreement

\* A PLANNED route has no live trip, unless it is detached: the trip is opened with
\* the route's orders.
LEMMA LockRouteKeeps ==
  ASSUME IInv, NEW p \in Plans, NEW r \in Routes, LockRoute(p, r)
  PROVE  Agreement'
<1> USE DEF IInv, TypeOK, OrderStatus, PlanningStatus, PlanStatus, RouteStatus, TripClass,
            Started, Committed, orderVars, routeVars, tripVars
<1>1. FreshAndDetached'
  BY DEF LockRoute, EnsureTrip, BulkPlanning, FreshAndDetached, Carrying
<1>2. RoutesHavePlans'
  BY DEF LockRoute, EnsureTrip, BulkPlanning, RoutesHavePlans, RoutesOf
<1>3. UntouchedOrdersAgree'
  BY DEF LockRoute, EnsureTrip, BulkPlanning, UntouchedOrdersAgree, FreshAndDetached, Carrying,
     RoutesOf, Exists
<1>4. PlanStatusAgrees'
  BY DEF LockRoute, EnsureTrip, BulkPlanning, PlanStatusAgrees, RoutesHavePlans, RoutesOf
<1>5. TripsAgree'
  BY DEF LockRoute, EnsureTrip, BulkPlanning, TripsAgree, FreshAndDetached, LiveTrip, RoutesOf
<1> QED BY <1>1, <1>2, <1>3, <1>4, <1>5 DEF Agreement

\* The trip is cancelled, or the route becomes detached.
LEMMA UnlockRouteKeeps ==
  ASSUME IInv, NEW r \in Routes, UnlockRoute(r)
  PROVE  Agreement'
<1> USE DEF IInv, TypeOK, OrderStatus, PlanningStatus, PlanStatus, RouteStatus, TripClass,
            Started, Committed, orderVars, routeVars, tripVars
<1>1. FreshAndDetached'
  BY DEF UnlockRoute, CancelTrips, BulkPlanning, FreshAndDetached, Carrying
<1>2. RoutesHavePlans'
  BY DEF UnlockRoute, CancelTrips, BulkPlanning, RoutesHavePlans, RoutesOf
<1>3. UntouchedOrdersAgree'
  BY DEF UnlockRoute, CancelTrips, BulkPlanning, UntouchedOrdersAgree, FreshAndDetached,
     Carrying, RoutesOf, Exists
<1>4. PlanStatusAgrees'
  BY DEF UnlockRoute, CancelTrips, BulkPlanning, PlanStatusAgrees, RoutesHavePlans, RoutesOf
<1>5. TripsAgree'
  BY DEF UnlockRoute, CancelTrips, BulkPlanning, TripsAgree, FreshAndDetached, LiveTrip, RoutesOf
<1> QED BY <1>1, <1>2, <1>3, <1>4, <1>5 DEF Agreement

\* The plan becomes FINALIZED exactly when its other routes all are.
LEMMA FinalizeRouteKeeps ==
  ASSUME IInv, NEW p \in Plans, NEW r \in Routes, FinalizeRoute(p, r)
  PROVE  Agreement'
<1> USE DEF IInv, TypeOK, OrderStatus, PlanningStatus, PlanStatus, RouteStatus, TripClass,
            Started, Committed, orderVars, routeVars, tripVars
<1>1. FreshAndDetached'
  BY DEF FinalizeRoute, EnsureTrip, BulkPlanning, FreshAndDetached, Carrying
<1>2. RoutesHavePlans'
  BY DEF FinalizeRoute, EnsureTrip, BulkPlanning, RoutesHavePlans, RoutesOf
<1>3. UntouchedOrdersAgree'
  BY DEF FinalizeRoute, EnsureTrip, BulkPlanning, UntouchedOrdersAgree, FreshAndDetached,
     Carrying, RoutesOf, Exists
<1>4. PlanStatusAgrees'
  BY DEF FinalizeRoute, EnsureTrip, BulkPlanning, PlanStatusAgrees, RoutesHavePlans, RoutesOf
<1>5. TripsAgree'
  BY DEF FinalizeRoute, EnsureTrip, BulkPlanning, TripsAgree, FreshAndDetached, LiveTrip, RoutesOf
<1> QED BY <1>1, <1>2, <1>3, <1>4, <1>5 DEF Agreement

\* Both routes are PLANNED: an untouched order stays on exactly one route.
LEMMA TransferOrderKeeps ==
  ASSUME IInv, NEW o \in Orders, NEW r \in Routes, NEW to \in Routes, TransferOrder(o, r, to)
  PROVE  Agreement'
<1> USE DEF IInv, TypeOK, OrderStatus, PlanningStatus, PlanStatus, RouteStatus, TripClass,
            Started, Committed, orderVars, routeVars, tripVars
<1>1. FreshAndDetached'
  BY DEF TransferOrder, FreshAndDetached, Carrying
<1>2. RoutesHavePlans'
  BY DEF TransferOrder, RoutesHavePlans, RoutesOf
<1>3. UntouchedOrdersAgree'
  BY DEF TransferOrder, UntouchedOrdersAgree, FreshAndDetached, Carrying, RoutesOf, Exists
<1>4. PlanStatusAgrees'
  BY DEF TransferOrder, PlanStatusAgrees, RoutesHavePlans, RoutesOf
<1>5. TripsAgree'
  BY DEF TransferOrder, TripsAgree, FreshAndDetached, LiveTrip, RoutesOf
<1> QED BY <1>1, <1>2, <1>3, <1>4, <1>5 DEF Agreement

\* Only PLANNED routes go, and their orders with them to PENDING.
LEMMA OptimizeFailsKeeps ==
  ASSUME IInv, NEW p \in Plans, OptimizeFails(p)
  PROVE  Agreement'
<1> USE DEF IInv, TypeOK, OrderStatus, PlanningStatus, PlanStatus, RouteStatus, TripClass,
            Started, Committed, orderVars, routeVars, tripVars
<1>1. FreshAndDetached'
  BY DEF OptimizeFails, DropRoutes, AfterReset, ResetRoutes, FreshAndDetached, Carrying
<1>2. RoutesHavePlans'
  BY DEF OptimizeFails, DropRoutes, AfterReset, ResetRoutes, RoutesHavePlans, RoutesOf
<1>3. UntouchedOrdersAgree'
  BY DEF OptimizeFails, DropRoutes, AfterReset, ResetRoutes, UntouchedOrdersAgree,
     FreshAndDetached, Carrying, RoutesOf, Exists
<1>4. PlanStatusAgrees'
  BY DEF OptimizeFails, DropRoutes, AfterReset, ResetRoutes, PlanStatusAgrees, RoutesHavePlans,
     RoutesOf
<1>5. TripsAgree'
  BY DEF OptimizeFails, DropRoutes, AfterReset, ResetRoutes, TripsAgree, FreshAndDetached,
     LiveTrip, RoutesOf
<1> QED BY <1>1, <1>2, <1>3, <1>4, <1>5 DEF Agreement

\* The new routes are pairwise disjoint and carry orders no remaining route has.
LEMMA OptimizeSucceedsKeeps ==
  ASSUME IInv, NEW p \in Plans, NEW new \in SUBSET Routes, NEW pack \in [new -> SUBSET Orders],
         OptimizeSucceeds(p, new, pack)
  PROVE  Agreement'
<1> USE DEF IInv, TypeOK, OrderStatus, PlanningStatus, PlanStatus, RouteStatus, TripClass,
            Started, Committed, orderVars, routeVars, tripVars
<1>1. FreshAndDetached'
  <2>1. ASSUME NEW o \in Orders, orderStatus'[o] = "NONE" PROVE Carrying(o)' = {}
    <3>1. orderStatus[o] = "NONE"
      BY <2>1 DEF OptimizeSucceeds
    <3>2. \A r \in new : o \notin pack[r]
      BY <3>1 DEF OptimizeSucceeds, Pool
    <3>3. Carrying(o) = {}
      BY <3>1 DEF FreshAndDetached
    <3> QED BY <3>2, <3>3 DEF OptimizeSucceeds, Carrying
  <2>2. ASSUME NEW r \in Routes, routeStatus'[r] = "NONE" PROVE stops'[r] = {} /\ trip'[r] = "NONE"
    BY <2>2 DEF OptimizeSucceeds, FreshAndDetached
  <2>3. \A r \in detached' : trip'[r] \in Started
    BY DEF OptimizeSucceeds, FreshAndDetached
  <2> QED BY <2>1, <2>2, <2>3 DEF FreshAndDetached
<1>2. RoutesHavePlans'
  BY DEF OptimizeSucceeds, AfterReset, ResetRoutes, Pool, RoutesHavePlans, RoutesOf
<1>3. UntouchedOrdersAgree'
  <2> SUFFICES ASSUME NEW o \in Orders, Exists(o)', o \notin overridden'
               PROVE  IF planning'[o] = "PENDING" THEN Carrying(o)' = {}
                      ELSE \E r \in Routes : Carrying(o)' = {r} /\ routeStatus'[r] = planning'[o]
    BY DEF UntouchedOrdersAgree
  <2>1. Exists(o) /\ o \notin overridden
    BY DEF OptimizeSucceeds, Exists
  <2>2. CASE \E r \in new : o \in pack[r]
    <3>1. PICK r \in new : o \in pack[r]
      BY <2>2
    <3>2. \A q \in new : o \in pack[q] => q = r
      BY <3>1 DEF OptimizeSucceeds
    <3>3. Carrying(o) \subseteq ResetRoutes(p)
      <4>1. AfterReset(p)[o] = "PENDING"
        BY <3>1 DEF OptimizeSucceeds, Pool
      <4>2. CASE \E q \in ResetRoutes(p) : o \in stops[q]
        <5>1. PICK q \in ResetRoutes(p) : o \in stops[q]
          BY <4>2
        <5>2. q \in Carrying(o)
          BY <5>1 DEF Carrying, ResetRoutes, RoutesOf
        <5> QED BY <2>1, <5>1, <5>2 DEF UntouchedOrdersAgree
      <4>3. CASE \A q \in ResetRoutes(p) : o \notin stops[q]
        BY <2>1, <4>1, <4>3 DEF AfterReset, UntouchedOrdersAgree
      <4> QED BY <4>2, <4>3
    <3>4. Carrying(o)' = {r}
      BY <3>1, <3>2, <3>3 DEF OptimizeSucceeds, Carrying
    <3>5. planning'[o] = "PLANNED" /\ routeStatus'[r] = "PLANNED" /\ r \in Routes
      BY <3>1 DEF OptimizeSucceeds
    <3> QED BY <3>4, <3>5
  <2>3. CASE \A r \in new : o \notin pack[r]
    <3>1. planning'[o] = AfterReset(p)[o]
      BY <2>3 DEF OptimizeSucceeds
    <3>2. Carrying(o)' = Carrying(o) \ ResetRoutes(p)
      BY <2>3 DEF OptimizeSucceeds, Carrying, ResetRoutes, RoutesOf
    <3>3. CASE \E r \in ResetRoutes(p) : o \in stops[r]
      BY <2>1, <3>1, <3>2, <3>3 DEF UntouchedOrdersAgree, AfterReset, Carrying, ResetRoutes,
         RoutesOf
    <3>4. CASE \A r \in ResetRoutes(p) : o \notin stops[r]
      <4>1. planning'[o] = planning[o]
        BY <3>1, <3>4 DEF AfterReset
      <4>2. Carrying(o)' = Carrying(o)
        BY <3>2, <3>4 DEF Carrying
      <4>3. \A r \in Carrying(o) : routeStatus'[r] = routeStatus[r]
        BY <3>4 DEF OptimizeSucceeds, Carrying
      <4> QED BY <2>1, <4>1, <4>2, <4>3 DEF UntouchedOrdersAgree
    <3> QED BY <3>3, <3>4
  <2> QED BY <2>2, <2>3
<1>4. PlanStatusAgrees'
  BY DEF OptimizeSucceeds, AfterReset, ResetRoutes, Pool, PlanStatusAgrees, RoutesHavePlans,
     RoutesOf
<1>5. TripsAgree'
  BY DEF OptimizeSucceeds, AfterReset, ResetRoutes, Pool, TripsAgree, FreshAndDetached,
     LiveTrip, RoutesOf
<1> QED BY <1>1, <1>2, <1>3, <1>4, <1>5 DEF Agreement

\* The trip stays live with the same manifest.
LEMMA TripStartsKeeps ==
  ASSUME IInv, NEW r \in Routes, TripStarts(r)
  PROVE  Agreement'
<1> USE DEF IInv, TypeOK, OrderStatus, PlanningStatus, PlanStatus, RouteStatus, TripClass,
            Started, Committed, orderVars, routeVars, tripVars
<1>1. FreshAndDetached'
  BY DEF TripStarts, FreshAndDetached, Carrying
<1>2. RoutesHavePlans'
  BY DEF TripStarts, RoutesHavePlans, RoutesOf
<1>3. UntouchedOrdersAgree'
  BY DEF TripStarts, UntouchedOrdersAgree, FreshAndDetached, Carrying, RoutesOf, Exists
<1>4. PlanStatusAgrees'
  BY DEF TripStarts, PlanStatusAgrees, RoutesHavePlans, RoutesOf
<1>5. TripsAgree'
  BY DEF TripStarts, TripsAgree, FreshAndDetached, LiveTrip, RoutesOf
<1> QED BY <1>1, <1>2, <1>3, <1>4, <1>5 DEF Agreement

\* Delivered orders exist as before, and the trip stays live.
LEMMA TripDeliversKeeps ==
  ASSUME IInv, NEW r \in Routes, NEW S \in SUBSET Orders, TripDelivers(r, S)
  PROVE  Agreement'
<1> USE DEF IInv, TypeOK, OrderStatus, PlanningStatus, PlanStatus, RouteStatus, TripClass,
            Started, Committed, orderVars, routeVars, tripVars
<1>1. FreshAndDetached'
  BY DEF TripDelivers, FreshAndDetached, Carrying
<1>2. RoutesHavePlans'
  BY DEF TripDelivers, RoutesHavePlans, RoutesOf
<1>3. UntouchedOrdersAgree'
  BY DEF TripDelivers, UntouchedOrdersAgree, FreshAndDetached, Carrying, RoutesOf, Exists
<1>4. PlanStatusAgrees'
  BY DEF TripDelivers, PlanStatusAgrees, RoutesHavePlans, RoutesOf
<1>5. TripsAgree'
  BY DEF TripDelivers, TripsAgree, FreshAndDetached, LiveTrip, RoutesOf
<1> QED BY <1>1, <1>2, <1>3, <1>4, <1>5 DEF Agreement

\* The trip stays live with the same manifest.
LEMMA TripEndsKeeps ==
  ASSUME IInv, NEW r \in Routes, TripEnds(r)
  PROVE  Agreement'
<1> USE DEF IInv, TypeOK, OrderStatus, PlanningStatus, PlanStatus, RouteStatus, TripClass,
            Started, Committed, orderVars, routeVars, tripVars
<1>1. FreshAndDetached'
  BY DEF TripEnds, FreshAndDetached, Carrying
<1>2. RoutesHavePlans'
  BY DEF TripEnds, RoutesHavePlans, RoutesOf
<1>3. UntouchedOrdersAgree'
  BY DEF TripEnds, UntouchedOrdersAgree, FreshAndDetached, Carrying, RoutesOf, Exists
<1>4. PlanStatusAgrees'
  BY DEF TripEnds, PlanStatusAgrees, RoutesHavePlans, RoutesOf
<1>5. TripsAgree'
  BY DEF TripEnds, TripsAgree, FreshAndDetached, LiveTrip, RoutesOf
<1> QED BY <1>1, <1>2, <1>3, <1>4, <1>5 DEF Agreement

\* Every step keeps the inductive invariant.
LEMMA InvStep == IInv /\ [Next]_vars => IInv'
<1> SUFFICES ASSUME IInv, [Next]_vars PROVE Agreement'
  BY TypeStep DEF IInv, Agreement
<1>1. CASE OrderNext
  BY <1>1, CreateOrderKeeps, DeleteOrderKeeps, ChangeOrderStatusKeeps, AllocateOrderToTripKeeps,
     ApproveOrderKeeps, RejectOrderKeeps
     DEF OrderNext
<1>2. CASE \E S \in SUBSET Orders, to \in PlanningStatus : ChangePlanningStatus(S, to)
  BY <1>2, ChangePlanningStatusKeeps
<1>3. CASE PlanNext
  BY <1>3, CreateRoutePlanKeeps, DeleteRoutePlanKeeps, OptimizeFailsKeeps, OptimizeSucceedsKeeps,
     AddRouteKeeps, RemoveRouteKeeps, LockRouteKeeps, FinalizeRouteKeeps
     DEF PlanNext
<1>4. CASE RouteNext
  BY <1>4, UnlockRouteKeeps, AddOrderToRouteKeeps, RemoveOrderFromRouteKeeps, TransferOrderKeeps
     DEF RouteNext, MoveOrderBetweenRoutes, ReorderOrder
<1>5. CASE DriverNext
  BY <1>5, TripStartsKeeps, TripDeliversKeeps, TripEndsKeeps DEF DriverNext
<1>6. CASE UNCHANGED vars
  BY <1>6 DEF vars, IInv, Agreement, FreshAndDetached, RoutesHavePlans, UntouchedOrdersAgree,
     PlanStatusAgrees, TripsAgree, Carrying, RoutesOf, Exists, LiveTrip
<1> QED BY <1>1, <1>2, <1>3, <1>4, <1>5, <1>6 DEF Next

\* The inductive invariant holds in every reachable state.
THEOREM Invariance == Spec => []IInv
<1>1. Init => IInv
  <2> USE DEF Init
  <2>1. Init => TypeOK
    BY DEF TypeOK, OrderStatus, PlanningStatus, PlanStatus, RouteStatus, TripClass
  <2>2. Init => Agreement
    BY DEF Agreement, FreshAndDetached, RoutesHavePlans, UntouchedOrdersAgree, PlanStatusAgrees,
       TripsAgree, Carrying, RoutesOf, Exists, LiveTrip, OrderStatus, RouteStatus, Committed
  <2> QED BY <2>1, <2>2 DEF IInv, Agreement
<1> QED BY <1>1, InvStep, PTL DEF Spec

-----------------------------------------------------------------------------
(* The safety properties.                                                  *)

\* An order moved by route operations alone is on no route while PENDING and else
\* on exactly one, whose status it has: for any number of plans and routes.
THEOREM OrdersAgree == Spec => []UntouchedOrdersAgree
<1>1. IInv => UntouchedOrdersAgree
  BY DEF IInv
<1> QED BY <1>1, Invariance, PTL

\* A plan's status always fits its routes.
THEOREM PlansAgree == Spec => []PlanStatusAgrees
<1>1. IInv => PlanStatusAgrees
  BY DEF IInv
<1> QED BY <1>1, Invariance, PTL

\* Committed routes have live trips, and live trips their route's orders.
THEOREM RoutesAndTripsAgree == Spec => []TripsAgree
<1>1. IInv => TripsAgree
  BY DEF IInv
<1> QED BY <1>1, Invariance, PTL

\* No order travels on two trucks: the two live trips would both carry exactly the
\* orders of their committed routes, and only one route carries the order.
THEOREM NoDoubleLoading == Spec => []OneTruckPerOrder
<1>1. IInv => OneTruckPerOrder
  <2> SUFFICES ASSUME IInv, NEW o \in Orders \ overridden, NEW r \in Routes \ detached,
                      NEW q \in Routes \ detached,
                      Exists(o), LiveTrip(r), LiveTrip(q), o \in manifest[r] \cap manifest[q]
               PROVE  r = q
    BY DEF OneTruckPerOrder
  <2>1. \A x \in {r, q} : routeStatus[x] \in RouteStatus /\ o \in stops[x]
    BY DEF IInv, TripsAgree, Committed, RouteStatus
  <2>2. {r, q} \subseteq Carrying(o)
    BY <2>1 DEF Carrying
  <2>3. PICK x \in Routes : Carrying(o) = {x}
    BY <2>2 DEF IInv, UntouchedOrdersAgree
  <2> QED BY <2>2, <2>3
<1> QED BY <1>1, Invariance, PTL

-----------------------------------------------------------------------------
(* What a step may never do.                                               *)

\* No handler touches a FINALIZED route or the routes of a FINALIZED plan: each
\* either asks for another status of the route, or refuses the plan.
LEMMA FrozenStep == IInv /\ Next => KeepsFinalized
<1> SUFFICES ASSUME IInv, Next PROVE KeepsFinalized
  OBVIOUS
<1> USE DEF IInv, TypeOK, PlanStatus, RouteStatus, Committed, orderVars, routeVars, tripVars, KeepsFinalized, RoutesOf
<1>1. CASE OrderNext \/ DriverNext \/ \E S \in SUBSET Orders, to \in PlanningStatus : ChangePlanningStatus(S, to)
  BY <1>1 DEF OrderNext, CreateOrder, DeleteOrder, ChangeOrderStatus, VoidOrder,
     AllocateOrderToTrip,
     ApproveOrder, RejectOrder, ChangePlanningStatus, DriverNext, TripStarts, TripDelivers, TripEnds
<1>2. ASSUME NEW p \in Plans, CreateRoutePlan(p) PROVE KeepsFinalized
  BY <1>2 DEF CreateRoutePlan
<1>3. ASSUME NEW p \in Plans, DeleteRoutePlan(p) PROVE KeepsFinalized
  BY <1>3 DEF DeleteRoutePlan, DropRoutes
<1>4. ASSUME NEW p \in Plans, NEW r \in Routes, AddRoute(p, r) PROVE KeepsFinalized
  BY <1>4 DEF AddRoute
<1>5. ASSUME NEW p \in Plans, NEW r \in Routes, RemoveRoute(p, r) PROVE KeepsFinalized
  BY <1>5 DEF RemoveRoute, DropRoutes, PlanWithout
<1>6. ASSUME NEW p \in Plans, NEW r \in Routes, LockRoute(p, r) PROVE KeepsFinalized
  BY <1>6 DEF LockRoute, RoutesHavePlans, PlanStatusAgrees
<1>7. ASSUME NEW p \in Plans, NEW r \in Routes, FinalizeRoute(p, r) PROVE KeepsFinalized
  BY <1>7 DEF FinalizeRoute
<1>8. ASSUME NEW p \in Plans, OptimizeFails(p) PROVE KeepsFinalized
  BY <1>8 DEF OptimizeFails, DropRoutes, ResetRoutes
<1>9. ASSUME NEW p \in Plans, NEW new \in SUBSET Routes, NEW pack \in [new -> SUBSET Orders],
         OptimizeSucceeds(p, new, pack) PROVE KeepsFinalized
  BY <1>9 DEF OptimizeSucceeds, ResetRoutes
<1>10. ASSUME NEW r \in Routes, UnlockRoute(r) PROVE KeepsFinalized
  BY <1>10 DEF UnlockRoute, RoutesHavePlans, PlanStatusAgrees
<1>11. ASSUME NEW o \in Orders, NEW r \in Routes, AddOrderToRoute(o, r) PROVE KeepsFinalized
  BY <1>11 DEF AddOrderToRoute
<1>12. ASSUME NEW o \in Orders, NEW r \in Routes, RemoveOrderFromRoute(o, r) PROVE KeepsFinalized
  BY <1>12 DEF RemoveOrderFromRoute
<1>13. ASSUME NEW o \in Orders, NEW r \in Routes, NEW to \in Routes, TransferOrder(o, r, to) PROVE KeepsFinalized
  BY <1>13 DEF TransferOrder
<1> QED BY <1>1, <1>2, <1>3, <1>4, <1>5, <1>6, <1>7, <1>8, <1>9, <1>10, <1>11, <1>12, <1>13
     DEF Next, PlanNext, RouteNext, MoveOrderBetweenRoutes, ReorderOrder

\* Finalizing is final, for any number of plans and routes.
THEOREM FinalizedIsFinal == Spec => FinalizedStaysFrozen
<1>1. IInv /\ [Next]_vars => [KeepsFinalized]_vars
  BY FrozenStep
<1> QED BY <1>1, Invariance, PTL DEF Spec, FinalizedStaysFrozen

-----------------------------------------------------------------------------
(* Refinement of the trip lifecycle.                                       *)

\* Every step moves each trip by one move of the lifecycle, or not at all.
LEMMA LifecycleStep == TypeOK /\ Next => Lifecycle!Next
<1> SUFFICES ASSUME TypeOK, Next, NEW x \in Routes
             PROVE  \/ Lifecycle!Stays(x) \/ Lifecycle!Opens(x) \/ Lifecycle!Cancels(x)
                    \/ Lifecycle!Starts(x) \/ Lifecycle!Ends(x)
  BY DEF Lifecycle!Next
<1> USE DEF TypeOK, TripClass, Started, Lifecycle!Stays, Lifecycle!Opens, Lifecycle!Cancels,
            Lifecycle!Starts, Lifecycle!Ends
<1>1. CASE UNCHANGED <<trip, manifest>>
  BY <1>1
<1>2. ASSUME NEW R \in SUBSET Routes, CancelTrips(R) PROVE Lifecycle!Stays(x) \/ Lifecycle!Cancels(x)
  BY <1>2 DEF CancelTrips
<1>3. ASSUME NEW r \in Routes, EnsureTrip(r) PROVE Lifecycle!Stays(x) \/ Lifecycle!Opens(x)
  BY <1>3 DEF EnsureTrip
<1>4. CASE DriverNext
  BY <1>4 DEF DriverNext, TripStarts, TripDelivers, TripEnds
<1>5. CASE OrderNext \/ \E S \in SUBSET Orders, to \in PlanningStatus : ChangePlanningStatus(S, to)
  BY <1>1, <1>5 DEF OrderNext, CreateOrder, DeleteOrder, ChangeOrderStatus, AllocateOrderToTrip,
     ApproveOrder, RejectOrder, ChangePlanningStatus, tripVars
<1>6. CASE PlanNext
  <2>1. \A p \in Plans : RoutesOf(p) \in SUBSET Routes
    BY DEF RoutesOf
  <2> QED BY ZenonT(40), <1>1, <1>2, <1>3, <1>6, <2>1 DEF PlanNext, CreateRoutePlan, DeleteRoutePlan, OptimizeFails,
      OptimizeSucceeds, AddRoute, RemoveRoute, LockRoute, FinalizeRoute, tripVars
<1>7. CASE RouteNext
  BY ZenonT(40), <1>1, <1>2, <1>7 DEF RouteNext, UnlockRoute, AddOrderToRoute, RemoveOrderFromRoute,
     MoveOrderBetweenRoutes, ReorderOrder, TransferOrder, tripVars
<1> QED BY <1>4, <1>5, <1>6, <1>7 DEF Next

\* Planning implements the trip lifecycle: it never cancels, reopens or reloads a
\* trip that has started.
THEOREM PlanningImplementsLifecycle == Spec => ImplementsLifecycle
<1>1. Init => Lifecycle!Init
  BY DEF Init, Lifecycle!Init
<1>2. TypeOK /\ [Next]_vars => [Lifecycle!Next]_<<trip, manifest>>
  BY LifecycleStep DEF vars
<1> QED BY <1>1, <1>2, TypeCorrect, PTL DEF Spec, ImplementsLifecycle, Lifecycle!Spec

-----------------------------------------------------------------------------
(* The inductive invariant of the heuristics.                              *)

Once(r) == \A i, j \in DOMAIN r : r[i] = r[j] => i = j

\* x puts each stop of P on one vehicle, once, and no other stop.
Carries(x, P) ==
    /\ x \in [Vehicles -> Seq(Stops)]
    /\ \A v \in Vehicles : Once(x[v]) /\ ToSet(x[v]) \subseteq P
    /\ \A v, w \in Vehicles : v # w => ToSet(x[v]) \cap ToSet(x[w]) = {}
    /\ \A s \in P : \E v \in Vehicles : s \in ToSet(x[v])

\* The loads kept with the routes are their sums.
Weighed(x) == \A v \in Vehicles :
    /\ x.load[v].weight = SumOf(Weight, ToSet(x.routes[v]))
    /\ x.load[v].volume = SumOf(Volume, ToSet(x.routes[v]))

IsSolution(x, P) ==
    /\ x = [routes |-> x.routes, load |-> x.load]
    /\ DOMAIN x.load = Vehicles /\ P \subseteq Stops
    /\ Carries(x.routes, P) /\ Weighed(x)

Allowed(v, S) == \A s \in S : Needs[s] \subseteq Has[v] /\ \A t \in S : s # t => Classes[s] \cap Refuses[t] = {}
Permitted(x) == \A v \in Vehicles :
    /\ MaxWeight[v] > 0 => x.load[v].weight <= MaxWeight[v]
    /\ Allowed(v, ToSet(x.routes[v]))

LocalSteps == {"2opt", "or1", "or2", "or3"}
SearchTypes ==
    /\ day \in DOMAIN Days /\ shift \in DOMAIN ShiftStart
    /\ alg \in {"pack", "nn2opt", "lns-sa"} /\ phase \in {"build", "loop", "final", "last"}
    /\ alg = "pack" \/ at \in Vehicles
    /\ alg = "pack" => pc \in {"pack", "done"}
    /\ pc = "pack" => alg = "pack" /\ left = {}
    /\ pc \in {"pack", "fit", "seed", "insert"} => phase = "build"
    /\ pc \in {"destroy", "reinsert", "accept"} => phase # "build"
    /\ pc \in LocalSteps \cup {"relocate", "swap", "accept", "destroy"} => open = {}

SearchInv ==
    /\ SearchTypes
    /\ IsSolution(sol, Stops \ (open \cup left)) /\ open \cap left = {} /\ open \subseteq Stops
    /\ phase # "build" => IsSolution(cur, Stops \ left) /\ IsSolution(best, Stops \ left)
    /\ forced \/ (Permitted(sol) /\ (phase # "build" => Permitted(cur) /\ Permitted(best)))
    /\ alg = "pack" => \A v \in Vehicles : Finish(sol.routes[v]) <= ShiftEnd[shift]

Ops == {"2opt", "or1", "or2", "or3", "relocate", "swap", "again"}
ServiceSteps ==
    /\ todo \in Seq(Ops)
    /\ step \in {"educate", "breed", "missing", "shuffled", "scatter"} => algorithm = "hgs"
    /\ step \in {"tune", "destroy", "reinsert", "nearest"} => algorithm # "hgs"
    /\ step \in {"educate", "polish", "tune", "breed", "destroy"} => out = {}

\* Is there a best individual yet, and a current one to take stops out of?
HasFound ==
    \/ round > 0 \/ step \in {"destroy", "breed", "done"}
    \/ step = "polish" /\ algorithm = "hgs"
HasCurrent == (round > 0 /\ algorithm # "hgs") \/ step = "destroy"

ServiceInv ==
    /\ ServiceSteps
    /\ day \in DOMAIN Days
    /\ Carries(ind, Stops \ out) /\ out \subseteq Stops
    /\ \A m \in pop \cup fresh : Carries(m.routes, Stops)
    /\ HasFound => Carries(found, Stops)
    /\ HasCurrent => Carries(current, Stops)

LEMMA LeastMember ==
    ASSUME NEW N \in Nat, NEW T, T \subseteq 1 .. N, T # {}
    PROVE  \E k \in T : \A j \in T : k <= j
<1> DEFINE Upto == {1 .. k : k \in T}
           R == StrictSubsetOrdering(1 .. N)
<1>1. IsFiniteSet(1 .. N)
    BY FS_Interval
<1>2. IsWellFoundedOn(R, SUBSET (1 .. N))
    BY <1>1, FS_FiniteSubsetsOfFinite, FS_StrictSubsetOrderingWellFounded
<1>3. Upto \subseteq SUBSET (1 .. N) /\ Upto # {}
    <2>1. \A k \in T : 1 .. k \subseteq 1 .. N
        OBVIOUS
    <2> QED
        BY <2>1
<1>4. PICK u \in Upto : \A v \in Upto : <<v, u>> \notin R
    <2> HIDE DEF R, Upto
    <2> QED
        BY <1>2, <1>3, WFMin
<1>5. PICK k \in T : u = 1 .. k
    BY <1>4
<1>6. ASSUME NEW j \in T, j < k PROVE FALSE
    <2>1. 1 .. j \in Upto /\ 1 .. j \subseteq 1 .. k /\ 1 .. j # 1 .. k
        <3>1. k \in 1 .. k /\ k \notin 1 .. j
            BY <1>6
        <3> QED
            BY <1>6, <3>1
    <2>2. <<1 .. j, u>> \in R
        BY <1>3, <1>5, <2>1 DEF StrictSubsetOrdering
    <2> QED
        BY <1>4, <2>1, <2>2
<1> QED
    BY <1>6

-----------------------------------------------------------------------------
(* Sums.                                                                   *)

Sums(f, n, g) == g = [k \in 0 .. n |-> IF k = 0 THEN 0 ELSE g[k - 1] + f[k]]

LEMMA SumsExist ==
    ASSUME NEW N \in Nat, NEW f
    PROVE  \E g : Sums(f, N, g)
<1> DEFINE Bad == {n \in 1 .. N : ~ \E g : Sums(f, n, g)}
<1>0. Sums(f, 0, [k \in 0 .. 0 |-> 0])
    BY DEF Sums
<1> SUFFICES ASSUME N \in Bad PROVE FALSE
    BY <1>0
<1>1. PICK n \in Bad : \A m \in Bad : n <= m
    BY LeastMember
<1>2. n \in 1 .. N /\ n - 1 \in Nat /\ n - 1 \notin Bad
    BY <1>1
<1>3. \E g : Sums(f, n - 1, g)
    BY <1>0, <1>2
<1>4. PICK g : Sums(f, n - 1, g)
    BY <1>3
<1> DEFINE h == [k \in 0 .. n |-> IF k = n THEN g[n - 1] + f[n] ELSE g[k]]
<1>5. g = [k \in 0 .. n - 1 |-> IF k = 0 THEN 0 ELSE g[k - 1] + f[k]]
    BY <1>4 DEF Sums
<1>6. ASSUME NEW k \in 0 .. n PROVE h[k] = IF k = 0 THEN 0 ELSE h[k - 1] + f[k]
    <2>1. CASE k = n
        <3>1. h[n] = g[n - 1] + f[n] /\ h[n - 1] = g[n - 1]
            BY <1>2
        <3> QED
            BY <1>2, <2>1, <3>1
    <2>2. CASE k # n
        <3>1. k \in 0 .. n - 1 /\ h[k] = g[k]
            BY <1>2, <2>2
        <3>2. k # 0 => k - 1 \in 0 .. n /\ h[k - 1] = g[k - 1]
            BY <1>2, <2>2
        <3>3. g[k] = IF k = 0 THEN 0 ELSE g[k - 1] + f[k]
            BY <1>5, <3>1
        <3> QED
            BY <3>1, <3>2, <3>3
    <2> QED
        BY <2>1, <2>2
<1>7. Sums(f, n, h)
    BY <1>6 DEF Sums
<1> QED
    BY <1>2, <1>7

\* A total is the last of the partial sums.
LEMMA TotalIsLast ==
    ASSUME NEW n \in Nat, NEW f
    PROVE  \E g : SumTo(f, n) = g[n] /\ g[0] = 0 /\ \A k \in 1 .. n : g[k] = g[k - 1] + f[k]
<1> DEFINE Is(g) == g = [k \in 0 .. n |-> IF k = 0 THEN 0 ELSE g[k - 1] + f[k]]
           sum == CHOOSE g : Is(g)
<1>1. PICK g : Sums(f, n, g)
    BY SumsExist
<1>2. Is(g)
    BY <1>1 DEF Sums
<1>3. Is(sum)
    <2> HIDE DEF Is
    <2> QED
        BY <1>2, Zenon
<1>4. SumTo(f, n) = sum[n]
    BY DEF SumTo
<1> HIDE DEF sum
<1>5. sum[0] = 0
    BY <1>3
<1>6. \A k \in 1 .. n : sum[k] = sum[k - 1] + f[k]
    <2>1. \A k \in 0 .. n : sum[k] = IF k = 0 THEN 0 ELSE sum[k - 1] + f[k]
        BY <1>3
    <2> HIDE DEF Is
    <2> QED
        BY <2>1
<1> QED
    BY <1>4, <1>5, <1>6

Term(W, S, n) == IF n \in S THEN W[n] ELSE 0

LEMMA SumIsLast ==
    ASSUME NEW W, Len(W) \in Nat, NEW S
    PROVE  \E f : /\ SumOf(W, S) = f[Len(W)] /\ f[0] = 0
                  /\ \A n \in 1 .. Len(W) : f[n] = f[n - 1] + Term(W, S, n)
<1> DEFINE t == [n \in 1 .. Len(W) |-> IF n \in S THEN W[n] ELSE 0]
<1>1. \A n \in 1 .. Len(W) : t[n] = Term(W, S, n)
    BY DEF Term
<1>2. SumOf(W, S) = SumTo(t, Len(W))
    BY DEF SumOf
<1> HIDE DEF t
<1>3. PICK f : /\ SumTo(t, Len(W)) = f[Len(W)] /\ f[0] = 0
               /\ \A n \in 1 .. Len(W) : f[n] = f[n - 1] + t[n]
    BY TotalIsLast
<1> QED
    BY <1>1, <1>2, <1>3

\* The sums over two disjoint sets add up.
LEMMA SumAdds ==
    ASSUME NEW W \in Seq(Nat), NEW A, NEW B, A \cap B = {}
    PROVE  /\ SumOf(W, A \cup B) = SumOf(W, A) + SumOf(W, B)
           /\ SumOf(W, A) \in Nat /\ SumOf(W, B) \in Nat
<1> DEFINE N == Len(W)
<1>0. N \in Nat /\ \A n \in 1 .. N : W[n] \in Nat
    OBVIOUS
<1>1. PICK a : /\ SumOf(W, A) = a[N] /\ a[0] = 0
               /\ \A n \in 1 .. N : a[n] = a[n - 1] + Term(W, A, n)
    BY <1>0, SumIsLast
<1>2. PICK b : /\ SumOf(W, B) = b[N] /\ b[0] = 0
               /\ \A n \in 1 .. N : b[n] = b[n - 1] + Term(W, B, n)
    BY <1>0, SumIsLast
<1>3. PICK c : /\ SumOf(W, A \cup B) = c[N] /\ c[0] = 0
               /\ \A n \in 1 .. N : c[n] = c[n - 1] + Term(W, A \cup B, n)
    BY <1>0, SumIsLast
<1> DEFINE Good(n) == a[n] \in Nat /\ b[n] \in Nat /\ c[n] = a[n] + b[n]
           Bad == {n \in 1 .. N : ~ Good(n)}
<1>4. Good(0)
    BY <1>1, <1>2, <1>3
<1>5. ASSUME NEW n \in 1 .. N, Good(n - 1) PROVE Good(n)
    <2>1. /\ Term(W, A, n) \in Nat /\ Term(W, B, n) \in Nat
          /\ Term(W, A \cup B, n) = Term(W, A, n) + Term(W, B, n)
        BY <1>0 DEF Term
    <2>2. a[n] = a[n - 1] + Term(W, A, n) /\ b[n] = b[n - 1] + Term(W, B, n)
          /\ c[n] = c[n - 1] + Term(W, A \cup B, n)
        BY <1>1, <1>2, <1>3
    <2>3. PICK x \in Nat, y \in Nat : x = Term(W, A, n) /\ y = Term(W, B, n)
        BY <2>1
    <2>4. PICK p \in Nat, q \in Nat : p = a[n - 1] /\ q = b[n - 1] /\ c[n - 1] = p + q
        BY <1>5
    <2>5. a[n] = p + x /\ b[n] = q + y /\ c[n] = (p + q) + (x + y)
        BY <2>1, <2>2, <2>3, <2>4
    <2> QED
        BY <2>5
<1>6. ASSUME Bad # {} PROVE FALSE
    <2>1. PICK n \in Bad : \A m \in Bad : n <= m
        <3>1. N \in Nat /\ Bad \subseteq 1 .. N
            BY <1>0
        <3> HIDE DEF Bad
        <3> QED
            BY <1>6, <3>1, LeastMember
    <2>2. n \in 1 .. N /\ n - 1 \in 0 .. N /\ n - 1 \notin Bad
        BY <1>0, <2>1
    <2>3. Good(n - 1)
        <3>1. CASE n = 1
            BY <1>4, <3>1
        <3>2. CASE n # 1
            BY <2>2, <3>2
        <3> QED
            BY <3>1, <3>2
    <2> QED
        BY <1>5, <2>1, <2>2, <2>3
<1>7. Good(N)
    BY <1>0, <1>4, <1>6
<1> QED
    BY <1>1, <1>2, <1>3, <1>7

LEMMA SumOfNone ==
    ASSUME NEW W \in Seq(Nat)
    PROVE  SumOf(W, {}) = 0
<1>1. SumOf(W, {} \cup {}) = SumOf(W, {}) + SumOf(W, {}) /\ SumOf(W, {}) \in Nat
    BY SumAdds, Zenon
<1>2. {} \cup {} = {}
    OBVIOUS
<1> QED
    BY <1>1, <1>2

LEMMA SumOfOne ==
    ASSUME NEW W \in Seq(Nat), NEW s \in 1 .. Len(W)
    PROVE  SumOf(W, {s}) = W[s] /\ W[s] \in Nat
<1> DEFINE N == Len(W)
<1>0. N \in Nat /\ \A n \in 1 .. N : W[n] \in Nat
    OBVIOUS
<1>1. PICK a : /\ SumOf(W, {s}) = a[N] /\ a[0] = 0
               /\ \A n \in 1 .. N : a[n] = a[n - 1] + Term(W, {s}, n)
    BY <1>0, SumIsLast
<1> DEFINE Good(n) == a[n] = IF n < s THEN 0 ELSE W[s]
           Bad == {n \in 1 .. N : ~ Good(n)}
<1>4. Good(0)
    BY <1>1
<1>5. ASSUME NEW n \in 1 .. N, Good(n - 1) PROVE Good(n)
    <2>1. Term(W, {s}, n) = IF n = s THEN W[s] ELSE 0
        BY DEF Term
    <2>2. a[n] = a[n - 1] + Term(W, {s}, n)
        BY <1>1
    <2> QED
        BY <1>0, <1>5, <2>1, <2>2
<1>6. ASSUME Bad # {} PROVE FALSE
    <2>1. PICK n \in Bad : \A m \in Bad : n <= m
        <3>1. N \in Nat /\ Bad \subseteq 1 .. N
            BY <1>0
        <3> HIDE DEF Bad
        <3> QED
            BY <1>6, <3>1, LeastMember
    <2>2. n \in 1 .. N /\ n - 1 \in 0 .. N /\ n - 1 \notin Bad
        BY <1>0, <2>1
    <2>3. Good(n - 1)
        <3>1. CASE n = 1
            BY <1>4, <3>1
        <3>2. CASE n # 1
            BY <2>2, <3>2
        <3> QED
            BY <3>1, <3>2
    <2> QED
        BY <1>5, <2>1, <2>2, <2>3
<1>7. Good(N)
    BY <1>0, <1>4, <1>6
<1> QED
    BY <1>0, <1>1, <1>7

-----------------------------------------------------------------------------
(* Routes: taking a sequence apart and putting it together.                *)

LEMMA Joined ==
    ASSUME NEW T, NEW a \in Seq(T), NEW b \in Seq(T)
    PROVE  /\ a \o b \in Seq(T) /\ Len(a \o b) = Len(a) + Len(b)
           /\ ToSet(a \o b) = ToSet(a) \cup ToSet(b)
           /\ Once(a \o b) <=> /\ Once(a) /\ Once(b)
                               /\ ToSet(a) \cap ToSet(b) = {}
<1> DEFINE c == a \o b
<1>1. /\ c \in Seq(T) /\ Len(c) = Len(a) + Len(b) /\ Len(a) \in Nat /\ Len(b) \in Nat
      /\ DOMAIN a = 1 .. Len(a) /\ DOMAIN b = 1 .. Len(b) /\ DOMAIN c = 1 .. Len(a) + Len(b)
    BY ConcatProperties, LenProperties
<1>2. /\ \A i \in DOMAIN a : c[i] = a[i] /\ i \in DOMAIN c
      /\ \A i \in DOMAIN b : c[Len(a) + i] = b[i] /\ Len(a) + i \in DOMAIN c
    BY <1>1, ConcatProperties
<1>3. \A k \in DOMAIN c : \/ k \in DOMAIN a
                          \/ k - Len(a) \in DOMAIN b /\ Len(a) + (k - Len(a)) = k
    BY <1>1
<1> HIDE DEF c
<1>4. ToSet(c) = ToSet(a) \cup ToSet(b)
    <2>1. ASSUME NEW x \in ToSet(c) PROVE x \in ToSet(a) \cup ToSet(b)
        <3>1. PICK k \in DOMAIN c : x = c[k]
            BY DEF ToSet
        <3>2. CASE k \in DOMAIN a
            BY <1>2, <3>1, <3>2 DEF ToSet
        <3>3. CASE k - Len(a) \in DOMAIN b /\ Len(a) + (k - Len(a)) = k
            <4>1. c[k] = b[k - Len(a)]
                BY <1>2, <3>3
            <4> QED
                BY <3>1, <3>3, <4>1 DEF ToSet
        <3> QED
            BY <1>3, <3>2, <3>3
    <2>2. ASSUME NEW x \in ToSet(a) PROVE x \in ToSet(c)
        BY <1>2 DEF ToSet
    <2>3. ASSUME NEW x \in ToSet(b) PROVE x \in ToSet(c)
        <3>1. PICK k \in DOMAIN b : x = b[k]
            BY DEF ToSet
        <3>2. c[Len(a) + k] = x /\ Len(a) + k \in DOMAIN c
            BY <1>2, <3>1
        <3> QED
            BY <3>2 DEF ToSet
    <2> QED
        BY <2>1, <2>2, <2>3
<1>5. ASSUME Once(c) PROVE Once(a) /\ Once(b) /\ ToSet(a) \cap ToSet(b) = {}
    <2>1. Once(a)
        BY <1>2, <1>5 DEF Once
    <2>2. Once(b)
        <3> SUFFICES ASSUME NEW i \in DOMAIN b, NEW j \in DOMAIN b, b[i] = b[j] PROVE i = j
            BY DEF Once
        <3>1. Len(a) + i = Len(a) + j
            BY <1>2, <1>5 DEF Once
        <3> QED
            BY <1>1, <3>1
    <2>3. ASSUME NEW x \in ToSet(a) \cap ToSet(b) PROVE FALSE
        <3>1. PICK i \in DOMAIN a, j \in DOMAIN b : x = a[i] /\ x = b[j]
            BY DEF ToSet
        <3>2. i = Len(a) + j
            BY <1>2, <1>5, <3>1 DEF Once
        <3> QED
            BY <1>1, <3>2
    <2> QED
        BY <2>1, <2>2, <2>3
<1>6. ASSUME Once(a), Once(b), ToSet(a) \cap ToSet(b) = {} PROVE Once(c)
    <2> SUFFICES ASSUME NEW i \in DOMAIN c, NEW j \in DOMAIN c, c[i] = c[j] PROVE i = j
        BY DEF Once
    <2>1. CASE i \in DOMAIN a /\ j \in DOMAIN a
        BY <1>2, <1>6, <2>1 DEF Once
    <2>2. CASE i - Len(a) \in DOMAIN b /\ Len(a) + (i - Len(a)) = i
               /\ j - Len(a) \in DOMAIN b /\ Len(a) + (j - Len(a)) = j
        <3>1. c[i] = b[i - Len(a)] /\ c[j] = b[j - Len(a)]
            BY <1>2, <2>2
        <3>2. i - Len(a) = j - Len(a)
            BY <1>6, <2>2, <3>1 DEF Once
        <3> QED
            BY <2>2, <3>2
    <2>3. CASE i \in DOMAIN a /\ j - Len(a) \in DOMAIN b /\ Len(a) + (j - Len(a)) = j
        <3>1. c[i] = a[i] /\ c[j] = b[j - Len(a)]
            BY <1>2, <2>3
        <3>2. c[i] \in ToSet(a) /\ c[i] \in ToSet(b)
            BY <2>3, <3>1 DEF ToSet
        <3> QED
            BY <1>6, <3>2
    <2>4. CASE j \in DOMAIN a /\ i - Len(a) \in DOMAIN b /\ Len(a) + (i - Len(a)) = i
        <3>1. c[j] = a[j] /\ c[i] = b[i - Len(a)]
            BY <1>2, <2>4
        <3>2. c[i] \in ToSet(a) /\ c[i] \in ToSet(b)
            BY <2>4, <3>1 DEF ToSet
        <3> QED
            BY <1>6, <3>2
    <2> QED
        BY <1>3, <2>1, <2>2, <2>3, <2>4
<1> QED
    BY <1>1, <1>4, <1>5, <1>6 DEF c

LEMMA Part ==
    ASSUME NEW T, NEW r \in Seq(T), NEW m \in Nat, NEW n \in Nat, 1 <= m, m - 1 <= n, n <= Len(r)
    PROVE  /\ SubSeq(r, m, n) \in Seq(T) /\ Len(SubSeq(r, m, n)) = n - m + 1
           /\ \A k \in 1 .. n - m + 1 : SubSeq(r, m, n)[k] = r[m + k - 1]
<1>1. Len(r) \in Nat
    BY LenProperties
<1>2. \A k \in m .. n : r[k] \in T
    BY <1>1, ElementOfSeq
<1>3. /\ SubSeq(r, m, n) \in Seq(T)
      /\ Len(SubSeq(r, m, n)) = IF m <= n THEN n - m + 1 ELSE 0
      /\ \A k \in 1 .. n - m + 1 : SubSeq(r, m, n)[k] = r[m + k - 1]
    BY <1>2, SubSeqProperties
<1>4. (IF m <= n THEN n - m + 1 ELSE 0) = n - m + 1
    OBVIOUS
<1> QED
    BY <1>3, <1>4

IsJoin(c, a, b) == c = a \o b

\* d is a, then b, then c.
AreJoined(d, a, b, c) == \E e : IsJoin(e, a, b) /\ IsJoin(d, e, c)

LEMMA JoinIs ==
    ASSUME NEW T, NEW a \in Seq(T), NEW b \in Seq(T), NEW m \in Nat, NEW n \in Nat,
           Len(a) = m, Len(b) = n, NEW c, IsJoin(c, a, b)
    PROVE  /\ c \in Seq(T) /\ Len(c) = m + n
           /\ \A k \in 1 .. m : c[k] = a[k]
           /\ \A k \in m + 1 .. m + n : c[k] = b[k - m]
<1>1. /\ a \o b \in Seq(T) /\ Len(a \o b) = Len(a) + Len(b)
      /\ \A k \in 1 .. Len(a) + Len(b) : (a \o b)[k] = IF k <= Len(a) THEN a[k] ELSE b[k - Len(a)]
    BY ConcatProperties
<1>3. /\ c \in Seq(T) /\ Len(c) = m + n
      /\ \A k \in 1 .. m + n : c[k] = IF k <= m THEN a[k] ELSE b[k - m]
    BY <1>1 DEF IsJoin
<1>4. \A k \in 1 .. m : c[k] = a[k]
    BY <1>3
<1>5. \A k \in m + 1 .. m + n : c[k] = b[k - m]
    BY <1>3
<1> QED
    BY <1>3, <1>4, <1>5

\* A sequence is its first stops, the ones in the middle and the last ones.
LEMMA Parted ==
    ASSUME NEW T, NEW r \in Seq(T), NEW i \in Nat, NEW j \in Nat, NEW N \in Nat,
           Len(r) = N, 1 <= i, i - 1 <= j, j <= N
    PROVE  /\ SubSeq(r, 1, i - 1) \in Seq(T) /\ SubSeq(r, i, j) \in Seq(T)
           /\ SubSeq(r, j + 1, N) \in Seq(T)
           /\ AreJoined(r, SubSeq(r, 1, i - 1), SubSeq(r, i, j), SubSeq(r, j + 1, N))
<1>1. PICK h \in Nat : h = i - 1
    OBVIOUS
<1>2. PICK a : a = SubSeq(r, 1, h)
    OBVIOUS
<1>3. PICK b : b = SubSeq(r, i, j)
    OBVIOUS
<1>4. PICK c : c = SubSeq(r, j + 1, N)
    OBVIOUS
<1>5. a \in Seq(T) /\ Len(a) = h /\ \A k \in 1 .. h : a[k] = r[k]
    <2>1. /\ SubSeq(r, 1, h) \in Seq(T) /\ Len(SubSeq(r, 1, h)) = h - 1 + 1
          /\ \A k \in 1 .. h - 1 + 1 : SubSeq(r, 1, h)[k] = r[1 + k - 1]
        BY <1>1, Part
    <2> QED
        BY <1>2, <2>1
<1>6. b \in Seq(T) /\ Len(b) = j - h /\ \A k \in 1 .. j - h : b[k] = r[h + k]
    <2>1. /\ SubSeq(r, i, j) \in Seq(T) /\ Len(SubSeq(r, i, j)) = j - i + 1
          /\ \A k \in 1 .. j - i + 1 : SubSeq(r, i, j)[k] = r[i + k - 1]
        BY Part
    <2>2. i = h + 1 /\ j - i + 1 = j - h /\ \A k \in Nat : i + k - 1 = h + k
        BY <1>1
    <2> QED
        BY <1>3, <2>1, <2>2
<1>7. c \in Seq(T) /\ Len(c) = N - j /\ \A k \in 1 .. N - j : c[k] = r[j + k]
    <2>1. /\ SubSeq(r, j + 1, N) \in Seq(T) /\ Len(SubSeq(r, j + 1, N)) = N - (j + 1) + 1
          /\ \A k \in 1 .. N - (j + 1) + 1 : SubSeq(r, j + 1, N)[k] = r[(j + 1) + k - 1]
        <3>1. j + 1 \in Nat /\ 1 <= j + 1 /\ (j + 1) - 1 <= N
            OBVIOUS
        <3> QED
            BY <3>1, Part
    <2>2. N - (j + 1) + 1 = N - j /\ \A k \in Nat : (j + 1) + k - 1 = j + k
        OBVIOUS
    <2> QED
        BY <1>4, <2>1, <2>2
<1>8. PICK d : d = a \o b
    OBVIOUS
<1>9. d \in Seq(T) /\ Len(d) = j /\ \A k \in 1 .. j : d[k] = r[k]
    <2>1. PICK n \in Nat : n = j - h
        BY <1>1
    <2>5. Len(a) = h /\ Len(b) = n /\ a \in Seq(T) /\ b \in Seq(T) /\ h \in Nat /\ n \in Nat
        BY <1>1, <1>5, <1>6, <2>1
    <2>6. IsJoin(d, a, b)
        BY <1>8 DEF IsJoin
    <2>2. /\ d \in Seq(T) /\ Len(d) = h + n
          /\ \A k \in 1 .. h : d[k] = a[k]
          /\ \A k \in h + 1 .. h + n : d[k] = b[k - h]
        BY <2>5, <2>6, JoinIs
    <2>3. h + n = j
        BY <2>1
    <2>4. ASSUME NEW k \in 1 .. j PROVE d[k] = r[k]
        <3>1. CASE k <= h
            BY <1>5, <1>8, <2>2, <3>1
        <3>2. CASE k > h
            <4>1. k \in h + 1 .. h + n /\ k - h \in 1 .. j - h /\ h + (k - h) = k
                BY <2>1, <2>3, <3>2
            <4>2. b[k - h] = r[h + (k - h)]
                BY <1>6, <4>1
            <4> QED
                BY <1>8, <2>2, <4>1, <4>2
        <3> QED
            BY <3>1, <3>2
    <2> QED
        BY <1>8, <2>2, <2>3, <2>4
<1>10. PICK e : e = d \o c
    OBVIOUS
<1>11. e \in Seq(T) /\ Len(e) = N /\ \A k \in 1 .. N : e[k] = r[k]
    <2>1. PICK n \in Nat : n = N - j
        OBVIOUS
    <2>5. Len(d) = j /\ Len(c) = n /\ d \in Seq(T) /\ c \in Seq(T)
        BY <1>7, <1>9, <2>1
    <2>6. IsJoin(e, d, c)
        BY <1>10 DEF IsJoin
    <2>2. /\ e \in Seq(T) /\ Len(e) = j + n
          /\ \A k \in 1 .. j : e[k] = d[k]
          /\ \A k \in j + 1 .. j + n : e[k] = c[k - j]
        BY <2>1, <2>5, <2>6, JoinIs
    <2>3. j + n = N
        BY <2>1
    <2>4. ASSUME NEW k \in 1 .. N PROVE e[k] = r[k]
        <3>1. CASE k <= j
            BY <1>9, <2>2, <3>1
        <3>2. CASE k > j
            <4>1. k \in j + 1 .. j + n /\ k - j \in 1 .. N - j /\ j + (k - j) = k
                BY <2>1, <2>3, <3>2
            <4>2. c[k - j] = r[j + (k - j)]
                BY <1>7, <4>1
            <4> QED
                BY <2>2, <4>1, <4>2
        <3> QED
            BY <3>1, <3>2
    <2> QED
        BY <2>2, <2>3, <2>4
<1>12. e = r
    BY <1>11, SeqEqual
<1>13. AreJoined(r, a, b, c)
    BY <1>8, <1>10, <1>12 DEF AreJoined, IsJoin
<1> QED
    BY <1>1, <1>2, <1>3, <1>4, <1>5, <1>6, <1>7, <1>13

LEMMA Pair ==
    ASSUME NEW T, NEW a \in Seq(T), NEW b \in Seq(T), NEW c, IsJoin(c, a, b)
    PROVE  /\ c \in Seq(T) /\ Len(c) = Len(a) + Len(b)
           /\ ToSet(c) = ToSet(a) \cup ToSet(b)
           /\ Once(c) <=> /\ Once(a) /\ Once(b)
                          /\ ToSet(a) \cap ToSet(b) = {}
    BY Joined DEF IsJoin

Separate(a, b, c) ==
    /\ Once(a) /\ Once(b) /\ Once(c)
    /\ ToSet(a) \cap ToSet(b) = {} /\ ToSet(a) \cap ToSet(c) = {} /\ ToSet(b) \cap ToSet(c) = {}

LEMMA Triple ==
    ASSUME NEW T, NEW a \in Seq(T), NEW b \in Seq(T), NEW c \in Seq(T), NEW d, AreJoined(d, a, b, c)
    PROVE  /\ d \in Seq(T) /\ ToSet(d) = ToSet(a) \cup ToSet(b) \cup ToSet(c)
           /\ Once(d) <=> Separate(a, b, c)
<1>1. PICK e : IsJoin(e, a, b) /\ IsJoin(d, e, c)
    BY DEF AreJoined
<1>2. /\ e \in Seq(T) /\ ToSet(e) = ToSet(a) \cup ToSet(b)
      /\ Once(e) <=> /\ Once(a) /\ Once(b)
                     /\ ToSet(a) \cap ToSet(b) = {}
    BY <1>1, Pair
<1>3. /\ d \in Seq(T) /\ ToSet(d) = ToSet(e) \cup ToSet(c)
      /\ Once(d) <=> /\ Once(e) /\ Once(c)
                     /\ ToSet(e) \cap ToSet(c) = {}
    BY <1>1, <1>2, Pair
<1>4. ToSet(e) \cap ToSet(c) = {} <=> /\ ToSet(a) \cap ToSet(c) = {}
                                      /\ ToSet(b) \cap ToSet(c) = {}
    BY <1>2
<1>5. Once(d) <=> Separate(a, b, c)
    BY <1>2, <1>3, <1>4 DEF Separate
<1> QED
    BY <1>2, <1>3, <1>5

LEMMA NothingIn ==
    ASSUME NEW T
    PROVE  <<>> \in Seq(T) /\ ToSet(<<>>) = {} /\ Once(<<>>) /\ Len(<<>>) = 0
    BY DEF ToSet, Once

LEMMA Single ==
    ASSUME NEW T, NEW s \in T, NEW b, b \in Seq(T), Len(b) = 1, b[1] = s
    PROVE  ToSet(b) = {s} /\ Once(b)
<1>1. DOMAIN b = {1}
    BY LenProperties
<1> QED
    BY <1>1 DEF ToSet, Once

\* Before position p and from there on.
LEMMA Split ==
    ASSUME NEW T, NEW r \in Seq(T), NEW p \in Nat, NEW N \in Nat, Len(r) = N, 1 <= p, p <= N + 1
    PROVE  /\ SubSeq(r, 1, p - 1) \in Seq(T) /\ SubSeq(r, p, N) \in Seq(T)
           /\ IsJoin(r, SubSeq(r, 1, p - 1), SubSeq(r, p, N))
<1>1. PICK j \in Nat : j = p - 1
    OBVIOUS
<1>2. /\ SubSeq(r, 1, p - 1) \in Seq(T) /\ SubSeq(r, p, j) \in Seq(T)
      /\ SubSeq(r, j + 1, N) \in Seq(T)
      /\ AreJoined(r, SubSeq(r, 1, p - 1), SubSeq(r, p, j), SubSeq(r, j + 1, N))
    <2>1. p - 1 <= j /\ j <= N
        BY <1>1
    <2> QED
        BY <2>1, Parted
<1>3. j + 1 = p
    BY <1>1
<1>4. SubSeq(r, p, j) = <<>>
    <2>1. j < p /\ p \in Int /\ j \in Int
        BY <1>1
    <2> QED
        BY <2>1, SubSeqEmpty
<1>5. PICK a \in Seq(T) : a = SubSeq(r, 1, p - 1)
    BY <1>2
<1>6. a \o <<>> = a
    BY ConcatEmptySeq
<1> QED
    BY <1>2, <1>3, <1>4, <1>5, <1>6 DEF IsJoin, AreJoined

LEMMA Inserted ==
    ASSUME NEW T, NEW r \in Seq(T), Once(r), NEW s \in T, s \notin ToSet(r),
           NEW p \in 1 .. Len(r) + 1
    PROVE  /\ InsertAt(r, p, s) \in Seq(T) /\ Once(InsertAt(r, p, s))
           /\ ToSet(InsertAt(r, p, s)) = ToSet(r) \cup {s}
<1>1. PICK N \in Nat : N = Len(r)
    BY LenProperties
<1>2. p \in Nat /\ 1 <= p /\ p <= N + 1
    BY <1>1
<1>3. PICK a : a = SubSeq(r, 1, p - 1)
    OBVIOUS
<1>4. PICK c : c = SubSeq(r, p, N)
    OBVIOUS
<1>5. PICK b : b = <<s>>
    OBVIOUS
<1>6. a \in Seq(T) /\ c \in Seq(T) /\ IsJoin(r, a, c)
    <2>1. /\ SubSeq(r, 1, p - 1) \in Seq(T) /\ SubSeq(r, p, N) \in Seq(T)
          /\ IsJoin(r, SubSeq(r, 1, p - 1), SubSeq(r, p, N))
        BY <1>1, <1>2, Split
    <2> QED
        BY <1>3, <1>4, <2>1
<1>7. b \in Seq(T) /\ ToSet(b) = {s} /\ Once(b)
    <2>1. b \in Seq(T) /\ Len(b) = 1 /\ b[1] = s
        BY <1>5
    <2> QED
        BY <2>1, Single
<1>8. PICK d : d = InsertAt(r, p, s)
    OBVIOUS
<1>9. AreJoined(d, a, b, c)
    <2>1. d = a \o b \o c
        BY <1>1, <1>3, <1>4, <1>5, <1>8 DEF InsertAt
    <2> QED
        BY <2>1 DEF AreJoined, IsJoin
<1>10. /\ ToSet(r) = ToSet(a) \cup ToSet(c) /\ Once(a) /\ Once(c)
       /\ ToSet(a) \cap ToSet(c) = {}
    BY <1>6, Pair
<1>11. Separate(a, b, c)
    <2>1. s \notin ToSet(a) /\ s \notin ToSet(c)
        BY <1>10
    <2> QED
        BY <1>7, <1>10, <2>1 DEF Separate
<1>12. /\ d \in Seq(T) /\ ToSet(d) = ToSet(a) \cup ToSet(b) \cup ToSet(c)
       /\ Once(d) <=> Separate(a, b, c)
    BY <1>6, <1>7, <1>9, Triple
<1>13. ToSet(d) = ToSet(r) \cup {s}
    BY <1>7, <1>10, <1>12
<1> QED
    BY <1>8, <1>11, <1>12, <1>13

LEMMA Removal ==
    ASSUME NEW T, NEW r \in Seq(T), Once(r), NEW i \in 1 .. Len(r)
    PROVE  /\ RemoveAt(r, i) \in Seq(T) /\ Once(RemoveAt(r, i))
           /\ ToSet(RemoveAt(r, i)) = ToSet(r) \ {r[i]} /\ r[i] \in ToSet(r) /\ r[i] \in T
<1>1. PICK N \in Nat : N = Len(r)
    BY LenProperties
<1>2. i \in Nat /\ 1 <= i /\ i <= N /\ i - 1 <= i /\ r[i] \in T
    BY <1>1, ElementOfSeq
<1>3. PICK a : a = SubSeq(r, 1, i - 1)
    OBVIOUS
<1>4. PICK b : b = SubSeq(r, i, i)
    OBVIOUS
<1>5. PICK c : c = SubSeq(r, i + 1, N)
    OBVIOUS
<1>6. a \in Seq(T) /\ b \in Seq(T) /\ c \in Seq(T) /\ AreJoined(r, a, b, c)
    <2>1. /\ SubSeq(r, 1, i - 1) \in Seq(T) /\ SubSeq(r, i, i) \in Seq(T)
          /\ SubSeq(r, i + 1, N) \in Seq(T)
          /\ AreJoined(r, SubSeq(r, 1, i - 1), SubSeq(r, i, i), SubSeq(r, i + 1, N))
        BY <1>1, <1>2, Parted
    <2> QED
        BY <1>3, <1>4, <1>5, <2>1
<1>7. ToSet(b) = {r[i]} /\ Once(b)
    <2>1. /\ Len(SubSeq(r, i, i)) = i - i + 1
          /\ \A k \in 1 .. i - i + 1 : SubSeq(r, i, i)[k] = r[i + k - 1]
        BY <1>1, <1>2, Part
    <2>2. i - i + 1 = 1 /\ i + 1 - 1 = i
        BY <1>2
    <2>3. Len(b) = 1 /\ b[1] = r[i]
        BY <1>4, <2>1, <2>2
    <2> QED
        BY <1>2, <1>6, <2>3, Single
<1>9. ToSet(r) = ToSet(a) \cup ToSet(b) \cup ToSet(c) /\ Separate(a, b, c)
    BY <1>6, Triple
<1>10. PICK d : d = RemoveAt(r, i)
    OBVIOUS
<1>11. IsJoin(d, a, c)
    BY <1>1, <1>3, <1>5, <1>10 DEF IsJoin, RemoveAt
<1>12. /\ d \in Seq(T) /\ ToSet(d) = ToSet(a) \cup ToSet(c)
       /\ Once(d) <=> /\ Once(a) /\ Once(c)
                      /\ ToSet(a) \cap ToSet(c) = {}
    BY <1>6, <1>11, Pair
<1>13. ToSet(d) = ToSet(r) \ {r[i]}
    BY <1>7, <1>9, <1>12 DEF Separate
<1> QED
    BY <1>2, <1>7, <1>9, <1>10, <1>12, <1>13 DEF Separate

LEMMA Backwards ==
    ASSUME NEW T, NEW b \in Seq(T)
    PROVE  Reverse(b) \in Seq(T) /\ ToSet(Reverse(b)) = ToSet(b) /\ (Once(b) => Once(Reverse(b)))
<1>1. PICK n \in Nat : n = Len(b)
    BY LenProperties
<1>2. DOMAIN b = 1 .. n /\ \A k \in 1 .. n : b[k] \in T
    BY <1>1, LenProperties, ElementOfSeq
<1>3. PICK q : q = Reverse(b)
    OBVIOUS
<1>4. q = [k \in 1 .. n |-> b[(n - k) + 1]]
    BY <1>1, <1>3 DEF Reverse
<1>5. \A k \in 1 .. n : (n - k) + 1 \in 1 .. n /\ (n - ((n - k) + 1)) + 1 = k
    OBVIOUS
<1>6. /\ DOMAIN q = 1 .. n /\ q \in Seq(T)
      /\ \A k \in 1 .. n : q[k] = b[(n - k) + 1]
    BY <1>2, <1>4, <1>5
<1>7. ASSUME NEW k \in 1 .. n PROVE b[k] = q[(n - k) + 1]
    BY <1>5, <1>6
<1>8. ToSet(q) = ToSet(b)
    <2>1. ASSUME NEW x \in ToSet(q) PROVE x \in ToSet(b)
        BY <1>2, <1>5, <1>6, <2>1 DEF ToSet
    <2>2. ASSUME NEW x \in ToSet(b) PROVE x \in ToSet(q)
        BY <1>2, <1>5, <1>6, <1>7, <2>2 DEF ToSet
    <2> QED
        BY <2>1, <2>2
<1>9. ASSUME Once(b) PROVE Once(q)
    <2> SUFFICES ASSUME NEW i \in 1 .. n, NEW j \in 1 .. n, q[i] = q[j] PROVE i = j
        BY <1>6 DEF Once
    <2>1. (n - i) + 1 = (n - j) + 1
        BY <1>2, <1>5, <1>6, <1>9 DEF Once
    <2> QED
        BY <2>1
<1> QED
    BY <1>3, <1>6, <1>8, <1>9

\* 2-opt turns a part of the route around.
LEMMA Turned ==
    ASSUME NEW T, NEW r \in Seq(T), Once(r), NEW i \in 1 .. Len(r), NEW j \in 1 .. Len(r), i <= j
    PROVE  Reversed(r, i, j) \in Seq(T) /\ Once(Reversed(r, i, j)) /\ ToSet(Reversed(r, i, j)) = ToSet(r)
<1>1. PICK N \in Nat : N = Len(r)
    BY LenProperties
<1>2. i \in Nat /\ j \in Nat /\ 1 <= i /\ i - 1 <= j /\ j <= N
    BY <1>1
<1>3. PICK a : a = SubSeq(r, 1, i - 1)
    OBVIOUS
<1>4. PICK b : b = SubSeq(r, i, j)
    OBVIOUS
<1>5. PICK c : c = SubSeq(r, j + 1, N)
    OBVIOUS
<1>6. a \in Seq(T) /\ b \in Seq(T) /\ c \in Seq(T) /\ AreJoined(r, a, b, c)
    <2>1. /\ SubSeq(r, 1, i - 1) \in Seq(T) /\ SubSeq(r, i, j) \in Seq(T)
          /\ SubSeq(r, j + 1, N) \in Seq(T)
          /\ AreJoined(r, SubSeq(r, 1, i - 1), SubSeq(r, i, j), SubSeq(r, j + 1, N))
        BY <1>1, <1>2, Parted
    <2> QED
        BY <1>3, <1>4, <1>5, <2>1
<1>8. ToSet(r) = ToSet(a) \cup ToSet(b) \cup ToSet(c) /\ Separate(a, b, c)
    BY <1>6, Triple
<1>9. PICK q : q = Reverse(b)
    OBVIOUS
<1>10. q \in Seq(T) /\ ToSet(q) = ToSet(b) /\ Once(q)
    BY <1>6, <1>8, <1>9, Backwards DEF Separate
<1>11. PICK d : d = Reversed(r, i, j)
    OBVIOUS
<1>12. AreJoined(d, a, q, c)
    <2>1. d = a \o q \o c
        BY <1>1, <1>3, <1>4, <1>5, <1>9, <1>11 DEF Reversed
    <2> QED
        BY <2>1 DEF AreJoined, IsJoin
<1>13. Separate(a, q, c)
    BY <1>8, <1>10 DEF Separate
<1>14. /\ d \in Seq(T) /\ ToSet(d) = ToSet(a) \cup ToSet(q) \cup ToSet(c)
       /\ Once(d) <=> Separate(a, q, c)
    BY <1>6, <1>10, <1>12, Triple
<1> QED
    BY <1>8, <1>10, <1>11, <1>13, <1>14

\* or-opt carries a segment to another position.
LEMMA Carried ==
    ASSUME NEW T, NEW r \in Seq(T), Once(r), NEW n \in Nat, 1 <= n, n < Len(r),
           NEW i \in 1 .. Len(r) - n + 1, NEW p \in 1 .. Len(r) - n + 1
    PROVE  Moved(r, i, n, p) \in Seq(T) /\ Once(Moved(r, i, n, p)) /\ ToSet(Moved(r, i, n, p)) = ToSet(r)
<1>1. PICK N \in Nat : N = Len(r)
    BY LenProperties
<1>2. PICK j \in Nat : j = i + n - 1
    BY <1>1
<1>3. n < N
    BY <1>1
<1>4. PICK m \in Nat : m = N - n
    BY <1>3
<1>5. /\ i \in Nat /\ p \in Nat /\ 1 <= i /\ i - 1 <= j /\ j <= N /\ 1 <= p /\ p <= m + 1
      /\ i + n = j + 1
    BY <1>1, <1>2, <1>4
<1>6. PICK a : a = SubSeq(r, 1, i - 1)
    OBVIOUS
<1>7. PICK b : b = SubSeq(r, i, j)
    OBVIOUS
<1>8. PICK c : c = SubSeq(r, j + 1, N)
    OBVIOUS
<1>9. a \in Seq(T) /\ b \in Seq(T) /\ c \in Seq(T) /\ AreJoined(r, a, b, c)
    <2>1. /\ SubSeq(r, 1, i - 1) \in Seq(T) /\ SubSeq(r, i, j) \in Seq(T)
          /\ SubSeq(r, j + 1, N) \in Seq(T)
          /\ AreJoined(r, SubSeq(r, 1, i - 1), SubSeq(r, i, j), SubSeq(r, j + 1, N))
        BY <1>1, <1>5, Parted
    <2> QED
        BY <1>6, <1>7, <1>8, <2>1
<1>11. ToSet(r) = ToSet(a) \cup ToSet(b) \cup ToSet(c) /\ Separate(a, b, c)
    BY <1>9, Triple
<1>12. PICK w : w = Cut(r, i, n)
    OBVIOUS
<1>13. IsJoin(w, a, c)
    BY <1>1, <1>5, <1>6, <1>8, <1>12 DEF IsJoin, Cut
<1>14. /\ w \in Seq(T) /\ Len(w) = Len(a) + Len(c) /\ ToSet(w) = ToSet(a) \cup ToSet(c)
       /\ Once(w) <=> /\ Once(a) /\ Once(c)
                      /\ ToSet(a) \cap ToSet(c) = {}
    BY <1>9, <1>13, Pair
<1>15. Len(w) = m
    <2>1. Len(a) = (i - 1) - 1 + 1
        <3>1. PICK h \in Nat : h = i - 1
            BY <1>5
        <3>2. h - 1 + 1 = h /\ 1 - 1 <= h /\ h <= N
            BY <1>5, <3>1
        <3>3. Len(SubSeq(r, 1, h)) = h - 1 + 1
            BY <1>1, <3>2, Part
        <3> QED
            BY <1>6, <3>1, <3>3
    <2>2. Len(c) = N - (j + 1) + 1
        <3>1. j + 1 \in Nat /\ 1 <= j + 1 /\ (j + 1) - 1 <= N
            BY <1>5
        <3>2. Len(SubSeq(r, j + 1, N)) = N - (j + 1) + 1
            BY <1>1, <3>1, Part
        <3> QED
            BY <1>8, <3>2
    <2>3. ((i - 1) - 1 + 1) + (N - (j + 1) + 1) = m
        BY <1>2, <1>4, <1>5
    <2> QED
        BY <1>14, <2>1, <2>2, <2>3
<1>16. PICK d : d = SubSeq(w, 1, p - 1)
    OBVIOUS
<1>17. PICK e : e = SubSeq(w, p, m)
    OBVIOUS
<1>18. d \in Seq(T) /\ e \in Seq(T) /\ IsJoin(w, d, e)
    <2>1. /\ SubSeq(w, 1, p - 1) \in Seq(T) /\ SubSeq(w, p, m) \in Seq(T)
          /\ IsJoin(w, SubSeq(w, 1, p - 1), SubSeq(w, p, m))
        BY <1>5, <1>14, <1>15, Split
    <2> QED
        BY <1>16, <1>17, <2>1
<1>19. /\ ToSet(w) = ToSet(d) \cup ToSet(e)
       /\ Once(w) <=> /\ Once(d) /\ Once(e)
                      /\ ToSet(d) \cap ToSet(e) = {}
    BY <1>18, Pair
<1>20. PICK q : q = Moved(r, i, n, p)
    OBVIOUS
<1>21. AreJoined(q, d, b, e)
    <2>1. q = d \o b \o e
        BY <1>2, <1>7, <1>12, <1>15, <1>16, <1>17, <1>20 DEF Moved
    <2> QED
        BY <2>1 DEF AreJoined, IsJoin
<1>22. Separate(d, b, e)
    BY <1>11, <1>14, <1>19 DEF Separate
<1>23. /\ q \in Seq(T) /\ ToSet(q) = ToSet(d) \cup ToSet(b) \cup ToSet(e)
       /\ Once(q) <=> Separate(d, b, e)
    BY <1>9, <1>18, <1>21, Triple
<1>24. ToSet(q) = ToSet(r)
    BY <1>11, <1>14, <1>19, <1>23
<1> QED
    BY <1>20, <1>22, <1>23, <1>24

IsGrown(c, q, s) == c = Append(q, s)

LEMMA Appended ==
    ASSUME NEW T, NEW q \in Seq(T), NEW s \in T, NEW c, IsGrown(c, q, s)
    PROVE  /\ c \in Seq(T) /\ ToSet(c) = ToSet(q) \cup {s}
           /\ Once(q) /\ s \notin ToSet(q) => Once(c)
<1>1. PICK b : b = <<s>>
    OBVIOUS
<1>2. b \in Seq(T) /\ ToSet(b) = {s} /\ Once(b)
    <2>1. b \in Seq(T) /\ Len(b) = 1 /\ b[1] = s
        BY <1>1
    <2> QED
        BY <2>1, Single
<1>3. IsJoin(c, q, b)
    BY <1>1, AppendIsConcat DEF IsJoin, IsGrown
<1>4. /\ c \in Seq(T) /\ ToSet(c) = ToSet(q) \cup ToSet(b)
      /\ Once(c) <=> /\ Once(q) /\ Once(b)
                     /\ ToSet(q) \cap ToSet(b) = {}
    BY <1>2, <1>3, Pair
<1> QED
    BY <1>2, <1>4

\* Without's recursion.
Leaves(r, S, N, f) ==
    f = [n \in 0 .. N |-> IF n = 0 THEN <<>> ELSE IF r[n] \in S THEN f[n - 1] ELSE Append(f[n - 1], r[n])]

LEMMA LeavesExist ==
    ASSUME NEW N \in Nat, NEW r, NEW S
    PROVE  \E f : Leaves(r, S, N, f)
<1> DEFINE Bad == {n \in 1 .. N : ~ \E f : Leaves(r, S, n, f)}
<1>0. Leaves(r, S, 0, [n \in 0 .. 0 |-> <<>>])
    BY DEF Leaves
<1> SUFFICES ASSUME N \in Bad PROVE FALSE
    BY <1>0
<1>1. PICK n \in Bad : \A m \in Bad : n <= m
    BY LeastMember
<1>2. n \in 1 .. N /\ n - 1 \in Nat /\ n - 1 \notin Bad
    BY <1>1
<1>3. \E f : Leaves(r, S, n - 1, f)
    BY <1>0, <1>2
<1>4. PICK f : Leaves(r, S, n - 1, f)
    BY <1>3
<1> DEFINE Next1(g, m) == IF r[m] \in S THEN g[m - 1] ELSE Append(g[m - 1], r[m])
           h == [m \in 0 .. n |-> IF m = n THEN Next1(f, n) ELSE f[m]]
<1>5. f = [m \in 0 .. n - 1 |-> IF m = 0 THEN <<>> ELSE Next1(f, m)]
    BY <1>4 DEF Leaves
<1>6. ASSUME NEW m \in 0 .. n PROVE h[m] = IF m = 0 THEN <<>> ELSE Next1(h, m)
    <2>1. CASE m = n
        <3>1. h[n] = Next1(f, n) /\ h[n - 1] = f[n - 1]
            BY <1>2
        <3> QED
            BY <1>2, <2>1, <3>1
    <2>2. CASE m # n
        <3>1. m \in 0 .. n - 1 /\ h[m] = f[m]
            BY <1>2, <2>2
        <3>2. m # 0 => m - 1 \in 0 .. n /\ h[m - 1] = f[m - 1]
            BY <1>2, <2>2
        <3>3. f[m] = IF m = 0 THEN <<>> ELSE Next1(f, m)
            BY <1>5, <3>1
        <3> QED
            BY <3>1, <3>2, <3>3
    <2> QED
        BY <2>1, <2>2
<1>7. Leaves(r, S, n, h)
    BY <1>6 DEF Leaves
<1> QED
    BY <1>2, <1>7

LEMMA WithoutIsLast ==
    ASSUME NEW r, Len(r) \in Nat, NEW S
    PROVE  \E f : /\ Without(r, S) = f[Len(r)] /\ f[0] = <<>>
                  /\ \A n \in 1 .. Len(r) : f[n] = IF r[n] \in S THEN f[n - 1] ELSE Append(f[n - 1], r[n])
<1> DEFINE Is(f) == f = [n \in 0 .. Len(r) |-> IF n = 0 THEN <<>>
                            ELSE IF r[n] \in S THEN f[n - 1] ELSE Append(f[n - 1], r[n])]
           rest == CHOOSE f : Is(f)
<1>1. PICK g : Leaves(r, S, Len(r), g)
    BY LeavesExist
<1>2. Is(g)
    BY <1>1 DEF Leaves
<1>3. Is(rest)
    <2> HIDE DEF Is
    <2> QED
        BY <1>2, Zenon
<1>4. Without(r, S) = rest[Len(r)]
    BY DEF Without
<1> HIDE DEF rest
<1>5. \A n \in 0 .. Len(r) : rest[n] = IF n = 0 THEN <<>>
                            ELSE IF r[n] \in S THEN rest[n - 1] ELSE Append(rest[n - 1], r[n])
    BY <1>3, Zenon
<1> HIDE DEF Is
<1>6. rest[0] = <<>>
    BY <1>5
<1>7. \A n \in 1 .. Len(r) : rest[n] = IF r[n] \in S THEN rest[n - 1] ELSE Append(rest[n - 1], r[n])
    BY <1>5
<1> QED
    BY <1>4, <1>6, <1>7

\* The stops of S leave the route, the others keep their order and stay once.
LEMMA Remaining ==
    ASSUME NEW T, NEW r \in Seq(T), Once(r), NEW S
    PROVE  Without(r, S) \in Seq(T) /\ Once(Without(r, S)) /\ ToSet(Without(r, S)) = ToSet(r) \ S
<1>1. PICK N \in Nat : N = Len(r) /\ DOMAIN r = 1 .. N
    BY LenProperties
<1>2. PICK f : /\ Without(r, S) = f[N] /\ f[0] = <<>>
               /\ \A n \in 1 .. N : f[n] = IF r[n] \in S THEN f[n - 1] ELSE Append(f[n - 1], r[n])
    BY <1>1, WithoutIsLast
<1> DEFINE Until(n) == {r[i] : i \in 1 .. n} \ S
           Good(n) == f[n] \in Seq(T) /\ Once(f[n]) /\ ToSet(f[n]) = Until(n)
           Bad == {n \in 1 .. N : ~ Good(n)}
<1>3. Good(0)
    <2>1. Until(0) = {}
        OBVIOUS
    <2> QED
        BY <1>2, <2>1, NothingIn
<1>4. ASSUME NEW n \in 1 .. N, Good(n - 1) PROVE Good(n)
    <2>1. r[n] \in T
        BY <1>1, ElementOfSeq
    <2>2. \A i \in 1 .. n : i = n \/ i \in 1 .. n - 1
        OBVIOUS
    <2>3. CASE r[n] \in S
        <3>1. Until(n) = Until(n - 1)
            BY <2>2, <2>3
        <3> QED
            BY <1>2, <1>4, <2>3, <3>1
    <2>4. CASE r[n] \notin S
        <3>1. Until(n) = Until(n - 1) \cup {r[n]}
            BY <2>2, <2>4
        <3>2. r[n] \notin Until(n - 1)
            <4>1. \A i \in 1 .. n - 1 : i \in DOMAIN r /\ n \in DOMAIN r /\ i # n
                BY <1>1
            <4> QED
                BY <4>1 DEF Once
        <3>3. PICK q \in Seq(T) : q = f[n - 1] /\ Once(q) /\ ToSet(q) = Until(n - 1)
            BY <1>4
        <3>4. PICK c : c = f[n] /\ c = Append(q, r[n])
            BY <1>2, <2>4, <3>3
        <3> HIDE DEF Until
        <3>5. c \in Seq(T) /\ ToSet(c) = ToSet(q) \cup {r[n]} /\ Once(c)
            <4>1. PICK x \in T : x = r[n]
                BY <2>1
            <4>2. x \notin ToSet(q) /\ IsGrown(c, q, x)
                BY <3>2, <3>3, <3>4, <4>1 DEF IsGrown
            <4>3. c \in Seq(T) /\ ToSet(c) = ToSet(q) \cup {x} /\ Once(c)
                BY <3>3, <4>1, <4>2, Appended
            <4> QED
                BY <4>1, <4>3
        <3> QED
            BY <3>1, <3>3, <3>4, <3>5
    <2> QED
        BY <2>3, <2>4
<1>5. ASSUME Bad # {} PROVE FALSE
    <2>1. PICK n \in Bad : \A m \in Bad : n <= m
        <3>1. N \in Nat /\ Bad \subseteq 1 .. N
            BY <1>1
        <3> HIDE DEF Bad
        <3> QED
            BY <1>5, <3>1, LeastMember
    <2> HIDE DEF Good
    <2>2. n \in 1 .. N /\ n - 1 \in 0 .. N /\ n - 1 \notin Bad
        BY <1>1, <2>1
    <2>3. Good(n - 1)
        <3>1. CASE n = 1
            BY <1>3, <3>1
        <3>2. CASE n # 1
            <4>1. n - 1 \in 1 .. N
                BY <2>2, <3>2
            <4> QED
                BY <2>2, <4>1
        <3> QED
            BY <3>1, <3>2
    <2> QED
        BY <1>4, <2>1, <2>2, <2>3
<1>6. Good(N)
    <2>1. CASE N = 0
        BY <1>3, <2>1
    <2>2. CASE N # 0
        <3> HIDE DEF Good
        <3>1. N \in 1 .. N /\ N \notin Bad
            BY <1>1, <1>5, <2>2
        <3> QED
            BY <3>1
    <2> QED
        BY <2>1, <2>2
<1>7. Until(N) = ToSet(r) \ S
    BY <1>1 DEF ToSet
<1> QED
    BY <1>2, <1>6, <1>7

LEMMA SumGrows ==
    ASSUME NEW W \in Seq(Nat), NEW S, NEW s \in 1 .. Len(W), s \notin S
    PROVE  SumOf(W, S \cup {s}) = SumOf(W, S) + W[s] /\ SumOf(W, S) \in Nat /\ W[s] \in Nat
<1>1. S \cap {s} = {}
    OBVIOUS
<1>2. SumOf(W, S \cup {s}) = SumOf(W, S) + SumOf(W, {s}) /\ SumOf(W, S) \in Nat
    BY <1>1, SumAdds
<1>3. SumOf(W, {s}) = W[s] /\ W[s] \in Nat
    BY SumOfOne
<1> QED
    BY <1>2, <1>3

LEMMA SumShrinks ==
    ASSUME NEW W \in Seq(Nat), NEW S, NEW R
    PROVE  /\ SumOf(W, S \ R) = SumOf(W, S) - SumOf(W, R \cap S)
           /\ SumOf(W, S \ R) \in Nat /\ SumOf(W, S) \in Nat /\ SumOf(W, R \cap S) \in Nat
           /\ SumOf(W, S \ R) <= SumOf(W, S)
<1>1. PICK A, B : A = S \ R /\ B = R \cap S
    OBVIOUS
<1>2. A \cap B = {} /\ A \cup B = S
    BY <1>1
<1>3. SumOf(W, A \cup B) = SumOf(W, A) + SumOf(W, B) /\ SumOf(W, A) \in Nat /\ SumOf(W, B) \in Nat
    BY <1>2, SumAdds
<1>4. SumOf(W, S) = SumOf(W, A) + SumOf(W, B)
    BY <1>2, <1>3
<1>5. /\ SumOf(W, A) = SumOf(W, S) - SumOf(W, B)
      /\ SumOf(W, S) \in Nat /\ SumOf(W, A) <= SumOf(W, S)
    BY <1>3, <1>4
<1> QED
    BY <1>1, <1>3, <1>5

LEMMA SumLoses ==
    ASSUME NEW W \in Seq(Nat), NEW S, NEW s \in 1 .. Len(W), s \in S
    PROVE  /\ SumOf(W, S \ {s}) = SumOf(W, S) - W[s] /\ SumOf(W, S) \in Nat /\ W[s] \in Nat
           /\ SumOf(W, S \ {s}) \in Nat
<1>1. {s} \cap S = {s}
    OBVIOUS
<1>2. /\ SumOf(W, S \ {s}) = SumOf(W, S) - SumOf(W, {s} \cap S)
      /\ SumOf(W, S \ {s}) \in Nat /\ SumOf(W, S) \in Nat
    BY SumShrinks
<1>3. SumOf(W, {s}) = W[s] /\ W[s] \in Nat
    BY SumOfOne
<1> QED
    BY <1>1, <1>2, <1>3

-----------------------------------------------------------------------------
(* Solutions.                                                              *)

LEMMA DayFacts ==
    ASSUME day \in DOMAIN Days
    PROVE  /\ Weight \in Seq(Nat) /\ Volume \in Seq(Nat) /\ Stops = 1 .. Len(Weight)
           /\ Len(Volume) = Len(Weight) /\ Len(Weight) \in Nat
           /\ \A v \in Vehicles : MaxWeight[v] \in Nat
           /\ \A s \in Stops : Weight[s] \in Nat /\ Volume[s] \in Nat
<1>1. PICK d : d = Days[day]
    OBVIOUS
<1>2. /\ d.weight \in Seq(Nat) /\ d.volume \in Seq(Nat)
      /\ Len(d.volume) = Len(d.weight) /\ d.maxWeight \in [Vehicles -> Nat]
    BY <1>1, DaysAssumption
<1>3. /\ Weight = d.weight /\ Volume = d.volume /\ MaxWeight = d.maxWeight
      /\ Stops = DOMAIN d.weight
    BY <1>1 DEF Weight, Volume, MaxWeight, Stops
<1>4. /\ Len(d.weight) \in Nat /\ DOMAIN d.weight = 1 .. Len(d.weight)
      /\ \A s \in 1 .. Len(d.weight) : d.weight[s] \in Nat
      /\ \A s \in 1 .. Len(d.weight) : d.volume[s] \in Nat
    BY <1>2, LenProperties, ElementOfSeq
<1> QED
    BY <1>2, <1>3, <1>4

\* One route loses the stops of D and gains those of A.
LEMMA Rerouted ==
    ASSUME NEW x, NEW P, Carries(x, P), NEW v \in Vehicles, NEW r \in Seq(Stops), Once(r),
           NEW A, NEW D, A \cap P = {}, D \subseteq ToSet(x[v]), A \subseteq Stops,
           ToSet(r) = (ToSet(x[v]) \ D) \cup A, NEW y, y = [x EXCEPT ![v] = r]
    PROVE  Carries(y, (P \ D) \cup A)
<1>1. /\ y \in [Vehicles -> Seq(Stops)] /\ y[v] = r
      /\ \A u \in Vehicles \ {v} : y[u] = x[u]
    BY DEF Carries
<1>2. \A u \in Vehicles : Once(x[u]) /\ ToSet(x[u]) \subseteq P
    BY DEF Carries
<1>3. \A u, w \in Vehicles : u # w => ToSet(x[u]) \cap ToSet(x[w]) = {}
    BY DEF Carries
<1>4. \A s \in P : \E u \in Vehicles : s \in ToSet(x[u])
    BY DEF Carries
<1>5. ASSUME NEW u \in Vehicles PROVE Once(y[u]) /\ ToSet(y[u]) \subseteq (P \ D) \cup A
    <2>1. CASE u = v
        BY <1>1, <1>2, <2>1
    <2>2. CASE u # v
        BY <1>1, <1>2, <1>3, <2>2
    <2> QED
        BY <2>1, <2>2
<1>6. ASSUME NEW u \in Vehicles, NEW w \in Vehicles, u # w PROVE ToSet(y[u]) \cap ToSet(y[w]) = {}
    <2>1. CASE u = v
        BY <1>1, <1>2, <1>3, <1>6, <2>1
    <2>2. CASE w = v
        BY <1>1, <1>2, <1>3, <1>6, <2>2
    <2>3. CASE u # v /\ w # v
        BY <1>1, <1>3, <1>6, <2>3
    <2> QED
        BY <2>1, <2>2, <2>3
<1>7. ASSUME NEW s \in (P \ D) \cup A PROVE \E u \in Vehicles : s \in ToSet(y[u])
    <2>1. CASE s \in A
        BY <1>1, <2>1
    <2>2. CASE s \notin A
        <3>1. PICK u \in Vehicles : s \in ToSet(x[u])
            BY <1>4, <2>2
        <3>2. CASE u = v
            BY <1>1, <2>2, <3>1, <3>2
        <3>3. CASE u # v
            BY <1>1, <3>1, <3>3
        <3> QED
            BY <3>2, <3>3
    <2> QED
        BY <2>1, <2>2
<1> QED
    BY <1>1, <1>5, <1>6, <1>7 DEF Carries

LEMMA RouteOf ==
    ASSUME NEW x, NEW P, Carries(x, P), NEW v \in Vehicles
    PROVE  x[v] \in Seq(Stops) /\ Once(x[v]) /\ ToSet(x[v]) \subseteq P
    BY DEF Carries

PutsIn(y, x, v, p, s) == y = [x EXCEPT ![v] = InsertAt(x[v], p, s)]

\* A stop of no route is put before position p of one.
LEMMA PutInCarries ==
    ASSUME NEW x, NEW P, Carries(x, P), NEW v \in Vehicles, NEW s \in Stops, s \notin P,
           NEW p \in 1 .. Len(x[v]) + 1, NEW y, PutsIn(y, x, v, p, s)
    PROVE  Carries(y, P \cup {s})
<1>1. PICK r : r = x[v] /\ r \in Seq(Stops) /\ Once(r) /\ ToSet(r) \subseteq P
    BY RouteOf
<1>2. PICK q : q = InsertAt(r, p, s)
    OBVIOUS
<1>3. q \in Seq(Stops) /\ Once(q) /\ ToSet(q) = ToSet(r) \cup {s}
    <2>1. s \notin ToSet(r) /\ p \in 1 .. Len(r) + 1
        BY <1>1
    <2>2. PICK T : T = Stops
        OBVIOUS
    <2> QED
        BY <1>1, <1>2, <2>1, <2>2, Inserted
<1>4. ToSet(q) = (ToSet(x[v]) \ {}) \cup {s} /\ {s} \cap P = {} /\ y = [x EXCEPT ![v] = q]
    BY <1>1, <1>2, <1>3 DEF PutsIn
<1>5. Carries(y, (P \ {}) \cup {s})
    BY <1>3, <1>4, Rerouted
<1>6. (P \ {}) \cup {s} = P \cup {s}
    OBVIOUS
<1> QED
    BY <1>5, <1>6

LEMMA SolutionFacts ==
    ASSUME NEW x, NEW P, IsSolution(x, P), NEW v \in Vehicles
    PROVE  /\ x.routes[v] \in Seq(Stops) /\ Once(x.routes[v]) /\ ToSet(x.routes[v]) \subseteq P
           /\ x.load[v].weight = SumOf(Weight, ToSet(x.routes[v]))
           /\ x.load[v].volume = SumOf(Volume, ToSet(x.routes[v]))
    BY RouteOf DEF IsSolution, Weighed

Inserts(y, x, v, p, s) == y = Insert(x, v, p, s)
Removes(y, x, v, s) == y = Remove1(x, v, s)
Alone(y, x, V) == \A u \in Vehicles \ V : y.routes[u] = x.routes[u] /\ y.load[u] = x.load[u]
Gains(y, x, v, p, s) ==
    /\ ToSet(y.routes[v]) = ToSet(x.routes[v]) \cup {s}
    /\ y.load[v].weight = x.load[v].weight + Weight[s]
    /\ y.routes[v] = InsertAt(x.routes[v], p, s)
    /\ Alone(y, x, {v})
Loses(y, x, v, s) ==
    /\ ToSet(y.routes[v]) = ToSet(x.routes[v]) \ {s}
    /\ y.load[v].weight \in Nat /\ x.load[v].weight \in Nat
    /\ y.load[v].weight <= x.load[v].weight
    /\ Alone(y, x, {v})

\* An insertion.
LEMMA InsertSolves ==
    ASSUME day \in DOMAIN Days, NEW x, NEW P, IsSolution(x, P), NEW v \in Vehicles, NEW s \in Stops,
           s \notin P, NEW p \in 1 .. Len(x.routes[v]) + 1, NEW y, Inserts(y, x, v, p, s)
    PROVE  IsSolution(y, P \cup {s}) /\ Gains(y, x, v, p, s)
<1>1. PICK f, l : f = x.routes /\ l = x.load
    OBVIOUS
<1>2. Carries(f, P) /\ DOMAIN l = Vehicles /\ P \subseteq Stops /\ DOMAIN f = Vehicles
    BY <1>1 DEF IsSolution, Carries
<1>3. PICK g : g = [f EXCEPT ![v] = InsertAt(f[v], p, s)]
    OBVIOUS
<1>4. PICK m : m = [l EXCEPT ![v] = Loaded(l[v], s, 1)]
    OBVIOUS
<1>5. y = [routes |-> g, load |-> m]
    BY <1>1, <1>3, <1>4 DEF Inserts, Insert
<1>6. Carries(g, P \cup {s}) /\ ToSet(g[v]) = ToSet(f[v]) \cup {s}
    <2>1. p \in 1 .. Len(f[v]) + 1
        BY <1>1
    <2>2. PutsIn(g, f, v, p, s)
        BY <1>3 DEF PutsIn
    <2>3. v \in Vehicles /\ s \in Stops /\ s \notin P
        OBVIOUS
    <2>4. Carries(g, P \cup {s})
        BY <1>2, <2>1, <2>2, <2>3, PutInCarries
    <2>5. ToSet(g[v]) = ToSet(f[v]) \cup {s}
        <3>1. PICK r : r = f[v] /\ r \in Seq(Stops) /\ Once(r) /\ ToSet(r) \subseteq P
            BY <1>2, RouteOf
        <3>2. PICK q : q = InsertAt(r, p, s)
            OBVIOUS
        <3>3. ToSet(q) = ToSet(r) \cup {s}
            <4>1. s \notin ToSet(r) /\ p \in 1 .. Len(r) + 1
                BY <2>1, <3>1
            <4>2. PICK T : T = Stops
                OBVIOUS
            <4> QED
                BY <3>1, <3>2, <4>1, <4>2, Inserted
        <3>4. g[v] = q
            BY <1>2, <1>3, <3>1, <3>2
        <3> QED
            BY <3>1, <3>3, <3>4
    <2> QED
        BY <2>4, <2>5
<1>7. /\ g[v] = InsertAt(f[v], p, s) /\ m[v] = Loaded(l[v], s, 1) /\ DOMAIN m = Vehicles
      /\ \A u \in Vehicles \ {v} : g[u] = f[u] /\ m[u] = l[u]
    BY <1>2, <1>3, <1>4
<1>8. \A u \in Vehicles : /\ l[u].weight = SumOf(Weight, ToSet(f[u]))
                          /\ l[u].volume = SumOf(Volume, ToSet(f[u]))
    BY <1>1 DEF IsSolution, Weighed
<1>9. PICK R : R = ToSet(f[v]) /\ s \notin R
    BY <1>2 DEF Carries
<1>10. /\ m[v].weight = l[v].weight + Weight[s] /\ m[v].weight = SumOf(Weight, R \cup {s})
       /\ m[v].volume = SumOf(Volume, R \cup {s})
    <2>1. PICK W, V : W = Weight /\ V = Volume
        OBVIOUS
    <2>2. W \in Seq(Nat) /\ V \in Seq(Nat) /\ s \in 1 .. Len(W) /\ s \in 1 .. Len(V)
        BY <2>1, DayFacts
    <2>3. /\ SumOf(W, R \cup {s}) = SumOf(W, R) + W[s] /\ SumOf(W, R) \in Nat /\ W[s] \in Nat
          /\ SumOf(V, R \cup {s}) = SumOf(V, R) + V[s] /\ SumOf(V, R) \in Nat /\ V[s] \in Nat
        BY <1>9, <2>2, SumGrows
    <2>4. m[v].weight = l[v].weight + 1 * W[s] /\ m[v].volume = l[v].volume + 1 * V[s]
        BY <1>7, <2>1 DEF Loaded
    <2>5. l[v].weight = SumOf(W, R) /\ l[v].volume = SumOf(V, R)
        BY <1>8, <1>9, <2>1
    <2> QED
        BY <2>1, <2>3, <2>4, <2>5
<1>11. ASSUME NEW u \in Vehicles
       PROVE  /\ m[u].weight = SumOf(Weight, ToSet(g[u]))
              /\ m[u].volume = SumOf(Volume, ToSet(g[u]))
    <2>1. CASE u = v
        BY <1>6, <1>9, <1>10, <2>1
    <2>2. CASE u # v
        BY <1>7, <1>8, <2>2
    <2> QED
        BY <2>1, <2>2
<1>12. y = [routes |-> y.routes, load |-> y.load] /\ y.routes = g /\ y.load = m
    BY <1>5
<1>13. P \cup {s} \subseteq Stops
    BY <1>2
<1>14. IsSolution(y, P \cup {s})
    BY <1>6, <1>7, <1>11, <1>12, <1>13 DEF IsSolution, Weighed
<1> QED
    BY <1>1, <1>6, <1>7, <1>10, <1>12, <1>14 DEF Gains, Alone

\* A stop that leaves its vehicle.
LEMMA RemoveSolves ==
    ASSUME day \in DOMAIN Days, NEW x, NEW P, IsSolution(x, P), NEW v \in Vehicles,
           NEW s \in ToSet(x.routes[v]), NEW y, Removes(y, x, v, s)
    PROVE  IsSolution(y, P \ {s}) /\ s \in P /\ Loses(y, x, v, s)
<1>1. PICK f, l : f = x.routes /\ l = x.load
    OBVIOUS
<1>2. Carries(f, P) /\ DOMAIN l = Vehicles /\ P \subseteq Stops /\ DOMAIN f = Vehicles
    BY <1>1 DEF IsSolution, Carries
<1>3. PICK q : q = Without(f[v], {s})
    OBVIOUS
<1>4. PICK g : g = [f EXCEPT ![v] = q]
    OBVIOUS
<1>5. PICK m : m = [l EXCEPT ![v] = Loaded(l[v], s, -1)]
    OBVIOUS
<1>6. y = [routes |-> g, load |-> m]
    BY <1>1, <1>3, <1>4, <1>5 DEF Removes, Remove1
<1>7. PICK r : r = f[v] /\ r \in Seq(Stops) /\ Once(r) /\ ToSet(r) \subseteq P
    BY <1>2, RouteOf
<1>8. q \in Seq(Stops) /\ Once(q) /\ ToSet(q) = ToSet(r) \ {s}
    <2>1. PICK T : T = Stops
        OBVIOUS
    <2>2. q = Without(r, {s})
        BY <1>3, <1>7
    <2> QED
        BY <1>7, <2>1, <2>2, Remaining
<1>9. s \in ToSet(r) /\ s \in P /\ s \in Stops
    BY <1>1, <1>2, <1>7
<1>10. Carries(g, (P \ {s}) \cup {})
    <2>1. /\ {} \cap P = {} /\ {s} \subseteq ToSet(f[v]) /\ {} \subseteq Stops
          /\ ToSet(q) = (ToSet(f[v]) \ {s}) \cup {}
        BY <1>7, <1>8, <1>9
    <2> QED
        BY <1>2, <1>4, <1>8, <2>1, Rerouted
<1>11. /\ g[v] = q /\ m[v] = Loaded(l[v], s, -1) /\ DOMAIN m = Vehicles
       /\ \A u \in Vehicles \ {v} : g[u] = f[u] /\ m[u] = l[u]
    BY <1>2, <1>4, <1>5
<1>12. \A u \in Vehicles : /\ l[u].weight = SumOf(Weight, ToSet(f[u]))
                           /\ l[u].volume = SumOf(Volume, ToSet(f[u]))
    BY <1>1 DEF IsSolution, Weighed
<1>13. PICK R : R = ToSet(r)
    OBVIOUS
<1>14. /\ m[v].weight = SumOf(Weight, R \ {s}) /\ m[v].volume = SumOf(Volume, R \ {s})
       /\ m[v].weight \in Nat /\ l[v].weight \in Nat /\ m[v].weight <= l[v].weight
    <2>1. PICK W, V : W = Weight /\ V = Volume
        OBVIOUS
    <2>2. W \in Seq(Nat) /\ V \in Seq(Nat) /\ s \in 1 .. Len(W) /\ s \in 1 .. Len(V) /\ s \in R
        BY <1>9, <1>13, <2>1, DayFacts
    <2>3. /\ SumOf(W, R \ {s}) = SumOf(W, R) - W[s] /\ SumOf(W, R) \in Nat /\ W[s] \in Nat
          /\ SumOf(V, R \ {s}) = SumOf(V, R) - V[s] /\ SumOf(V, R) \in Nat /\ V[s] \in Nat
          /\ SumOf(W, R \ {s}) \in Nat
        BY <2>2, SumLoses
    <2>4. m[v].weight = l[v].weight + (-1) * W[s] /\ m[v].volume = l[v].volume + (-1) * V[s]
        BY <1>11, <2>1 DEF Loaded
    <2>5. l[v].weight = SumOf(W, R) /\ l[v].volume = SumOf(V, R)
        BY <1>7, <1>12, <1>13, <2>1
    <2> QED
        BY <2>1, <2>3, <2>4, <2>5
<1>15. ASSUME NEW u \in Vehicles
       PROVE  /\ m[u].weight = SumOf(Weight, ToSet(g[u]))
              /\ m[u].volume = SumOf(Volume, ToSet(g[u]))
    <2>1. CASE u = v
        BY <1>8, <1>11, <1>13, <1>14, <2>1
    <2>2. CASE u # v
        BY <1>11, <1>12, <2>2
    <2> QED
        BY <2>1, <2>2
<1>16. y = [routes |-> y.routes, load |-> y.load] /\ y.routes = g /\ y.load = m
    BY <1>6
<1>17. (P \ {s}) \cup {} = P \ {s} /\ P \ {s} \subseteq Stops
    BY <1>2
<1>18. IsSolution(y, P \ {s})
    BY <1>10, <1>11, <1>15, <1>16, <1>17 DEF IsSolution, Weighed
<1> QED
    BY <1>1, <1>7, <1>8, <1>9, <1>11, <1>14, <1>16, <1>18 DEF Loses, Alone

\* The stops of a route in another order.
LEMMA ReorderSolves ==
    ASSUME NEW x, NEW P, IsSolution(x, P), NEW v \in Vehicles, NEW r \in Seq(Stops), Once(r),
           ToSet(r) = ToSet(x.routes[v]), NEW y, y = [x EXCEPT !.routes[v] = r]
    PROVE  /\ IsSolution(y, P) /\ y.load = x.load
           /\ \A u \in Vehicles : ToSet(y.routes[u]) = ToSet(x.routes[u])
<1>1. PICK f, l : f = x.routes /\ l = x.load
    OBVIOUS
<1>2. /\ Carries(f, P) /\ DOMAIN l = Vehicles /\ P \subseteq Stops /\ DOMAIN f = Vehicles
      /\ x = [routes |-> f, load |-> l]
    BY <1>1 DEF IsSolution, Carries
<1>3. PICK g : g = [f EXCEPT ![v] = r]
    OBVIOUS
<1>4. y = [routes |-> g, load |-> l]
    BY <1>1, <1>2, <1>3
<1>5. Carries(g, (P \ {}) \cup {})
    <2>1. /\ {} \cap P = {} /\ {} \subseteq ToSet(f[v]) /\ {} \subseteq Stops
          /\ ToSet(r) = (ToSet(f[v]) \ {}) \cup {}
        BY <1>1
    <2> QED
        BY <1>2, <1>3, <2>1, Rerouted
<1>6. g[v] = r /\ \A u \in Vehicles \ {v} : g[u] = f[u]
    BY <1>2, <1>3
<1>7. \A u \in Vehicles : ToSet(g[u]) = ToSet(f[u])
    BY <1>1, <1>6
<1>8. y = [routes |-> y.routes, load |-> y.load] /\ y.routes = g /\ y.load = l
    BY ONLY <1>4
<1>9. (P \ {}) \cup {} = P
    OBVIOUS
<1>10. \A u \in Vehicles : /\ l[u].weight = SumOf(Weight, ToSet(f[u]))
                           /\ l[u].volume = SumOf(Volume, ToSet(f[u]))
    BY <1>1 DEF IsSolution, Weighed
<1>11. IsSolution(y, P)
    <2>1. Carries(g, P) /\ DOMAIN l = Vehicles /\ P \subseteq Stops
        BY <1>2, <1>5, <1>9
    <2> QED
        BY ONLY <1>7, <1>8, <1>10, <2>1 DEF IsSolution, Weighed
<1> QED
    BY <1>1, <1>7, <1>8, <1>11

\* b where a was.
Replaced(r, a, b) == [i \in DOMAIN r |-> IF r[i] = a THEN b ELSE r[i]]

LEMMA Replacement ==
    ASSUME NEW T, NEW r \in Seq(T), Once(r), NEW a \in ToSet(r), NEW b \in T, b \notin ToSet(r),
           NEW q, q = Replaced(r, a, b)
    PROVE  q \in Seq(T) /\ Once(q) /\ ToSet(q) = (ToSet(r) \ {a}) \cup {b}
<1>1. PICK N \in Nat : N = Len(r) /\ DOMAIN r = 1 .. N
    BY LenProperties
<1>2. /\ DOMAIN q = 1 .. N /\ q = [i \in 1 .. N |-> IF r[i] = a THEN b ELSE r[i]]
      /\ \A i \in 1 .. N : q[i] = (IF r[i] = a THEN b ELSE r[i]) /\ r[i] \in T
    BY <1>1, ElementOfSeq DEF Replaced
<1>3. q \in Seq(T)
    BY <1>2
<1>4. PICK k \in 1 .. N : r[k] = a
    BY <1>1 DEF ToSet
<1>5. \A i \in 1 .. N : (r[i] = a <=> i = k) /\ r[i] # b
    BY <1>1, <1>4 DEF Once, ToSet
<1>6. Once(q)
    BY <1>1, <1>2, <1>5 DEF Once
<1>7. ASSUME NEW z \in ToSet(q) PROVE z \in (ToSet(r) \ {a}) \cup {b}
    BY <1>1, <1>2, <1>5, <1>7 DEF ToSet
<1>8. ASSUME NEW z \in (ToSet(r) \ {a}) \cup {b} PROVE z \in ToSet(q)
    <2>1. CASE z = b
        <3>1. q[k] = b /\ k \in DOMAIN q
            BY <1>2, <1>4
        <3> QED
            BY <2>1, <3>1 DEF ToSet
    <2>2. CASE z # b
        <3>1. PICK i \in 1 .. N : r[i] = z /\ z # a
            BY <1>1, <1>8, <2>2 DEF ToSet
        <3>2. q[i] = z /\ i \in DOMAIN q
            BY <1>2, <3>1
        <3> QED
            BY <3>2 DEF ToSet
    <2> QED
        BY <2>1, <2>2
<1> QED
    BY <1>3, <1>6, <1>7, <1>8

Exchanges(y, x, v, a, w, b) == y = Put(Put(x, v, a, b), w, b, a)
Trades(y, x, v, a, w, b) ==
    /\ ToSet(y.routes[v]) = (ToSet(x.routes[v]) \ {a}) \cup {b}
    /\ ToSet(y.routes[w]) = (ToSet(x.routes[w]) \ {b}) \cup {a}
    /\ y.load[v].weight = x.load[v].weight - Weight[a] + Weight[b]
    /\ y.load[w].weight = x.load[w].weight - Weight[b] + Weight[a]
    /\ Alone(y, x, {v, w})

\* Two routes exchange a stop.
LEMMA ExchangeSolves ==
    ASSUME day \in DOMAIN Days, NEW x, NEW P, IsSolution(x, P), NEW v \in Vehicles, NEW w \in Vehicles,
           v # w, NEW a \in ToSet(x.routes[v]), NEW b \in ToSet(x.routes[w]),
           NEW y, Exchanges(y, x, v, a, w, b)
    PROVE  IsSolution(y, P) /\ Trades(y, x, v, a, w, b)
<1>1. PICK f, l : f = x.routes /\ l = x.load
    OBVIOUS
<1>2. Carries(f, P) /\ DOMAIN l = Vehicles /\ P \subseteq Stops /\ DOMAIN f = Vehicles
    BY <1>1 DEF IsSolution, Carries
<1>3. PICK q, t : q = Replaced(f[v], a, b) /\ t = Replaced(f[w], b, a)
    OBVIOUS
<1>4. PICK g : g = [[f EXCEPT ![v] = q] EXCEPT ![w] = t]
    OBVIOUS
<1>5. PICK m : m = [[l EXCEPT ![v] = Loaded(Loaded(l[v], a, -1), b, 1)]
                      EXCEPT ![w] = Loaded(Loaded(l[w], b, -1), a, 1)]
    OBVIOUS
<1>6. y = [routes |-> g, load |-> m]
    <2>1. [f EXCEPT ![v] = q][w] = f[w]
        BY <1>2
    <2>2. [l EXCEPT ![v] = Loaded(Loaded(l[v], a, -1), b, 1)][w] = l[w]
        BY <1>2
    <2>3. PICK z : z = Put(x, v, a, b)
        OBVIOUS
    <2>4. PICK f1, l1 : /\ f1 = [f EXCEPT ![v] = q]
                        /\ l1 = [l EXCEPT ![v] = Loaded(Loaded(l[v], a, -1), b, 1)]
        OBVIOUS
    <2>5. z = [routes |-> f1, load |-> l1]
        BY <1>1, <1>3, <2>3, <2>4 DEF Put, Replaced
    <2>6. z.routes = f1 /\ z.load = l1
        BY ONLY <2>5
    <2>7. y = [routes |-> [f1 EXCEPT ![w] = Replaced(f1[w], b, a)],
               load |-> [l1 EXCEPT ![w] = Loaded(Loaded(l1[w], b, -1), a, 1)]]
        BY <2>3, <2>6 DEF Exchanges, Put, Replaced
    <2>8. f1[w] = f[w] /\ l1[w] = l[w]
        BY <2>1, <2>2, <2>4
    <2> QED
        BY <1>3, <1>4, <1>5, <2>4, <2>7, <2>8
<1>7. /\ g[v] = q /\ g[w] = t /\ DOMAIN g = Vehicles /\ DOMAIN m = Vehicles
      /\ m[v] = Loaded(Loaded(l[v], a, -1), b, 1) /\ m[w] = Loaded(Loaded(l[w], b, -1), a, 1)
      /\ \A u \in Vehicles \ {v, w} : g[u] = f[u] /\ m[u] = l[u]
    BY <1>2, <1>4, <1>5
<1>8. \A u \in Vehicles : f[u] \in Seq(Stops) /\ Once(f[u]) /\ ToSet(f[u]) \subseteq P
    BY <1>2, RouteOf
<1>9. \A u, z \in Vehicles : u # z => ToSet(f[u]) \cap ToSet(f[z]) = {}
    BY <1>2 DEF Carries
<1>10. PICK A, B : A = ToSet(f[v]) /\ B = ToSet(f[w])
    OBVIOUS
<1>11. /\ a \in A /\ b \in B /\ a \notin B /\ b \notin A /\ a \in Stops /\ b \in Stops /\ A \subseteq P /\ B \subseteq P
    BY <1>1, <1>2, <1>8, <1>9, <1>10
<1>12. q \in Seq(Stops) /\ Once(q) /\ ToSet(q) = (A \ {a}) \cup {b}
    <2>1. PICK T : T = Stops
        OBVIOUS
    <2>2. PICK r : r = f[v]
        OBVIOUS
    <2> QED
        BY <1>3, <1>8, <1>10, <1>11, <2>1, <2>2, Replacement
<1>13. t \in Seq(Stops) /\ Once(t) /\ ToSet(t) = (B \ {b}) \cup {a}
    <2>1. PICK T : T = Stops
        OBVIOUS
    <2>2. PICK r : r = f[w]
        OBVIOUS
    <2> QED
        BY <1>3, <1>8, <1>10, <1>11, <2>1, <2>2, Replacement
<1>14. Carries(g, P)
    <2>1. g \in [Vehicles -> Seq(Stops)]
        <3>1. \A u \in Vehicles : g[u] \in Seq(Stops)
            BY <1>7, <1>8, <1>12, <1>13
        <3>2. g = [u \in Vehicles |-> g[u]]
            BY <1>2, <1>4
        <3> QED
            BY <3>1, <3>2
    <2>2. ASSUME NEW u \in Vehicles PROVE Once(g[u]) /\ ToSet(g[u]) \subseteq P
        <3>1. CASE u = v
            BY <1>7, <1>11, <1>12, <3>1
        <3>2. CASE u = w
            BY <1>7, <1>11, <1>13, <3>2
        <3>3. CASE u \notin {v, w}
            BY <1>7, <1>8, <3>3
        <3> QED
            BY <3>1, <3>2, <3>3
    <2>3. ASSUME NEW u \in Vehicles \ {v, w}
          PROVE  /\ ToSet(g[u]) \cap ToSet(g[v]) = {} /\ ToSet(g[u]) \cap ToSet(g[w]) = {}
        <3>1. ToSet(f[u]) \cap A = {} /\ ToSet(f[u]) \cap B = {}
            BY <1>9, <1>10
        <3> QED
            BY <1>7, <1>11, <1>12, <1>13, <3>1
    <2>4. ToSet(g[v]) \cap ToSet(g[w]) = {}
        <3>1. A \cap B = {}
            BY <1>9, <1>10
        <3> QED
            BY <1>7, <1>11, <1>12, <1>13, <3>1
    <2>5. ASSUME NEW u \in Vehicles \ {v, w}, NEW z \in Vehicles \ {v, w}, u # z
          PROVE  ToSet(g[u]) \cap ToSet(g[z]) = {}
        BY <1>7, <1>9, <2>5
    <2>6. ASSUME NEW u \in Vehicles, NEW z \in Vehicles, u # z PROVE ToSet(g[u]) \cap ToSet(g[z]) = {}
        <3>1. CASE u \notin {v, w} /\ z \notin {v, w}
            BY <2>5, <2>6, <3>1
        <3>2. CASE u \in {v, w} /\ z \notin {v, w}
            BY <2>3, <3>2
        <3>3. CASE u \notin {v, w} /\ z \in {v, w}
            BY <2>3, <3>3
        <3>4. CASE u \in {v, w} /\ z \in {v, w}
            BY <2>4, <2>6, <3>4
        <3> QED
            BY <3>1, <3>2, <3>3, <3>4
    <2>7. ASSUME NEW s \in P PROVE \E u \in Vehicles : s \in ToSet(g[u])
        <3>1. PICK u \in Vehicles : s \in ToSet(f[u])
            BY <1>2 DEF Carries
        <3>2. CASE s = a
            BY <1>7, <1>13, <3>2
        <3>3. CASE s = b
            BY <1>7, <1>12, <3>3
        <3>4. CASE s # a /\ s # b
            <4>1. CASE u = v
                BY <1>7, <1>10, <1>12, <3>1, <3>4, <4>1
            <4>2. CASE u = w
                BY <1>7, <1>10, <1>13, <3>1, <3>4, <4>2
            <4>3. CASE u \notin {v, w}
                BY <1>7, <3>1, <4>3
            <4> QED
                BY <4>1, <4>2, <4>3
        <3> QED
            BY <3>2, <3>3, <3>4
    <2> QED
        BY <2>1, <2>2, <2>6, <2>7 DEF Carries
<1>15. \A u \in Vehicles : /\ l[u].weight = SumOf(Weight, ToSet(f[u]))
                           /\ l[u].volume = SumOf(Volume, ToSet(f[u]))
    BY <1>1 DEF IsSolution, Weighed
<1>16. PICK W, V : W = Weight /\ V = Volume
    OBVIOUS
<1>17. /\ W \in Seq(Nat) /\ V \in Seq(Nat) /\ a \in 1 .. Len(W) /\ a \in 1 .. Len(V)
       /\ b \in 1 .. Len(W) /\ b \in 1 .. Len(V)
    BY <1>11, <1>16, DayFacts
<1>18. /\ m[v].weight = l[v].weight - W[a] + W[b] /\ m[v].weight = SumOf(W, (A \ {a}) \cup {b})
       /\ m[v].volume = SumOf(V, (A \ {a}) \cup {b})
    <2>1. /\ SumOf(W, A \ {a}) = SumOf(W, A) - W[a] /\ SumOf(W, A) \in Nat /\ W[a] \in Nat
          /\ SumOf(V, A \ {a}) = SumOf(V, A) - V[a] /\ SumOf(V, A) \in Nat /\ V[a] \in Nat
        BY <1>11, <1>17, SumLoses
    <2>2. PICK C : C = A \ {a} /\ b \notin C
        BY <1>11
    <2>3. /\ SumOf(W, C \cup {b}) = SumOf(W, C) + W[b] /\ W[b] \in Nat /\ SumOf(W, C) \in Nat
          /\ SumOf(V, C \cup {b}) = SumOf(V, C) + V[b] /\ V[b] \in Nat /\ SumOf(V, C) \in Nat
        BY <1>17, <2>2, SumGrows
    <2>4. /\ m[v].weight = (l[v].weight + (-1) * W[a]) + 1 * W[b]
          /\ m[v].volume = (l[v].volume + (-1) * V[a]) + 1 * V[b]
        BY <1>7, <1>16 DEF Loaded
    <2>5. l[v].weight = SumOf(W, A) /\ l[v].volume = SumOf(V, A)
        BY <1>10, <1>15, <1>16
    <2> QED
        BY <2>1, <2>2, <2>3, <2>4, <2>5
<1>19. /\ m[w].weight = l[w].weight - W[b] + W[a] /\ m[w].weight = SumOf(W, (B \ {b}) \cup {a})
       /\ m[w].volume = SumOf(V, (B \ {b}) \cup {a})
    <2>1. /\ SumOf(W, B \ {b}) = SumOf(W, B) - W[b] /\ SumOf(W, B) \in Nat /\ W[b] \in Nat
          /\ SumOf(V, B \ {b}) = SumOf(V, B) - V[b] /\ SumOf(V, B) \in Nat /\ V[b] \in Nat
        BY <1>11, <1>17, SumLoses
    <2>2. PICK C : C = B \ {b} /\ a \notin C
        BY <1>11
    <2>3. /\ SumOf(W, C \cup {a}) = SumOf(W, C) + W[a] /\ W[a] \in Nat /\ SumOf(W, C) \in Nat
          /\ SumOf(V, C \cup {a}) = SumOf(V, C) + V[a] /\ V[a] \in Nat /\ SumOf(V, C) \in Nat
        BY <1>17, <2>2, SumGrows
    <2>4. /\ m[w].weight = (l[w].weight + (-1) * W[b]) + 1 * W[a]
          /\ m[w].volume = (l[w].volume + (-1) * V[b]) + 1 * V[a]
        BY <1>7, <1>16 DEF Loaded
    <2>5. l[w].weight = SumOf(W, B) /\ l[w].volume = SumOf(V, B)
        BY <1>10, <1>15, <1>16
    <2> QED
        BY <2>1, <2>2, <2>3, <2>4, <2>5
<1>20. ASSUME NEW u \in Vehicles
       PROVE  /\ m[u].weight = SumOf(Weight, ToSet(g[u]))
              /\ m[u].volume = SumOf(Volume, ToSet(g[u]))
    <2>1. CASE u = v
        BY <1>7, <1>12, <1>16, <1>18, <2>1
    <2>2. CASE u = w
        BY <1>7, <1>13, <1>16, <1>19, <2>2
    <2>3. CASE u \notin {v, w}
        BY <1>7, <1>15, <2>3
    <2> QED
        BY <2>1, <2>2, <2>3
<1>21. y = [routes |-> y.routes, load |-> y.load] /\ y.routes = g /\ y.load = m
    BY ONLY <1>6
<1>22. IsSolution(y, P)
    BY ONLY <1>2, <1>7, <1>14, <1>20, <1>21 DEF IsSolution, Weighed
<1>23. ToSet(y.routes[v]) = (ToSet(x.routes[v]) \ {a}) \cup {b}
    BY ONLY <1>1, <1>7, <1>10, <1>12, <1>21
<1>24. ToSet(y.routes[w]) = (ToSet(x.routes[w]) \ {b}) \cup {a}
    BY ONLY <1>1, <1>7, <1>10, <1>13, <1>21
<1>25. /\ y.load[v].weight = x.load[v].weight - Weight[a] + Weight[b]
       /\ y.load[w].weight = x.load[w].weight - Weight[b] + Weight[a]
    BY ONLY <1>1, <1>16, <1>18, <1>19, <1>21
<1>26. \A u \in Vehicles \ {v, w} : y.routes[u] = x.routes[u] /\ y.load[u] = x.load[u]
    BY ONLY <1>1, <1>7, <1>21
<1> QED
    BY <1>22, <1>23, <1>24, <1>25, <1>26 DEF Trades, Alone

Drops(y, x, R) == y = [v \in Vehicles |-> Without(x[v], R)]

\* The stops of R leave every route.
LEMMA DropCarries ==
    ASSUME NEW x, NEW P, Carries(x, P), NEW R, NEW y, Drops(y, x, R)
    PROVE  Carries(y, P \ R)
<1>0. y = [v \in Vehicles |-> Without(x[v], R)]
    BY DEF Drops
<1>1. ASSUME NEW v \in Vehicles
      PROVE  y[v] \in Seq(Stops) /\ Once(y[v]) /\ ToSet(y[v]) = ToSet(x[v]) \ R
    <2>1. PICK r : r = x[v] /\ r \in Seq(Stops) /\ Once(r)
        BY RouteOf
    <2>2. PICK q : q = Without(r, R)
        OBVIOUS
    <2>3. PICK T : T = Stops
        OBVIOUS
    <2>4. q \in Seq(Stops) /\ Once(q) /\ ToSet(q) = ToSet(r) \ R
        BY <2>1, <2>2, <2>3, Remaining
    <2>5. y[v] = q
        BY <1>0, <2>1, <2>2
    <2> QED
        BY <2>1, <2>4, <2>5
<1>2. DOMAIN y = Vehicles /\ y = [v \in Vehicles |-> y[v]]
    BY <1>0
<1>3. y \in [Vehicles -> Seq(Stops)]
    BY ONLY <1>1, <1>2
<1>4. PICK F : F = [v \in Vehicles |-> ToSet(x[v])]
    OBVIOUS
<1>5. \A v \in Vehicles : ToSet(x[v]) = F[v] /\ ToSet(y[v]) = F[v] \ R
    BY <1>1, <1>4
<1>6. /\ \A v \in Vehicles : F[v] \subseteq P
      /\ \A v, w \in Vehicles : v # w => F[v] \cap F[w] = {}
      /\ \A s \in P : \E v \in Vehicles : s \in F[v]
    BY <1>5 DEF Carries
<1>7. /\ \A v \in Vehicles : Once(y[v]) /\ ToSet(y[v]) \subseteq P \ R
      /\ \A v, w \in Vehicles : v # w => ToSet(y[v]) \cap ToSet(y[w]) = {}
      /\ \A s \in P \ R : \E v \in Vehicles : s \in ToSet(y[v])
    <2>1. \A v \in Vehicles : Once(y[v]) /\ ToSet(y[v]) \subseteq P \ R
        BY ONLY <1>1, <1>5, <1>6
    <2>2. \A v, w \in Vehicles : v # w => ToSet(y[v]) \cap ToSet(y[w]) = {}
        BY ONLY <1>5, <1>6
    <2>3. \A s \in P \ R : \E v \in Vehicles : s \in ToSet(y[v])
        BY ONLY <1>5, <1>6
    <2> QED
        BY <2>1, <2>2, <2>3
<1>8. Carries(y, P \ R)
    BY ONLY <1>3, <1>7 DEF Carries
<1> QED
    BY <1>8

TakesOut(y, x, R) == y = TakeOut(x, R)
Lighter(y, x) == \A v \in Vehicles :
    /\ ToSet(y.routes[v]) \subseteq ToSet(x.routes[v])
    /\ y.load[v].weight \in Nat /\ x.load[v].weight \in Nat
    /\ y.load[v].weight <= x.load[v].weight

\* The stops of R are taken out of a solution.
LEMMA TakeOutSolves ==
    ASSUME day \in DOMAIN Days, NEW x, NEW P, IsSolution(x, P), NEW R, NEW y, TakesOut(y, x, R)
    PROVE  /\ IsSolution(y, P \ R)
           /\ Lighter(y, x)
<1>1. PICK f, l : f = x.routes /\ l = x.load
    OBVIOUS
<1>2. Carries(f, P) /\ DOMAIN l = Vehicles /\ P \subseteq Stops
    BY <1>1 DEF IsSolution
<1>3. PICK W, V : W = Weight /\ V = Volume /\ W \in Seq(Nat) /\ V \in Seq(Nat)
    BY DayFacts
<1>4. PICK g : g = [v \in Vehicles |-> Without(f[v], R)]
    OBVIOUS
<1>5. PICK m : m = [v \in Vehicles |-> [weight |-> l[v].weight - SumOf(W, R \cap ToSet(f[v])),
                                        volume |-> l[v].volume - SumOf(V, R \cap ToSet(f[v]))]]
    OBVIOUS
<1>6. y = [routes |-> g, load |-> m]
    BY <1>1, <1>3, <1>4, <1>5 DEF TakesOut, TakeOut
<1>7. /\ Carries(g, P \ R)
      /\ \A v \in Vehicles : ToSet(g[v]) = ToSet(f[v]) \ R
    <2>1. Carries(f, P) /\ Drops(g, f, R)
        BY <1>2, <1>4 DEF Drops
    <2>2. Carries(g, P \ R)
        BY <2>1, DropCarries
    <2>3. \A v \in Vehicles : ToSet(g[v]) = ToSet(f[v]) \ R
        <3>1. ASSUME NEW v \in Vehicles PROVE ToSet(g[v]) = ToSet(f[v]) \ R
            <4>1. PICK r, q : /\ r = f[v] /\ r \in Seq(Stops) /\ Once(r)
                              /\ q = Without(r, R)
                BY <2>1, RouteOf
            <4>2. PICK T : T = Stops
                OBVIOUS
            <4>3. ToSet(q) = ToSet(r) \ R
                BY <4>1, <4>2, Remaining
            <4>4. g[v] = q
                BY <1>4, <4>1
            <4> QED
                BY <4>1, <4>3, <4>4
        <3> QED
            BY <3>1
    <2> QED
        BY <2>2, <2>3
<1>8. DOMAIN m = Vehicles
    BY <1>5
<1>9. ASSUME NEW v \in Vehicles
      PROVE  /\ m[v].weight = SumOf(W, ToSet(g[v])) /\ m[v].volume = SumOf(V, ToSet(g[v]))
             /\ m[v].weight \in Nat /\ l[v].weight \in Nat /\ m[v].weight <= l[v].weight
    <2>1. PICK S : S = ToSet(f[v]) /\ ToSet(g[v]) = S \ R
        BY <1>7
    <2>2. /\ m[v].weight = l[v].weight - SumOf(W, R \cap S)
          /\ m[v].volume = l[v].volume - SumOf(V, R \cap S)
        BY <1>5, <2>1
    <2>3. l[v].weight = SumOf(W, S) /\ l[v].volume = SumOf(V, S)
        BY <1>1, <1>3, <2>1 DEF IsSolution, Weighed
    <2>4. /\ SumOf(W, S \ R) = SumOf(W, S) - SumOf(W, R \cap S)
          /\ SumOf(W, S \ R) \in Nat /\ SumOf(W, S) \in Nat /\ SumOf(W, S \ R) <= SumOf(W, S)
          /\ SumOf(V, S \ R) = SumOf(V, S) - SumOf(V, R \cap S)
        BY <1>3, SumShrinks
    <2> QED
        BY ONLY <2>1, <2>2, <2>3, <2>4
<1>10. y = [routes |-> y.routes, load |-> y.load] /\ y.routes = g /\ y.load = m
    BY ONLY <1>6
<1>11. Weighed(y)
    BY ONLY <1>3, <1>9, <1>10 DEF Weighed
<1>12. IsSolution(y, P \ R)
    BY ONLY <1>2, <1>7, <1>8, <1>10, <1>11 DEF IsSolution
<1>13. ASSUME NEW v \in Vehicles
       PROVE  /\ ToSet(y.routes[v]) \subseteq ToSet(x.routes[v])
              /\ y.load[v].weight \in Nat /\ x.load[v].weight \in Nat
              /\ y.load[v].weight <= x.load[v].weight
    BY ONLY <1>1, <1>7, <1>9, <1>10, v \in Vehicles
<1> QED
    BY <1>12, <1>13 DEF Lighter

-----------------------------------------------------------------------------
(* What a vehicle may carry.                                               *)

LEMMA LoadsAreNat ==
    ASSUME day \in DOMAIN Days, NEW x, NEW P, IsSolution(x, P), NEW v \in Vehicles
    PROVE  x.load[v].weight \in Nat
<1>1. PICK W : W = Weight /\ W \in Seq(Nat)
    BY DayFacts
<1>2. PICK S : S = ToSet(x.routes[v])
    OBVIOUS
<1>3. SumOf(W, S) \in Nat
    BY <1>1, SumShrinks
<1> QED
    BY <1>1, <1>2, <1>3, SolutionFacts

LEMMA FewerAreAllowed ==
    ASSUME NEW v, NEW S, Allowed(v, S), NEW R \in SUBSET S
    PROVE  Allowed(v, R)
    BY DEF Allowed

LEMMA OneMoreIsAllowed ==
    ASSUME NEW v, NEW S, Allowed(v, S), NEW s, Needs[s] \subseteq Has[v], ClassesMix(S, s)
    PROVE  Allowed(v, S \cup {s})
    BY DEF Allowed, ClassesMix

LEMMA InsertPermits ==
    ASSUME day \in DOMAIN Days, NEW x, NEW P, IsSolution(x, P), Permitted(x), NEW v \in Vehicles,
           NEW s \in Stops, CanTake(x, v, s), NEW y,
           NEW p, Gains(y, x, v, p, s)
    PROVE  Permitted(y)
<1>1. ASSUME NEW u \in Vehicles
      PROVE  MaxWeight[u] > 0 => y.load[u].weight <= MaxWeight[u]
    <2>1. CASE u = v
        BY <2>1 DEF CanTake, CapacityOk, Gains
    <2>2. CASE u # v
        BY <2>2 DEF Permitted, Gains, Alone
    <2> QED
        BY <2>1, <2>2
<1>2. ASSUME NEW u \in Vehicles
      PROVE  Allowed(u, ToSet(y.routes[u]))
    <2>1. CASE u = v
        <3>1. Allowed(v, ToSet(x.routes[v])) /\ Needs[s] \subseteq Has[v] /\ ClassesMix(ToSet(x.routes[v]), s)
            BY DEF Permitted, CanTake
        <3>2. PICK S : S = ToSet(x.routes[v])
            OBVIOUS
        <3>3. Allowed(v, S \cup {s})
            BY <3>1, <3>2, OneMoreIsAllowed
        <3> QED
            BY <2>1, <3>2, <3>3 DEF Gains
    <2>2. CASE u # v
        BY <2>2 DEF Permitted, Gains, Alone
    <2> QED
        BY <2>1, <2>2
<1> QED
    BY <1>1, <1>2 DEF Permitted

\* A solution that carries less is permitted too.
LEMMA LessPermits ==
    ASSUME day \in DOMAIN Days, NEW x, Permitted(x), NEW y,
           Lighter(y, x)
    PROVE  Permitted(y)
<1>1. ASSUME NEW u \in Vehicles
      PROVE  MaxWeight[u] > 0 => y.load[u].weight <= MaxWeight[u]
    <2>1. MaxWeight[u] > 0 => x.load[u].weight <= MaxWeight[u]
        BY DEF Permitted
    <2>2. MaxWeight[u] \in Nat
        BY DayFacts
    <2> QED
        BY <2>1, <2>2 DEF Lighter
<1>2. ASSUME NEW u \in Vehicles PROVE Allowed(u, ToSet(y.routes[u]))
    BY FewerAreAllowed DEF Permitted, Lighter
<1> QED
    BY <1>1, <1>2 DEF Permitted

LEMMA SamePermits ==
    ASSUME NEW x, Permitted(x), NEW y, y.load = x.load,
           \A u \in Vehicles : ToSet(y.routes[u]) = ToSet(x.routes[u])
    PROVE  Permitted(y)
    BY DEF Permitted

-----------------------------------------------------------------------------
(* The data of the day stay what they are.                                 *)

LEMMA SameDay ==
    ASSUME day' = day
    PROVE  /\ Weight' = Weight /\ Volume' = Volume /\ Stops' = Stops
           /\ MaxWeight' = MaxWeight /\ Has' = Has
           /\ Needs' = Needs /\ Classes' = Classes /\ Refuses' = Refuses
    BY DEF Weight, Volume, Stops, MaxWeight, Has, Needs, Classes, Refuses

LEMMA CarriesNext ==
    ASSUME day' = day, NEW x, NEW P, Carries(x, P)
    PROVE  Carries(x, P)'
    BY SameDay DEF Carries

LEMMA SolutionNext ==
    ASSUME day' = day, NEW x, NEW P, IsSolution(x, P)
    PROVE  IsSolution(x, P)'
    BY SameDay, CarriesNext DEF IsSolution, Weighed

LEMMA PermittedNext ==
    ASSUME day' = day, NEW x, Permitted(x)
    PROVE  Permitted(x)'
    BY SameDay DEF Permitted, Allowed

LEMMA FinishNext ==
    ASSUME day' = day, shift' = shift, NEW r
    PROVE  Finish(r)' = Finish(r)
    BY DEF Finish, Place

LEMMA SearchInvNext ==
    ASSUME day' = day, shift' = shift, SearchTypes',
           NEW y, NEW o, NEW l, NEW c, NEW b,
           sol' = y, open' = o, left' = l, cur' = c, best' = b,
           IsSolution(y, Stops \ (o \cup l)), o \cap l = {}, o \subseteq Stops,
           phase' # "build" => IsSolution(c, Stops \ l) /\ IsSolution(b, Stops \ l),
           forced' \/ (Permitted(y) /\ (phase' # "build" => Permitted(c) /\ Permitted(b))),
           alg' = "pack" => \A v \in Vehicles : Finish(y.routes[v]) <= ShiftEnd[shift]
    PROVE  SearchInv'
<1>1. PICK S : S = Stops /\ Stops' = S
    BY SameDay
<1>2. IsSolution(sol, Stops \ (open \cup left))'
    <2>1. PICK P : P = S \ (o \cup l)
        OBVIOUS
    <2>2. IsSolution(y, P)'
        BY <1>1, <2>1, SolutionNext
    <2>3. sol' = y /\ (Stops \ (open \cup left))' = P
        BY <1>1, <2>1
    <2> QED
        BY ONLY <2>2, <2>3 DEF IsSolution, Carries, Weighed
<1>3. (phase # "build" => IsSolution(cur, Stops \ left) /\ IsSolution(best, Stops \ left))'
    <2>1. PICK P : P = S \ l
        OBVIOUS
    <2>2. ASSUME phase' # "build" PROVE IsSolution(c, P)' /\ IsSolution(b, P)'
        BY <1>1, <2>1, <2>2, SolutionNext
    <2>3. ASSUME phase' # "build" PROVE IsSolution(cur, Stops \ left)'
        <3>1. IsSolution(c, P)'
            BY <2>2, <2>3
        <3>2. cur' = c /\ (Stops \ left)' = P
            BY <1>1, <2>1
        <3> QED
            BY ONLY <3>1, <3>2 DEF IsSolution, Carries, Weighed
    <2>4. ASSUME phase' # "build" PROVE IsSolution(best, Stops \ left)'
        <3>1. IsSolution(b, P)'
            BY <2>2, <2>4
        <3>2. best' = b /\ (Stops \ left)' = P
            BY <1>1, <2>1
        <3> QED
            BY ONLY <3>1, <3>2 DEF IsSolution, Carries, Weighed
    <2> QED
        BY <2>3, <2>4
<1>4. (forced \/ (Permitted(sol) /\ (phase # "build" => Permitted(cur) /\ Permitted(best))))'
    <2>1. forced' \/ (Permitted(y)' /\ (phase' # "build" => Permitted(c)' /\ Permitted(b)'))
        BY PermittedNext
    <2> QED
        BY <2>1 DEF Permitted
<1>5. (alg = "pack" => \A v \in Vehicles : Finish(sol.routes[v]) <= ShiftEnd[shift])'
    <2>1. alg' = "pack" => \A v \in Vehicles : Finish(y.routes[v])' <= ShiftEnd[shift]
        BY FinishNext
    <2> QED
        BY <2>1 DEF Finish
<1> QED
    BY <1>1, <1>2, <1>3, <1>4, <1>5 DEF SearchInv

-----------------------------------------------------------------------------
(* The moves of the local search.                                          *)

LEMMA VehicleFacts ==
    /\ Cardinality(Vehicles) \in Nat /\ Cardinality(Vehicles) >= 1
    /\ Vehicles = 1 .. Cardinality(Vehicles) /\ 1 \in Vehicles
<1>1. Cardinality(Vehicles) \in Nat
    BY VehiclesAssumption, FS_CardinalityType
<1>2. PICK N \in Nat : N = Cardinality(Vehicles)
    BY <1>1
<1>3. Vehicles = 1 .. N /\ Vehicles # {}
    BY <1>2, VehiclesAssumption
<1>4. N >= 1 /\ 1 \in Vehicles
    BY <1>3
<1>5. Cardinality(Vehicles) >= 1
    BY <1>2, <1>4
<1> QED
    BY <1>1, <1>2, <1>3, <1>4, <1>5

LEMMA StopFacts ==
    ASSUME day \in DOMAIN Days
    PROVE  /\ IsFiniteSet(Stops) /\ Cardinality(Stops) \in Nat
           /\ Cardinality(Stops) = Len(Weight) /\ Stops = 1 .. Cardinality(Stops)
<1>1. PICK n \in Nat : n = Len(Weight) /\ Stops = 1 .. n
    BY DayFacts
<1>2. IsFiniteSet(1 .. n) /\ Cardinality(1 .. n) = n
    BY FS_Interval
<1> QED
    BY <1>1, <1>2

LEMMA TwoOptReorders ==
    ASSUME NEW T, NEW r \in Seq(T), Once(r), NEW gap \in Nat, NEW q \in TwoOpt(r, gap)
    PROVE  q \in Seq(T) /\ Once(q) /\ ToSet(q) = ToSet(r)
<1>1. PICK n \in Nat : n = Len(r)
    BY LenProperties
<1>2. PICK i \in 1 .. n, j \in 1 .. n : j >= i + gap /\ q = Reversed(r, i, j)
    BY <1>1 DEF TwoOpt
<1>3. i \in 1 .. Len(r) /\ j \in 1 .. Len(r) /\ i <= j
    BY <1>1, <1>2
<1>4. /\ Reversed(r, i, j) \in Seq(T) /\ Once(Reversed(r, i, j))
      /\ ToSet(Reversed(r, i, j)) = ToSet(r)
    BY <1>3, Turned
<1> QED
    BY <1>2, <1>4

LEMMA OrOptReorders ==
    ASSUME NEW T, NEW r \in Seq(T), Once(r), NEW n \in Nat, 1 <= n, NEW q \in OrOpt(r, n)
    PROVE  q \in Seq(T) /\ Once(q) /\ ToSet(q) = ToSet(r)
<1>1. PICK m \in Nat : m = Len(r)
    BY LenProperties
<1>2. n < m
    BY <1>1 DEF OrOpt
<1>3. PICK i \in 1 .. m - n + 1, p \in 1 .. m - n + 1 : q = Moved(r, i, n, p)
    BY <1>1, <1>2 DEF OrOpt
<1>4. i \in 1 .. Len(r) - n + 1 /\ p \in 1 .. Len(r) - n + 1 /\ n < Len(r)
    BY <1>1, <1>2, <1>3
<1>5. /\ Moved(r, i, n, p) \in Seq(T) /\ Once(Moved(r, i, n, p))
      /\ ToSet(Moved(r, i, n, p)) = ToSet(r)
    BY <1>4, Carried
<1> QED
    BY <1>3, <1>5

LEMMA OffersReorder ==
    ASSUME NEW T, NEW r \in Seq(T), Once(r), pc \in LocalSteps, NEW q \in Offers(r)
    PROVE  q \in Seq(T) /\ Once(q) /\ ToSet(q) = ToSet(r)
<1>1. q \in TwoOpt(r, 2) \/ q \in OrOpt(r, 1) \/ q \in OrOpt(r, 2) \/ q \in OrOpt(r, 3)
    BY DEF LocalSteps, Offers
<1>2. CASE q \in TwoOpt(r, 2)
    BY <1>2, TwoOptReorders
<1>3. ASSUME NEW n \in {1, 2, 3}, q \in OrOpt(r, n)
      PROVE  q \in Seq(T) /\ Once(q) /\ ToSet(q) = ToSet(r)
    <2>1. n \in Nat /\ 1 <= n
        OBVIOUS
    <2> QED
        BY <1>3, <2>1, OrOptReorders
<1> QED
    BY <1>1, <1>2, <1>3

\* What Places says of an insertion.
LEMMA PlaceFacts ==
    ASSUME day \in DOMAIN Days, NEW x, NEW S, NEW c \in Places(x, S)
    PROVE  /\ c[1] \in S /\ c[2] \in Vehicles /\ c[3] \in Nat /\ 1 <= c[3]
           /\ c[3] <= Len(x.routes[c[2]]) + 1 /\ CanTake(x, c[2], c[1])
<1>1. PICK n \in Nat : n = Cardinality(Stops)
    BY StopFacts
<1>2. c \in S \X Vehicles \X (1 .. n)
    BY <1>1 DEF Places
<1>3. c[1] \in S /\ c[2] \in Vehicles /\ c[3] \in 1 .. n
    BY <1>2
<1> QED
    BY <1>3 DEF Places

\* A stop goes to a place that is free for it.
LEMMA PlaceSolves ==
    ASSUME day \in DOMAIN Days, NEW x, NEW P, IsSolution(x, P), NEW S, S \cap P = {}, S \subseteq Stops,
           NEW c \in Places(x, S), NEW y, y = Insert(x, c[2], c[3], c[1])
    PROVE  /\ IsSolution(y, P \cup {c[1]})
           /\ Permitted(x) => Permitted(y)
           /\ Gains(y, x, c[2], c[3], c[1])
<1>1. PICK s, v, p : s = c[1] /\ v = c[2] /\ p = c[3]
    OBVIOUS
<1>2. s \in S /\ v \in Vehicles /\ p \in Nat /\ 1 <= p /\ p <= Len(x.routes[v]) + 1 /\ CanTake(x, v, s)
    BY <1>1, PlaceFacts
<1>3. PICK n \in Nat : n = Len(x.routes[v])
    BY <1>2, SolutionFacts, LenProperties
<1>4. p \in 1 .. Len(x.routes[v]) + 1 /\ s \notin P /\ s \in Stops
    BY <1>2, <1>3
<1>5. y = Insert(x, v, p, s)
    BY <1>1
<1>6. IsSolution(y, P \cup {s}) /\ Gains(y, x, v, p, s)
    BY <1>2, <1>4, <1>5, InsertSolves DEF Inserts
<1>7. ASSUME Permitted(x) PROVE Permitted(y)
    BY <1>2, <1>4, <1>6, <1>7, InsertPermits
<1> QED
    BY <1>1, <1>6, <1>7

\* A stop is put at the end of a route.
LEMMA AppendSolves ==
    ASSUME day \in DOMAIN Days, NEW x, NEW P, IsSolution(x, P), NEW s \in Stops, s \notin P,
           NEW v \in Vehicles, NEW y, y = Append1(x, v, s)
    PROVE  IsSolution(y, P \cup {s}) /\ (Permitted(x) /\ CanTake(x, v, s) => Permitted(y))
<1>1. PICK n \in Nat : n = Len(x.routes[v])
    BY SolutionFacts, LenProperties
<1>2. PICK p : p = Len(x.routes[v]) + 1
    OBVIOUS
<1>3. p \in 1 .. Len(x.routes[v]) + 1 /\ y = Insert(x, v, p, s)
    BY <1>1, <1>2 DEF Append1
<1>4. IsSolution(y, P \cup {s}) /\ Gains(y, x, v, p, s)
    BY <1>3, InsertSolves DEF Inserts
<1>5. ASSUME Permitted(x), CanTake(x, v, s) PROVE Permitted(y)
    BY <1>4, <1>5, InsertPermits
<1> QED
    BY <1>4, <1>5

\* A stop moves to another vehicle.
LEMMA RelocatedSolves ==
    ASSUME day \in DOMAIN Days, NEW x, x = sol, NEW P, IsSolution(x, P), NEW y \in Relocated
    PROVE  IsSolution(y, P) /\ (Permitted(x) => Permitted(y))
<1>1. PICK d \in Vehicles \X Stops \X Vehicles \X (1 .. Cardinality(Stops)) :
            /\ d[2] \in ToSet(x.routes[d[1]]) /\ d[1] # d[3]
            /\ <<d[2], d[3], d[4]>> \in Places(x, {d[2]})
            /\ y = Insert(Remove1(x, d[1], d[2]), d[3], d[4], d[2])
    BY DEF Relocated
<1>2. PICK v, s, w, p : v = d[1] /\ s = d[2] /\ w = d[3] /\ p = d[4]
    OBVIOUS
<1>3. v \in Vehicles /\ s \in Stops /\ w \in Vehicles /\ v # w /\ s \in ToSet(x.routes[v])
    BY <1>1, <1>2
<1>4. PICK z : z = Remove1(x, v, s)
    OBVIOUS
<1>5. y = Insert(z, w, p, s)
    BY <1>1, <1>2, <1>4
<1>6. PICK c : c = <<s, w, p>> /\ c \in Places(x, {s})
    BY <1>1, <1>2
<1>7. c[1] = s /\ c[2] = w /\ c[3] = p
    BY <1>6
<1>8. p \in Nat /\ 1 <= p /\ p <= Len(x.routes[w]) + 1 /\ CanTake(x, w, s)
    BY <1>6, <1>7, PlaceFacts
<1>9. IsSolution(z, P \ {s}) /\ s \in P /\ Loses(z, x, v, s)
    BY <1>3, <1>4, RemoveSolves DEF Removes
<1>10. z.routes[w] = x.routes[w] /\ z.load[w] = x.load[w]
    BY <1>3, <1>9 DEF Loses, Alone
<1>11. PICK n \in Nat : n = Len(z.routes[w])
    BY <1>3, <1>10, SolutionFacts, LenProperties
<1>12. p \in 1 .. Len(z.routes[w]) + 1 /\ s \notin P \ {s}
    BY <1>8, <1>10, <1>11
<1>13. CanTake(z, w, s)
    BY <1>8, <1>10 DEF CanTake
<1>14. PICK Q : Q = P \ {s}
    OBVIOUS
<1>15. IsSolution(y, Q \cup {s}) /\ Gains(y, z, w, p, s)
    BY <1>3, <1>5, <1>9, <1>12, <1>14, InsertSolves DEF Inserts
<1>16. Q \cup {s} = P
    BY <1>9, <1>14
<1>17. ASSUME Permitted(x) PROVE Permitted(y)
    <2>1. Lighter(z, x)
        <3>1. ASSUME NEW u \in Vehicles PROVE x.load[u].weight \in Nat
            BY <3>1, LoadsAreNat
        <3>2. ASSUME NEW u \in Vehicles
              PROVE  /\ ToSet(z.routes[u]) \subseteq ToSet(x.routes[u])
                     /\ z.load[u].weight \in Nat /\ z.load[u].weight <= x.load[u].weight
            <4>1. CASE u = v
                BY <1>9, <4>1 DEF Loses
            <4>2. CASE u # v
                <5>1. z.routes[u] = x.routes[u] /\ z.load[u] = x.load[u]
                    BY <1>9, <4>2 DEF Loses, Alone
                <5> QED
                    BY <3>1, <5>1
            <4> QED
                BY <4>1, <4>2
        <3> QED
            BY <3>1, <3>2 DEF Lighter
    <2>2. Permitted(z)
        BY <1>17, <2>1, LessPermits
    <2> QED
        BY <1>3, <1>9, <1>13, <1>14, <1>15, <2>2, InsertPermits
<1> QED
    BY <1>15, <1>16, <1>17

LEMMA SwapIsAllowed ==
    ASSUME NEW v, NEW S, Allowed(v, S), NEW a, NEW b, Needs[b] \subseteq Has[v], ClassesMix(S \ {a}, b)
    PROVE  Allowed(v, (S \ {a}) \cup {b})
<1>1. PICK R : R = S \ {a} /\ R \in SUBSET S
    OBVIOUS
<1>2. Allowed(v, R)
    BY <1>1, FewerAreAllowed
<1> QED
    BY <1>1, <1>2, OneMoreIsAllowed

\* Two stops exchange their vehicles.
LEMMA SwappedSolves ==
    ASSUME day \in DOMAIN Days, NEW x, x = sol, NEW P, IsSolution(x, P), NEW y \in Swapped
    PROVE  IsSolution(y, P) /\ (Permitted(x) => Permitted(y))
<1>1. PICK d \in Vehicles \X Stops \X Vehicles \X Stops :
            /\ d[1] < d[3]
            /\ d[2] \in ToSet(x.routes[d[1]]) /\ d[4] \in ToSet(x.routes[d[3]])
            /\ MaySwap(d[1], d[2], d[3], d[4])
            /\ y = Put(Put(x, d[1], d[2], d[4]), d[3], d[4], d[2])
    BY DEF Swapped
<1>2. PICK v, a, w, b : v = d[1] /\ a = d[2] /\ w = d[3] /\ b = d[4]
    OBVIOUS
<1>3. /\ v \in Vehicles /\ w \in Vehicles /\ v < w
      /\ a \in ToSet(x.routes[v]) /\ b \in ToSet(x.routes[w]) /\ MaySwap(v, a, w, b)
    BY <1>1, <1>2
<1>4. v # w
    BY <1>3, VehicleFacts
<1>5. Exchanges(y, x, v, a, w, b)
    BY <1>1, <1>2 DEF Exchanges
<1>6. IsSolution(y, P) /\ Trades(y, x, v, a, w, b)
    BY <1>3, <1>4, <1>5, ExchangeSolves
<1>7. ASSUME Permitted(x) PROVE Permitted(y)
    <2>1. ASSUME NEW u \in Vehicles
          PROVE  MaxWeight[u] > 0 => y.load[u].weight <= MaxWeight[u]
        <3>1. CASE u = v
            BY <1>3, <1>6, <3>1 DEF Trades, MaySwap
        <3>2. CASE u = w
            BY <1>3, <1>6, <3>2 DEF Trades, MaySwap
        <3>3. CASE u \notin {v, w}
            BY <1>6, <1>7, <3>3 DEF Trades, Alone, Permitted
        <3> QED
            BY <3>1, <3>2, <3>3
    <2>2. ASSUME NEW u \in Vehicles PROVE Allowed(u, ToSet(y.routes[u]))
        <3>1. CASE u = v
            <4>1. PICK S : S = ToSet(x.routes[v])
                OBVIOUS
            <4>2. Allowed(v, S) /\ Needs[b] \subseteq Has[v] /\ ClassesMix(S \ {a}, b)
                BY <1>3, <1>7, <4>1 DEF Permitted, MaySwap
            <4>3. Allowed(v, (S \ {a}) \cup {b})
                BY <4>2, SwapIsAllowed
            <4> QED
                BY <1>6, <3>1, <4>1, <4>3 DEF Trades
        <3>2. CASE u = w
            <4>1. PICK S : S = ToSet(x.routes[w])
                OBVIOUS
            <4>2. Allowed(w, S) /\ Needs[a] \subseteq Has[w] /\ ClassesMix(S \ {b}, a)
                BY <1>3, <1>7, <4>1 DEF Permitted, MaySwap
            <4>3. Allowed(w, (S \ {b}) \cup {a})
                BY <4>2, SwapIsAllowed
            <4> QED
                BY <1>6, <3>2, <4>1, <4>3 DEF Trades
        <3>3. CASE u \notin {v, w}
            BY <1>6, <1>7, <3>3 DEF Trades, Alone, Permitted
        <3> QED
            BY <3>1, <3>2, <3>3
    <2> QED
        BY <2>1, <2>2 DEF Permitted
<1> QED
    BY <1>6, <1>7

-----------------------------------------------------------------------------
(* The steps of the search keep the invariant.                             *)

\* The invariant, with names for the values of the variables.
Holds(x, o, l, c, b) ==
    /\ sol = x /\ open = o /\ left = l /\ cur = c /\ best = b
    /\ day \in DOMAIN Days
    /\ IsSolution(x, Stops \ (o \cup l)) /\ o \cap l = {} /\ o \subseteq Stops
    /\ phase # "build" => IsSolution(c, Stops \ l) /\ IsSolution(b, Stops \ l)
    /\ forced \/ (Permitted(x) /\ (phase # "build" => Permitted(c) /\ Permitted(b)))
    /\ alg = "pack" => \A v \in Vehicles : Finish(x.routes[v]) <= ShiftEnd[shift]

LEMMA SearchNow ==
    ASSUME SearchInv
    PROVE  \E x, o, l, c, b : Holds(x, o, l, c, b)
<1>1. PICK x, o, l, c, b : x = sol /\ o = open /\ l = left /\ c = cur /\ b = best
    OBVIOUS
<1>2. IsSolution(x, Stops \ (o \cup l))
    BY <1>1 DEF SearchInv, IsSolution, Carries, Weighed
<1>3. phase # "build" => IsSolution(c, Stops \ l) /\ IsSolution(b, Stops \ l)
    BY <1>1 DEF SearchInv, IsSolution, Carries, Weighed
<1>4. forced \/ (Permitted(x) /\ (phase # "build" => Permitted(c) /\ Permitted(b)))
    BY <1>1 DEF SearchInv, Permitted
<1>5. alg = "pack" => \A v \in Vehicles : Finish(x.routes[v]) <= ShiftEnd[shift]
    BY <1>1 DEF SearchInv
<1>6. o \cap l = {} /\ o \subseteq Stops /\ day \in DOMAIN Days
    BY <1>1 DEF SearchInv, SearchTypes
<1>7. Holds(x, o, l, c, b)
    BY <1>1, <1>2, <1>3, <1>4, <1>5, <1>6 DEF Holds
<1> QED
    BY <1>7

\* A waiting stop was put on a vehicle.
LEMMA StopPlaced ==
    ASSUME NEW x, NEW o, NEW l, NEW c, NEW b, Holds(x, o, l, c, b), NEW s \in o, NEW y,
           IsSolution(y, (Stops \ (o \cup l)) \cup {s}), forced \/ forced' \/ Permitted(y),
           UNCHANGED <<day, alg, shift, phase, left, cur, best>>, forced => forced', SearchTypes',
           sol' = y, open' = o \ {s},
           alg = "pack" => \A v \in Vehicles : Finish(y.routes[v]) <= ShiftEnd[shift]
    PROVE  SearchInv'
<1>1. PICK w : w = o \ {s}
    OBVIOUS
<1>2. (Stops \ (o \cup l)) \cup {s} = Stops \ (w \cup l) /\ w \cap l = {} /\ w \subseteq Stops
    BY <1>1 DEF Holds
<1>3. IsSolution(y, Stops \ (w \cup l))
    BY <1>2
<1>4. phase' # "build" => IsSolution(c, Stops \ l) /\ IsSolution(b, Stops \ l)
    BY DEF Holds
<1>5. forced' \/ (Permitted(y) /\ (phase' # "build" => Permitted(c) /\ Permitted(b)))
    BY DEF Holds
<1>6. /\ day' = day /\ shift' = shift /\ sol' = y /\ open' = w /\ left' = l /\ cur' = c /\ best' = b
      /\ alg' = "pack" => \A v \in Vehicles : Finish(y.routes[v]) <= ShiftEnd[shift]
    BY <1>1 DEF Holds
<1> QED
    BY <1>2, <1>3, <1>4, <1>5, <1>6, SearchInvNext

\* The stops of the routes changed places, if anything.
LEMMA RoutesChanged ==
    ASSUME NEW x, NEW o, NEW l, NEW c, NEW b, Holds(x, o, l, c, b), NEW y,
           IsSolution(y, Stops \ (o \cup l)), Permitted(x) => Permitted(y), alg # "pack" \/ y = x,
           UNCHANGED <<day, alg, shift, phase, left, open, cur, best, forced>>, SearchTypes', sol' = y
    PROVE  SearchInv'
<1>1. /\ o \cap l = {} /\ o \subseteq Stops
      /\ phase' # "build" => IsSolution(c, Stops \ l) /\ IsSolution(b, Stops \ l)
    BY DEF Holds
<1>2. forced' \/ (Permitted(y) /\ (phase' # "build" => Permitted(c) /\ Permitted(b)))
    BY DEF Holds
<1>3. /\ day' = day /\ shift' = shift /\ sol' = y /\ open' = o /\ left' = l /\ cur' = c /\ best' = b
      /\ alg' = "pack" => \A v \in Vehicles : Finish(y.routes[v]) <= ShiftEnd[shift]
    BY DEF Holds
<1> QED
    BY <1>1, <1>2, <1>3, SearchInvNext

LEMMA PackStopKeeps ==
    ASSUME SearchInv, PackStop
    PROVE  SearchInv'
<1>1. PICK x, o, l, c, b : Holds(x, o, l, c, b)
    BY SearchNow
<1>2. PICK k : /\ k \in Places(x, o)
               /\ Finish(InsertAt(x.routes[k[2]], k[3], k[1])) <= ShiftEnd[shift]
               /\ sol' = Insert(x, k[2], k[3], k[1]) /\ open' = o \ {k[1]}
    BY <1>1 DEF PackStop, Cheapest, Fits, Holds
<1>3. PICK y : y = Insert(x, k[2], k[3], k[1])
    OBVIOUS
<1>4. PICK P : P = Stops \ (o \cup l)
    OBVIOUS
<1>5. day \in DOMAIN Days /\ IsSolution(x, P) /\ o \cap P = {} /\ o \subseteq Stops
    BY <1>1, <1>4 DEF Holds
<1>6. IsSolution(y, P \cup {k[1]}) /\ (Permitted(x) => Permitted(y)) /\ Gains(y, x, k[2], k[3], k[1])
    BY <1>2, <1>3, <1>5, PlaceSolves
<1>7. k[1] \in o
    BY <1>2, <1>5, PlaceFacts
<1>8. alg = "pack" => \A v \in Vehicles : Finish(y.routes[v]) <= ShiftEnd[shift]
    <2>1. ASSUME alg = "pack", NEW v \in Vehicles PROVE Finish(y.routes[v]) <= ShiftEnd[shift]
        <3>1. CASE v = k[2]
            BY <1>2, <1>6, <3>1 DEF Gains
        <3>2. CASE v # k[2]
            BY <1>1, <1>6, <2>1, <3>2 DEF Gains, Alone, Holds
        <3> QED
            BY <3>1, <3>2
    <2> QED
        BY <2>1
<1>9. UNCHANGED <<day, alg, shift, phase, left, cur, best>> /\ (forced => forced')
    BY DEF PackStop
<1>10. SearchTypes'
    BY DEF SearchInv, SearchTypes, PackStop, LocalSteps
<1>11. forced \/ forced' \/ Permitted(y)
    BY <1>1, <1>6 DEF Holds
<1>12. sol' = y /\ open' = o \ {k[1]} /\ IsSolution(y, (Stops \ (o \cup l)) \cup {k[1]})
    BY <1>2, <1>3, <1>4, <1>6
<1> QED
    BY <1>1, <1>7, <1>8, <1>9, <1>10, <1>11, <1>12, StopPlaced

LEMMA NextVehicleKeeps ==
    ASSUME SearchInv, NextVehicle
    PROVE  SearchInv'
<1>1. PICK x, o, l, c, b : Holds(x, o, l, c, b)
    BY SearchNow
<1>2. SearchTypes'
    BY DEF SearchInv, SearchTypes, NextVehicle, LocalSteps
<1>3. PICK p, m : p = open' /\ m = left'
    OBVIOUS
<1>4. (p = o /\ m = l) \/ (p = {} /\ m = o /\ l = {})
    <2>1. left = {} /\ left = l /\ open = o
        BY <1>1 DEF NextVehicle, SearchInv, SearchTypes, Holds
    <2>2. CASE at = Cardinality(Vehicles)
        BY <1>3, <2>1, <2>2 DEF NextVehicle
    <2>3. CASE at # Cardinality(Vehicles)
        BY <1>3, <2>1, <2>3 DEF NextVehicle
    <2> QED
        BY <2>2, <2>3
<1>5. /\ Stops \ (o \cup l) = Stops \ (p \cup m) /\ p \cap m = {} /\ p \subseteq Stops
    BY <1>1, <1>4 DEF Holds
<1>6. IsSolution(x, Stops \ (p \cup m))
    BY <1>1, <1>5 DEF Holds
<1>7. phase' = "build" /\ alg' = alg /\ forced' = forced
    BY DEF NextVehicle, SearchInv, SearchTypes
<1>8. forced' \/ (Permitted(x) /\ (phase' # "build" => Permitted(c) /\ Permitted(b)))
    BY <1>1, <1>7 DEF Holds
<1>9. /\ day' = day /\ shift' = shift /\ sol' = x /\ open' = p /\ left' = m /\ cur' = c /\ best' = b
      /\ alg' = "pack" => \A v \in Vehicles : Finish(x.routes[v]) <= ShiftEnd[shift]
    BY <1>1, <1>3, <1>7 DEF Holds, NextVehicle
<1> QED
    BY <1>2, <1>5, <1>6, <1>7, <1>8, <1>9, SearchInvNext

\* A waiting stop was given up, or was put on a vehicle that can take it.
LEMMA FitFurthestKeeps ==
    ASSUME SearchInv, FitFurthest
    PROVE  SearchInv'
<1>1. PICK x, o, l, c, b : Holds(x, o, l, c, b)
    BY SearchNow
<1>2. PICK s \in o : /\ open' = o \ {s}
                     /\ \/ left' = l \cup {s} /\ sol' = x
                        \/ \E v \in Vehicles : sol' = Append1(x, v, s) /\ CanTake(x, v, s) /\ left' = l
    BY <1>1 DEF FitFurthest, Furthest, BestFit, Holds
<1>3. phase = "build" /\ alg # "pack"
    BY DEF FitFurthest, SearchInv, SearchTypes
<1>4. UNCHANGED <<day, alg, shift, phase, cur, best, forced>>
    BY DEF FitFurthest
<1>5. SearchTypes'
    BY <1>3 DEF SearchInv, SearchTypes, FitFurthest, LocalSteps
<1>6. CASE left' = l \cup {s} /\ sol' = x
    <2>1. PICK p, m : p = o \ {s} /\ m = l \cup {s}
        OBVIOUS
    <2>2. p \cup m = o \cup l /\ p \cap m = {} /\ p \subseteq Stops
        BY <1>1, <2>1 DEF Holds
    <2>3. IsSolution(x, Stops \ (p \cup m))
        BY <1>1, <2>2 DEF Holds
    <2>4. forced' \/ (Permitted(x) /\ (phase' # "build" => Permitted(c) /\ Permitted(b)))
        BY <1>1, <1>4 DEF Holds
    <2>5. day' = day /\ shift' = shift /\ sol' = x /\ open' = p /\ left' = m /\ cur' = c /\ best' = b
        BY <1>1, <1>2, <1>4, <1>6, <2>1 DEF Holds
    <2> QED
        BY <1>3, <1>4, <1>5, <2>2, <2>3, <2>4, <2>5, SearchInvNext
<1>7. ASSUME NEW v \in Vehicles, sol' = Append1(x, v, s), CanTake(x, v, s), left' = l
      PROVE  SearchInv'
    <2>1. PICK y : y = Append1(x, v, s)
        OBVIOUS
    <2>2. PICK P : P = Stops \ (o \cup l)
        OBVIOUS
    <2>3. day \in DOMAIN Days /\ IsSolution(x, P) /\ s \in Stops /\ s \notin P
        BY <1>1, <2>2 DEF Holds
    <2>4. IsSolution(y, P \cup {s}) /\ (Permitted(x) => Permitted(y))
        BY <1>7, <2>1, <2>3, AppendSolves
    <2>5. forced \/ forced' \/ Permitted(y)
        BY <1>1, <2>4 DEF Holds
    <2>6. UNCHANGED <<day, alg, shift, phase, left, cur, best>> /\ (forced => forced')
        BY <1>1, <1>4, <1>7 DEF Holds
    <2>7. IsSolution(y, (Stops \ (o \cup l)) \cup {s}) /\ sol' = y
        BY <1>7, <2>1, <2>2, <2>4
    <2> QED
        BY <1>1, <1>2, <1>3, <1>5, <2>5, <2>6, <2>7, StopPlaced
<1> QED
    BY <1>2, <1>6, <1>7

LEMMA SeedVehicleKeeps ==
    ASSUME SearchInv, SeedVehicle
    PROVE  SearchInv'
<1>1. PICK x, o, l, c, b : Holds(x, o, l, c, b)
    BY SearchNow
<1>2. phase = "build" /\ alg # "pack" /\ at \in Vehicles
    BY DEF SeedVehicle, SearchInv, SearchTypes
<1>3. UNCHANGED <<day, alg, shift, phase, left, cur, best, forced>>
    BY DEF SeedVehicle
<1>4. at' \in Vehicles
    BY <1>2, VehicleFacts DEF SeedVehicle
<1>5. SearchTypes'
    BY <1>2, <1>4 DEF SearchInv, SearchTypes, SeedVehicle, LocalSteps
<1>6. \/ sol' = x /\ open' = o
      \/ \E s \in o : sol' = Append1(x, at, s) /\ CanTake(x, at, s) /\ open' = o \ {s}
    BY <1>1 DEF SeedVehicle, Furthest, Holds
<1>7. CASE sol' = x /\ open' = o
    <2>1. open' = open /\ IsSolution(x, Stops \ (o \cup l))
        BY <1>1, <1>7 DEF Holds
    <2> QED
        BY <1>1, <1>3, <1>5, <1>7, <2>1, RoutesChanged
<1>8. ASSUME NEW s \in o, sol' = Append1(x, at, s), CanTake(x, at, s), open' = o \ {s}
      PROVE  SearchInv'
    <2>1. PICK y, v : y = Append1(x, v, s) /\ v = at
        OBVIOUS
    <2>2. PICK P : P = Stops \ (o \cup l)
        OBVIOUS
    <2>3. day \in DOMAIN Days /\ IsSolution(x, P) /\ s \in Stops /\ s \notin P
        BY <1>1, <2>2 DEF Holds
    <2>4. v \in Vehicles /\ CanTake(x, v, s) /\ sol' = y
        BY <1>2, <1>8, <2>1
    <2>5. IsSolution(y, P \cup {s}) /\ (Permitted(x) => Permitted(y))
        BY <2>1, <2>3, <2>4, AppendSolves
    <2>6. forced \/ forced' \/ Permitted(y)
        BY <1>1, <2>5 DEF Holds
    <2>7. IsSolution(y, (Stops \ (o \cup l)) \cup {s})
        BY <2>2, <2>5
    <2> QED
        BY <1>1, <1>2, <1>3, <1>5, <1>8, <2>4, <2>6, <2>7, StopPlaced
<1> QED
    BY <1>6, <1>7, <1>8

LEMMA InsertCheapestKeeps ==
    ASSUME SearchInv, InsertCheapest
    PROVE  SearchInv'
<1>1. PICK x, o, l, c, b : Holds(x, o, l, c, b)
    BY SearchNow
<1>2. phase = "build" /\ alg # "pack" /\ pc = "insert"
    BY DEF InsertCheapest, SearchInv, SearchTypes
<1>3. UNCHANGED <<day, alg, shift, phase, at, cur, best, forced>>
    BY DEF InsertCheapest
<1>4. CASE Places(sol, open) = {}
    <2>1. pc' = "2opt" /\ left' = l \cup o /\ open' = {} /\ sol' = x
        BY <1>1, <1>4 DEF InsertCheapest, Holds
    <2>2. SearchTypes'
        BY <1>2, <1>3, <2>1 DEF SearchInv, SearchTypes, LocalSteps
    <2>3. PICK p, m : p = {} /\ m = l \cup o
        OBVIOUS
    <2>4. p \cup m = o \cup l /\ p \cap m = {} /\ p \subseteq Stops
        BY <2>3
    <2>5. IsSolution(x, Stops \ (p \cup m))
        BY <1>1, <2>4 DEF Holds
    <2>6. forced' \/ (Permitted(x) /\ (phase' # "build" => Permitted(c) /\ Permitted(b)))
        BY <1>1, <1>3 DEF Holds
    <2>7. day' = day /\ shift' = shift /\ sol' = x /\ open' = p /\ left' = m /\ cur' = c /\ best' = b
        BY <1>1, <1>3, <2>1, <2>3 DEF Holds
    <2> QED
        BY <1>2, <1>3, <2>2, <2>4, <2>5, <2>6, <2>7, SearchInvNext
<1>5. CASE Places(sol, open) # {}
    <2>1. PICK k : /\ k \in Places(x, o) /\ sol' = Insert(x, k[2], k[3], k[1]) /\ open' = o \ {k[1]}
                   /\ pc' = pc /\ left' = left
        BY <1>1, <1>5 DEF InsertCheapest, Cheapest, Holds
    <2>2. SearchTypes'
        BY <1>2, <1>3, <2>1 DEF SearchInv, SearchTypes, LocalSteps
    <2>3. PICK P : P = Stops \ (o \cup l)
        OBVIOUS
    <2>4. day \in DOMAIN Days /\ IsSolution(x, P) /\ o \cap P = {} /\ o \subseteq Stops
        BY <1>1, <2>3 DEF Holds
    <2>5. PICK y : y = Insert(x, k[2], k[3], k[1])
        OBVIOUS
    <2>6. IsSolution(y, P \cup {k[1]}) /\ (Permitted(x) => Permitted(y))
        BY <2>1, <2>4, <2>5, PlaceSolves
    <2>7. k[1] \in o
        BY <2>1, <2>4, PlaceFacts
    <2>8. forced \/ forced' \/ Permitted(y)
        BY <1>1, <2>6 DEF Holds
    <2>9. sol' = y /\ IsSolution(y, (Stops \ (o \cup l)) \cup {k[1]})
        BY <2>1, <2>3, <2>5, <2>6
    <2> QED
        BY <1>1, <1>2, <1>3, <2>1, <2>2, <2>7, <2>8, <2>9, StopPlaced
<1> QED
    BY <1>4, <1>5

LEMMA LocalMoveKeeps ==
    ASSUME SearchInv, LocalMove
    PROVE  SearchInv'
<1>1. PICK x, o, l, c, b : Holds(x, o, l, c, b)
    BY SearchNow
<1>2. pc \in LocalSteps /\ alg # "pack" /\ at \in Vehicles
    BY DEF LocalMove, SearchInv, SearchTypes, LocalSteps
<1>3. PICK v, r : v = at /\ r \in Offers(x.routes[v]) /\ sol' = [x EXCEPT !.routes[v] = r]
    BY <1>1 DEF LocalMove, Holds
<1>4. PICK P : P = Stops \ (o \cup l)
    OBVIOUS
<1>5. IsSolution(x, P)
    BY <1>1, <1>4 DEF Holds
<1>6. PICK y : y = [x EXCEPT !.routes[v] = r]
    OBVIOUS
<1>7. PICK q : q = x.routes[v] /\ q \in Seq(Stops) /\ Once(q)
    BY <1>2, <1>3, <1>5, SolutionFacts
<1>8. r \in Seq(Stops) /\ Once(r) /\ ToSet(r) = ToSet(x.routes[v])
    <2>1. PICK T : T = Stops
        OBVIOUS
    <2>2. r \in Offers(q) /\ q \in Seq(T)
        BY <1>3, <1>7, <2>1
    <2>3. r \in Seq(T) /\ Once(r) /\ ToSet(r) = ToSet(q)
        BY <1>2, <1>7, <2>2, OffersReorder
    <2> QED
        BY <1>7, <2>1, <2>3
<1>9. v \in Vehicles
    BY <1>2, <1>3
<1>10. /\ IsSolution(y, P) /\ y.load = x.load
       /\ \A u \in Vehicles : ToSet(y.routes[u]) = ToSet(x.routes[u])
    BY <1>5, <1>6, <1>8, <1>9, ReorderSolves
<1>11. Permitted(x) => Permitted(y)
    BY <1>10, SamePermits
<1>12. UNCHANGED <<day, alg, shift, phase, pc, at, left, open, cur, best, forced>>
    BY DEF LocalMove
<1>13. SearchTypes'
    BY <1>12 DEF SearchInv, SearchTypes, LocalSteps
<1>14. sol' = y /\ IsSolution(y, Stops \ (o \cup l))
    BY <1>3, <1>4, <1>6, <1>10
<1> QED
    BY <1>1, <1>2, <1>11, <1>12, <1>13, <1>14, RoutesChanged

\* The search goes on with the same solution.
LEMMA SolutionStays ==
    ASSUME SearchInv, SearchTypes',
           UNCHANGED <<day, alg, shift, phase, sol, left, open, cur, best, forced>>
    PROVE  SearchInv'
<1>1. PICK x, o, l, c, b : Holds(x, o, l, c, b)
    BY SearchNow
<1>2. IsSolution(x, Stops \ (o \cup l)) /\ sol' = x
    BY <1>1 DEF Holds
<1> QED
    BY <1>1, <1>2, RoutesChanged

LEMMA LocalNextKeeps ==
    ASSUME SearchInv, LocalNext
    PROVE  SearchInv'
<1>1. UNCHANGED <<day, alg, shift, phase, sol, left, open, cur, best, forced>>
    BY DEF LocalNext
<1>2. pc \in LocalSteps /\ alg # "pack" /\ at \in Vehicles /\ open = {}
    BY DEF LocalNext, SearchInv, SearchTypes, LocalSteps
<1>3. alg \in {"pack", "nn2opt", "lns-sa"} /\ phase \in {"build", "loop", "final", "last"}
    BY DEF SearchInv, SearchTypes
<1>4. \/ NextRoute
      \/ at' = at /\ pc' \in LocalSteps
    BY DEF LocalNext, LocalSteps
<1>5. CASE at' = at /\ pc' \in LocalSteps
    <2>1. SearchTypes'
        BY <1>1, <1>2, <1>3, <1>5 DEF SearchInv, SearchTypes, LocalSteps
    <2> QED
        BY <1>1, <2>1, SolutionStays
<1>6. CASE NextRoute
    <2>1. at' \in Vehicles
        BY <1>2, <1>6, VehicleFacts DEF NextRoute
    <2>2. pc' \in {"2opt", "relocate", "accept", "done"} /\ (pc' = "accept" => phase # "build")
        <3>1. CASE at < Cardinality(Vehicles)
            BY <1>6, <3>1 DEF NextRoute
        <3>2. CASE ~(at < Cardinality(Vehicles)) /\ alg = "nn2opt"
            BY <1>6, <3>2 DEF NextRoute
        <3>3. CASE ~(at < Cardinality(Vehicles)) /\ alg # "nn2opt"
            <4>1. pc' = After[phase]
                BY <1>6, <3>3 DEF NextRoute
            <4>2. After[phase] \in {"relocate", "accept", "done"} /\ After["build"] = "relocate"
                BY <1>3 DEF After
            <4> QED
                BY <4>1, <4>2
        <3> QED
            BY <3>1, <3>2, <3>3
    <2>3. SearchTypes'
        BY <1>1, <1>2, <1>3, <2>1, <2>2 DEF SearchInv, SearchTypes, LocalSteps
    <2> QED
        BY <1>1, <2>3, SolutionStays
<1> QED
    BY <1>4, <1>5, <1>6

LEMMA RelocateKeeps ==
    ASSUME SearchInv, Relocate
    PROVE  SearchInv'
<1>1. PICK x, o, l, c, b : Holds(x, o, l, c, b)
    BY SearchNow
<1>2. UNCHANGED <<day, alg, shift, phase, at, left, open, cur, best, forced>> /\ pc = "relocate"
    BY DEF Relocate
<1>3. pc' \in {"relocate", "swap"} /\ open = {} /\ alg # "pack"
    BY DEF Relocate, SearchInv, SearchTypes, LocalSteps
<1>4. SearchTypes'
    BY <1>2, <1>3 DEF SearchInv, SearchTypes, LocalSteps
<1>5. CASE sol' = sol
    BY <1>2, <1>4, <1>5, SolutionStays
<1>6. CASE sol' \in Relocated
    <2>1. PICK y : y = sol' /\ y \in Relocated
        BY <1>6
    <2>2. PICK P : P = Stops \ (o \cup l)
        OBVIOUS
    <2>3. x = sol /\ IsSolution(x, P) /\ day \in DOMAIN Days
        BY <1>1, <2>2 DEF Holds
    <2>4. IsSolution(y, P) /\ (Permitted(x) => Permitted(y))
        BY <2>1, <2>3, RelocatedSolves
    <2>5. sol' = y /\ IsSolution(y, Stops \ (o \cup l))
        BY <2>1, <2>2, <2>4
    <2> QED
        BY <1>1, <1>2, <1>3, <1>4, <2>4, <2>5, RoutesChanged
<1> QED
    BY <1>5, <1>6 DEF Relocate

LEMMA SwapKeeps ==
    ASSUME SearchInv, Swap
    PROVE  SearchInv'
<1>1. PICK x, o, l, c, b : Holds(x, o, l, c, b)
    BY SearchNow
<1>2. UNCHANGED <<day, alg, shift, at, left, open, forced>> /\ pc = "swap"
    BY DEF Swap
<1>3. open = {} /\ o = {} /\ alg # "pack" /\ phase \in {"build", "loop", "final", "last"}
    BY <1>1, <1>2 DEF SearchInv, SearchTypes, LocalSteps, Holds
<1>4. CASE sol' \in Swapped /\ UNCHANGED <<phase, pc, cur, best>>
    <2>1. PICK y : y = sol' /\ y \in Swapped
        BY <1>4
    <2>2. PICK P : P = Stops \ (o \cup l)
        OBVIOUS
    <2>3. x = sol /\ IsSolution(x, P) /\ day \in DOMAIN Days
        BY <1>1, <2>2 DEF Holds
    <2>4. IsSolution(y, P) /\ (Permitted(x) => Permitted(y))
        BY <2>1, <2>3, SwappedSolves
    <2>5. sol' = y /\ IsSolution(y, Stops \ (o \cup l))
        BY <2>1, <2>2, <2>4
    <2>6. SearchTypes'
        BY <1>2, <1>3, <1>4 DEF SearchInv, SearchTypes, LocalSteps
    <2> QED
        BY <1>1, <1>2, <1>3, <1>4, <2>4, <2>5, <2>6, RoutesChanged
<1>5. CASE sol' = sol /\ phase' = "loop" /\ pc' = "destroy" /\ cur' = sol /\ best' = sol
    <2>1. SearchTypes'
        BY <1>2, <1>3, <1>5 DEF SearchInv, SearchTypes, LocalSteps
    <2>2. IsSolution(x, Stops \ (o \cup l)) /\ o \cap l = {} /\ o \subseteq Stops
        BY <1>1 DEF Holds
    <2>3. IsSolution(x, Stops \ l)
        BY <1>3, <2>2
    <2>4. forced' \/ Permitted(x)
        BY <1>1, <1>2 DEF Holds
    <2>5. day' = day /\ shift' = shift /\ sol' = x /\ open' = o /\ left' = l /\ cur' = x /\ best' = x
        BY <1>1, <1>2, <1>5 DEF Holds
    <2>6. alg' # "pack"
        BY <1>2, <1>3
    <2> QED
        BY <2>1, <2>2, <2>3, <2>4, <2>5, <2>6, SearchInvNext
<1>6. CASE sol' = sol /\ phase # "build" /\ phase' = "last" /\ pc' = "2opt" /\ UNCHANGED <<cur, best>>
    <2>1. SearchTypes'
        BY <1>2, <1>3, <1>6 DEF SearchInv, SearchTypes, LocalSteps
    <2>2. IsSolution(x, Stops \ (o \cup l)) /\ o \cap l = {} /\ o \subseteq Stops
        BY <1>1 DEF Holds
    <2>3. IsSolution(c, Stops \ l) /\ IsSolution(b, Stops \ l)
        BY <1>1, <1>6 DEF Holds
    <2>4. forced' \/ (Permitted(x) /\ Permitted(c) /\ Permitted(b))
        BY <1>1, <1>2, <1>6 DEF Holds
    <2>5. day' = day /\ shift' = shift /\ sol' = x /\ open' = o /\ left' = l /\ cur' = c /\ best' = b
        BY <1>1, <1>2, <1>6 DEF Holds
    <2>6. alg' # "pack"
        BY <1>2, <1>3
    <2> QED
        BY <2>1, <2>2, <2>3, <2>4, <2>5, <2>6, SearchInvNext
<1> QED
    BY <1>4, <1>5, <1>6 DEF Swap

LEMMA DestroyKeeps ==
    ASSUME SearchInv, Destroy
    PROVE  SearchInv'
<1>1. PICK x, o, l, c, b : Holds(x, o, l, c, b)
    BY SearchNow
<1>2. UNCHANGED <<day, alg, shift, phase, at, left, cur, best, forced>> /\ pc = "destroy" /\ pc' = "reinsert"
    BY DEF Destroy
<1>3. phase # "build" /\ alg # "pack"
    BY <1>2 DEF SearchInv, SearchTypes
<1>4. SearchTypes'
    BY <1>2, <1>3 DEF SearchInv, SearchTypes, LocalSteps
<1>5. PICK P : P = Stops \ l
    OBVIOUS
<1>6. day \in DOMAIN Days /\ IsSolution(c, P) /\ IsSolution(b, P) /\ cur = c
    BY <1>1, <1>3, <1>5 DEF Holds
<1>7. forced \/ (Permitted(c) /\ Permitted(b))
    BY <1>1, <1>3 DEF Holds
<1>8. PICK y, p : y = sol' /\ p = open'
    OBVIOUS
<1>9. /\ IsSolution(y, P \ p) /\ p \subseteq P
      /\ Permitted(c) => Permitted(y)
    <2>1. CASE y = c /\ p = {}
        BY <1>6, <2>1
    <2>2. ASSUME NEW R \in SUBSET Placed(c), y = TakeOut(c, R), p = R
          PROVE  IsSolution(y, P \ p) /\ p \subseteq P /\ (Permitted(c) => Permitted(y))
        <3>1. TakesOut(y, c, R)
            BY <2>2 DEF TakesOut
        <3>2. IsSolution(y, P \ R) /\ Lighter(y, c)
            BY <1>6, <3>1, TakeOutSolves
        <3>3. R \subseteq P
            <4>1. \A v \in Vehicles : ToSet(c.routes[v]) \subseteq P
                BY <1>6, SolutionFacts
            <4> QED
                BY <4>1 DEF Placed
        <3>4. Permitted(c) => Permitted(y)
            BY <1>6, <3>2, LessPermits
        <3> QED
            BY <2>2, <3>2, <3>3, <3>4
    <2> QED
        BY <1>6, <1>8, <2>1, <2>2 DEF Destroy, Related
<1>10. Stops \ (p \cup l) = P \ p /\ p \cap l = {} /\ p \subseteq Stops
    BY <1>5, <1>9
<1>11. IsSolution(y, Stops \ (p \cup l)) /\ IsSolution(c, Stops \ l) /\ IsSolution(b, Stops \ l)
    BY <1>5, <1>6, <1>9, <1>10
<1>12. forced' \/ (Permitted(y) /\ Permitted(c) /\ Permitted(b))
    BY <1>2, <1>7, <1>9
<1>13. day' = day /\ shift' = shift /\ sol' = y /\ open' = p /\ left' = l /\ cur' = c /\ best' = b
    BY <1>1, <1>2, <1>8 DEF Holds
<1>14. alg' # "pack"
    BY <1>2, <1>3
<1> QED
    BY <1>4, <1>10, <1>11, <1>12, <1>13, <1>14, SearchInvNext

LEMMA ReinsertKeeps ==
    ASSUME SearchInv, Reinsert
    PROVE  SearchInv'
<1>1. PICK x, o, l, c, b : Holds(x, o, l, c, b)
    BY SearchNow
<1>2. UNCHANGED <<day, alg, shift, phase, at, left, cur, best>> /\ pc = "reinsert"
    BY DEF Reinsert
<1>3. phase # "build" /\ alg # "pack"
    BY <1>2 DEF SearchInv, SearchTypes
<1>4. PICK P : P = Stops \ (o \cup l)
    OBVIOUS
<1>5. /\ day \in DOMAIN Days /\ IsSolution(x, P) /\ o \cap P = {} /\ o \subseteq Stops
      /\ sol = x /\ open = o
    BY <1>1, <1>4 DEF Holds
<1>6. CASE open = {} /\ pc' = "2opt" /\ UNCHANGED <<sol, open, forced>>
    <2>1. SearchTypes'
        BY <1>2, <1>3, <1>6 DEF SearchInv, SearchTypes, LocalSteps
    <2> QED
        BY <1>2, <1>6, <2>1, SolutionStays
<1>7. ASSUME NEW k \in Places(x, o), sol' = Insert(x, k[2], k[3], k[1]), open' = o \ {k[1]},
             UNCHANGED <<pc, forced>>
      PROVE  SearchInv'
    <2>1. SearchTypes'
        BY <1>2, <1>3, <1>7 DEF SearchInv, SearchTypes, LocalSteps
    <2>2. PICK y : y = Insert(x, k[2], k[3], k[1])
        OBVIOUS
    <2>3. IsSolution(y, P \cup {k[1]}) /\ (Permitted(x) => Permitted(y))
        BY <1>5, <2>2, PlaceSolves
    <2>4. k[1] \in o
        BY <1>5, PlaceFacts
    <2>5. forced \/ forced' \/ Permitted(y)
        BY <1>1, <2>3 DEF Holds
    <2>6. sol' = y /\ IsSolution(y, (Stops \ (o \cup l)) \cup {k[1]})
        BY <1>4, <1>7, <2>2, <2>3
    <2> QED
        BY <1>1, <1>2, <1>3, <1>7, <2>1, <2>4, <2>5, <2>6, StopPlaced
<1>8. ASSUME NEW s \in o, NEW v \in Vehicles, sol' = Append1(x, v, s), open' = o \ {s},
             forced' = TRUE, pc' = pc
      PROVE  SearchInv'
    <2>1. SearchTypes'
        BY <1>2, <1>3, <1>8 DEF SearchInv, SearchTypes, LocalSteps
    <2>2. PICK y : y = Append1(x, v, s)
        OBVIOUS
    <2>3. s \in Stops /\ s \notin P
        BY <1>5
    <2>4. IsSolution(y, P \cup {s})
        BY <1>5, <2>2, <2>3, AppendSolves
    <2>5. sol' = y /\ IsSolution(y, (Stops \ (o \cup l)) \cup {s})
        BY <1>4, <1>8, <2>2, <2>4
    <2> QED
        BY <1>1, <1>2, <1>3, <1>8, <2>1, <2>5, StopPlaced
<1> QED
    BY <1>5, <1>6, <1>7, <1>8 DEF Reinsert, Cheapest, LeastLoaded

LEMMA AcceptKeeps ==
    ASSUME SearchInv, Accept
    PROVE  SearchInv'
<1>1. PICK x, o, l, c, b : Holds(x, o, l, c, b)
    BY SearchNow
<1>2. UNCHANGED <<day, alg, shift, phase, at, sol, open, left, forced>> /\ pc = "accept" /\ pc' = "destroy"
    BY DEF Accept
<1>3. phase # "build" /\ alg # "pack" /\ open = {} /\ o = {}
    BY <1>1, <1>2 DEF SearchInv, SearchTypes, LocalSteps, Holds
<1>4. SearchTypes'
    BY <1>2, <1>3 DEF SearchInv, SearchTypes, LocalSteps
<1>5. PICK d, e : d = cur' /\ e = best' /\ d \in {x, c} /\ e \in {x, b}
    BY <1>1 DEF Accept, Holds
<1>6. IsSolution(x, Stops \ (o \cup l)) /\ o \cap l = {} /\ o \subseteq Stops
    BY <1>1 DEF Holds
<1>7. IsSolution(x, Stops \ l)
    BY <1>3, <1>6
<1>8. IsSolution(d, Stops \ l) /\ IsSolution(e, Stops \ l)
    BY <1>1, <1>3, <1>5, <1>7 DEF Holds
<1>9. forced' \/ (Permitted(x) /\ Permitted(d) /\ Permitted(e))
    BY <1>1, <1>2, <1>3, <1>5 DEF Holds
<1>10. day' = day /\ shift' = shift /\ sol' = x /\ open' = o /\ left' = l /\ cur' = d /\ best' = e
    BY <1>1, <1>2, <1>5 DEF Holds
<1>11. alg' # "pack"
    BY <1>2, <1>3
<1> QED
    BY <1>4, <1>6, <1>8, <1>9, <1>10, <1>11, SearchInvNext

LEMMA IntensifyKeeps ==
    ASSUME SearchInv, Intensify
    PROVE  SearchInv'
<1>1. PICK x, o, l, c, b : Holds(x, o, l, c, b)
    BY SearchNow
<1>2. /\ UNCHANGED <<day, alg, shift, at, open, left, cur, best, forced>>
      /\ pc = "destroy" /\ pc' = "2opt" /\ phase' = "final" /\ sol' = best
    BY DEF Intensify
<1>3. phase # "build" /\ alg # "pack" /\ open = {} /\ o = {}
    BY <1>1, <1>2 DEF SearchInv, SearchTypes, LocalSteps, Holds
<1>4. SearchTypes'
    BY <1>2, <1>3 DEF SearchInv, SearchTypes, LocalSteps
<1>5. IsSolution(c, Stops \ l) /\ IsSolution(b, Stops \ l) /\ o \cap l = {} /\ o \subseteq Stops
    BY <1>1, <1>3 DEF Holds
<1>6. IsSolution(b, Stops \ (o \cup l))
    BY <1>3, <1>5
<1>7. forced' \/ (Permitted(c) /\ Permitted(b))
    BY <1>1, <1>2, <1>3 DEF Holds
<1>8. day' = day /\ shift' = shift /\ sol' = b /\ open' = o /\ left' = l /\ cur' = c /\ best' = b
    BY <1>1, <1>2 DEF Holds
<1>9. alg' # "pack"
    BY <1>2, <1>3
<1> QED
    BY <1>4, <1>5, <1>6, <1>7, <1>8, <1>9, SearchInvNext

LEMMA SearchStep ==
    ASSUME SearchInv, SearchNext
    PROVE  SearchInv'
    BY PackStopKeeps, NextVehicleKeeps, FitFurthestKeeps, SeedVehicleKeeps, InsertCheapestKeeps,
       LocalMoveKeeps, LocalNextKeeps, RelocateKeeps, SwapKeeps, DestroyKeeps, ReinsertKeeps,
       AcceptKeeps, IntensifyKeeps DEF SearchNext

LEMMA SearchStays ==
    ASSUME SearchInv, UNCHANGED search
    PROVE  SearchInv'
<1>1. UNCHANGED <<day, alg, shift, phase, pc, at, sol, left, open, cur, best, forced>>
    BY DEF search
<1>2. SearchTypes'
    BY <1>1 DEF SearchInv, SearchTypes, LocalSteps
<1> QED
    BY <1>1, <1>2, SolutionStays

\* Empty routes carry no stop.
LEMMA NoRoutesCarry ==
    ASSUME NEW x, x = [v \in Vehicles |-> <<>>]
    PROVE  Carries(x, {})
<1>1. PICK T : T = Stops
    OBVIOUS
<1>2. <<>> \in Seq(T) /\ ToSet(<<>>) = {} /\ Once(<<>>)
    BY NothingIn
<1>3. x \in [Vehicles -> Seq(Stops)]
    BY <1>1, <1>2
<1>4. \A v \in Vehicles : x[v] = <<>>
    OBVIOUS
<1>5. \A v \in Vehicles : ToSet(x[v]) = {} /\ Once(x[v])
    BY <1>2, <1>4
<1> QED
    BY <1>3, <1>5 DEF Carries

LEMMA SearchStarts ==
    ASSUME SearchInit
    PROVE  SearchInv
<1>1. PICK x : x = sol /\ x = Empty
    BY DEF SearchInit
<1>2. /\ open = Stops /\ left = {} /\ phase = "build" /\ day \in DOMAIN Days /\ shift \in DOMAIN ShiftStart
      /\ forced = FALSE
    BY DEF SearchInit
<1>3. SearchTypes
    BY VehicleFacts DEF SearchInit, SearchTypes, LocalSteps
<1>4. x = [routes |-> x.routes, load |-> x.load]
    BY <1>1 DEF Empty
<1>5. /\ x.routes = [v \in Vehicles |-> <<>>]
      /\ x.load = [v \in Vehicles |-> [weight |-> 0, volume |-> 0]]
    BY <1>1 DEF Empty
<1>6. \A v \in Vehicles : x.routes[v] = <<>> /\ x.load[v].weight = 0 /\ x.load[v].volume = 0
    BY <1>5
<1>7. Carries(x.routes, {})
    BY <1>5, NoRoutesCarry
<1>8. ToSet(<<>>) = {}
    BY NothingIn
<1>9. Weighed(x)
    <2>1. PICK W, V : W = Weight /\ V = Volume /\ W \in Seq(Nat) /\ V \in Seq(Nat)
        BY <1>2, DayFacts
    <2>2. SumOf(W, {}) = 0 /\ SumOf(V, {}) = 0
        BY <2>1, SumOfNone
    <2> QED
        BY <1>6, <1>8, <2>1, <2>2 DEF Weighed
<1>10. IsSolution(x, {})
    BY <1>4, <1>5, <1>7, <1>9 DEF IsSolution
<1>11. IsSolution(sol, Stops \ (open \cup left))
    <2>1. Stops \ (open \cup left) = {}
        BY <1>2
    <2> QED
        BY <1>1, <1>10, <2>1 DEF IsSolution, Carries, Weighed
<1>12. Permitted(x)
    <2>1. ASSUME NEW v \in Vehicles PROVE Allowed(v, ToSet(x.routes[v]))
        BY <1>6, <1>8 DEF Allowed
    <2>2. \A v \in Vehicles : MaxWeight[v] > 0 => x.load[v].weight <= MaxWeight[v]
        BY <1>2, <1>6, DayFacts
    <2> QED
        BY <2>1, <2>2 DEF Permitted
<1>13. Permitted(sol)
    BY <1>1, <1>12 DEF Permitted
<1>14. \A v \in Vehicles : Finish(sol.routes[v]) <= ShiftEnd[shift]
    <2>1. ASSUME NEW v \in Vehicles PROVE Finish(sol.routes[v]) <= ShiftEnd[shift]
        <3>1. Finish(sol.routes[v]) = ShiftStart[shift]
            BY <1>1, <1>6 DEF Finish, FinishOf
        <3> QED
            BY <1>2, <3>1, ShiftAssumption
    <2> QED
        BY <2>1
<1> QED
    BY <1>2, <1>3, <1>11, <1>13, <1>14 DEF SearchInv

-----------------------------------------------------------------------------
(* What the invariant says of the properties.                              *)

LEMMA ShortRoute ==
    ASSUME NEW n \in Nat, NEW r \in Seq(1 .. n), Once(r)
    PROVE  Len(r) <= n
<1>1. PICK m \in Nat : m = Len(r) /\ DOMAIN r = 1 .. m
    BY LenProperties
<1>2. r \in [1 .. m -> 1 .. n]
    BY <1>1, LenProperties
<1>3. r \in Injection(1 .. m, 1 .. n)
    BY <1>1, <1>2 DEF Injection, IsInjective, Once
<1>4. /\ IsFiniteSet(1 .. n) /\ Cardinality(1 .. n) = n
      /\ IsFiniteSet(1 .. m) /\ Cardinality(1 .. m) = m
    BY FS_Interval
<1>5. Cardinality(1 .. m) <= Cardinality(1 .. n)
    BY <1>3, <1>4, FS_Injection
<1> QED
    BY <1>1, <1>4, <1>5

\* Where a stop is: on one place of one vehicle, or nowhere.
LEMMA OnePlace ==
    ASSUME day \in DOMAIN Days, NEW x, NEW P, Carries(x, P), P \subseteq Stops, NEW s \in Stops
    PROVE  Cardinality({p \in Vehicles \X (1 .. Cardinality(Stops)) : At(x[p[1]], p[2]) = s})
               = IF s \in P THEN 1 ELSE 0
<1>1. PICK n \in Nat : n = Cardinality(Stops) /\ Stops = 1 .. n
    BY StopFacts
<1>2. PICK C : C = {p \in Vehicles \X (1 .. n) : At(x[p[1]], p[2]) = s}
    OBVIOUS
<1>3. ASSUME NEW v \in Vehicles
      PROVE  /\ Len(x[v]) \in Nat /\ Len(x[v]) <= n /\ DOMAIN x[v] = 1 .. Len(x[v])
             /\ Once(x[v]) /\ ToSet(x[v]) \subseteq P
    <2>1. PICK r : r = x[v] /\ r \in Seq(Stops) /\ Once(r) /\ ToSet(r) \subseteq P
        BY RouteOf
    <2>2. Len(r) <= n
        BY <1>1, <2>1, ShortRoute
    <2>3. Len(r) \in Nat /\ DOMAIN r = 1 .. Len(r)
        BY <2>1, LenProperties
    <2> QED
        BY <2>1, <2>2, <2>3
<1>4. ASSUME NEW v \in Vehicles, NEW i \in 1 .. n, At(x[v], i) = s
      PROVE  i \in DOMAIN x[v] /\ x[v][i] = s /\ s \in ToSet(x[v]) /\ s \in P
    <2>1. i \in DOMAIN x[v] /\ x[v][i] = s
        BY <1>1, <1>4 DEF At, Depot
    <2> QED
        BY <1>3, <2>1 DEF ToSet
<1>5. CASE s \in P
    <2>1. PICK v \in Vehicles : s \in ToSet(x[v])
        BY <1>5 DEF Carries
    <2>2. PICK i \in DOMAIN x[v] : x[v][i] = s
        BY <2>1 DEF ToSet
    <2>3. i \in 1 .. n
        BY <1>3, <2>2
    <2>4. PICK c : c = <<v, i>>
        OBVIOUS
    <2>5. c \in C
        BY <1>2, <2>2, <2>3, <2>4 DEF At
    <2>6. ASSUME NEW p \in C PROVE p = c
        <3>1. PICK w \in Vehicles, j \in 1 .. n : p = <<w, j>> /\ At(x[w], j) = s
            BY <1>2
        <3>2. j \in DOMAIN x[w] /\ x[w][j] = s /\ s \in ToSet(x[w])
            BY <1>4, <3>1
        <3>3. w = v
            BY <2>1, <3>2 DEF Carries
        <3>4. j = i
            BY <1>3, <2>2, <3>2, <3>3 DEF Once
        <3> QED
            BY <2>4, <3>1, <3>3, <3>4
    <2>7. C = {c}
        BY <2>5, <2>6
    <2>8. Cardinality(C) = 1
        BY <2>7, FS_Singleton
    <2> QED
        BY <1>1, <1>2, <1>5, <2>8
<1>6. CASE s \notin P
    <2>1. ASSUME NEW p \in C PROVE FALSE
        <3>1. PICK w \in Vehicles, j \in 1 .. n : p = <<w, j>> /\ At(x[w], j) = s
            BY <1>2
        <3> QED
            BY <1>4, <1>6, <3>1
    <2>2. C = {}
        BY <2>1
    <2>3. Cardinality(C) = 0
        BY <2>2, FS_EmptySet
    <2> QED
        BY <1>1, <1>2, <1>6, <2>3
<1> QED
    BY <1>5, <1>6

LEMMA SearchIsSound ==
    ASSUME SearchInv
    PROVE  StopsAreKept /\ VehiclesAgree
<1>1. PICK x, o, l, c, b : Holds(x, o, l, c, b)
    BY SearchNow
<1>2. PICK P, f : P = Stops \ (o \cup l) /\ f = x.routes
    OBVIOUS
<1>3. day \in DOMAIN Days /\ IsSolution(x, P) /\ o \cap l = {} /\ sol = x /\ open = o /\ left = l
    BY <1>1, <1>2 DEF Holds
<1>4. Carries(f, P) /\ P \subseteq Stops /\ Weighed(x)
    BY <1>2, <1>3 DEF IsSolution
<1>5. ASSUME NEW s \in Stops
      PROVE  Cardinality({p \in Vehicles \X (1 .. Cardinality(Stops)) : At(sol.routes[p[1]], p[2]) = s})
                 = IF s \in open \cup left THEN 0 ELSE 1
    <2>1. Cardinality({p \in Vehicles \X (1 .. Cardinality(Stops)) : At(f[p[1]], p[2]) = s})
              = IF s \in P THEN 1 ELSE 0
        BY <1>3, <1>4, OnePlace
    <2>2. s \in P <=> s \notin open \cup left
        BY <1>2, <1>3
    <2>3. f = sol.routes
        BY <1>2, <1>3
    <2> QED
        BY <2>1, <2>2, <2>3
<1>6. \A v \in Vehicles : /\ sol.load[v].weight = SumOf(Weight, ToSet(sol.routes[v]))
                          /\ sol.load[v].volume = SumOf(Volume, ToSet(sol.routes[v]))
    BY <1>3, <1>4 DEF Weighed
<1>7. StopsAreKept
    BY <1>3, <1>5, <1>6 DEF StopsAreKept
<1>8. forced \/ Permitted(sol)
    BY <1>1, <1>3 DEF Holds
<1>9. VehiclesAgree
    BY <1>8 DEF SearchInv, Permitted, Allowed, VehiclesAgree
<1> QED
    BY <1>7, <1>9

\* In every step of the backend's heuristics each stop is on one vehicle, waiting or given
\* up, and the loads kept are the sums over the routes.
THEOREM StopsStayKept == SearchSpec => []StopsAreKept
<1>1. SearchInit => SearchInv
    BY SearchStarts
<1>2. SearchInv /\ [SearchNext]_search => SearchInv'
    BY SearchStep, SearchStays
<1>3. SearchInv => StopsAreKept
    BY SearchIsSound
<1> QED
    BY <1>1, <1>2, <1>3, PTL DEF SearchSpec

\* No vehicle carries what it may not, unless a reinsertion had to be forced; the packers'
\* routes are home before the shift ends.
THEOREM VehiclesStayWithinLimits == SearchSpec => []VehiclesAgree
<1>1. SearchInit => SearchInv
    BY SearchStarts
<1>2. SearchInv /\ [SearchNext]_search => SearchInv'
    BY SearchStep, SearchStays
<1>3. SearchInv => VehiclesAgree
    BY SearchIsSound
<1> QED
    BY <1>1, <1>2, <1>3, PTL DEF SearchSpec

-----------------------------------------------------------------------------
(* The optimizer service.                                                  *)

\* Its invariant, with names for the values of the variables.
Held(i, o, p, q, c, f) ==
    /\ ind = i /\ out = o /\ pop = p /\ fresh = q /\ current = c /\ found = f
    /\ day \in DOMAIN Days
    /\ Carries(i, Stops \ o) /\ o \subseteq Stops
    /\ \A m \in p \cup q : Carries(m.routes, Stops)
    /\ HasFound => Carries(f, Stops)
    /\ HasCurrent => Carries(c, Stops)

LEMMA ServiceNow ==
    ASSUME ServiceInv
    PROVE  \E i, o, p, q, c, f : Held(i, o, p, q, c, f)
<1>1. PICK i, o, p, q, c, f : /\ i = ind /\ o = out /\ p = pop /\ q = fresh
                              /\ c = current /\ f = found
    OBVIOUS
<1>2. Carries(i, Stops \ o) /\ o \subseteq Stops
    BY <1>1 DEF ServiceInv, Carries
<1>3. \A m \in p \cup q : Carries(m.routes, Stops)
    BY <1>1 DEF ServiceInv
<1>4. HasFound => Carries(f, Stops)
    BY <1>1 DEF ServiceInv, Carries
<1>5. HasCurrent => Carries(c, Stops)
    BY <1>1 DEF ServiceInv, Carries
<1>6. Held(i, o, p, q, c, f)
    BY <1>1, <1>2, <1>3, <1>4, <1>5 DEF Held, ServiceInv
<1> QED
    BY <1>6

LEMMA ServiceInvNext ==
    ASSUME day' = day, day \in DOMAIN Days, ServiceSteps',
           NEW i, NEW o, NEW p, NEW q, NEW c, NEW f,
           ind' = i, out' = o, pop' = p, fresh' = q, current' = c, found' = f,
           Carries(i, Stops \ o), o \subseteq Stops, \A m \in p \cup q : Carries(m.routes, Stops),
           HasFound' => Carries(f, Stops), HasCurrent' => Carries(c, Stops)
    PROVE  ServiceInv'
<1>1. PICK S : S = Stops /\ Stops' = S
    BY SameDay
<1>2. Carries(ind, Stops \ out)'
    <2>1. PICK P : P = S \ o
        OBVIOUS
    <2>2. Carries(i, P)'
        BY <1>1, <2>1, CarriesNext
    <2> QED
        BY <1>1, <2>1, <2>2 DEF Carries
<1>3. (\A m \in pop \cup fresh : Carries(m.routes, Stops))'
    <2>1. \A m \in p \cup q : Carries(m.routes, S)'
        BY <1>1, CarriesNext
    <2> QED
        BY <1>1, <2>1 DEF Carries
<1>4. HasFound' => Carries(found, Stops)'
    <2>1. HasFound' => Carries(f, S)'
        BY <1>1, CarriesNext
    <2> QED
        BY <1>1, <2>1 DEF Carries
<1>5. HasCurrent' => Carries(current, Stops)'
    <2>1. HasCurrent' => Carries(c, S)'
        BY <1>1, CarriesNext
    <2> QED
        BY <1>1, <2>1 DEF Carries
<1> QED
    BY <1>1, <1>2, <1>3, <1>4, <1>5 DEF ServiceInv

\* Only the individual being built changes.
LEMMA IndividualChanged ==
    ASSUME ServiceInv, UNCHANGED <<day, pop, fresh, current, found>>, ServiceSteps',
           NEW i, NEW o, ind' = i, out' = o, Carries(i, Stops \ o), o \subseteq Stops,
           HasFound' => HasFound, HasCurrent' => HasCurrent
    PROVE  ServiceInv'
<1>1. PICK j, w, p, q, c, f : Held(j, w, p, q, c, f)
    BY ServiceNow
<1>2. /\ day \in DOMAIN Days /\ pop' = p /\ fresh' = q /\ current' = c /\ found' = f
      /\ \A m \in p \cup q : Carries(m.routes, Stops)
      /\ HasFound' => Carries(f, Stops)
      /\ HasCurrent' => Carries(c, Stops)
    BY <1>1 DEF Held
<1> QED
    BY <1>2, ServiceInvNext

LEMMA IndividualStays ==
    ASSUME ServiceInv, UNCHANGED <<day, ind, out, pop, fresh, current, found>>, ServiceSteps',
           HasFound' => HasFound, HasCurrent' => HasCurrent
    PROVE  ServiceInv'
<1>1. PICK j, w, p, q, c, f : Held(j, w, p, q, c, f)
    BY ServiceNow
<1>2. ind' = j /\ out' = w /\ Carries(j, Stops \ w) /\ w \subseteq Stops
    BY <1>1 DEF Held
<1> QED
    BY <1>2, IndividualChanged

\* What Placing leads to.
LEMMA StopIsPlaced ==
    ASSUME ServiceInv, NEW k, Placing(k), NEW v \in Vehicles, NEW s \in out,
           k[1] = s, k[2] = v, k[3] \in Nat, 1 <= k[3], k[3] <= Len(ind[v]) + 1,
           UNCHANGED <<day, pop, fresh, current, found>>, ServiceSteps',
           HasFound' => HasFound, HasCurrent' => HasCurrent
    PROVE  ServiceInv'
<1>1. PICK j, w, p, q, c, f : Held(j, w, p, q, c, f)
    BY ServiceNow
<1>2. PICK n : n = k[3] /\ n \in Nat /\ 1 <= n /\ n <= Len(j[v]) + 1
    BY <1>1 DEF Held
<1>3. PICK P : P = Stops \ w
    OBVIOUS
<1>4. Carries(j, P) /\ s \in Stops /\ s \in w /\ s \notin P
    BY <1>1, <1>3 DEF Held
<1>5. PICK m \in Nat : m = Len(j[v])
    BY <1>4, RouteOf, LenProperties
<1>6. n \in 1 .. Len(j[v]) + 1
    BY <1>2, <1>5
<1>7. PICK i, o : i = PutIn(j, v, n, s) /\ o = w \ {s}
    OBVIOUS
<1>8. PutsIn(i, j, v, n, s)
    BY <1>7 DEF PutsIn, PutIn
<1>9. Carries(i, P \cup {s})
    BY <1>4, <1>6, <1>8, PutInCarries
<1>10. P \cup {s} = Stops \ o /\ o \subseteq Stops
    BY <1>1, <1>3, <1>4, <1>7 DEF Held
<1>11. ind' = i /\ out' = o
    BY <1>1, <1>2, <1>7 DEF Held, Placing
<1>12. Carries(i, Stops \ o)
    BY <1>9, <1>10
<1> QED
    BY <1>10, <1>11, <1>12, IndividualChanged

LEMMA SlotFacts ==
    ASSUME ServiceInv, NEW S, NEW k \in Slots(ind, S)
    PROVE  /\ k[1] \in S /\ k[2] \in Vehicles /\ k[3] \in Nat /\ 1 <= k[3]
           /\ k[3] <= Len(ind[k[2]]) + 1
<1>1. PICK n \in Nat : n = Cardinality(Stops)
    BY StopFacts DEF ServiceInv
<1>2. k \in S \X Vehicles \X (1 .. n)
    BY <1>1 DEF Slots
<1>3. k[1] \in S /\ k[2] \in Vehicles /\ k[3] \in 1 .. n
    BY <1>2
<1> QED
    BY <1>3 DEF Slots

LEMMA PlacedAtEnd ==
    ASSUME ServiceInv, NEW v \in Vehicles, NEW s \in out, Placing(AtEnd(v, s)),
           UNCHANGED <<day, pop, fresh, current, found>>, ServiceSteps',
           HasFound' => HasFound, HasCurrent' => HasCurrent
    PROVE  ServiceInv'
<1>1. PICK j, w, p, q, c, f : Held(j, w, p, q, c, f)
    BY ServiceNow
<1>2. PICK n \in Nat : n = Len(j[v])
    BY <1>1, RouteOf, LenProperties DEF Held
<1>3. PICK k : k = <<s, v, n + 1>>
    OBVIOUS
<1>4. k = AtEnd(v, s) /\ n = Len(ind[v])
    BY <1>1, <1>2, <1>3 DEF AtEnd, Held
<1>5. Placing(k)
    BY <1>4 DEF Placing
<1>6. k[1] = s /\ k[2] = v /\ k[3] \in Nat /\ 1 <= k[3] /\ k[3] <= Len(ind[v]) + 1
    BY <1>3, <1>4
<1> QED
    BY <1>5, <1>6, StopIsPlaced

LEMMA PlacedInSlot ==
    ASSUME ServiceInv, NEW S, S \subseteq out, NEW k \in Slots(ind, S), Placing(k),
           UNCHANGED <<day, pop, fresh, current, found>>, ServiceSteps',
           HasFound' => HasFound, HasCurrent' => HasCurrent
    PROVE  ServiceInv'
<1>1. PICK v, s : v = k[2] /\ s = k[1]
    OBVIOUS
<1>2. s \in out /\ v \in Vehicles /\ k[3] \in Nat /\ 1 <= k[3] /\ k[3] <= Len(ind[v]) + 1
    BY <1>1, SlotFacts
<1> QED
    BY <1>1, <1>2, StopIsPlaced

LEMMA ReorderCarries ==
    ASSUME NEW x, NEW P, Carries(x, P), NEW v \in Vehicles, NEW r \in Seq(Stops), Once(r),
           ToSet(r) = ToSet(x[v]), NEW y, y = [x EXCEPT ![v] = r]
    PROVE  Carries(y, P)
<1>1. /\ {} \cap P = {} /\ {} \subseteq ToSet(x[v]) /\ {} \subseteq Stops
      /\ ToSet(r) = (ToSet(x[v]) \ {}) \cup {}
    OBVIOUS
<1>2. Carries(y, (P \ {}) \cup {})
    BY <1>1, Rerouted
<1>3. (P \ {}) \cup {} = P
    OBVIOUS
<1> QED
    BY <1>2, <1>3

\* A stop goes to a place of another route.
LEMMA ElsewhereCarries ==
    ASSUME day \in DOMAIN Days, NEW x, x = ind, NEW P, Carries(x, P), P \subseteq Stops,
           NEW v \in Vehicles, NEW i \in DOMAIN x[v], NEW y \in Elsewhere(v, i)
    PROVE  Carries(y, P)
<1>1. PICK r : r = x[v] /\ r \in Seq(Stops) /\ Once(r) /\ ToSet(r) \subseteq P
    BY RouteOf
<1>2. PICK q : q = RemoveAt(r, i)
    OBVIOUS
<1>3. PICK s : s = r[i]
    OBVIOUS
<1>4. i \in 1 .. Len(r)
    BY <1>1, LenProperties
<1>5. q \in Seq(Stops) /\ Once(q) /\ ToSet(q) = ToSet(r) \ {s} /\ s \in ToSet(r) /\ s \in Stops
    <2>1. PICK T : T = Stops
        OBVIOUS
    <2> QED
        BY <1>1, <1>2, <1>3, <1>4, <2>1, Removal
<1>6. PICK z : z = [x EXCEPT ![v] = q]
    OBVIOUS
<1>7. Carries(z, (P \ {s}) \cup {})
    <2>1. /\ {} \cap P = {} /\ {s} \subseteq ToSet(x[v]) /\ {} \subseteq Stops
          /\ ToSet(q) = (ToSet(x[v]) \ {s}) \cup {}
        BY <1>1, <1>5
    <2> QED
        BY <1>5, <1>6, <2>1, Rerouted
<1>8. PICK Q : Q = P \ {s}
    OBVIOUS
<1>9. Carries(z, Q) /\ s \notin Q /\ Q \cup {s} = P
    <2>1. (P \ {s}) \cup {} = Q
        BY <1>8
    <2> QED
        BY <1>1, <1>5, <1>7, <1>8, <2>1
<1>10. PICK k \in Slots(z, {s}) : y = PutIn(z, k[2], k[3], s)
    BY <1>1, <1>2, <1>3, <1>6 DEF Elsewhere
<1>11. PICK n \in Nat : n = Cardinality(Stops)
    BY StopFacts
<1>12. k \in {s} \X Vehicles \X (1 .. n) /\ k[3] <= Len(z[k[2]]) + 1
    BY <1>10, <1>11 DEF Slots
<1>13. PICK w, p : w = k[2] /\ p = k[3]
    OBVIOUS
<1>14. w \in Vehicles /\ p \in 1 .. n /\ p <= Len(z[w]) + 1
    BY <1>12, <1>13
<1>15. PICK m \in Nat : m = Len(z[w])
    BY <1>9, <1>14, RouteOf, LenProperties
<1>16. p \in 1 .. Len(z[w]) + 1
    BY <1>14, <1>15
<1>17. PutsIn(y, z, w, p, s)
    BY <1>10, <1>13 DEF PutsIn, PutIn
<1>18. Carries(y, Q \cup {s})
    BY <1>5, <1>9, <1>14, <1>16, <1>17, PutInCarries
<1> QED
    BY <1>9, <1>18

Other(a, b, s) == IF s = a THEN b ELSE IF s = b THEN a ELSE s

\* a and b trade places in a route.
LEMMA Traded ==
    ASSUME NEW T, NEW r \in Seq(T), Once(r), NEW a \in T, NEW b \in T,
           NEW q, q = [i \in DOMAIN r |-> Other(a, b, r[i])]
    PROVE  q \in Seq(T) /\ Once(q) /\ \A s : s \in ToSet(q) <=> Other(a, b, s) \in ToSet(r)
<1>1. PICK N \in Nat : N = Len(r) /\ DOMAIN r = 1 .. N
    BY LenProperties
<1>2. /\ DOMAIN q = 1 .. N /\ q = [i \in 1 .. N |-> Other(a, b, r[i])]
      /\ \A i \in 1 .. N : q[i] = Other(a, b, r[i]) /\ r[i] \in T
    BY <1>1, ElementOfSeq
<1>3. \A s \in T : Other(a, b, s) \in T
    BY DEF Other
<1>4. q \in Seq(T)
    BY <1>2, <1>3
<1>5. \A s, t : Other(a, b, s) = t <=> s = Other(a, b, t)
    BY DEF Other
<1>6. Once(q)
    <2>1. ASSUME NEW i \in 1 .. N, NEW j \in 1 .. N, q[i] = q[j] PROVE i = j
        <3>1. PICK k, m : k = r[i] /\ m = r[j]
            OBVIOUS
        <3>2. Other(a, b, k) = Other(a, b, m)
            BY <1>2, <2>1, <3>1
        <3>3. k = m
            BY <3>2 DEF Other
        <3> QED
            BY <1>1, <3>1, <3>3 DEF Once
    <2> QED
        BY <1>2, <2>1 DEF Once
<1>7. ASSUME NEW s PROVE s \in ToSet(q) <=> Other(a, b, s) \in ToSet(r)
    <2>1. s \in ToSet(q) <=> \E i \in 1 .. N : q[i] = s
        BY <1>2 DEF ToSet
    <2>2. PICK t : t = Other(a, b, s)
        OBVIOUS
    <2>3. t \in ToSet(r) <=> \E i \in 1 .. N : r[i] = t
        BY <1>1 DEF ToSet
    <2>4. \A i \in 1 .. N : q[i] = s <=> r[i] = t
        BY <1>2, <1>5, <2>2
    <2> QED
        BY <2>1, <2>2, <2>3, <2>4
<1> QED
    BY <1>4, <1>6, <1>7

LEMMA ExchangedCarries ==
    ASSUME NEW x, x = ind, Carries(x, Stops), NEW a \in Stops, NEW b \in Stops,
           NEW y, y = Exchanged(a, b)
    PROVE  Carries(y, Stops)
<1>1. DOMAIN y = Vehicles /\ y = [v \in Vehicles |-> y[v]]
    BY DEF Exchanged
<1>2. ASSUME NEW v \in Vehicles
      PROVE  /\ y[v] \in Seq(Stops) /\ Once(y[v])
             /\ \A s : s \in ToSet(y[v]) <=> Other(a, b, s) \in ToSet(x[v])
    <2>1. PICK r : r = x[v] /\ r \in Seq(Stops) /\ Once(r)
        BY RouteOf
    <2>2. PICK q : q = [i \in DOMAIN r |-> Other(a, b, r[i])]
        OBVIOUS
    <2>3. PICK T : T = Stops
        OBVIOUS
    <2>4. q \in Seq(T) /\ Once(q) /\ \A s : s \in ToSet(q) <=> Other(a, b, s) \in ToSet(r)
        BY <2>1, <2>2, <2>3, Traded
    <2>5. y[v] = q
        BY <2>1, <2>2 DEF Exchanged, Other
    <2> QED
        BY <2>1, <2>3, <2>4, <2>5
<1>3. y \in [Vehicles -> Seq(Stops)]
    BY ONLY <1>1, <1>2
<1>4. \A s \in Stops : Other(a, b, s) \in Stops
    BY DEF Other
<1>5. ASSUME NEW v \in Vehicles PROVE ToSet(y[v]) \subseteq Stops
    <2>1. PICK q : q = y[v] /\ q \in Seq(Stops)
        BY <1>2
    <2> QED
        BY <2>1, ElementOfSeq, LenProperties DEF ToSet
<1>6. ASSUME NEW v \in Vehicles, NEW w \in Vehicles, v # w
      PROVE  ToSet(y[v]) \cap ToSet(y[w]) = {}
    <2>1. ToSet(x[v]) \cap ToSet(x[w]) = {}
        BY <1>6 DEF Carries
    <2>2. ASSUME NEW s, s \in ToSet(y[v]), s \in ToSet(y[w]) PROVE FALSE
        <3>1. Other(a, b, s) \in ToSet(x[v])
            BY <1>2, <2>2
        <3>2. Other(a, b, s) \in ToSet(x[w])
            BY <1>2, <2>2
        <3> QED
            BY <2>1, <3>1, <3>2
    <2> QED
        BY <2>2
<1>7. ASSUME NEW s \in Stops PROVE \E v \in Vehicles : s \in ToSet(y[v])
    <2>1. PICK v \in Vehicles : Other(a, b, s) \in ToSet(x[v])
        BY <1>4 DEF Carries
    <2> QED
        BY <1>2, <2>1
<1> QED
    BY <1>2, <1>3, <1>5, <1>6, <1>7 DEF Carries

\* Every offer of the education visits the same stops.
LEMMA OffersCarry ==
    ASSUME day \in DOMAIN Days, NEW x, x = ind, Carries(x, Stops), NEW o \in Ops, NEW y \in Offer(o)
    PROVE  Carries(y, Stops)
<1>1. ASSUME NEW v \in Vehicles, NEW r,
             \/ r \in TwoOpt(x[v], 1)
             \/ \E n \in {1, 2, 3} : r \in OrOpt(x[v], n),
             y = [x EXCEPT ![v] = r]
      PROVE  Carries(y, Stops)
    <2>1. PICK q : q = x[v] /\ q \in Seq(Stops) /\ Once(q)
        BY RouteOf
    <2>2. PICK T : T = Stops
        OBVIOUS
    <2>3. r \in Seq(T) /\ Once(r) /\ ToSet(r) = ToSet(q)
        <3>1. CASE r \in TwoOpt(x[v], 1)
            BY <2>1, <2>2, <3>1, TwoOptReorders
        <3>2. ASSUME NEW n \in {1, 2, 3}, r \in OrOpt(x[v], n)
              PROVE  r \in Seq(T) /\ Once(r) /\ ToSet(r) = ToSet(q)
            <4>1. n \in Nat /\ 1 <= n
                OBVIOUS
            <4> QED
                BY <2>1, <2>2, <3>2, <4>1, OrOptReorders
        <3> QED
            BY <1>1, <3>1, <3>2
    <2> QED
        BY <1>1, <2>1, <2>2, <2>3, ReorderCarries
<1>2. CASE o = "2opt"
    <2>1. \E v \in Vehicles : \E r \in TwoOpt(x[v], 1) : y = [x EXCEPT ![v] = r]
        BY <1>2 DEF Offer, Shorter
    <2> QED
        BY <1>1, <2>1
<1>3. CASE o \in {"or1", "or2", "or3"}
    <2>1. \E v \in Vehicles, n \in {1, 2, 3} : \E r \in OrOpt(x[v], n) : y = [x EXCEPT ![v] = r]
        BY <1>3 DEF Offer, Shorter
    <2> QED
        BY <1>1, <2>1
<1>4. CASE o = "relocate"
    <2>1. \E v \in Vehicles : \E i \in DOMAIN x[v] : y \in Elsewhere(v, i)
        BY <1>4 DEF Offer
    <2> QED
        BY <2>1, ElsewhereCarries
<1>5. CASE o = "swap"
    <2>1. \E p \in Stops \X Stops : y = Exchanged(p[1], p[2])
        BY <1>5 DEF Offer
    <2> QED
        BY <2>1, ExchangedCarries
<1>6. o # "again"
    BY DEF Offer
<1> QED
    BY <1>2, <1>3, <1>4, <1>5, <1>6 DEF Ops

LEMMA OperatorLists ==
    /\ FullPass \in Seq(Ops) /\ LightPass \in Seq(Ops) /\ Polish \in Seq(Ops)
    /\ Polish \o Intra \in Seq(Ops) /\ <<"2opt">> \in Seq(Ops) /\ <<"2opt", "or1">> \in Seq(Ops)
    /\ <<>> \in Seq(Ops)
<1>1. "2opt" \in Ops /\ "or1" \in Ops /\ "or2" \in Ops /\ "or3" \in Ops /\ "relocate" \in Ops
    BY DEF Ops
<1>2. "swap" \in Ops /\ "again" \in Ops
    BY DEF Ops
<1>3. PICK S : S = Ops
    OBVIOUS
<1>4. /\ "2opt" \in S /\ "or1" \in S /\ "or2" \in S /\ "or3" \in S /\ "relocate" \in S
      /\ "swap" \in S /\ "again" \in S
    BY <1>1, <1>2, <1>3
<1>5. PICK i, a, b, c : /\ i = <<"2opt", "or1", "or2", "or3">> /\ a = <<"relocate", "swap", "again">>
                        /\ b = <<"relocate">> /\ c = <<"relocate", "swap">>
    OBVIOUS
<1>6. i \in Seq(S)
    BY ONLY <1>4, <1>5
<1>7. a \in Seq(S) /\ b \in Seq(S) /\ c \in Seq(S)
    BY ONLY <1>4, <1>5
<1>8. <<"2opt">> \in Seq(S) /\ <<"2opt", "or1">> \in Seq(S) /\ <<>> \in Seq(S)
    BY ONLY <1>4
<1>9. i \o a \in Seq(S) /\ i \o b \in Seq(S) /\ i \o c \in Seq(S)
    BY <1>6, <1>7, ConcatProperties
<1>10. (i \o b) \o i \in Seq(S) /\ (i \o c) \o i \in Seq(S)
    BY <1>6, <1>9, ConcatProperties
<1>11. i \o (b \o i) = (i \o b) \o i
    BY <1>6, <1>7, ConcatAssociative
<1>12. FullPass = i \o a /\ Polish = i \o c /\ Polish \o Intra = (i \o c) \o i
    BY <1>5 DEF FullPass, Polish, Intra
<1>13. LightPass = i \o b \o i
    BY <1>5 DEF LightPass, Intra
<1> QED
    BY <1>3, <1>8, <1>9, <1>10, <1>11, <1>12, <1>13

LEMMA ImproveKeeps ==
    ASSUME ServiceInv, Improve, UNCHANGED search
    PROVE  ServiceInv'
<1>1. PICK j, w, p, q, c, f : Held(j, w, p, q, c, f)
    BY ServiceNow
<1>2. /\ UNCHANGED <<day, pop, fresh, current, found, algorithm, step, out, todo, round>>
      /\ ind' \in Offer(Head(todo)) /\ todo # <<>> /\ step \in {"educate", "polish", "tune"}
    BY DEF Improve, Educating, search
<1>3. w = {} /\ day \in DOMAIN Days /\ j = ind /\ out' = w /\ Carries(j, Stops)
    <2>1. w = {} /\ Carries(j, Stops \ w)
        BY <1>1, <1>2 DEF Held, ServiceInv, ServiceSteps
    <2>2. Stops \ w = Stops
        BY <2>1
    <2> QED
        BY <1>1, <1>2, <2>1, <2>2 DEF Held
<1>4. PICK o : o = Head(todo) /\ o \in Ops
    <2>1. todo \in Seq(Ops) /\ todo # <<>>
        BY <1>2 DEF ServiceInv, ServiceSteps
    <2>2. Head(todo) \in Ops
        BY <2>1, HeadTailProperties
    <2> QED
        BY <2>2
<1>5. PICK y : y = ind' /\ y \in Offer(o)
    BY <1>2, <1>4
<1>6. Carries(y, Stops)
    BY <1>3, <1>4, <1>5, OffersCarry
<1>7. Carries(y, Stops \ w) /\ w \subseteq Stops
    <2>1. Stops \ w = Stops
        BY <1>3
    <2> QED
        BY <1>3, <1>6, <2>1
<1>8. ServiceSteps'
    BY <1>2 DEF ServiceInv, ServiceSteps
<1>9. (HasFound' => HasFound) /\ (HasCurrent' => HasCurrent)
    BY <1>2 DEF HasFound, HasCurrent
<1> QED
    BY <1>2, <1>3, <1>5, <1>7, <1>8, <1>9, IndividualChanged

LEMMA NoMoreKeeps ==
    ASSUME ServiceInv, NoMore, UNCHANGED search
    PROVE  ServiceInv'
<1>1. UNCHANGED <<day, ind, pop, fresh, current, found, algorithm, step, out, round>> /\ todo # <<>>
    BY DEF NoMore, Educating, search
<1>2. todo' \in Seq(Ops)
    <2>1. todo \in Seq(Ops)
        BY DEF ServiceInv, ServiceSteps
    <2>2. Tail(todo) \in Seq(Ops)
        BY <1>1, <2>1, HeadTailProperties
    <2>3. todo' = Tail(todo) \/ todo' = FullPass \/ todo' = <<>>
        BY DEF NoMore
    <2> QED
        BY <2>2, <2>3, OperatorLists
<1>3. ServiceSteps'
    BY <1>1, <1>2 DEF ServiceInv, ServiceSteps
<1>4. (HasFound' => HasFound) /\ (HasCurrent' => HasCurrent)
    BY <1>1 DEF HasFound, HasCurrent
<1> QED
    BY <1>1, <1>3, <1>4, IndividualStays

LEMMA NearestKeeps ==
    ASSUME ServiceInv, Nearest, UNCHANGED search
    PROVE  ServiceInv'
<1>1. UNCHANGED <<day, algorithm, pop, fresh, current, found, round>> /\ step = "nearest"
    BY DEF Nearest, search
<1>2. PICK s \in out, v \in Vehicles : Placing(AtEnd(v, s))
    BY VehicleFacts DEF Nearest, Furthest, Foremost
<1>3. \/ out' = {} /\ step' = "polish" /\ todo' = <<"2opt">>
      \/ step' = step /\ todo' = todo
    BY DEF Nearest, Educate
<1>4. algorithm # "hgs" /\ todo \in Seq(Ops)
    BY <1>1 DEF ServiceInv, ServiceSteps
<1>5. todo' \in Seq(Ops)
    BY <1>3, <1>4, OperatorLists
<1>6. ServiceSteps'
    BY <1>1, <1>3, <1>4, <1>5 DEF ServiceSteps
<1>7. (HasFound' => HasFound) /\ (HasCurrent' => HasCurrent)
    BY <1>1, <1>3, <1>4 DEF HasFound, HasCurrent
<1> QED
    BY <1>1, <1>2, <1>6, <1>7, PlacedAtEnd

LEMMA SeedKeeps ==
    ASSUME ServiceInv, Seed, UNCHANGED search
    PROVE  ServiceInv'
<1>1. /\ UNCHANGED <<day, algorithm, step, todo, pop, fresh, current, found, round>>
      /\ step \in {"cheapest", "shuffled"}
    BY DEF Seed, search
<1>2. PICK v \in Vehicles, s \in out : ind[v] = <<>> /\ Placing(<<s, v, 1>>)
    BY DEF Seed, Furthest, Seeds
<1>3. PICK k : k = <<s, v, 1>>
    OBVIOUS
<1>4. Placing(k) /\ k[1] = s /\ k[2] = v /\ k[3] \in Nat /\ 1 <= k[3] /\ k[3] <= Len(ind[v]) + 1
    <2>1. Len(ind[v]) = 0
        BY <1>2
    <2>2. k[1] = s /\ k[2] = v /\ k[3] = 1
        BY <1>3
    <2>3. Placing(k)
        BY <1>2, <1>3 DEF Placing
    <2> QED
        BY <2>1, <2>2, <2>3
<1>5. ServiceSteps'
    BY <1>1 DEF ServiceInv, ServiceSteps
<1>6. (HasFound' => HasFound) /\ (HasCurrent' => HasCurrent)
    BY <1>1 DEF HasFound, HasCurrent
<1> QED
    BY <1>1, <1>2, <1>4, <1>5, <1>6, StopIsPlaced

\* A construction is complete: the education begins.
LEMMA ConstructedKeeps ==
    ASSUME ServiceInv, Constructed, out = {}, step \in {"cheapest", "shuffled", "scatter"},
           UNCHANGED <<day, algorithm, ind, out, pop, fresh, current, found, round>>
    PROVE  ServiceInv'
<1>1. \/ algorithm = "hgs" /\ step' = "educate" /\ todo' = FullPass
      \/ algorithm # "hgs" /\ step' = "tune" /\ todo' = Polish
    BY DEF Constructed, Educate
<1>2. todo' \in Seq(Ops)
    BY <1>1, OperatorLists
<1>3. ServiceSteps'
    BY <1>1, <1>2 DEF ServiceSteps
<1>4. (HasFound' => HasFound) /\ (HasCurrent' => HasCurrent)
    BY <1>1 DEF HasFound, HasCurrent
<1> QED
    BY <1>3, <1>4, IndividualStays

LEMMA InsertionKeeps ==
    ASSUME ServiceInv, Insertion, UNCHANGED search
    PROVE  ServiceInv'
<1>1. /\ UNCHANGED <<day, algorithm, pop, fresh, current, found, round>>
      /\ step \in {"cheapest", "shuffled"}
    BY DEF Insertion, search
<1>2. CASE out = {} /\ Constructed /\ UNCHANGED <<ind, out>>
    BY <1>1, <1>2, ConstructedKeeps
<1>3. ASSUME UNCHANGED <<step, todo>>
      PROVE  ServiceSteps' /\ (HasFound' => HasFound) /\ (HasCurrent' => HasCurrent)
    BY <1>1, <1>3 DEF ServiceInv, ServiceSteps, HasFound, HasCurrent
<1>4. ASSUME NEW k \in Slots(ind, out), Placing(k), UNCHANGED <<step, todo>>
      PROVE  ServiceInv'
    BY <1>1, <1>3, <1>4, PlacedInSlot
<1>5. ASSUME NEW s \in out, NEW k \in Slots(ind, {s}), Placing(k), UNCHANGED <<step, todo>>
      PROVE  ServiceInv'
    <2>1. {s} \subseteq out
        OBVIOUS
    <2> QED
        BY <1>1, <1>3, <1>5, <2>1, PlacedInSlot
<1>6. ASSUME NEW s \in out, NEW v \in Vehicles, Placing(AtEnd(v, s)), UNCHANGED <<step, todo>>
      PROVE  ServiceInv'
    BY <1>1, <1>3, <1>6, PlacedAtEnd
<1> QED
    BY <1>2, <1>4, <1>5, <1>6 DEF Insertion, Cheap, Roomy, Lightest, Foremost

LEMMA ScatterKeeps ==
    ASSUME ServiceInv, Scatter, UNCHANGED search
    PROVE  ServiceInv'
<1>1. UNCHANGED <<day, algorithm, pop, fresh, current, found, round>> /\ step = "scatter"
    BY DEF Scatter, search
<1>2. CASE out = {} /\ Constructed /\ UNCHANGED <<ind, out>>
    BY <1>1, <1>2, ConstructedKeeps
<1>3. ASSUME NEW s \in out, NEW v \in Vehicles, Placing(AtEnd(v, s)), UNCHANGED <<step, todo>>
      PROVE  ServiceInv'
    <2>1. ServiceSteps' /\ (HasFound' => HasFound) /\ (HasCurrent' => HasCurrent)
        BY <1>1, <1>3 DEF ServiceInv, ServiceSteps, HasFound, HasCurrent
    <2> QED
        BY <1>1, <1>3, <2>1, PlacedAtEnd
<1>4. \A s : Slackest(s) \subseteq Vehicles
    BY DEF Slackest, Lightest, Foremost
<1> QED
    BY <1>2, <1>3, <1>4 DEF Scatter

LEMMA MissingKeeps ==
    ASSUME ServiceInv, Missing, UNCHANGED search
    PROVE  ServiceInv'
<1>1. UNCHANGED <<day, algorithm, pop, fresh, current, found, round>> /\ step = "missing"
    BY DEF Missing, search
<1>2. CASE /\ out = {} /\ step' = "educate" /\ (todo' = LightPass \/ todo' = FullPass)
           /\ UNCHANGED <<ind, out>>
    <2>1. todo' \in Seq(Ops)
        BY <1>2, OperatorLists
    <2>2. ServiceSteps'
        BY <1>1, <1>2, <2>1 DEF ServiceInv, ServiceSteps
    <2>3. (HasFound' => HasFound) /\ (HasCurrent' => HasCurrent)
        BY <1>1, <1>2 DEF HasFound, HasCurrent
    <2> QED
        BY <1>1, <1>2, <2>2, <2>3, IndividualStays
<1>3. ASSUME NEW s \in out, NEW k \in Slots(ind, {s}), Placing(k), UNCHANGED <<step, todo>>
      PROVE  ServiceInv'
    <2>1. {s} \subseteq out
        OBVIOUS
    <2>2. ServiceSteps' /\ (HasFound' => HasFound) /\ (HasCurrent' => HasCurrent)
        BY <1>1, <1>3 DEF ServiceInv, ServiceSteps, HasFound, HasCurrent
    <2> QED
        BY <1>1, <1>3, <2>1, <2>2, PlacedInSlot
<1> QED
    BY <1>2, <1>3 DEF Missing, Educate

LEMMA ReinsertionKeeps ==
    ASSUME ServiceInv, Reinsertion, UNCHANGED search
    PROVE  ServiceInv'
<1>1. UNCHANGED <<day, algorithm, pop, fresh, current, found, round>> /\ step = "reinsert"
    BY DEF Reinsertion, search
<1>2. CASE out = {} /\ step' = "tune" /\ todo' = <<"2opt", "or1">> /\ UNCHANGED <<ind, out>>
    <2>1. todo' \in Seq(Ops)
        BY <1>2, OperatorLists
    <2>2. ServiceSteps'
        BY <1>1, <1>2, <2>1 DEF ServiceInv, ServiceSteps
    <2>3. (HasFound' => HasFound) /\ (HasCurrent' => HasCurrent)
        BY <1>1, <1>2 DEF HasFound, HasCurrent
    <2> QED
        BY <1>1, <1>2, <2>2, <2>3, IndividualStays
<1>3. ASSUME UNCHANGED <<step, todo>>
      PROVE  ServiceSteps' /\ (HasFound' => HasFound) /\ (HasCurrent' => HasCurrent)
    BY <1>1, <1>3 DEF ServiceInv, ServiceSteps, HasFound, HasCurrent
<1>4. ASSUME NEW k \in Slots(ind, out), Placing(k), UNCHANGED <<step, todo>>
      PROVE  ServiceInv'
    BY <1>1, <1>3, <1>4, PlacedInSlot
<1>5. ASSUME NEW s \in out, NEW v \in Vehicles, Placing(AtEnd(v, s)), UNCHANGED <<step, todo>>
      PROVE  ServiceInv'
    BY <1>1, <1>3, <1>5, PlacedAtEnd
<1> QED
    BY <1>2, <1>4, <1>5 DEF Reinsertion, Educate, Cheap, Roomy, Lightest, Foremost

LEMMA AddedAreMembers ==
    ASSUME NEW p, \A m \in p : Carries(m.routes, Stops), NEW x, Carries(x, Stops), NEW P \in Added(p, x)
    PROVE  \A m \in P : Carries(m.routes, Stops)
<1>1. P \subseteq p \cup {Member(x)}
    BY DEF Added, Bucket, kSubset
<1>2. PICK z : z = Member(x)
    OBVIOUS
<1>3. z.routes = x
    BY <1>2 DEF Member
<1>4. Carries(z.routes, Stops)
    BY <1>3
<1> QED
    BY <1>1, <1>2, <1>4

\* A new individual is begun.
LEMMA NewIndividual ==
    ASSUME NEW i, NEW o, i = NoRoutes, o = Stops
    PROVE  Carries(i, Stops \ o) /\ o \subseteq Stops
<1>1. Carries(i, {})
    BY NoRoutesCarry DEF NoRoutes
<1>2. Stops \ o = {}
    OBVIOUS
<1>3. Carries(i, Stops \ o)
    BY <1>1, <1>2
<1> QED
    BY <1>3

\* The individual that was made is whole.
LEMMA MadeIsWhole ==
    ASSUME ServiceInv, step \in {"educate", "polish", "tune", "breed", "destroy"},
           NEW i, NEW o, NEW p, NEW q, NEW c, NEW f, Held(i, o, p, q, c, f)
    PROVE  o = {} /\ Carries(i, Stops) /\ Carries(i, Stops \ o) /\ o \subseteq Stops
<1>1. o = {} /\ Carries(i, Stops \ o)
    BY DEF Held, ServiceInv, ServiceSteps
<1>2. Stops \ o = Stops
    BY <1>1
<1>3. Carries(i, Stops)
    BY <1>1, <1>2
<1> QED
    BY <1>1, <1>3

LEMMA EnterKeeps ==
    ASSUME ServiceInv, Enter, UNCHANGED search
    PROVE  ServiceInv'
<1>1. PICK j, w, p, q, c, f : Held(j, w, p, q, c, f)
    BY ServiceNow
<1>2. UNCHANGED <<day, algorithm, todo, fresh, current>> /\ step = "educate" /\ pop' \in Added(pop, ind)
    BY DEF Enter, search
<1>3. algorithm = "hgs" /\ todo \in Seq(Ops)
    BY <1>2 DEF ServiceInv, ServiceSteps
<1>4. w = {} /\ Carries(j, Stops) /\ Carries(j, Stops \ w) /\ w \subseteq Stops
    BY <1>1, <1>2, MadeIsWhole
<1>5. PICK P : P = pop' /\ P \in Added(p, j)
    BY <1>1, <1>2 DEF Held
<1>6. \A m \in p : Carries(m.routes, Stops)
    BY <1>1 DEF Held
<1>7. \A m \in P : Carries(m.routes, Stops)
    BY <1>4, <1>5, <1>6, AddedAreMembers
<1>8. \A m \in P \cup q : Carries(m.routes, Stops)
    BY <1>1, <1>7 DEF Held
<1>9. day' = day /\ day \in DOMAIN Days /\ pop' = P /\ fresh' = q /\ current' = c
    BY <1>1, <1>2, <1>5 DEF Held
<1>10. ~HasCurrent' \/ step' = "destroy"
    BY <1>2, <1>3 DEF HasCurrent
<1>11. CASE /\ ind' = NoRoutes /\ out' = Stops /\ step' \in {"shuffled", "scatter"}
            /\ UNCHANGED <<found, round>>
    <2>1. PICK i, o : i = ind' /\ o = out' /\ Carries(i, Stops \ o) /\ o \subseteq Stops
        BY <1>11, NewIndividual
    <2>2. ServiceSteps'
        BY <1>2, <1>3, <1>11 DEF ServiceSteps
    <2>3. HasFound' => Carries(f, Stops)
        BY <1>1, <1>11 DEF HasFound, Held
    <2>4. found' = f /\ ~HasCurrent'
        BY <1>1, <1>10, <1>11 DEF Held
    <2> QED
        BY <1>8, <1>9, <2>1, <2>2, <2>3, <2>4, ServiceInvNext
<1>12. CASE found' \in BestOverall(pop') /\ step' = "breed" /\ UNCHANGED <<ind, out>>
    <2>1. PICK g : g = found' /\ \E m \in P : g = m.routes
        BY <1>5, <1>12 DEF BestOverall, Fittest
    <2>2. Carries(g, Stops)
        BY <1>7, <2>1
    <2>3. ServiceSteps'
        BY <1>2, <1>3, <1>12 DEF ServiceInv, ServiceSteps
    <2>4. ind' = j /\ out' = w /\ found' = g /\ ~HasCurrent'
        BY <1>1, <1>10, <1>12, <2>1 DEF Held
    <2> QED
        BY <1>4, <1>8, <1>9, <2>2, <2>3, <2>4, ServiceInvNext
<1> QED
    BY <1>11, <1>12 DEF Enter, StartWith

LEMMA RenewKeeps ==
    ASSUME ServiceInv, Renew, UNCHANGED search
    PROVE  ServiceInv'
<1>1. PICK j, w, p, q, c, f : Held(j, w, p, q, c, f)
    BY ServiceNow
<1>2. /\ UNCHANGED <<day, algorithm, todo, pop, current, found, round>> /\ step = "breed"
      /\ ind' = NoRoutes /\ out' = Stops /\ step' = "scatter" /\ fresh' \subseteq pop
    BY DEF Renew, search, StartWith, kSubset
<1>3. algorithm = "hgs" /\ todo \in Seq(Ops)
    BY <1>2 DEF ServiceInv, ServiceSteps
<1>4. PICK i, o : i = ind' /\ o = out' /\ Carries(i, Stops \ o) /\ o \subseteq Stops
    BY <1>2, NewIndividual
<1>5. PICK E : E = fresh'
    OBVIOUS
<1>6. \A m \in p \cup E : Carries(m.routes, Stops)
    BY <1>1, <1>2, <1>5 DEF Held
<1>7. ServiceSteps'
    BY <1>2, <1>3 DEF ServiceSteps
<1>8. Carries(f, Stops) /\ ~HasCurrent'
    BY <1>1, <1>2, <1>3 DEF Held, HasFound, HasCurrent
<1>9. day' = day /\ day \in DOMAIN Days /\ pop' = p /\ fresh' = E /\ current' = c /\ found' = f
    BY <1>1, <1>2, <1>5 DEF Held
<1> QED
    BY <1>4, <1>6, <1>7, <1>8, <1>9, ServiceInvNext

LEMMA RefillKeeps ==
    ASSUME ServiceInv, Refill, UNCHANGED search
    PROVE  ServiceInv'
<1>1. PICK j, w, p, q, c, f : Held(j, w, p, q, c, f)
    BY ServiceNow
<1>2. /\ UNCHANGED <<day, algorithm, todo, current, found, round>> /\ step = "educate"
    BY DEF Refill, search
<1>3. algorithm = "hgs" /\ todo \in Seq(Ops)
    BY <1>2 DEF ServiceInv, ServiceSteps
<1>4. w = {} /\ Carries(j, Stops) /\ Carries(j, Stops \ w) /\ w \subseteq Stops
    BY <1>1, <1>2, MadeIsWhole
<1>5. PICK P \in Added(q, j) :
         \/ fresh' = P /\ ind' = NoRoutes /\ out' = Stops /\ step' = "scatter" /\ UNCHANGED pop
         \/ pop' = P /\ fresh' = {} /\ step' = "breed" /\ UNCHANGED <<ind, out>>
    BY <1>1 DEF Refill, StartWith, Held
<1>6. \A m \in p \cup q : Carries(m.routes, Stops)
    BY <1>1 DEF Held
<1>7. \A m \in P : Carries(m.routes, Stops)
    BY <1>4, <1>5, <1>6, AddedAreMembers
<1>8. day' = day /\ day \in DOMAIN Days /\ current' = c /\ found' = f
    BY <1>1, <1>2 DEF Held
<1>9. HasFound /\ Carries(f, Stops)
    BY <1>1 DEF HasFound, Held, Refill
<1>10. ~HasCurrent' \/ step' = "destroy"
    BY <1>2, <1>3 DEF HasCurrent
<1>11. CASE fresh' = P /\ ind' = NoRoutes /\ out' = Stops /\ step' = "scatter" /\ UNCHANGED pop
    <2>1. PICK i, o : i = ind' /\ o = out' /\ Carries(i, Stops \ o) /\ o \subseteq Stops
        BY <1>11, NewIndividual
    <2>2. ServiceSteps'
        BY <1>2, <1>3, <1>11 DEF ServiceSteps
    <2>3. pop' = p /\ fresh' = P /\ (\A m \in p \cup P : Carries(m.routes, Stops)) /\ ~HasCurrent'
        BY <1>1, <1>6, <1>7, <1>10, <1>11 DEF Held
    <2> QED
        BY <1>8, <1>9, <2>1, <2>2, <2>3, ServiceInvNext
<1>12. CASE pop' = P /\ fresh' = {} /\ step' = "breed" /\ UNCHANGED <<ind, out>>
    <2>1. ServiceSteps'
        BY <1>2, <1>3, <1>12 DEF ServiceInv, ServiceSteps
    <2>2. PICK E : E = {}
        OBVIOUS
    <2>3. /\ ind' = j /\ out' = w /\ pop' = P /\ fresh' = E /\ ~HasCurrent'
          /\ \A m \in P \cup E : Carries(m.routes, Stops)
        BY <1>1, <1>7, <1>10, <1>12, <2>2 DEF Held
    <2> QED
        BY <1>4, <1>8, <1>9, <2>1, <2>3, ServiceInvNext
<1> QED
    BY <1>5, <1>11, <1>12

LEMMA JoinKeeps ==
    ASSUME ServiceInv, Join, UNCHANGED search
    PROVE  ServiceInv'
<1>1. PICK j, w, p, q, c, f : Held(j, w, p, q, c, f)
    BY ServiceNow
<1>2. /\ UNCHANGED <<day, algorithm, ind, out, todo, fresh, current>> /\ step = "educate" /\ step' = "breed"
      /\ pop' \in Added(pop, ind)
    BY DEF Join, search
<1>3. algorithm = "hgs" /\ todo \in Seq(Ops)
    BY <1>2 DEF ServiceInv, ServiceSteps
<1>4. w = {} /\ Carries(j, Stops) /\ Carries(j, Stops \ w) /\ w \subseteq Stops
    BY <1>1, <1>2, MadeIsWhole
<1>5. PICK P, g : P = pop' /\ P \in Added(p, j) /\ g = found' /\ g \in {j, f}
    BY <1>1, <1>2 DEF Held, Join
<1>6. \A m \in p \cup q : Carries(m.routes, Stops)
    BY <1>1 DEF Held
<1>7. \A m \in P : Carries(m.routes, Stops)
    BY <1>4, <1>5, <1>6, AddedAreMembers
<1>8. HasFound /\ Carries(f, Stops)
    BY <1>1 DEF HasFound, Held, Join
<1>9. Carries(g, Stops) /\ \A m \in P \cup q : Carries(m.routes, Stops)
    BY <1>4, <1>5, <1>6, <1>7, <1>8
<1>10. ~HasCurrent'
    BY <1>2, <1>3 DEF HasCurrent
<1>11. ServiceSteps'
    BY <1>2, <1>3 DEF ServiceInv, ServiceSteps
<1>12. /\ day' = day /\ day \in DOMAIN Days /\ ind' = j /\ out' = w /\ pop' = P /\ fresh' = q
       /\ current' = c /\ found' = g
    BY <1>1, <1>2, <1>5 DEF Held
<1> QED
    BY <1>4, <1>9, <1>10, <1>11, <1>12, ServiceInvNext

\* The free vehicles are numbered: no two of them take the same route.
LEMMA FreeAreNumbered ==
    ASSUME NEW F, F \subseteq Vehicles, NEW k, k = [v \in F |-> Cardinality({w \in F : w <= v})]
    PROVE  /\ \A v \in F : k[v] \in Vehicles
           /\ \A v, u \in F : k[v] = k[u] => v = u
<1>1. PICK N \in Nat : Vehicles = 1 .. N /\ Cardinality(Vehicles) = N /\ IsFiniteSet(Vehicles)
    BY VehicleFacts, VehiclesAssumption
<1>2. PICK U : U = [v \in F |-> {w \in F : w <= v}]
    OBVIOUS
<1>3. ASSUME NEW v \in F
      PROVE  /\ v \in U[v] /\ U[v] \subseteq Vehicles /\ IsFiniteSet(U[v])
             /\ k[v] = Cardinality(U[v]) /\ k[v] \in 1 .. N
    <2>1. v \in U[v] /\ U[v] \subseteq Vehicles /\ k[v] = Cardinality(U[v])
        <3>1. U[v] = {w \in F : w <= v}
            BY <1>2
        <3>2. k[v] = Cardinality(U[v])
            BY <3>1
        <3>3. v \in Int /\ v <= v
            BY <1>1
        <3>4. v \in U[v] /\ U[v] \subseteq F
            BY <3>1, <3>3
        <3> QED
            BY <3>2, <3>4
    <2>2. IsFiniteSet(U[v]) /\ Cardinality(U[v]) <= N
        BY <1>1, <2>1, FS_Subset
    <2>3. Cardinality(U[v]) \in Nat
        BY <2>2, FS_CardinalityType
    <2>4. Cardinality(U[v]) # 0
        BY <2>1, <2>2, FS_EmptySet
    <2> QED
        BY <2>1, <2>2, <2>3, <2>4
<1>4. ASSUME NEW v \in F, NEW u \in F, v < u, k[v] = k[u] PROVE FALSE
    <2>1. v \in Int /\ u \in Int /\ F \subseteq Int
        BY <1>1
    <2>2. U[v] \subseteq U[u]
        <3>1. U[v] = {w \in F : w <= v} /\ U[u] = {w \in F : w <= u}
            BY <1>2
        <3>2. ASSUME NEW w \in F, w <= v PROVE w <= u
            BY <1>4, <2>1, <3>2
        <3> QED
            BY <3>1, <3>2
    <2>3. u \notin U[v]
        BY <1>2, <1>4, <2>1
    <2>4. Cardinality(U[v]) = Cardinality(U[u]) /\ IsFiniteSet(U[u]) /\ u \in U[u]
        BY <1>3, <1>4
    <2>5. U[u] = U[v]
        BY <2>2, <2>4, FS_Subset
    <2> QED
        BY <2>3, <2>4, <2>5
<1>5. \A v \in F : v \in Int
    BY <1>1
<1>6. \A v, u \in F : k[v] = k[u] => v = u
    BY <1>4, <1>5
<1> QED
    BY <1>1, <1>3, <1>6

IsChild(y, a, b, U) == y = Child(a, b, U)
AreStopsOf(P, y) == P = UNION {ToSet(y[v]) : v \in Vehicles}

\* A child carries no stop twice.
LEMMA ChildCarries ==
    ASSUME NEW a, Carries(a, Stops), NEW b, Carries(b, Stops), NEW U, U \subseteq Vehicles,
           NEW y, IsChild(y, a, b, U), NEW P, AreStopsOf(P, y)
    PROVE  Carries(y, P) /\ P \subseteq Stops
<1>1. PICK F, mine : F = Vehicles \ U /\ mine = UNION {ToSet(a[v]) : v \in U}
    OBVIOUS
<1>2. PICK k : k = [v \in F |-> Cardinality({w \in F : w <= v})]
    OBVIOUS
<1>3. (\A v \in F : k[v] \in Vehicles) /\ (\A v, u \in F : k[v] = k[u] => v = u)
    <2>1. F \subseteq Vehicles
        BY <1>1
    <2> QED
        BY <1>2, <2>1, FreeAreNumbered
<1>4. y = [v \in Vehicles |-> IF v \in U THEN a[v] ELSE Without(b[k[v]], mine)]
    BY <1>1, <1>2 DEF IsChild, Child
<1>5. ASSUME NEW v \in U
      PROVE  y[v] \in Seq(Stops) /\ Once(y[v]) /\ ToSet(y[v]) \subseteq mine /\ ToSet(y[v]) = ToSet(a[v])
    <2>1. v \in Vehicles /\ y[v] = a[v]
        BY <1>4
    <2>2. a[v] \in Seq(Stops) /\ Once(a[v])
        BY <2>1, RouteOf
    <2>3. ToSet(a[v]) \subseteq mine
        BY <1>1
    <2> QED
        BY <2>1, <2>2, <2>3
<1>6. ASSUME NEW v \in F
      PROVE  y[v] \in Seq(Stops) /\ Once(y[v]) /\ ToSet(y[v]) = ToSet(b[k[v]]) \ mine
    <2>1. PICK r : r = b[k[v]] /\ r \in Seq(Stops) /\ Once(r)
        BY <1>3, RouteOf
    <2>2. PICK q : q = Without(r, mine)
        OBVIOUS
    <2>3. PICK T : T = Stops
        OBVIOUS
    <2>4. q \in Seq(T) /\ Once(q) /\ ToSet(q) = ToSet(r) \ mine
        BY <2>1, <2>2, <2>3, Remaining
    <2>5. v \in Vehicles /\ v \notin U
        BY <1>1
    <2>6. y[v] = q
        BY <1>4, <2>1, <2>2, <2>5
    <2> QED
        BY <2>1, <2>3, <2>4, <2>6
<1>7. \A v \in Vehicles : v \in U \/ v \in F
    BY <1>1
<1>8. \A v \in Vehicles : y[v] \in Seq(Stops) /\ Once(y[v])
    BY <1>5, <1>6, <1>7
<1>9. y \in [Vehicles -> Seq(Stops)]
    <2>1. y = [v \in Vehicles |-> y[v]]
        BY <1>4
    <2> QED
        BY ONLY <1>8, <2>1
<1>10. ASSUME NEW v \in Vehicles PROVE ToSet(y[v]) \subseteq Stops /\ ToSet(y[v]) \subseteq P
    <2>1. PICK q : q = y[v] /\ q \in Seq(Stops)
        BY <1>8
    <2>2. ToSet(q) \subseteq Stops
        BY <2>1, ElementOfSeq, LenProperties DEF ToSet
    <2> QED
        BY <2>1, <2>2 DEF AreStopsOf
<1>11. ASSUME NEW v \in Vehicles, NEW u \in Vehicles, v # u
       PROVE  ToSet(y[v]) \cap ToSet(y[u]) = {}
    <2>1. CASE v \in U /\ u \in U
        <3>1. ToSet(a[v]) \cap ToSet(a[u]) = {}
            BY <1>11 DEF Carries
        <3> QED
            BY <1>5, <2>1, <3>1
    <2>2. CASE v \in U /\ u \in F
        BY <1>5, <1>6, <2>2
    <2>3. CASE v \in F /\ u \in U
        BY <1>5, <1>6, <2>3
    <2>4. CASE v \in F /\ u \in F
        <3>1. k[v] # k[u] /\ k[v] \in Vehicles /\ k[u] \in Vehicles
            BY <1>3, <1>11, <2>4
        <3>2. ToSet(b[k[v]]) \cap ToSet(b[k[u]]) = {}
            BY <3>1 DEF Carries
        <3> QED
            BY <1>6, <2>4, <3>2
    <2> QED
        BY <1>7, <2>1, <2>2, <2>3, <2>4
<1>12. P \subseteq Stops /\ \A s \in P : \E v \in Vehicles : s \in ToSet(y[v])
    BY <1>10 DEF AreStopsOf
<1>13. \A v \in Vehicles : Once(y[v]) /\ ToSet(y[v]) \subseteq P
    BY <1>8, <1>10
<1> QED
    BY <1>9, <1>11, <1>12, <1>13 DEF Carries

LEMMA BreedKeeps ==
    ASSUME ServiceInv, Breed, UNCHANGED search
    PROVE  ServiceInv'
<1>1. PICK j, w, p, q, c, f : Held(j, w, p, q, c, f)
    BY ServiceNow
<1>2. /\ UNCHANGED <<day, algorithm, todo, pop, fresh, current, found, round>>
      /\ step = "breed" /\ step' = "missing"
    BY DEF Breed, search
<1>3. algorithm = "hgs" /\ todo \in Seq(Ops)
    BY <1>2 DEF ServiceInv, ServiceSteps
<1>4. PICK m, n, U :
         /\ m \in pop /\ n \in pop /\ U \in Taken(m.routes)
         /\ ind' = Child(m.routes, n.routes, U)
         /\ out' = Stops \ UNION {ToSet(ind'[v]) : v \in Vehicles}
    BY DEF Breed, Parents, Born
<1>5. PICK a, b : a = m.routes /\ b = n.routes
    OBVIOUS
<1>6. Carries(a, Stops) /\ Carries(b, Stops)
    BY <1>1, <1>4, <1>5 DEF Held
<1>7. U \subseteq Vehicles
    BY <1>4 DEF Taken
<1>8. PICK y, P : y = Child(a, b, U) /\ P = UNION {ToSet(y[v]) : v \in Vehicles}
    OBVIOUS
<1>9. Carries(y, P) /\ P \subseteq Stops
    <2>1. IsChild(y, a, b, U) /\ AreStopsOf(P, y)
        BY <1>8 DEF IsChild, AreStopsOf
    <2> QED
        BY <1>6, <1>7, <2>1, ChildCarries
<1>10. PICK o : o = Stops \ P
    OBVIOUS
<1>11. Stops \ o = P /\ o \subseteq Stops
    BY <1>9, <1>10
<1>12. ind' = y /\ out' = o /\ Carries(y, Stops \ o)
    BY <1>4, <1>5, <1>8, <1>9, <1>10, <1>11
<1>13. ServiceSteps'
    BY <1>2, <1>3 DEF ServiceSteps
<1>14. (HasFound' => HasFound) /\ (HasCurrent' => HasCurrent)
    BY <1>2, <1>3 DEF HasFound, HasCurrent
<1> QED
    BY <1>2, <1>11, <1>12, <1>13, <1>14, IndividualChanged

\* The best individual is polished, in both of the algorithms that keep one.
LEMMA BestIsPolished ==
    ASSUME ServiceInv, step \in {"breed", "destroy"}, ind' = found, step' = "polish", todo' \in Seq(Ops),
           UNCHANGED <<day, algorithm, out, pop, fresh, current, found, round>>
    PROVE  ServiceInv'
<1>1. PICK j, w, p, q, c, f : Held(j, w, p, q, c, f)
    BY ServiceNow
<1>2. w = {} /\ w \subseteq Stops
    BY <1>1, MadeIsWhole
<1>3. HasFound /\ Carries(f, Stops)
    BY <1>1 DEF HasFound, Held
<1>4. Stops \ w = Stops
    BY <1>2
<1>5. Carries(f, Stops \ w) /\ ind' = f /\ out' = w
    BY <1>1, <1>3, <1>4 DEF Held
<1>6. ServiceSteps'
    BY <1>1, <1>2 DEF ServiceSteps, Held
<1>7. HasCurrent' => HasCurrent
    BY DEF HasCurrent
<1> QED
    BY <1>2, <1>3, <1>5, <1>6, <1>7, IndividualChanged

LEMMA FinaleKeeps ==
    ASSUME ServiceInv, Finale, UNCHANGED search
    PROVE  ServiceInv'
<1>1. /\ UNCHANGED <<day, algorithm, out, pop, fresh, current, found, round>> /\ step = "breed"
      /\ ind' = found /\ step' = "polish" /\ todo' = FullPass
    BY DEF Finale, Educate, search
<1> QED
    BY <1>1, OperatorLists, BestIsPolished

LEMMA CooledKeeps ==
    ASSUME ServiceInv, Cooled, UNCHANGED search
    PROVE  ServiceInv'
<1>1. /\ UNCHANGED <<day, algorithm, out, pop, fresh, current, found, round>> /\ step = "destroy"
      /\ ind' = found /\ step' = "polish" /\ todo' = Polish \o Intra
    BY DEF Cooled, Educate, search
<1> QED
    BY <1>1, OperatorLists, BestIsPolished

LEMMA RuinKeeps ==
    ASSUME ServiceInv, Ruin, UNCHANGED search
    PROVE  ServiceInv'
<1>1. PICK j, w, p, q, c, f : Held(j, w, p, q, c, f)
    BY ServiceNow
<1>2. /\ UNCHANGED <<day, algorithm, todo, pop, fresh, current, found>>
      /\ step = "destroy" /\ step' = "reinsert"
    BY DEF Ruin, search
<1>3. algorithm # "hgs" /\ todo \in Seq(Ops)
    BY <1>2 DEF ServiceInv, ServiceSteps
<1>4. PICK R : R \subseteq Stops /\ ind' = Drop(current, R) /\ out' = R
    BY DEF Ruin, kSubset
<1>5. Carries(c, Stops) /\ Carries(f, Stops)
    BY <1>1, <1>2 DEF Held, HasFound, HasCurrent
<1>6. PICK y : y = Drop(c, R)
    OBVIOUS
<1>7. Drops(y, c, R)
    BY <1>6 DEF Drops, Drop
<1>8. Carries(y, Stops \ R)
    BY <1>5, <1>7, DropCarries
<1>9. ind' = y /\ out' = R
    BY <1>1, <1>4, <1>6 DEF Held, Drop
<1>10. ServiceSteps'
    BY <1>2, <1>3 DEF ServiceSteps
<1>11. /\ day' = day /\ day \in DOMAIN Days /\ pop' = p /\ fresh' = q /\ current' = c /\ found' = f
       /\ \A m \in p \cup q : Carries(m.routes, Stops)
    BY <1>1, <1>2 DEF Held
<1> QED
    BY <1>4, <1>5, <1>8, <1>9, <1>10, <1>11, ServiceInvNext

LEMMA AnnealKeeps ==
    ASSUME ServiceInv, Anneal, UNCHANGED search
    PROVE  ServiceInv'
<1>1. PICK j, w, p, q, c, f : Held(j, w, p, q, c, f)
    BY ServiceNow
<1>2. /\ UNCHANGED <<day, algorithm, ind, out, todo, pop, fresh, round>>
      /\ step = "tune" /\ step' = "destroy"
    BY DEF Anneal, search
<1>3. algorithm # "hgs" /\ todo \in Seq(Ops)
    BY <1>2 DEF ServiceInv, ServiceSteps
<1>4. w = {} /\ Carries(j, Stops) /\ Carries(j, Stops \ w) /\ w \subseteq Stops
    BY <1>1, <1>2, MadeIsWhole
<1>5. PICK d, e : d = current' /\ e = found'
    OBVIOUS
<1>6. Carries(d, Stops) /\ Carries(e, Stops)
    <2>1. CASE d = j /\ e = j
        BY <1>4, <2>1
    <2>2. CASE round > 0 /\ d \in {j, c} /\ e \in {j, f}
        BY <1>1, <1>3, <1>4, <2>2 DEF Held, HasFound, HasCurrent
    <2> QED
        BY <1>1, <1>5, <2>1, <2>2 DEF Anneal, Held
<1>7. ServiceSteps'
    BY <1>1, <1>2, <1>3, <1>4 DEF ServiceSteps, Held
<1>8. /\ day' = day /\ day \in DOMAIN Days /\ ind' = j /\ out' = w /\ pop' = p /\ fresh' = q
      /\ current' = d /\ found' = e
      /\ \A m \in p \cup q : Carries(m.routes, Stops)
    BY <1>1, <1>2, <1>5 DEF Held
<1> QED
    BY <1>4, <1>6, <1>7, <1>8, ServiceInvNext

LEMMA AnswerKeeps ==
    ASSUME ServiceInv, Answer, UNCHANGED search
    PROVE  ServiceInv'
<1>1. PICK j, w, p, q, c, f : Held(j, w, p, q, c, f)
    BY ServiceNow
<1>2. /\ UNCHANGED <<day, algorithm, ind, out, todo, pop, fresh, current, round>>
      /\ step = "polish" /\ step' = "done"
    BY DEF Answer, search
<1>3. w = {} /\ Carries(j, Stops) /\ Carries(j, Stops \ w) /\ w \subseteq Stops
    BY <1>1, <1>2, MadeIsWhole
<1>4. PICK g : g = found' /\ (g = j \/ (g = f /\ algorithm = "hgs"))
    BY <1>1 DEF Answer, Held
<1>5. Carries(g, Stops)
    BY <1>1, <1>2, <1>3, <1>4 DEF Held, HasFound
<1>6. HasCurrent' => Carries(c, Stops)
    BY <1>1, <1>2 DEF Held, HasCurrent
<1>7. ServiceSteps'
    BY <1>2 DEF ServiceInv, ServiceSteps
<1>8. /\ day' = day /\ day \in DOMAIN Days /\ ind' = j /\ out' = w /\ pop' = p /\ fresh' = q
      /\ current' = c /\ found' = g
      /\ \A m \in p \cup q : Carries(m.routes, Stops)
    BY <1>1, <1>2, <1>4 DEF Held
<1> QED
    BY <1>3, <1>5, <1>6, <1>7, <1>8, ServiceInvNext

LEMMA ServiceStep ==
    ASSUME ServiceInv, ServiceNext, UNCHANGED search
    PROVE  ServiceInv'
    BY ImproveKeeps, NoMoreKeeps, NearestKeeps, SeedKeeps, InsertionKeeps, ScatterKeeps, EnterKeeps,
       RenewKeeps, RefillKeeps, BreedKeeps, MissingKeeps, JoinKeeps, FinaleKeeps, RuinKeeps,
       ReinsertionKeeps, AnnealKeeps, CooledKeeps, AnswerKeeps DEF ServiceNext

LEMMA ServiceStays ==
    ASSUME ServiceInv, UNCHANGED service, day' = day
    PROVE  ServiceInv'
<1>1. UNCHANGED <<day, algorithm, step, ind, out, todo, pop, fresh, current, found, round>>
    BY DEF service
<1>2. ServiceSteps'
    BY <1>1 DEF ServiceInv, ServiceSteps
<1>3. (HasFound' => HasFound) /\ (HasCurrent' => HasCurrent)
    BY <1>1 DEF HasFound, HasCurrent
<1> QED
    BY <1>1, <1>2, <1>3, IndividualStays

LEMMA ServiceStarts ==
    ASSUME ServiceInit, day \in DOMAIN Days
    PROVE  ServiceInv
<1>1. /\ step \in {"nearest", "cheapest"} /\ (step = "nearest" => algorithm = "nn2opt")
      /\ ind = NoRoutes /\ out = Stops /\ todo = <<>> /\ pop = {} /\ fresh = {} /\ round = 0
    BY DEF ServiceInit
<1>2. PICK i, o : i = ind /\ o = out /\ Carries(i, Stops \ o) /\ o \subseteq Stops
    BY <1>1, NewIndividual
<1>3. Carries(ind, Stops \ out) /\ out \subseteq Stops
    BY <1>2 DEF Carries
<1>4. ServiceSteps
    BY <1>1, OperatorLists DEF ServiceSteps
<1>5. ~HasFound /\ ~HasCurrent
    BY <1>1 DEF HasFound, HasCurrent
<1> QED
    BY <1>1, <1>3, <1>4, <1>5 DEF ServiceInv

LEMMA ServiceIsSound ==
    ASSUME ServiceInv
    PROVE  EveryoneIsWhole
<1>1. PICK i, o, p, q, c, f : Held(i, o, p, q, c, f)
    BY ServiceNow
<1>2. ASSUME NEW x, Carries(x, Stops)
      PROVE  \A s \in Stops : Cardinality({k \in Vehicles \X (1 .. Cardinality(Stops)) :
                                             At(x[k[1]], k[2]) = s}) = 1
    <2>1. PICK P : P = Stops
        OBVIOUS
    <2>2. Carries(x, P) /\ P \subseteq Stops /\ day \in DOMAIN Days
        BY <1>1, <1>2, <2>1 DEF Held
    <2>3. ASSUME NEW s \in Stops
          PROVE  Cardinality({k \in Vehicles \X (1 .. Cardinality(Stops)) : At(x[k[1]], k[2]) = s}) = 1
        <3>1. Cardinality({k \in Vehicles \X (1 .. Cardinality(Stops)) : At(x[k[1]], k[2]) = s})
                  = IF s \in P THEN 1 ELSE 0
            BY <2>2, OnePlace
        <3> QED
            BY <2>1, <3>1
    <2> QED
        BY <2>3
<1>3. ASSUME NEW x, Carries(x, Stops) PROVE Whole(x)
    BY <1>2, <1>3 DEF Whole
<1>4. \A m \in pop \cup fresh : Whole(m.routes)
    <2>1. ASSUME NEW m \in pop \cup fresh PROVE Whole(m.routes)
        <3>1. PICK x : x = m.routes
            OBVIOUS
        <3>2. Carries(x, Stops)
            BY <1>1, <3>1 DEF Held
        <3>3. Whole(x)
            BY <1>3, <3>2
        <3> QED
            BY <3>1, <3>3
    <2> QED
        BY <2>1
<1>5. round > 0 \/ step = "done" => Whole(found)
    <2>1. ASSUME round > 0 \/ step = "done" PROVE Whole(found)
        <3>1. Carries(f, Stops) /\ f = found
            BY <1>1, <2>1 DEF Held, HasFound
        <3>2. Whole(f)
            BY <1>3, <3>1
        <3> QED
            BY <3>1, <3>2
    <2> QED
        BY <2>1
<1> QED
    BY <1>4, <1>5 DEF EveryoneIsWhole

\* Whatever heuristic runs, in the backend or in the service, stops are neither lost nor
\* carried twice, the loads kept are the sums, and vehicles carry what they may.
THEOREM RoutesStaySound == RoutingSpec => []RoutesAreSound
<1>1. RoutingInit => SearchInv /\ ServiceInv
    BY SearchStarts, ServiceStarts DEF RoutingInit, SearchInit
<1>2. SearchInv /\ ServiceInv /\ [RoutingNext]_<<search, service>> => SearchInv' /\ ServiceInv'
    <2>1. ASSUME SearchInv, ServiceInv, SearchNext, UNCHANGED service PROVE SearchInv' /\ ServiceInv'
        <3>1. day' = day
            BY <2>1 DEF SearchNext, PackStop, NextVehicle, FitFurthest, SeedVehicle, InsertCheapest,
               LocalMove, LocalNext, Relocate, Swap, Destroy, Reinsert, Accept, Intensify
        <3> QED
            BY <2>1, <3>1, SearchStep, ServiceStays
    <2>2. ASSUME SearchInv, ServiceInv, ServiceNext, UNCHANGED search PROVE SearchInv' /\ ServiceInv'
        BY <2>2, SearchStays, ServiceStep
    <2>3. ASSUME SearchInv, ServiceInv, UNCHANGED <<search, service>> PROVE SearchInv' /\ ServiceInv'
        <3>1. UNCHANGED search /\ UNCHANGED service /\ day' = day
            BY <2>3 DEF search
        <3> QED
            BY <2>3, <3>1, SearchStays, ServiceStays
    <2> QED
        BY <2>1, <2>2, <2>3 DEF RoutingNext
<1>3. SearchInv /\ ServiceInv => RoutesAreSound
    BY SearchIsSound, ServiceIsSound DEF RoutesAreSound
<1> QED
    BY <1>1, <1>2, <1>3, PTL DEF RoutingSpec

-----------------------------------------------------------------------------
(* Lengths of routes, and what the moves of the local search do to them.   *)

\* f and g rise by as much over n steps, f from a on and g from b on.
Alike(f, a, g, b, n) == \A k \in 1 .. n : f[a + k] - f[a + k - 1] = g[b + k] - g[b + k - 1]
\* g does so backwards.
Mirrored(f, a, g, b, n) == \A k \in 1 .. n : f[a + k] - f[a + k - 1] = g[b + n - k + 1] - g[b + n - k]
Ints(f, a, n) == \A k \in 0 .. n : f[a + k] \in Int

LEMMA AlikeRise ==
    ASSUME NEW a \in Nat, NEW b \in Nat, NEW n \in Nat, NEW f, NEW g,
           Ints(f, a, n), Ints(g, b, n), Alike(f, a, g, b, n)
    PROVE  f[a + n] - f[a] = g[b + n] - g[b]
<1> DEFINE Good(k) == f[a + k] - f[a] = g[b + k] - g[b]
           Bad == {k \in 1 .. n : ~ Good(k)}
<1>1. \A k \in 0 .. n : f[a + k] \in Int /\ g[b + k] \in Int
    BY DEF Ints
<1>2. Good(0)
    <2>1. f[a + 0] \in Int /\ g[b + 0] \in Int /\ a + 0 = a /\ b + 0 = b
        BY <1>1
    <2> QED
        BY <2>1
<1>3. ASSUME NEW k \in 1 .. n, Good(k - 1) PROVE Good(k)
    <2>1. f[a + k] - f[a + k - 1] = g[b + k] - g[b + k - 1]
        BY DEF Alike
    <2>2. f[a + (k - 1)] - f[a] = g[b + (k - 1)] - g[b]
        BY <1>3
    <2>3. a + (k - 1) = a + k - 1 /\ b + (k - 1) = b + k - 1 /\ a + 0 = a /\ b + 0 = b
          /\ k \in 0 .. n /\ k - 1 \in 0 .. n /\ 0 \in 0 .. n
        OBVIOUS
    <2>4. PICK x \in Int, y \in Int, z \in Int : x = f[a + k] /\ y = f[a + k - 1] /\ z = f[a]
        BY <1>1, <2>3
    <2>5. PICK u \in Int, v \in Int, w \in Int : u = g[b + k] /\ v = g[b + k - 1] /\ w = g[b]
        BY <1>1, <2>3
    <2>6. x - y = u - v /\ y - z = v - w
        BY <2>1, <2>2, <2>3, <2>4, <2>5
    <2>7. x - z = u - w
        BY <2>6
    <2> QED
        BY <2>4, <2>5, <2>7
<1>4. ASSUME Bad # {} PROVE FALSE
    <2>1. PICK k \in Bad : \A m \in Bad : k <= m
        <3>1. Bad \subseteq 1 .. n
            OBVIOUS
        <3> HIDE DEF Bad
        <3> QED
            BY <1>4, <3>1, LeastMember
    <2>2. k \in 1 .. n /\ k - 1 \in 0 .. n /\ k - 1 \notin Bad
        BY <2>1
    <2>3. Good(k - 1)
        <3>1. CASE k = 1
            BY <1>2, <3>1
        <3>2. CASE k # 1
            BY <2>2, <3>2
        <3> QED
            BY <3>1, <3>2
    <2> QED
        BY <1>3, <2>1, <2>2, <2>3
<1>5. Good(n)
    <2>1. CASE n = 0
        BY <1>2, <2>1
    <2>2. CASE n # 0
        BY <1>4, <2>2
    <2> QED
        BY <2>1, <2>2
<1> QED
    BY <1>5

LEMMA MirroredRise ==
    ASSUME NEW a \in Nat, NEW b \in Nat, NEW n \in Nat, NEW f, NEW g,
           Ints(f, a, n), Ints(g, b, n), Mirrored(f, a, g, b, n)
    PROVE  f[a + n] - f[a] = g[b + n] - g[b]
<1> DEFINE h == [k \in 0 .. n |-> g[b + n] - g[b + n - k]]
<1>1. \A k \in 0 .. n : g[b + k] \in Int
    BY DEF Ints
<1>2. \A k \in 0 .. n : h[k] \in Int /\ h[k] = g[b + n] - g[b + n - k]
    <2>1. TAKE k \in 0 .. n
    <2>2. n - k \in 0 .. n /\ n \in 0 .. n /\ b + (n - k) = b + n - k
        OBVIOUS
    <2>3. g[b + n] \in Int /\ g[b + n - k] \in Int
        BY <1>1, <2>2
    <2> QED
        BY <2>3
<1>3. Ints(h, 0, n)
    <2>1. \A k \in 0 .. n : 0 + k = k
        OBVIOUS
    <2> HIDE DEF h
    <2> QED
        BY <1>2, <2>1 DEF Ints
<1>4. Alike(f, a, h, 0, n)
    <2>1. SUFFICES ASSUME NEW k \in 1 .. n
                   PROVE  f[a + k] - f[a + k - 1] = h[0 + k] - h[0 + k - 1]
        BY DEF Alike
    <2>2. f[a + k] - f[a + k - 1] = g[b + n - k + 1] - g[b + n - k]
        BY DEF Mirrored
    <2>3. /\ 0 + k = k /\ 0 + k - 1 = k - 1 /\ k \in 0 .. n /\ k - 1 \in 0 .. n
          /\ b + n - (k - 1) = b + n - k + 1 /\ b + (n - k) = b + n - k
          /\ b + (n - k + 1) = b + n - k + 1 /\ n - k \in 0 .. n /\ n - k + 1 \in 0 .. n /\ n \in 0 .. n
        OBVIOUS
    <2>4. PICK x \in Int, y \in Int, z \in Int : x = g[b + n - k + 1] /\ y = g[b + n - k] /\ z = g[b + n]
        BY <1>1, <2>3
    <2>5. h[k] = z - y /\ h[k - 1] = z - x
        BY <1>2, <2>3, <2>4
    <2>6. (z - y) - (z - x) = x - y
        OBVIOUS
    <2> HIDE DEF h
    <2> QED
        BY <2>2, <2>3, <2>4, <2>5, <2>6
<1>5. f[a + n] - f[a] = h[0 + n] - h[0]
    <2> HIDE DEF h
    <2> QED
        BY <1>3, <1>4, AlikeRise
<1>6. h[0 + n] - h[0] = g[b + n] - g[b]
    <2>1. 0 + n = n /\ n \in 0 .. n /\ 0 \in 0 .. n /\ b + n - 0 = b + n /\ b + n - n = b /\ b + 0 = b
        OBVIOUS
    <2>2. PICK x \in Int, y \in Int : x = g[b + n] /\ y = g[b]
        BY <1>1, <2>1
    <2>3. h[n] = x - y /\ h[0] = x - x
        BY <1>2, <2>1, <2>2
    <2> HIDE DEF h
    <2> QED
        BY <2>1, <2>2, <2>3
<1> QED
    BY <1>5, <1>6

Nodes == 0 .. Len(Weight)
Leg(r, i) == Dist(At(r, i - 1), At(r, i))
\* g[i] is the way of r up to its i-th leg, the last of which leads back to the depot.
Walk(g, r) == /\ \A i \in 0 .. Len(r) + 1 : g[i] \in Int
              /\ g[0] = 0 /\ RouteDist(r) = g[Len(r) + 1]
              /\ \A i \in 1 .. Len(r) + 1 : g[i] - g[i - 1] = Leg(r, i)

LEMMA Distances ==
    ASSUME day \in DOMAIN Days
    PROVE  \A a, b \in Nodes : Dist(a, b) \in Int /\ Dist(a, b) = Dist(b, a)
<1>1. Place \in [Nodes -> Int \X Int]
    BY DaysAssumption DEF Place, Nodes, Weight
<1>2. ASSUME NEW p \in Int \X Int, NEW q \in Int \X Int
      PROVE  Apart(p, q) \in Int /\ Apart(p, q) = Apart(q, p)
    <2>1. \A x, y \in Int : Abs(x - y) \in Int /\ Abs(x - y) = Abs(y - x)
        BY DEF Abs
    <2>2. p[1] \in Int /\ p[2] \in Int /\ q[1] \in Int /\ q[2] \in Int
        OBVIOUS
    <2> QED
        BY <2>1, <2>2 DEF Apart
<1>3. ASSUME NEW a \in Nodes, NEW b \in Nodes PROVE Dist(a, b) \in Int /\ Dist(a, b) = Dist(b, a)
    <2>1. Place[a] \in Int \X Int /\ Place[b] \in Int \X Int
        BY <1>1
    <2> QED
        BY <1>2, <2>1 DEF Dist
<1> QED
    BY <1>3

LEMMA Visits ==
    ASSUME day \in DOMAIN Days, NEW r \in Seq(Stops)
    PROVE  /\ \A i \in 1 .. Len(r) : At(r, i) = r[i] /\ r[i] \in Nodes
           /\ \A i \in Int : At(r, i) \in Nodes /\ (i \notin 1 .. Len(r) => At(r, i) = 0)
<1>1. Stops = 1 .. Len(Weight) /\ Len(Weight) \in Nat
    BY DayFacts
<1>2. DOMAIN r = 1 .. Len(r) /\ \A i \in 1 .. Len(r) : r[i] \in Stops
    OBVIOUS
<1>3. \A i \in 1 .. Len(r) : r[i] \in Nodes
    BY <1>1, <1>2 DEF Nodes
<1>4. 0 \in Nodes
    BY <1>1 DEF Nodes
<1> QED
    BY <1>2, <1>3, <1>4 DEF At, Depot

LEMMA Walks ==
    ASSUME day \in DOMAIN Days, NEW r \in Seq(Stops)
    PROVE  \E g : Walk(g, r)
<1> DEFINE N == Len(r) + 1
           t == [i \in 1 .. N |-> Dist(At(r, i - 1), At(r, i))]
<1>1. N \in Nat
    OBVIOUS
<1>2. \A i \in 1 .. N : t[i] = Leg(r, i) /\ Leg(r, i) \in Int
    <2>1. \A i \in 1 .. N : At(r, i - 1) \in Nodes /\ At(r, i) \in Nodes
        BY Visits
    <2> QED
        BY <2>1, Distances DEF Leg
<1>3. RouteDist(r) = SumTo(t, N)
    BY DEF RouteDist
<1> HIDE DEF t, N
<1>4. PICK g : SumTo(t, N) = g[N] /\ g[0] = 0 /\ \A i \in 1 .. N : g[i] = g[i - 1] + t[i]
    BY <1>1, TotalIsLast
<1> DEFINE Bad == {i \in 1 .. N : g[i] \notin Int}
<1>5. ASSUME Bad # {} PROVE FALSE
    <2>1. PICK i \in Bad : \A m \in Bad : i <= m
        <3>1. Bad \subseteq 1 .. N
            OBVIOUS
        <3> HIDE DEF Bad
        <3> QED
            BY <1>1, <1>5, <3>1, LeastMember
    <2>2. i \in 1 .. N /\ g[i - 1] \in Int
        <3>1. CASE i = 1
            BY <1>4, <3>1
        <3>2. CASE i # 1
            BY <1>1, <2>1, <3>2
        <3> QED
            BY <3>1, <3>2
    <2>3. g[i] = g[i - 1] + t[i] /\ t[i] \in Int
        BY <1>2, <1>4, <2>2
    <2>4. PICK x \in Int, y \in Int : x = g[i - 1] /\ y = t[i]
        BY <2>2, <2>3
    <2>5. g[i] \in Int
        BY <2>3, <2>4
    <2> QED
        BY <2>1, <2>5
<1>6. \A i \in 0 .. N : g[i] \in Int
    BY <1>1, <1>4, <1>5
<1>7. ASSUME NEW i \in 1 .. N PROVE g[i] - g[i - 1] = Leg(r, i)
    <2>1. g[i] = g[i - 1] + t[i] /\ t[i] = Leg(r, i) /\ Leg(r, i) \in Int
        BY <1>2, <1>4
    <2>2. i - 1 \in 0 .. N
        BY <1>1
    <2>3. PICK x \in Int, y \in Int : x = g[i - 1] /\ y = Leg(r, i)
        BY <1>6, <2>1, <2>2
    <2> QED
        BY <2>1, <2>3
<1> QED
    BY <1>3, <1>4, <1>6, <1>7 DEF Walk, N

LEMMA WalkIsWhole ==
    ASSUME NEW r, Len(r) \in Nat, NEW g, Walk(g, r), NEW a \in Nat, NEW n \in Nat, a + n <= Len(r) + 1
    PROVE  Ints(g, a, n)
<1>1. \A k \in 0 .. n : a + k \in 0 .. Len(r) + 1
    OBVIOUS
<1> QED
    BY <1>1 DEF Walk, Ints

\* The n legs of r after its first a are those of q after its first b.
AlikeLegs(r, a, q, b, n) ==
    /\ a + n <= Len(r) + 1 /\ b + n <= Len(q) + 1
    /\ \A k \in 1 .. n : Leg(r, a + k) = Leg(q, b + k)
MirroredLegs(r, a, q, b, n) ==
    /\ a + n <= Len(r) + 1 /\ b + n <= Len(q) + 1
    /\ \A k \in 1 .. n : Leg(r, a + k) = Leg(q, b + n - k + 1)

LEMMA AlikeWalks ==
    ASSUME NEW r, Len(r) \in Nat, NEW q, Len(q) \in Nat, NEW g, Walk(g, r), NEW h, Walk(h, q),
           NEW a \in Nat, NEW b \in Nat, NEW n \in Nat, AlikeLegs(r, a, q, b, n)
    PROVE  g[a + n] - g[a] = h[b + n] - h[b]
<1>1. Ints(g, a, n) /\ Ints(h, b, n)
    BY WalkIsWhole DEF AlikeLegs
<1>2. ASSUME NEW k \in 1 .. n PROVE g[a + k] - g[a + k - 1] = h[b + k] - h[b + k - 1]
    <2>1. a + k \in 1 .. Len(r) + 1 /\ b + k \in 1 .. Len(q) + 1 /\ Leg(r, a + k) = Leg(q, b + k)
        BY DEF AlikeLegs
    <2>2. g[a + k] - g[a + k - 1] = Leg(r, a + k) /\ h[b + k] - h[b + k - 1] = Leg(q, b + k)
        BY <2>1 DEF Walk
    <2> QED
        BY <2>1, <2>2
<1>3. Alike(g, a, h, b, n)
    BY <1>2 DEF Alike
<1> QED
    BY <1>1, <1>3, AlikeRise

LEMMA MirroredWalks ==
    ASSUME NEW r, Len(r) \in Nat, NEW q, Len(q) \in Nat, NEW g, Walk(g, r), NEW h, Walk(h, q),
           NEW a \in Nat, NEW b \in Nat, NEW n \in Nat, MirroredLegs(r, a, q, b, n)
    PROVE  g[a + n] - g[a] = h[b + n] - h[b]
<1>1. Ints(g, a, n) /\ Ints(h, b, n)
    BY WalkIsWhole DEF MirroredLegs
<1>2. ASSUME NEW k \in 1 .. n PROVE g[a + k] - g[a + k - 1] = h[b + n - k + 1] - h[b + n - k]
    <2>1. a + k \in 1 .. Len(r) + 1 /\ b + n - k + 1 \in 1 .. Len(q) + 1
          /\ b + n - k + 1 - 1 = b + n - k /\ Leg(r, a + k) = Leg(q, b + n - k + 1)
        BY DEF MirroredLegs
    <2>2. g[a + k] - g[a + k - 1] = Leg(r, a + k)
          /\ h[b + n - k + 1] - h[b + n - k + 1 - 1] = Leg(q, b + n - k + 1)
        BY <2>1 DEF Walk
    <2> QED
        BY <2>1, <2>2
<1>3. Mirrored(g, a, h, b, n)
    BY <1>2 DEF Mirrored
<1> QED
    BY <1>1, <1>3, MirroredRise

\* c is a, of m stops, then b, of n, stop by stop.
InPair(c, a, b, m, n) ==
    /\ Len(c) = m + n
    /\ \A k \in 1 .. m : c[k] = a[k]
    /\ \A k \in m + 1 .. m + n : c[k] = b[k - m]

LEMMA PairIs ==
    ASSUME NEW T, NEW a \in Seq(T), NEW b \in Seq(T), NEW m \in Nat, NEW n \in Nat,
           Len(a) = m, Len(b) = n, NEW c, IsJoin(c, a, b)
    PROVE  c \in Seq(T) /\ InPair(c, a, b, m, n)
<1>1. /\ a \o b \in Seq(T) /\ Len(a \o b) = Len(a) + Len(b)
      /\ \A k \in 1 .. Len(a) + Len(b) : (a \o b)[k] = IF k <= Len(a) THEN a[k] ELSE b[k - Len(a)]
    BY ConcatProperties
<1>2. /\ c \in Seq(T) /\ Len(c) = m + n
      /\ \A k \in 1 .. m + n : c[k] = IF k <= m THEN a[k] ELSE b[k - m]
    BY <1>1 DEF IsJoin
<1>3. \A k \in 1 .. m : c[k] = a[k]
    BY <1>2
<1>4. \A k \in m + 1 .. m + n : c[k] = b[k - m]
    BY <1>2
<1> QED
    BY <1>2, <1>3, <1>4 DEF InPair

\* d is a, then b, then c, of l, m and n stops, stop by stop.
InTurn(d, a, b, c, l, m, n) ==
    /\ Len(d) = l + m + n
    /\ \A k \in 1 .. l : d[k] = a[k]
    /\ \A k \in 1 .. m : d[l + k] = b[k]
    /\ \A k \in 1 .. n : d[l + m + k] = c[k]

LEMMA TripleIs ==
    ASSUME NEW T, NEW a \in Seq(T), NEW b \in Seq(T), NEW c \in Seq(T),
           NEW l \in Nat, NEW m \in Nat, NEW n \in Nat, Len(a) = l, Len(b) = m, Len(c) = n,
           NEW d, AreJoined(d, a, b, c)
    PROVE  d \in Seq(T) /\ InTurn(d, a, b, c, l, m, n)
<1>1. PICK e : IsJoin(e, a, b) /\ IsJoin(d, e, c)
    BY DEF AreJoined
<1>2. /\ e \in Seq(T) /\ Len(e) = l + m
      /\ \A k \in 1 .. l : e[k] = a[k]
      /\ \A k \in l + 1 .. l + m : e[k] = b[k - l]
    BY <1>1, PairIs DEF InPair
<1>3. PICK p \in Nat : p = l + m
    OBVIOUS
<1>a. e \in Seq(T) /\ Len(e) = p /\ p \in Nat /\ IsJoin(d, e, c)
    BY <1>1, <1>2, <1>3
<1>4. /\ d \in Seq(T) /\ Len(d) = p + n
      /\ \A k \in 1 .. p : d[k] = e[k]
      /\ \A k \in p + 1 .. p + n : d[k] = c[k - p]
    BY <1>a, PairIs DEF InPair
<1>5. ASSUME NEW k \in 1 .. l PROVE d[k] = a[k]
    <2>1. k \in 1 .. p
        BY <1>3
    <2> QED
        BY <1>2, <1>4, <2>1
<1>6. ASSUME NEW k \in 1 .. m PROVE d[l + k] = b[k]
    <2>1. l + k \in 1 .. p /\ l + k \in l + 1 .. l + m /\ l + k - l = k
        BY <1>3
    <2> QED
        BY <1>2, <1>4, <2>1
<1>7. ASSUME NEW k \in 1 .. n PROVE d[l + m + k] = c[k]
    <2>1. PICK o \in p + 1 .. p + n : o = l + m + k /\ o - p = k
        BY <1>3
    <2>2. d[o] = c[o - p]
        BY <1>4
    <2> QED
        BY <2>1, <2>2
<1> QED
    BY <1>3, <1>4, <1>5, <1>6, <1>7 DEF InTurn

\* q is r with the stops from i to j the other way round.
IsTurned(q, r, i, j) ==
    /\ Len(q) = Len(r)
    /\ \A k \in 1 .. Len(r) : q[k] = IF k < i \/ k > j THEN r[k] ELSE r[i + j - k]

LEMMA TurnedIs ==
    ASSUME NEW T, NEW r \in Seq(T), NEW i \in 1 .. Len(r), NEW j \in 1 .. Len(r), i <= j
    PROVE  Reversed(r, i, j) \in Seq(T) /\ IsTurned(Reversed(r, i, j), r, i, j)
<1>1. PICK N \in Nat : N = Len(r)
    BY LenProperties
<1>2. i - 1 \in Nat /\ j - i + 1 \in Nat /\ N - j \in Nat
    BY <1>1
<1> DEFINE l == i - 1
           m == j - i + 1
           n == N - j
<1>b. l = i - 1 /\ m = j - i + 1 /\ n = N - j /\ l \in Nat /\ m \in Nat /\ n \in Nat
    BY <1>2
<1>c. l \in Nat /\ m \in Nat /\ n \in Nat
    BY <1>2
<1> HIDE DEF l, m, n
<1>3. PICK a : a = SubSeq(r, 1, i - 1)
    OBVIOUS
<1>4. PICK b : b = SubSeq(r, i, j)
    OBVIOUS
<1>5. PICK c : c = SubSeq(r, j + 1, N)
    OBVIOUS
<1>6. a \in Seq(T) /\ Len(a) = l /\ \A k \in 1 .. l : a[k] = r[k]
    <2>1. SubSeq(r, 1, l) \in Seq(T) /\ Len(SubSeq(r, 1, l)) = l - 1 + 1
          /\ \A k \in 1 .. l - 1 + 1 : SubSeq(r, 1, l)[k] = r[1 + k - 1]
        <3>1. 1 <= 1 /\ 1 - 1 <= l /\ l <= Len(r)
            BY <1>1, <1>b
        <3> QED
            BY <1>c, <3>1, Part
    <2>2. l - 1 + 1 = l /\ \A k \in 1 .. l : 1 + k - 1 = k
        BY <1>c
    <2> QED
        BY <1>b, <1>3, <2>1, <2>2
<1>7. b \in Seq(T) /\ Len(b) = m /\ \A k \in 1 .. m : b[k] = r[l + k]
    <2>1. SubSeq(r, i, j) \in Seq(T) /\ Len(SubSeq(r, i, j)) = j - i + 1
          /\ \A k \in 1 .. j - i + 1 : SubSeq(r, i, j)[k] = r[i + k - 1]
        <3>1. i \in Nat /\ j \in Nat /\ 1 <= i /\ i - 1 <= j /\ j <= Len(r)
            BY <1>1
        <3> QED
            BY <3>1, Part
    <2>2. \A k \in 1 .. m : i + k - 1 = l + k
        BY <1>b
    <2> QED
        BY <1>b, <1>4, <2>1, <2>2
<1>8. c \in Seq(T) /\ Len(c) = n /\ \A k \in 1 .. n : c[k] = r[j + k]
    <2>1. SubSeq(r, j + 1, N) \in Seq(T) /\ Len(SubSeq(r, j + 1, N)) = N - (j + 1) + 1
          /\ \A k \in 1 .. N - (j + 1) + 1 : SubSeq(r, j + 1, N)[k] = r[j + 1 + k - 1]
        <3>1. j + 1 \in Nat /\ 1 <= j + 1 /\ j + 1 - 1 <= N /\ N <= Len(r)
            BY <1>1
        <3> QED
            BY <3>1, Part
    <2>2. N - (j + 1) + 1 = n /\ \A k \in 1 .. n : j + 1 + k - 1 = j + k
        BY <1>b
    <2> QED
        BY <1>5, <2>1, <2>2
<1>9. PICK q : q = Reverse(b)
    OBVIOUS
<1>10. q \in Seq(T) /\ Len(q) = m /\ \A k \in 1 .. m : q[k] = r[l + m - k + 1]
    <2>1. q \in Seq(T)
        BY <1>7, <1>9, Backwards
    <2>2. q = [k \in 1 .. m |-> b[m - k + 1]]
        BY <1>7, <1>9 DEF Reverse
    <2>3. \A k \in 1 .. m : m - k + 1 \in 1 .. m /\ l + (m - k + 1) = l + m - k + 1
        BY <1>c
    <2>4. Len(q) = m
        BY <1>c, <2>2
    <2>5. \A k \in 1 .. m : q[k] = b[m - k + 1] /\ b[m - k + 1] = r[l + (m - k + 1)]
        BY <1>7, <2>2, <2>3
    <2> QED
        BY <2>1, <2>3, <2>4, <2>5
<1>11. PICK d : d = Reversed(r, i, j)
    OBVIOUS
<1>12. AreJoined(d, a, q, c)
    <2>1. d = a \o q \o c
        BY <1>1, <1>3, <1>4, <1>5, <1>9, <1>11 DEF Reversed
    <2> QED
        BY <2>1 DEF AreJoined, IsJoin
<1>13. /\ d \in Seq(T) /\ Len(d) = l + m + n
       /\ \A k \in 1 .. l : d[k] = a[k]
       /\ \A k \in 1 .. m : d[l + k] = q[k]
       /\ \A k \in 1 .. n : d[l + m + k] = c[k]
    <2>1. /\ a \in Seq(T) /\ q \in Seq(T) /\ c \in Seq(T)
          /\ Len(a) = l /\ Len(q) = m /\ Len(c) = n
        BY <1>6, <1>8, <1>10
    <2>2. d \in Seq(T) /\ InTurn(d, a, q, c, l, m, n)
        BY <1>c, <1>12, <2>1, TripleIs
    <2> QED
        BY <2>2 DEF InTurn
<1>14. l + m + n = N /\ l + m = j /\ l = i - 1
    BY <1>b
<1>15. ASSUME NEW k \in 1 .. N PROVE d[k] = IF k < i \/ k > j THEN r[k] ELSE r[i + j - k]
    <2>1. CASE k < i
        <3>1. k \in 1 .. l
            BY <1>14, <2>1
        <3> QED
            BY <1>6, <1>13, <2>1, <3>1
    <2>2. CASE i <= k /\ k <= j
        <3>1. PICK o \in 1 .. m : o = k - l
            BY <1>b, <1>14, <2>2
        <3>2. l + o = k /\ l + m - o + 1 = i + j - k /\ ~(k < i \/ k > j)
            BY <1>c, <1>14, <2>2, <3>1
        <3>3. d[l + o] = q[o] /\ q[o] = r[l + m - o + 1]
            BY <1>10, <1>13
        <3> QED
            BY <3>2, <3>3
    <2>3. CASE k > j
        <3>1. PICK o \in 1 .. n : o = k - j
            BY <1>b, <2>3
        <3>2. l + m + o = k /\ j + o = k
            BY <1>14, <3>1
        <3>3. d[l + m + o] = c[o] /\ c[o] = r[j + o]
            BY <1>8, <1>13
        <3> QED
            BY <2>3, <3>2, <3>3
    <2> QED
        BY <2>1, <2>2, <2>3
<1> QED
    BY <1>1, <1>11, <1>13, <1>14, <1>15 DEF IsTurned

\* The price of a turn is the difference in length.
LEMMA TurnPrice ==
    ASSUME day \in DOMAIN Days, NEW r \in Seq(Stops), NEW i \in 1 .. Len(r), NEW j \in 1 .. Len(r), i <= j,
           NEW q \in Seq(Stops), IsTurned(q, r, i, j)
    PROVE  /\ RouteDist(q) = RouteDist(r) + TwoOptDelta(r, i, j)
           /\ RouteDist(q) \in Int /\ RouteDist(r) \in Int /\ TwoOptDelta(r, i, j) \in Int
<1>1. PICK N \in Nat : N = Len(r)
    BY LenProperties
<1>2. /\ N = Len(r) /\ N = Len(q) /\ i \in 1 .. N /\ j \in 1 .. N /\ i <= j
      /\ i - 1 \in Nat /\ j - i \in Nat /\ N - j \in Nat /\ i \in Nat /\ j \in Nat /\ j + 1 \in Nat
    BY <1>1 DEF IsTurned
<1>3. \A k \in 1 .. N : q[k] = IF k < i \/ k > j THEN r[k] ELSE r[i + j - k]
    BY <1>1 DEF IsTurned
<1>4. PICK g : Walk(g, r)
    BY Walks
<1>5. PICK h : Walk(h, q)
    BY Walks
<1>6. /\ \A k \in 1 .. N : At(r, k) = r[k] /\ At(q, k) = q[k]
      /\ \A k \in Int : At(r, k) \in Nodes /\ At(q, k) \in Nodes
                        /\ (k \notin 1 .. N => At(r, k) = 0 /\ At(q, k) = 0)
    BY <1>1, <1>2, Visits
<1>7. ASSUME NEW k \in 0 .. N + 1, k < i \/ k > j PROVE At(q, k) = At(r, k)
    <2>1. CASE k \in 1 .. N
        BY <1>3, <1>6, <1>7, <2>1
    <2>2. CASE k \notin 1 .. N
        BY <1>6, <2>2
    <2> QED
        BY <2>1, <2>2
<1>8. ASSUME NEW k \in i .. j PROVE At(q, k) = At(r, i + j - k)
    <2>1. k \in 1 .. N /\ i + j - k \in 1 .. N /\ ~(k < i \/ k > j)
        BY <1>2
    <2> QED
        BY <1>3, <1>6, <2>1
<1>9. h[i - 1] = g[i - 1]
    <2>1. \A k \in 1 .. i - 1 : Leg(r, 0 + k) = Leg(q, 0 + k)
        <3>1. ASSUME NEW k \in 1 .. i - 1 PROVE At(q, k - 1) = At(r, k - 1) /\ At(q, k) = At(r, k)
            <4>1. k \in 0 .. N + 1 /\ k < i /\ k - 1 \in 0 .. N + 1 /\ k - 1 < i
                BY <1>2
            <4> QED
                BY <1>7, <4>1
        <3>2. \A k \in 1 .. i - 1 : 0 + k = k
            BY <1>2
        <3> QED
            BY <3>1, <3>2 DEF Leg
    <2>2. 0 + (i - 1) <= N + 1 /\ 0 \in Nat
        BY <1>2
    <2>3. g[0 + (i - 1)] - g[0] = h[0 + (i - 1)] - h[0]
        <3>1. AlikeLegs(r, 0, q, 0, i - 1)
            BY <1>1, <1>2, <2>1, <2>2 DEF AlikeLegs
        <3>2. Len(r) \in Nat /\ Len(q) \in Nat /\ i - 1 \in Nat /\ 0 \in Nat
            BY <1>2
        <3> QED
            BY <1>4, <1>5, <3>1, <3>2, AlikeWalks
    <2>4. i - 1 \in 0 .. N + 1 /\ 0 + (i - 1) = i - 1
        BY <1>2
    <2>5. g[0] = 0 /\ h[0] = 0 /\ g[i - 1] \in Int /\ h[i - 1] \in Int
        BY <1>1, <1>2, <1>4, <1>5, <2>4 DEF Walk
    <2>6. g[i - 1] - 0 = h[i - 1] - 0
        BY <2>3, <2>4, <2>5
    <2> QED
        BY <2>5, <2>6
<1>10. g[i + (j - i)] - g[i] = h[i + (j - i)] - h[i]
    <2>1. \A k \in 1 .. j - i : Leg(r, i + k) = Leg(q, i + (j - i) - k + 1)
        <3>1. SUFFICES ASSUME NEW k \in 1 .. j - i
                       PROVE  Leg(r, i + k) = Leg(q, i + (j - i) - k + 1)
            OBVIOUS
        <3>2. PICK m \in Nat : m = j - k + 1
            BY <1>2
        <3>3. /\ i + (j - i) - k + 1 = m /\ m \in i .. j /\ m - 1 \in i .. j
              /\ i + j - m = i + k - 1 /\ i + j - (m - 1) = i + k
            BY <1>2, <3>2
        <3>4. At(q, m) = At(r, i + k - 1) /\ At(q, m - 1) = At(r, i + k)
            BY <1>8, <3>3
        <3>5. At(r, i + k - 1) \in Nodes /\ At(r, i + k) \in Nodes
            BY <1>2, <1>6
        <3>6. Dist(At(r, i + k - 1), At(r, i + k)) = Dist(At(r, i + k), At(r, i + k - 1))
            BY <3>5, Distances
        <3> QED
            BY <3>3, <3>4, <3>6 DEF Leg
    <2>2. i + (j - i) <= N + 1
        BY <1>2
    <2>3. MirroredLegs(r, i, q, i, j - i)
        BY <1>1, <1>2, <2>1, <2>2 DEF MirroredLegs
    <2>4. Len(r) \in Nat /\ Len(q) \in Nat /\ j - i \in Nat /\ i \in Nat
        BY <1>2
    <2> QED
        BY <1>4, <1>5, <2>3, <2>4, MirroredWalks
<1>11. g[(j + 1) + (N - j)] - g[j + 1] = h[(j + 1) + (N - j)] - h[j + 1]
    <2>1. ASSUME NEW k \in 1 .. N - j PROVE Leg(r, (j + 1) + k) = Leg(q, (j + 1) + k)
        <3>1. PICK m \in Nat : m = (j + 1) + k
            BY <1>2
        <3>2. m \in 0 .. N + 1 /\ m > j /\ m - 1 \in 0 .. N + 1 /\ m - 1 > j
            BY <1>2, <3>1
        <3>3. At(q, m - 1) = At(r, m - 1) /\ At(q, m) = At(r, m)
            BY <1>7, <3>2
        <3>4. Leg(r, m) = Leg(q, m)
            BY <3>3 DEF Leg
        <3> QED
            BY <3>1, <3>4
    <2>2. (j + 1) + (N - j) <= N + 1
        BY <1>2
    <2>3. AlikeLegs(r, j + 1, q, j + 1, N - j)
        BY <1>1, <1>2, <2>1, <2>2 DEF AlikeLegs
    <2>4. Len(r) \in Nat /\ Len(q) \in Nat /\ N - j \in Nat /\ j + 1 \in Nat
        BY <1>2
    <2> QED
        BY <1>4, <1>5, <2>3, <2>4, AlikeWalks
<1>12. /\ g[i] - g[i - 1] = Dist(At(r, i - 1), r[i]) /\ h[i] - h[i - 1] = Dist(At(r, i - 1), r[j])
    <2>1. i \in 1 .. N + 1 /\ i - 1 \in 0 .. N + 1 /\ i - 1 < i /\ i \in i .. j /\ i + j - i = j
        BY <1>2
    <2>2. g[i] - g[i - 1] = Leg(r, i) /\ h[i] - h[i - 1] = Leg(q, i)
        BY <1>1, <1>2, <1>4, <1>5, <2>1 DEF Walk
    <2>3. At(q, i - 1) = At(r, i - 1) /\ At(q, i) = At(r, j)
        BY <1>7, <1>8, <2>1
    <2>4. At(r, i) = r[i] /\ At(r, j) = r[j]
        BY <1>2, <1>6
    <2> QED
        BY <2>2, <2>3, <2>4 DEF Leg
<1>13. /\ g[j + 1] - g[j] = Dist(r[j], At(r, j + 1)) /\ h[j + 1] - h[j] = Dist(r[i], At(r, j + 1))
    <2>1. j + 1 \in 1 .. N + 1 /\ j + 1 \in 0 .. N + 1 /\ j + 1 > j /\ j \in i .. j /\ i + j - j = i
          /\ j + 1 - 1 = j
        BY <1>2
    <2>2. g[j + 1] - g[j] = Leg(r, j + 1) /\ h[j + 1] - h[j] = Leg(q, j + 1)
        BY <1>1, <1>2, <1>4, <1>5, <2>1 DEF Walk
    <2>3. At(q, j + 1) = At(r, j + 1) /\ At(q, j) = At(r, i)
        BY <1>7, <1>8, <2>1
    <2>4. At(r, i) = r[i] /\ At(r, j) = r[j]
        BY <1>2, <1>6
    <2> QED
        BY <2>1, <2>2, <2>3, <2>4 DEF Leg
<1>14. /\ i + (j - i) = j /\ (j + 1) + (N - j) = N + 1
       /\ i - 1 \in 0 .. N + 1 /\ i \in 0 .. N + 1 /\ j \in 0 .. N + 1 /\ j + 1 \in 0 .. N + 1 /\ N + 1 \in 0 .. N + 1
    BY <1>2
<1>15. PICK a \in Int, b \in Int, c \in Int, d \in Int, e \in Int :
          a = g[i - 1] /\ b = g[i] /\ c = g[j] /\ d = g[j + 1] /\ e = g[N + 1]
    BY <1>1, <1>4, <1>14 DEF Walk
<1>16. PICK s \in Int, t \in Int, u \in Int, v \in Int, w \in Int :
          s = h[i - 1] /\ t = h[i] /\ u = h[j] /\ v = h[j + 1] /\ w = h[N + 1]
    BY <1>1, <1>2, <1>5, <1>14 DEF Walk
<1>17. s = a /\ c - b = u - t /\ e - d = w - v
    BY <1>9, <1>10, <1>11, <1>14, <1>15, <1>16
<1>18. TwoOptDelta(r, i, j) = (t - s) + (v - u) - (b - a) - (d - c)
    BY <1>12, <1>13, <1>15, <1>16 DEF TwoOptDelta
<1>19. w = e + ((t - s) + (v - u) - (b - a) - (d - c))
    BY <1>17
<1>20. RouteDist(r) = e /\ RouteDist(q) = w
    BY <1>1, <1>2, <1>4, <1>5, <1>15, <1>16 DEF Walk
<1> QED
    BY <1>18, <1>19, <1>20

\* x is w with the stops of s before position p.
IsSplice(x, w, p, s) ==
    /\ Len(x) = Len(w) + Len(s)
    /\ \A k \in 1 .. p - 1 : x[k] = w[k]
    /\ \A k \in 1 .. Len(s) : x[p - 1 + k] = s[k]
    /\ \A k \in p .. Len(w) : x[k + Len(s)] = w[k]

\* The way from the first to the last stop of s.
Inner(s) == RouteDist(s) - Dist(0, s[1]) - Dist(s[Len(s)], 0)
\* The price of s before position p of w, without the way inside.
Detour(w, p, s) == Dist(At(w, p - 1), s[1]) + Dist(s[Len(s)], At(w, p)) - Dist(At(w, p - 1), At(w, p))

\* What lies at the positions of x then.
AreSpliced(x, w, p, s, M, n) ==
    /\ \A k \in 0 .. p - 1 : At(x, k) = At(w, k)
    /\ \A k \in 1 .. n : At(x, p - 1 + k) = At(s, k) /\ At(s, k) = s[k]
    /\ \A k \in p .. M + 1 : At(x, k + n) = At(w, k)

LEMMA SplicePlaces ==
    ASSUME day \in DOMAIN Days, NEW w \in Seq(Stops), NEW s \in Seq(Stops), NEW x \in Seq(Stops),
           NEW M \in Nat, NEW n \in Nat, Len(w) = M, Len(s) = n,
           NEW p \in 1 .. M + 1, IsSplice(x, w, p, s)
    PROVE  AreSpliced(x, w, p, s, M, n)
<1>1. /\ Len(x) = M + n
      /\ \A k \in 1 .. p - 1 : x[k] = w[k]
      /\ \A k \in 1 .. n : x[p - 1 + k] = s[k]
      /\ \A k \in p .. M : x[k + n] = w[k]
    BY DEF IsSplice
<1>2. /\ \A k \in 1 .. M : At(w, k) = w[k]
      /\ \A k \in 1 .. n : At(s, k) = s[k]
      /\ \A k \in 1 .. M + n : At(x, k) = x[k]
      /\ \A k \in Int : (k \notin 1 .. M => At(w, k) = 0) /\ (k \notin 1 .. M + n => At(x, k) = 0)
    BY <1>1, Visits
<1>3. ASSUME NEW k \in 0 .. p - 1 PROVE At(x, k) = At(w, k)
    <2>1. CASE k = 0
        BY <1>2, <2>1
    <2>2. CASE k # 0
        <3>1. k \in 1 .. p - 1 /\ k \in 1 .. M /\ k \in 1 .. M + n
            BY <2>2
        <3> QED
            BY <1>1, <1>2, <3>1
    <2> QED
        BY <2>1, <2>2
<1>4. ASSUME NEW k \in 1 .. n PROVE At(x, p - 1 + k) = At(s, k) /\ At(s, k) = s[k]
    <2>1. PICK m \in 1 .. M + n : m = p - 1 + k
        OBVIOUS
    <2>2. At(x, m) = x[m] /\ x[p - 1 + k] = s[k] /\ At(s, k) = s[k]
        BY <1>1, <1>2
    <2> QED
        BY <2>1, <2>2
<1>5. ASSUME NEW k \in p .. M + 1 PROVE At(x, k + n) = At(w, k)
    <2>1. PICK m \in Int : m = k + n
        OBVIOUS
    <2>2. CASE k = M + 1
        <3>1. m \notin 1 .. M + n /\ k \notin 1 .. M
            BY <2>1, <2>2
        <3>2. At(x, m) = 0 /\ At(w, k) = 0
            BY <1>2, <3>1
        <3> QED
            BY <2>1, <3>2
    <2>3. CASE k # M + 1
        <3>1. k \in p .. M /\ k \in 1 .. M /\ m \in 1 .. M + n
            BY <2>1, <2>3
        <3>2. At(x, m) = x[m] /\ At(w, k) = w[k] /\ x[k + n] = w[k]
            BY <1>1, <1>2, <3>1
        <3> QED
            BY <2>1, <3>2
    <2> QED
        BY <2>2, <2>3
<1> QED
    BY <1>3, <1>4, <1>5 DEF AreSpliced

\* The length of a route into which stops are put.
LEMMA SplicePrice ==
    ASSUME day \in DOMAIN Days, NEW w \in Seq(Stops), NEW s \in Seq(Stops), NEW x \in Seq(Stops),
           Len(s) >= 1, NEW p \in 1 .. Len(w) + 1, IsSplice(x, w, p, s)
    PROVE  /\ RouteDist(x) = RouteDist(w) + Inner(s) + Detour(w, p, s)
           /\ RouteDist(x) \in Int /\ RouteDist(w) \in Int /\ Inner(s) \in Int /\ Detour(w, p, s) \in Int
<1>1. PICK M \in Nat : M = Len(w)
    BY LenProperties
<1>2. PICK n \in Nat : n = Len(s)
    BY LenProperties
<1>3. /\ n >= 1 /\ p \in 1 .. M + 1 /\ Len(x) = M + n
      /\ Len(w) \in Nat /\ Len(s) \in Nat /\ Len(x) \in Nat /\ p \in Nat /\ p - 1 \in Nat
      /\ n - 1 \in Nat /\ p + n \in Nat /\ M + 1 - p \in Nat /\ 0 \in Nat /\ 1 \in Nat
    BY <1>1, <1>2 DEF IsSplice
<1>4. PICK g : Walk(g, w)
    BY Walks
<1>5. PICK h : Walk(h, x)
    BY Walks
<1>6. PICK f : Walk(f, s)
    BY Walks
<1>7. /\ \A k \in 0 .. p - 1 : At(x, k) = At(w, k)
      /\ \A k \in 1 .. n : At(x, p - 1 + k) = At(s, k) /\ At(s, k) = s[k]
      /\ \A k \in p .. M + 1 : At(x, k + n) = At(w, k)
    <2>1. AreSpliced(x, w, p, s, M, n)
        BY <1>1, <1>2, <1>3, SplicePlaces
    <2> QED
        BY <2>1 DEF AreSpliced
<1>8. g[0 + (p - 1)] - g[0] = h[0 + (p - 1)] - h[0]
    <2>1. ASSUME NEW k \in 1 .. p - 1 PROVE Leg(w, 0 + k) = Leg(x, 0 + k)
        <3>1. k \in 0 .. p - 1 /\ k - 1 \in 0 .. p - 1 /\ 0 + k = k
            BY <1>3
        <3>2. At(x, k) = At(w, k) /\ At(x, k - 1) = At(w, k - 1)
            BY <1>7, <3>1
        <3> QED
            BY <3>1, <3>2 DEF Leg
    <2>2. AlikeLegs(w, 0, x, 0, p - 1)
        BY <1>1, <1>3, <2>1 DEF AlikeLegs
    <2> QED
        BY <1>3, <1>4, <1>5, <2>2, AlikeWalks
<1>9. h[p + (n - 1)] - h[p] = f[1 + (n - 1)] - f[1]
    <2>1. ASSUME NEW k \in 1 .. n - 1 PROVE Leg(x, p + k) = Leg(s, 1 + k)
        <3>1. PICK m \in 1 .. n : m = 1 + k
            BY <1>3
        <3>2. k \in 1 .. n /\ p - 1 + m = p + k /\ p - 1 + k = p + k - 1 /\ m - 1 = k
            BY <1>3, <3>1
        <3>3. At(x, p - 1 + m) = At(s, m) /\ At(x, p - 1 + k) = At(s, k)
            BY <1>7, <3>2
        <3>4. At(x, p + k) = At(s, m) /\ At(x, p + k - 1) = At(s, m - 1)
            BY <3>2, <3>3
        <3> QED
            BY <3>1, <3>4 DEF Leg
    <2>2. AlikeLegs(x, p, s, 1, n - 1)
        BY <1>2, <1>3, <2>1 DEF AlikeLegs
    <2> QED
        BY <1>3, <1>5, <1>6, <2>2, AlikeWalks
<1>10. g[p + (M + 1 - p)] - g[p] = h[p + n + (M + 1 - p)] - h[p + n]
    <2>1. ASSUME NEW k \in 1 .. M + 1 - p PROVE Leg(w, p + k) = Leg(x, p + n + k)
        <3>1. PICK m \in p .. M + 1 : m = p + k
            BY <1>3
        <3>2. m - 1 \in p .. M + 1 /\ p + n + k = m + n /\ (m - 1) + n = m + n - 1
            BY <1>3, <3>1
        <3>3. At(x, m + n) = At(w, m) /\ At(x, (m - 1) + n) = At(w, m - 1)
            BY <1>7, <3>2
        <3>4. Leg(x, m + n) = Leg(w, m)
            BY <3>2, <3>3 DEF Leg
        <3> QED
            BY <3>1, <3>2, <3>4
    <2>2. AlikeLegs(w, p, x, p + n, M + 1 - p)
        BY <1>1, <1>3, <2>1 DEF AlikeLegs
    <2> QED
        BY <1>3, <1>4, <1>5, <2>2, AlikeWalks
<1>11. h[p] - h[p - 1] = Dist(At(w, p - 1), s[1])
    <2>1. p \in 1 .. Len(x) + 1 /\ p - 1 \in 0 .. p - 1 /\ 1 \in 1 .. n /\ p - 1 + 1 = p
        BY <1>3
    <2>2. h[p] - h[p - 1] = Leg(x, p)
        BY <1>5, <2>1 DEF Walk
    <2>3. At(x, p - 1) = At(w, p - 1) /\ At(x, p - 1 + 1) = s[1]
        BY <1>7, <2>1
    <2> QED
        BY <2>1, <2>2, <2>3 DEF Leg
<1>12. h[p + n] - h[p + n - 1] = Dist(s[n], At(w, p))
    <2>1. p + n \in 1 .. Len(x) + 1 /\ n \in 1 .. n /\ p \in p .. M + 1 /\ p - 1 + n = p + n - 1
        BY <1>3
    <2>2. h[p + n] - h[p + n - 1] = Leg(x, p + n)
        BY <1>5, <2>1 DEF Walk
    <2>3. At(x, p + n) = At(w, p) /\ At(x, p - 1 + n) = s[n]
        BY <1>7, <2>1
    <2> QED
        BY <2>1, <2>2, <2>3 DEF Leg
<1>13. g[p] - g[p - 1] = Dist(At(w, p - 1), At(w, p))
    <2>1. p \in 1 .. Len(w) + 1
        BY <1>1, <1>3
    <2> QED
        BY <1>4, <2>1 DEF Walk, Leg
<1>14. f[1] - f[0] = Dist(0, s[1]) /\ f[n + 1] - f[n] = Dist(s[n], 0)
    <2>1. 1 \in 1 .. Len(s) + 1 /\ n + 1 \in 1 .. Len(s) + 1 /\ 1 \in 1 .. n /\ n \in 1 .. n
          /\ n + 1 - 1 = n /\ 1 - 1 = 0
        BY <1>2, <1>3
    <2>2. f[1] - f[1 - 1] = Leg(s, 1) /\ f[n + 1] - f[n + 1 - 1] = Leg(s, n + 1)
        BY <1>6, <2>1 DEF Walk
    <2>3. At(s, 0) = 0 /\ At(s, n + 1) = 0
        <3>1. 0 \notin 1 .. Len(s) /\ n + 1 \notin 1 .. Len(s) /\ 0 \in Int /\ n + 1 \in Int
            BY <1>2
        <3> QED
            BY <3>1, Visits
    <2>4. At(s, 1) = s[1] /\ At(s, n) = s[n]
        BY <1>7, <2>1
    <2> QED
        BY <2>1, <2>2, <2>3, <2>4 DEF Leg
<1>15. PICK a \in Int, b \in Int, c \in Int : a = g[p - 1] /\ b = g[p] /\ c = g[M + 1]
    <2>1. p - 1 \in 0 .. Len(w) + 1 /\ p \in 0 .. Len(w) + 1 /\ M + 1 \in 0 .. Len(w) + 1
        BY <1>1, <1>3
    <2> QED
        BY <1>4, <2>1 DEF Walk
<1>16. PICK t \in Int, u \in Int, v \in Int, y \in Int, z \in Int :
          t = h[p - 1] /\ u = h[p] /\ v = h[p + n - 1] /\ y = h[p + n] /\ z = h[M + n + 1]
    <2>1. /\ p - 1 \in 0 .. Len(x) + 1 /\ p \in 0 .. Len(x) + 1 /\ p + n - 1 \in 0 .. Len(x) + 1
          /\ p + n \in 0 .. Len(x) + 1 /\ M + n + 1 \in 0 .. Len(x) + 1
        BY <1>3
    <2> QED
        BY <1>5, <2>1 DEF Walk
<1>17. PICK d \in Int, e \in Int, o \in Int : d = f[1] /\ e = f[n] /\ o = f[n + 1] /\ f[0] = 0
    <2>1. 1 \in 0 .. Len(s) + 1 /\ n \in 0 .. Len(s) + 1 /\ n + 1 \in 0 .. Len(s) + 1
        BY <1>2, <1>3
    <2> QED
        BY <1>6, <2>1 DEF Walk
<1>18. t = a
    <2>1. g[0] = 0 /\ h[0] = 0 /\ 0 + (p - 1) = p - 1
        BY <1>3, <1>4, <1>5 DEF Walk
    <2>2. g[p - 1] - 0 = h[p - 1] - 0
        BY <1>8, <2>1
    <2> QED
        BY <1>15, <1>16, <2>2
<1>19. v - u = e - d
    <2>1. p + (n - 1) = p + n - 1 /\ 1 + (n - 1) = n
        BY <1>3
    <2> QED
        BY <1>9, <1>16, <1>17, <2>1
<1>20. c - b = z - y
    <2>1. p + (M + 1 - p) = M + 1 /\ p + n + (M + 1 - p) = M + n + 1
        BY <1>3
    <2> QED
        BY <1>10, <1>15, <1>16, <2>1
<1>21. RouteDist(x) = z /\ RouteDist(w) = c /\ RouteDist(s) = o
    <2>1. Len(x) + 1 = M + n + 1
        BY <1>3
    <2> QED
        BY <1>1, <1>2, <1>4, <1>5, <1>6, <1>15, <1>16, <1>17, <2>1 DEF Walk
<1>22. Inner(s) = o - (d - 0) - (o - e)
    BY <1>2, <1>14, <1>17, <1>21 DEF Inner
<1>23. Detour(w, p, s) = (u - t) + (y - v) - (b - a)
    BY <1>2, <1>11, <1>12, <1>13, <1>15, <1>16 DEF Detour
<1>24. z = c + (o - (d - 0) - (o - e)) + ((u - t) + (y - v) - (b - a))
    BY <1>18, <1>19, <1>20
<1> QED
    BY <1>21, <1>22, <1>23, <1>24

LEMMA SpliceIs ==
    ASSUME NEW T, NEW w \in Seq(T), NEW s \in Seq(T), NEW p \in 1 .. Len(w) + 1,
           NEW x, x = SubSeq(w, 1, p - 1) \o s \o SubSeq(w, p, Len(w))
    PROVE  x \in Seq(T) /\ IsSplice(x, w, p, s)
<1>1. PICK M \in Nat : M = Len(w)
    BY LenProperties
<1>2. PICK m \in Nat : m = Len(s)
    BY LenProperties
<1>3. PICK l \in Nat : l = p - 1
    BY <1>1
<1>4. PICK n \in Nat : n = M - l
    <2>1. M - l \in Nat
        BY <1>1, <1>3
    <2> QED
        BY <2>1
<1>5. PICK a : a = SubSeq(w, 1, p - 1)
    OBVIOUS
<1>6. PICK c : c = SubSeq(w, p, M)
    OBVIOUS
<1>7. a \in Seq(T) /\ Len(a) = l /\ \A k \in 1 .. l : a[k] = w[k]
    <2>1. 1 <= 1 /\ 1 - 1 <= l /\ l <= Len(w) /\ 1 \in Nat /\ l \in Nat
        BY <1>1, <1>3
    <2>2. SubSeq(w, 1, l) \in Seq(T) /\ Len(SubSeq(w, 1, l)) = l - 1 + 1
          /\ \A k \in 1 .. l - 1 + 1 : SubSeq(w, 1, l)[k] = w[1 + k - 1]
        BY <2>1, Part
    <2>3. l - 1 + 1 = l /\ \A k \in 1 .. l : 1 + k - 1 = k
        BY <1>3
    <2> QED
        BY <1>3, <1>5, <2>2, <2>3
<1>8. c \in Seq(T) /\ Len(c) = n /\ \A k \in 1 .. n : c[k] = w[l + k]
    <2>1. p \in Nat /\ 1 <= p /\ p - 1 <= M /\ M <= Len(w) /\ M \in Nat
        BY <1>1
    <2>2. SubSeq(w, p, M) \in Seq(T) /\ Len(SubSeq(w, p, M)) = M - p + 1
          /\ \A k \in 1 .. M - p + 1 : SubSeq(w, p, M)[k] = w[p + k - 1]
        BY <2>1, Part
    <2>3. M - p + 1 = n /\ \A k \in 1 .. n : p + k - 1 = l + k
        BY <1>1, <1>3, <1>4
    <2> QED
        BY <1>6, <2>2, <2>3
<1>9. AreJoined(x, a, s, c)
    <2>1. x = a \o s \o c
        BY <1>1, <1>5, <1>6
    <2> QED
        BY <2>1 DEF AreJoined, IsJoin
<1>10. x \in Seq(T) /\ InTurn(x, a, s, c, l, m, n)
    <2>1. /\ a \in Seq(T) /\ c \in Seq(T) /\ Len(a) = l /\ Len(s) = m /\ Len(c) = n
          /\ l \in Nat /\ m \in Nat /\ n \in Nat
        BY <1>2, <1>3, <1>4, <1>7, <1>8
    <2> QED
        BY <1>9, <2>1, TripleIs
<1>11. /\ Len(x) = l + m + n
       /\ \A k \in 1 .. l : x[k] = a[k]
       /\ \A k \in 1 .. m : x[l + k] = s[k]
       /\ \A k \in 1 .. n : x[l + m + k] = c[k]
    BY <1>10 DEF InTurn
<1>12. l + m + n = M + m
    BY <1>4
<1>13. \A k \in 1 .. p - 1 : x[k] = w[k]
    BY <1>3, <1>7, <1>11
<1>14. \A k \in 1 .. m : x[p - 1 + k] = s[k]
    BY <1>3, <1>11
<1>15. ASSUME NEW k \in p .. M PROVE x[k + m] = w[k]
    <2>1. PICK o \in 1 .. n : o = k - l
        BY <1>3, <1>4
    <2>2. l + m + o = k + m /\ l + o = k
        BY <1>3, <2>1
    <2>3. x[l + m + o] = c[o] /\ c[o] = w[l + o]
        BY <1>8, <1>11
    <2> QED
        BY <2>2, <2>3
<1> QED
    BY <1>1, <1>2, <1>10, <1>11, <1>12, <1>13, <1>14, <1>15 DEF IsSplice

\* n stops are cut out of r from position i on: w is left.
AreCut(w, s, r, i, n) == w = Cut(r, i, n) /\ s = SubSeq(r, i, i + n - 1)

\* A route is what is left of it with what was cut out put back.
LEMMA CutIs ==
    ASSUME NEW T, NEW r \in Seq(T), NEW n \in Nat, 1 <= n, NEW i \in 1 .. Len(r) - n + 1,
           NEW w, NEW s, AreCut(w, s, r, i, n)
    PROVE  /\ w \in Seq(T) /\ s \in Seq(T) /\ Len(s) = n /\ Len(w) = Len(r) - n
           /\ IsSplice(r, w, i, s)
<1>1. PICK N \in Nat : N = Len(r)
    BY LenProperties
<1>2. PICK j \in Nat : j = i + n - 1
    BY <1>1
<1>3. PICK l \in Nat : l = i - 1
    BY <1>1
<1>4. PICK m \in Nat : m = N - j
    <2>1. N - j \in Nat
        BY <1>1, <1>2
    <2> QED
        BY <2>1
<1>5. /\ i \in Nat /\ i - 1 <= j /\ j <= N /\ i + n = j + 1 /\ n = j - i + 1 /\ l + n = j /\ n \in 1 .. N
      /\ i \in 1 .. N
    BY <1>1, <1>2, <1>3
<1>6. PICK a : a = SubSeq(r, 1, i - 1)
    OBVIOUS
<1>7. PICK c : c = SubSeq(r, j + 1, N)
    OBVIOUS
<1>8. a \in Seq(T) /\ Len(a) = l /\ \A k \in 1 .. l : a[k] = r[k]
    <2>1. 1 <= 1 /\ 1 - 1 <= l /\ l <= Len(r) /\ 1 \in Nat /\ l \in Nat
        BY <1>1, <1>3, <1>5
    <2>2. SubSeq(r, 1, l) \in Seq(T) /\ Len(SubSeq(r, 1, l)) = l - 1 + 1
          /\ \A k \in 1 .. l - 1 + 1 : SubSeq(r, 1, l)[k] = r[1 + k - 1]
        BY <2>1, Part
    <2>3. l - 1 + 1 = l /\ \A k \in 1 .. l : 1 + k - 1 = k
        BY <1>3
    <2> QED
        BY <1>3, <1>6, <2>2, <2>3
<1>9. s \in Seq(T) /\ Len(s) = n /\ \A k \in 1 .. n : s[k] = r[l + k]
    <2>1. i \in Nat /\ j \in Nat /\ 1 <= i /\ i - 1 <= j /\ j <= Len(r)
        BY <1>1, <1>2, <1>5
    <2>2. SubSeq(r, i, j) \in Seq(T) /\ Len(SubSeq(r, i, j)) = j - i + 1
          /\ \A k \in 1 .. j - i + 1 : SubSeq(r, i, j)[k] = r[i + k - 1]
        BY <2>1, Part
    <2>3. \A k \in 1 .. n : i + k - 1 = l + k
        BY <1>3
    <2>4. s = SubSeq(r, i, j)
        BY <1>2 DEF AreCut
    <2> QED
        BY <1>5, <2>2, <2>3, <2>4
<1>10. c \in Seq(T) /\ Len(c) = m /\ \A k \in 1 .. m : c[k] = r[j + k]
    <2>1. j + 1 \in Nat /\ 1 <= j + 1 /\ j + 1 - 1 <= N /\ N <= Len(r) /\ N \in Nat
        BY <1>1, <1>2, <1>5
    <2>2. SubSeq(r, j + 1, N) \in Seq(T) /\ Len(SubSeq(r, j + 1, N)) = N - (j + 1) + 1
          /\ \A k \in 1 .. N - (j + 1) + 1 : SubSeq(r, j + 1, N)[k] = r[j + 1 + k - 1]
        BY <2>1, Part
    <2>3. N - (j + 1) + 1 = m /\ \A k \in 1 .. m : j + 1 + k - 1 = j + k
        BY <1>1, <1>2, <1>4
    <2> QED
        BY <1>7, <2>2, <2>3
<1>11. IsJoin(w, a, c)
    BY <1>1, <1>5, <1>6, <1>7 DEF IsJoin, Cut, AreCut
<1>12. /\ w \in Seq(T) /\ Len(w) = l + m
       /\ \A k \in 1 .. l : w[k] = a[k]
       /\ \A k \in l + 1 .. l + m : w[k] = c[k - l]
    <2>1. a \in Seq(T) /\ c \in Seq(T) /\ Len(a) = l /\ Len(c) = m /\ l \in Nat /\ m \in Nat
        BY <1>3, <1>4, <1>8, <1>10
    <2>2. w \in Seq(T) /\ InPair(w, a, c, l, m)
        BY <1>11, <2>1, PairIs
    <2> QED
        BY <2>2 DEF InPair
<1>13. Len(w) = N - n /\ Len(r) = Len(w) + n
    <2>1. Len(w) = l + m
        BY <1>12
    <2>2. l + m = N - n
        BY <1>1, <1>3, <1>4, <1>5
    <2> QED
        BY <1>1, <2>1, <2>2
<1>14. \A k \in 1 .. i - 1 : r[k] = w[k]
    BY <1>3, <1>8, <1>12
<1>15. \A k \in 1 .. n : r[i - 1 + k] = s[k]
    BY <1>3, <1>9
<1>16. ASSUME NEW k \in i .. l + m PROVE r[k + n] = w[k]
    <2>1. PICK o \in 1 .. m : o = k - l
        BY <1>3, <1>4
    <2>2. k \in l + 1 .. l + m /\ j + o = k + n
        BY <1>3, <1>5, <2>1
    <2>3. w[k] = c[k - l] /\ c[o] = r[j + o]
        BY <1>10, <1>12, <2>2
    <2> QED
        BY <2>1, <2>2, <2>3
<1>17. IsSplice(r, w, i, s)
    BY <1>9, <1>12, <1>13, <1>14, <1>15, <1>16 DEF IsSplice
<1> QED
    BY <1>1, <1>9, <1>12, <1>13, <1>17

\* The price of a move is the difference in length.
LEMMA MovePrice ==
    ASSUME day \in DOMAIN Days, NEW r \in Seq(Stops), NEW n \in Nat, 1 <= n,
           NEW i \in 1 .. Len(r) - n + 1, NEW p \in 1 .. Len(r) - n + 1
    PROVE  /\ RouteDist(Moved(r, i, n, p)) = RouteDist(r) - OrOptGain(r, i, n, p)
           /\ Moved(r, i, n, p) \in Seq(Stops)
           /\ RouteDist(Moved(r, i, n, p)) \in Int /\ RouteDist(r) \in Int /\ OrOptGain(r, i, n, p) \in Int
<1>1. PICK w, s : AreCut(w, s, r, i, n)
    BY DEF AreCut
<1>2. /\ w \in Seq(Stops) /\ s \in Seq(Stops) /\ Len(s) = n /\ Len(w) = Len(r) - n
      /\ IsSplice(r, w, i, s)
    <2>1. PICK T : T = Stops
        OBVIOUS
    <2>2. r \in Seq(T)
        BY <2>1
    <2>3. /\ w \in Seq(T) /\ s \in Seq(T) /\ Len(s) = n /\ Len(w) = Len(r) - n
          /\ IsSplice(r, w, i, s)
        BY <1>1, <2>2, CutIs
    <2> QED
        BY <2>1, <2>3
<1>3. PICK x : x = Moved(r, i, n, p)
    OBVIOUS
<1>4. i \in 1 .. Len(w) + 1 /\ p \in 1 .. Len(w) + 1 /\ Len(s) >= 1
    BY <1>2
<1>5. x \in Seq(Stops) /\ IsSplice(x, w, p, s)
    <2>1. x = SubSeq(w, 1, p - 1) \o s \o SubSeq(w, p, Len(w))
        BY <1>1, <1>3 DEF AreCut, Moved
    <2>2. PICK T : T = Stops
        OBVIOUS
    <2>3. w \in Seq(T) /\ s \in Seq(T)
        BY <1>2, <2>2
    <2>4. x \in Seq(T) /\ IsSplice(x, w, p, s)
        BY <1>4, <2>1, <2>3, SpliceIs
    <2> QED
        BY <2>2, <2>4
<1>6. /\ RouteDist(r) = RouteDist(w) + Inner(s) + Detour(w, i, s)
      /\ RouteDist(r) \in Int /\ RouteDist(w) \in Int /\ Inner(s) \in Int /\ Detour(w, i, s) \in Int
    BY <1>2, <1>4, SplicePrice
<1>7. /\ RouteDist(x) = RouteDist(w) + Inner(s) + Detour(w, p, s)
      /\ RouteDist(x) \in Int /\ Detour(w, p, s) \in Int
    BY <1>2, <1>4, <1>5, SplicePrice
<1>8. OrOptGain(r, i, n, p) = Detour(w, i, s) - Detour(w, p, s)
    <2>1. PICK M \in Nat : M = Len(w)
        BY <1>2, LenProperties
    <2>2. AreSpliced(r, w, i, s, M, n)
        <3>1. Len(w) = M /\ Len(s) = n /\ i \in 1 .. M + 1
            BY <1>2, <1>4, <2>1
        <3> QED
            BY <1>2, <2>1, <3>1, SplicePlaces
    <2>3. i - 1 \in 0 .. i - 1 /\ 1 \in 1 .. n /\ n \in 1 .. n /\ i \in i .. M + 1 /\ i - 1 + 1 = i
          /\ i - 1 + n = i + n - 1
        BY <1>4, <2>1
    <2>4. At(r, i - 1) = At(w, i - 1) /\ At(r, i + n) = At(w, i)
        BY <2>2, <2>3 DEF AreSpliced
    <2>5. r[i] = s[1] /\ r[i + n - 1] = s[n]
        <3>1. r[i - 1 + 1] = s[1] /\ r[i - 1 + n] = s[n]
            BY <1>2, <2>3 DEF IsSplice
        <3> QED
            BY <2>3, <3>1
    <2>6. w = Cut(r, i, n)
        BY <1>1 DEF AreCut
    <2> QED
        BY <1>2, <2>4, <2>5, <2>6 DEF OrOptGain, Detour
<1> QED
    BY <1>3, <1>5, <1>6, <1>7, <1>8

\* The price of an insertion is the difference in length.
LEMMA InsertPrice ==
    ASSUME day \in DOMAIN Days, NEW w \in Seq(Stops), NEW s \in Stops, NEW p \in 1 .. Len(w) + 1,
           NEW x \in Seq(Stops), IsSplice(x, w, p, <<s>>)
    PROVE  /\ RouteDist(x) = RouteDist(w) + InsertDelta(w, p, s)
           /\ RouteDist(x) \in Int /\ RouteDist(w) \in Int /\ InsertDelta(w, p, s) \in Int
<1>1. PICK q : q = <<s>>
    OBVIOUS
<1>2. q \in Seq(Stops) /\ Len(q) = 1 /\ q[1] = s
    BY <1>1
<1>3. /\ RouteDist(x) = RouteDist(w) + Inner(q) + Detour(w, p, q)
      /\ RouteDist(x) \in Int /\ RouteDist(w) \in Int /\ Inner(q) \in Int /\ Detour(w, p, q) \in Int
    <2>1. Len(q) >= 1 /\ IsSplice(x, w, p, q)
        BY <1>1, <1>2
    <2> QED
        BY <1>2, <2>1, SplicePrice
<1>4. Detour(w, p, q) = InsertDelta(w, p, s)
    BY <1>2 DEF Detour, InsertDelta
<1>5. Inner(q) = 0
    <2>1. PICK f : Walk(f, q)
        BY <1>2, Walks
    <2>2. At(q, 0) = 0 /\ At(q, 1) = s /\ At(q, 2) = 0 /\ s \in Nodes
        BY <1>2, Visits
    <2>3. f[1] - f[0] = Dist(0, s) /\ f[2] - f[1] = Dist(s, 0) /\ f[0] = 0 /\ RouteDist(q) = f[2]
        <3>1. Len(q) + 1 = 2 /\ 1 \in 1 .. 2 /\ 2 \in 1 .. 2 /\ 1 - 1 = 0 /\ 2 - 1 = 1
            BY <1>2
        <3>2. f[1] - f[1 - 1] = Leg(q, 1) /\ f[2] - f[2 - 1] = Leg(q, 2) /\ f[0] = 0 /\ RouteDist(q) = f[2]
            BY <2>1, <3>1 DEF Walk
        <3> QED
            BY <2>2, <3>1, <3>2 DEF Leg
    <2>4. PICK a \in Int, b \in Int : a = f[1] /\ b = f[2]
        <3>1. 1 \in 0 .. Len(q) + 1 /\ 2 \in 0 .. Len(q) + 1
            BY <1>2
        <3> QED
            BY <2>1, <3>1 DEF Walk
    <2> QED
        BY <1>2, <2>3, <2>4 DEF Inner
<1> QED
    BY <1>3, <1>4, <1>5

\* What is left of the first k stops of r without the i-th.
FirstOf(g, r, i, k) ==
    /\ Len(g) = IF k < i THEN k ELSE k - 1
    /\ \A m \in 1 .. Len(g) : g[m] = IF m < i THEN r[m] ELSE r[m + 1]

LEMMA WithoutOne ==
    ASSUME NEW T, NEW r \in Seq(T), NEW i \in 1 .. Len(r), NEW S, \A k \in 1 .. Len(r) : r[k] \in S <=> k = i
    PROVE  Without(r, S) \in Seq(T) /\ FirstOf(Without(r, S), r, i, Len(r))
<1>1. PICK N \in Nat : N = Len(r)
    BY LenProperties
<1>2. DOMAIN r = 1 .. N /\ \A k \in 1 .. N : r[k] \in T
    BY <1>1
<1>3. PICK f : /\ Without(r, S) = f[N] /\ f[0] = <<>>
               /\ \A k \in 1 .. N : f[k] = IF r[k] \in S THEN f[k - 1] ELSE Append(f[k - 1], r[k])
    <2>1. Len(r) \in Nat
        BY <1>1
    <2> QED
        BY <1>1, <2>1, WithoutIsLast
<1>4. \A k \in 1 .. N : r[k] \in S <=> k = i
    BY <1>1
<1> DEFINE Good(k) == f[k] \in Seq(T) /\ FirstOf(f[k], r, i, k)
           Bad == {k \in 1 .. N : ~ Good(k)}
<1>5. Good(0)
    <2>1. <<>> \in Seq(T) /\ Len(<<>>) = 0
        OBVIOUS
    <2> QED
        BY <1>1, <1>3, <2>1 DEF FirstOf
<1>6. ASSUME NEW k \in 1 .. N, Good(k - 1) PROVE Good(k)
    <2>1. PICK g \in Seq(T) : g = f[k - 1]
        BY <1>6
    <2>2. /\ Len(g) = IF k - 1 < i THEN k - 1 ELSE k - 1 - 1
          /\ \A m \in 1 .. Len(g) : g[m] = IF m < i THEN r[m] ELSE r[m + 1]
        BY <1>6, <2>1 DEF FirstOf
    <2>3. CASE k = i
        <3>1. f[k] = g
            BY <1>3, <1>4, <2>1, <2>3
        <3>2. Len(g) = IF k < i THEN k ELSE k - 1
            BY <1>1, <2>2, <2>3
        <3> QED
            BY <2>2, <3>1, <3>2 DEF FirstOf
    <2>4. CASE k # i
        <3>1. f[k] = Append(g, r[k]) /\ r[k] \in T
            BY <1>2, <1>3, <1>4, <2>1, <2>4
        <3>2. PICK h : h = Append(g, r[k])
            OBVIOUS
        <3>3. PICK l \in Nat : l = Len(g)
            BY LenProperties
        <3>4. h \in Seq(T) /\ Len(h) = l + 1 /\ h[l + 1] = r[k] /\ \A m \in 1 .. l : h[m] = g[m]
            BY <3>1, <3>2, <3>3, AppendProperties
        <3>5. l + 1 = (IF k < i THEN k ELSE k - 1)
            BY <1>1, <2>2, <2>4, <3>3
        <3>6. ASSUME NEW m \in 1 .. l + 1 PROVE h[m] = IF m < i THEN r[m] ELSE r[m + 1]
            <4>1. CASE m = l + 1
                <5>1. CASE k < i
                    BY <3>4, <3>5, <4>1, <5>1
                <5>2. CASE k > i
                    <6>1. m + 1 = k /\ ~(m < i)
                        BY <1>1, <3>5, <4>1, <5>2
                    <6> QED
                        BY <3>4, <4>1, <6>1
                <5> QED
                    BY <1>1, <2>4, <5>1, <5>2
            <4>2. CASE m # l + 1
                <5>1. m \in 1 .. l
                    BY <4>2
                <5> QED
                    BY <2>2, <3>3, <3>4, <5>1
            <4> QED
                BY <4>1, <4>2
        <3>7. FirstOf(h, r, i, k)
            BY <3>4, <3>5, <3>6 DEF FirstOf
        <3> QED
            BY <3>1, <3>2, <3>4, <3>7
    <2> QED
        BY <2>3, <2>4
<1>7. ASSUME Bad # {} PROVE FALSE
    <2>1. PICK k \in Bad : \A m \in Bad : k <= m
        <3>1. Bad \subseteq 1 .. N /\ N \in Nat
            BY <1>1
        <3> HIDE DEF Bad
        <3> QED
            BY <1>7, <3>1, LeastMember
    <2>2. k \in 1 .. N /\ k - 1 \in 0 .. N /\ k - 1 \notin Bad
        BY <1>1, <2>1
    <2>3. Good(k - 1)
        <3>1. CASE k = 1
            BY <1>5, <3>1
        <3>2. CASE k # 1
            BY <2>2, <3>2
        <3> QED
            BY <3>1, <3>2
    <2> QED
        BY <1>6, <2>1, <2>2, <2>3
<1>8. Good(N)
    <2>1. N \in 1 .. N
        BY <1>1
    <2> QED
        BY <1>7, <2>1
<1> QED
    BY <1>1, <1>3, <1>8

\* A route is what is left of it with the stop that left put back.
LEMMA RemovalIs ==
    ASSUME NEW T, NEW r \in Seq(T), Once(r), NEW i \in 1 .. Len(r), NEW s, s = r[i]
    PROVE  /\ RemoveAt(r, i) = Without(r, {s}) /\ RemoveAt(r, i) \in Seq(T)
           /\ Len(RemoveAt(r, i)) = Len(r) - 1 /\ IsSplice(r, RemoveAt(r, i), i, <<s>>)
<1>1. PICK N \in Nat : N = Len(r)
    BY LenProperties
<1>2. PICK w, q : AreCut(w, q, r, i, 1)
    BY DEF AreCut
<1>3. /\ w \in Seq(T) /\ q \in Seq(T) /\ Len(q) = 1 /\ Len(w) = Len(r) - 1
      /\ IsSplice(r, w, i, q)
    <2>1. i \in 1 .. Len(r) - 1 + 1 /\ 1 \in Nat /\ 1 <= 1
        BY <1>1
    <2> QED
        BY <1>2, <2>1, CutIs
<1>4. w = RemoveAt(r, i)
    BY <1>1, <1>2 DEF AreCut, Cut, RemoveAt
<1>5. q = <<s>>
    <2>1. 1 \in 1 .. Len(q) /\ i - 1 + 1 = i
        BY <1>1, <1>3
    <2>2. r[i - 1 + 1] = q[1]
        BY <1>3, <2>1 DEF IsSplice
    <2>3. q[1] = s
        BY <2>1, <2>2
    <2> QED
        BY <1>3, <2>3
<1>6. PICK v : v = Without(r, {s})
    OBVIOUS
<1>7. v \in Seq(T) /\ FirstOf(v, r, i, Len(r))
    <2>1. PICK S : S = {s}
        OBVIOUS
    <2>2. \A k \in 1 .. Len(r) : r[k] \in S <=> k = i
        BY <1>1, <2>1 DEF Once
    <2>3. Without(r, S) \in Seq(T) /\ FirstOf(Without(r, S), r, i, Len(r))
        BY <2>2, WithoutOne
    <2> QED
        BY <1>6, <2>1, <2>3
<1>8. /\ Len(v) = N - 1 /\ Len(w) = N - 1
      /\ \A m \in 1 .. N - 1 : v[m] = IF m < i THEN r[m] ELSE r[m + 1]
    BY <1>1, <1>3, <1>7 DEF FirstOf
<1>9. /\ \A k \in 1 .. i - 1 : r[k] = w[k]
      /\ \A k \in i .. N - 1 : r[k + 1] = w[k]
    BY <1>3, <1>8 DEF IsSplice
<1>10. \A m \in 1 .. N - 1 : v[m] = w[m]
    BY <1>1, <1>8, <1>9
<1>11. v = w
    BY <1>3, <1>7, <1>8, <1>10, SeqEqual
<1> QED
    BY <1>3, <1>4, <1>5, <1>6, <1>11

\* q is r with b in the place of a, at i.
IsPut(q, r, i, b) ==
    /\ q \in Seq(Stops) /\ Len(q) = Len(r)
    /\ \A k \in 1 .. Len(r) : q[k] = IF k = i THEN b ELSE r[k]

\* The price of an exchange is the difference in length.
LEMMA SwapPrice ==
    ASSUME day \in DOMAIN Days, NEW r \in Seq(Stops), Once(r), NEW i \in 1 .. Len(r), NEW a, a = r[i],
           NEW b \in Stops, NEW q, IsPut(q, r, i, b)
    PROVE  /\ RouteDist(q) = RouteDist(r) + SwapDelta(r, a, b)
           /\ RouteDist(q) \in Int /\ RouteDist(r) \in Int /\ SwapDelta(r, a, b) \in Int
<1>1. PICK w, s : w = RemoveAt(r, i) /\ s = Without(r, {a})
    OBVIOUS
<1>2. w \in Seq(Stops) /\ Len(w) = Len(r) - 1 /\ IsSplice(r, w, i, <<a>>)
    <2>1. PICK T : T = Stops
        OBVIOUS
    <2>2. r \in Seq(T)
        BY <2>1
    <2>3. w \in Seq(T) /\ Len(w) = Len(r) - 1 /\ IsSplice(r, w, i, <<a>>)
        BY <1>1, <2>2, RemovalIs
    <2> QED
        BY <2>1, <2>3
<1>3. PICK N \in Nat : N = Len(r)
    BY LenProperties
<1>4. Len(w) = N - 1 /\ i \in 1 .. Len(w) + 1 /\ a \in Stops
    BY <1>2, <1>3
<1>5. q \in Seq(Stops) /\ IsSplice(q, w, i, <<b>>)
    <2>1. /\ Len(<<a>>) = 1 /\ Len(<<b>>) = 1 /\ <<b>>[1] = b
        OBVIOUS
    <2>2. /\ \A k \in 1 .. i - 1 : r[k] = w[k]
          /\ \A k \in i .. N - 1 : r[k + 1] = w[k]
        BY <1>2, <1>4, <2>1 DEF IsSplice
    <2>3. q \in Seq(Stops) /\ Len(q) = N /\ \A k \in 1 .. N : q[k] = IF k = i THEN b ELSE r[k]
        BY <1>3 DEF IsPut
    <2>4. \A k \in 1 .. i - 1 : q[k] = w[k]
        BY <1>3, <2>2, <2>3
    <2>5. q[i] = b
        BY <1>3, <2>3
    <2>6. ASSUME NEW k \in i .. N - 1 PROVE q[k + 1] = w[k]
        <3>1. k + 1 \in 1 .. N /\ k + 1 # i
            BY <1>3
        <3> QED
            BY <2>2, <2>3, <3>1
    <2>7. \A k \in 1 .. 1 : i - 1 + k = i /\ k = 1
        BY <1>3
    <2>8. \A k \in 1 .. Len(<<b>>) : q[i - 1 + k] = <<b>>[k]
        BY <2>1, <2>5, <2>7
    <2>9. Len(q) = Len(w) + Len(<<b>>)
        BY <1>3, <1>4, <2>1, <2>3
    <2> QED
        BY <1>4, <2>1, <2>3, <2>4, <2>6, <2>8, <2>9 DEF IsSplice
<1>6. /\ RouteDist(r) = RouteDist(w) + InsertDelta(w, i, a)
      /\ RouteDist(r) \in Int /\ RouteDist(w) \in Int /\ InsertDelta(w, i, a) \in Int
    BY <1>2, <1>4, InsertPrice
<1>7. /\ RouteDist(q) = RouteDist(w) + InsertDelta(w, i, b)
      /\ RouteDist(q) \in Int /\ InsertDelta(w, i, b) \in Int
    BY <1>2, <1>4, <1>5, InsertPrice
<1>8. SwapDelta(r, a, b) = InsertDelta(w, i, b) - InsertDelta(w, i, a)
    <2>1. PICK M \in Nat : M = Len(w)
        BY <1>2, LenProperties
    <2>2. <<a>> \in Seq(Stops) /\ Len(<<a>>) = 1
        BY <1>4
    <2>3. AreSpliced(r, w, i, <<a>>, M, 1)
        <3>1. Len(w) = M /\ i \in 1 .. M + 1 /\ 1 \in Nat
            BY <1>4, <2>1
        <3> QED
            BY <1>2, <2>1, <2>2, <3>1, SplicePlaces
    <2>4. i - 1 \in 0 .. i - 1 /\ i \in i .. M + 1
        BY <1>4, <2>1
    <2>5. At(r, i - 1) = At(w, i - 1) /\ At(r, i + 1) = At(w, i)
        BY <2>3, <2>4 DEF AreSpliced
    <2>6. i = CHOOSE k \in DOMAIN r : r[k] = a
        BY <1>3 DEF Once
    <2>7. PICK x \in Int, y \in Int, z \in Int, u \in Int, v \in Int :
             /\ x = Dist(At(w, i - 1), a) /\ y = Dist(a, At(w, i)) /\ z = Dist(At(w, i - 1), At(w, i))
             /\ u = Dist(At(w, i - 1), b) /\ v = Dist(b, At(w, i))
        <3>1. At(w, i - 1) \in Nodes /\ At(w, i) \in Nodes
            <4>1. i - 1 \in Int /\ i \in Int
                BY <2>4
            <4> QED
                BY <1>2, <4>1, Visits
        <3>2. a \in Nodes /\ b \in Nodes
            <4>1. Stops = 1 .. Len(Weight) /\ Len(Weight) \in Nat
                BY DayFacts
            <4>2. Stops \subseteq Nodes
                BY <4>1 DEF Nodes
            <4> QED
                BY <1>4, <4>2
        <3> QED
            BY <3>1, <3>2, Distances
    <2>8. InsertDelta(w, i, b) = u + v - z /\ InsertDelta(w, i, a) = x + y - z
        BY <2>7 DEF InsertDelta
    <2>9. SwapDelta(r, a, b) = u + v - x - y
        BY <2>5, <2>6, <2>7 DEF SwapDelta
    <2> QED
        BY <2>7, <2>8, <2>9
<1> QED
    BY <1>6, <1>7, <1>8

\* A total changes by what its one term that differs changes by.
LEMMA TotalChanges ==
    ASSUME NEW n \in Nat, NEW f, NEW g, \A k \in 1 .. n : f[k] \in Int /\ g[k] \in Int,
           NEW v \in 1 .. n, \A k \in 1 .. n : k # v => g[k] = f[k]
    PROVE  /\ SumTo(g, n) = SumTo(f, n) + (g[v] - f[v])
           /\ SumTo(g, n) \in Int /\ SumTo(f, n) \in Int
<1>1. PICK a : SumTo(f, n) = a[n] /\ a[0] = 0 /\ \A k \in 1 .. n : a[k] = a[k - 1] + f[k]
    BY TotalIsLast
<1>2. PICK b : SumTo(g, n) = b[n] /\ b[0] = 0 /\ \A k \in 1 .. n : b[k] = b[k - 1] + g[k]
    BY TotalIsLast
<1>3. PICK d \in Int : d = g[v] - f[v]
    <2>1. PICK x \in Int, y \in Int : x = g[v] /\ y = f[v]
        OBVIOUS
    <2> QED
        BY <2>1
<1> DEFINE Good(k) == a[k] \in Int /\ b[k] = a[k] + (IF k < v THEN 0 ELSE d)
           Bad == {k \in 1 .. n : ~ Good(k)}
<1>4. Good(0)
    BY <1>1, <1>2
<1>5. ASSUME NEW k \in 1 .. n, Good(k - 1) PROVE Good(k)
    <2>1. PICK x \in Int, y \in Int, z \in Int : x = a[k - 1] /\ y = f[k] /\ z = g[k]
        BY <1>5
    <2>2. b[k - 1] = x + (IF k - 1 < v THEN 0 ELSE d)
        BY <1>5, <2>1
    <2>3. a[k] = x + y /\ b[k] = b[k - 1] + z
        BY <1>1, <1>2, <2>1
    <2>4. k # v => z = y
        BY <2>1
    <2>5. k = v => d = z - y
        BY <1>3, <2>1
    <2>6. b[k] = x + y + (IF k < v THEN 0 ELSE d)
        <3>1. CASE k < v
            BY <2>2, <2>3, <2>4, <3>1
        <3>2. CASE k = v
            BY <2>2, <2>3, <2>5, <3>2
        <3>3. CASE k > v
            BY <1>3, <2>2, <2>3, <2>4, <3>3
        <3> QED
            BY <3>1, <3>2, <3>3
    <2> QED
        BY <2>3, <2>6
<1>6. ASSUME Bad # {} PROVE FALSE
    <2>1. PICK k \in Bad : \A m \in Bad : k <= m
        <3>1. Bad \subseteq 1 .. n
            OBVIOUS
        <3> HIDE DEF Bad
        <3> QED
            BY <1>6, <3>1, LeastMember
    <2>2. k \in 1 .. n /\ k - 1 \in 0 .. n /\ k - 1 \notin Bad
        BY <2>1
    <2>3. Good(k - 1)
        <3>1. CASE k = 1
            BY <1>4, <3>1
        <3>2. CASE k # 1
            BY <2>2, <3>2
        <3> QED
            BY <3>1, <3>2
    <2> QED
        BY <1>5, <2>1, <2>2, <2>3
<1>7. Good(n)
    <2>1. n \in 1 .. n
        OBVIOUS
    <2> QED
        BY <1>6, <2>1
<1>8. a[n] \in Int /\ b[n] = a[n] + d
    BY <1>3, <1>7
<1>9. b[n] \in Int
    BY <1>3, <1>8
<1> QED
    BY <1>1, <1>2, <1>3, <1>8, <1>9

LEMMA DistanceOf ==
    ASSUME day \in DOMAIN Days, NEW r \in Seq(Stops)
    PROVE  RouteDist(r) \in Int
<1>1. PICK g : Walk(g, r)
    BY Walks
<1>2. Len(r) + 1 \in 0 .. Len(r) + 1
    OBVIOUS
<1> QED
    BY <1>1, <1>2 DEF Walk

\* The routes of y and x differ on vehicle v only.
Reroutes(y, x, v) ==
    /\ \A u \in Vehicles : x[u] \in Seq(Stops) /\ y[u] \in Seq(Stops)
    /\ \A u \in Vehicles : u # v => y[u] = x[u]

\* The length of a solution changes by what the length of one route changes by.
LEMMA LengthChanges ==
    ASSUME day \in DOMAIN Days, NEW x, NEW y, NEW v \in Vehicles, Reroutes(y, x, v)
    PROVE  /\ Length(y) = Length(x) + (RouteDist(y[v]) - RouteDist(x[v]))
           /\ Length(y) \in Int /\ Length(x) \in Int
           /\ RouteDist(y[v]) \in Int /\ RouteDist(x[v]) \in Int
<1>1. PICK n \in Nat : n = Cardinality(Vehicles) /\ Vehicles = 1 .. n
    BY VehicleFacts
<1> DEFINE f == [u \in Vehicles |-> RouteDist(x[u])]
           g == [u \in Vehicles |-> RouteDist(y[u])]
<1>2. Length(x) = SumTo(f, n) /\ Length(y) = SumTo(g, n)
    BY <1>1 DEF Length
<1>3. \A u \in Vehicles : RouteDist(x[u]) \in Int /\ RouteDist(y[u]) \in Int
    BY DistanceOf DEF Reroutes
<1>4. \A k \in 1 .. n : f[k] \in Int /\ g[k] \in Int
    BY <1>1, <1>3
<1>5. \A k \in 1 .. n : k # v => g[k] = f[k]
    BY <1>1 DEF Reroutes
<1>6. f[v] = RouteDist(x[v]) /\ g[v] = RouteDist(y[v]) /\ v \in 1 .. n
    BY <1>1
<1> HIDE DEF f, g
<1>7. SumTo(g, n) = SumTo(f, n) + (g[v] - f[v]) /\ SumTo(g, n) \in Int /\ SumTo(f, n) \in Int
    BY <1>4, <1>5, <1>6, TotalChanges
<1> QED
    BY <1>2, <1>3, <1>6, <1>7

-----------------------------------------------------------------------------
(* Every move lowers the length.                                           *)

Shortens(q, r) == q \in Seq(Stops) /\ RouteDist(q) < RouteDist(r)
Pays(y, x) == TotalCost(y) < TotalCost(x)

LEMMA TwoOptPays ==
    ASSUME day \in DOMAIN Days, NEW r \in Seq(Stops), NEW gap \in Nat, NEW q \in TwoOpt(r, gap)
    PROVE  Shortens(q, r)
<1>1. PICK n \in Nat : n = Len(r)
    BY LenProperties
<1>2. PICK i \in 1 .. n, j \in 1 .. n :
         j >= i + gap /\ TwoOptDelta(r, i, j) < 0 /\ q = Reversed(r, i, j)
    BY <1>1 DEF TwoOpt
<1>3. i \in 1 .. Len(r) /\ j \in 1 .. Len(r) /\ i <= j
    BY <1>1, <1>2
<1>4. q \in Seq(Stops) /\ IsTurned(q, r, i, j)
    <2>1. PICK T : T = Stops
        OBVIOUS
    <2>2. r \in Seq(T)
        BY <2>1
    <2>3. Reversed(r, i, j) \in Seq(T) /\ IsTurned(Reversed(r, i, j), r, i, j)
        BY <1>3, <2>2, TurnedIs
    <2> QED
        BY <1>2, <2>1, <2>3
<1>5. /\ RouteDist(q) = RouteDist(r) + TwoOptDelta(r, i, j)
      /\ RouteDist(q) \in Int /\ RouteDist(r) \in Int /\ TwoOptDelta(r, i, j) \in Int
    BY <1>3, <1>4, TurnPrice
<1>6. RouteDist(q) < RouteDist(r)
    BY <1>2, <1>5
<1> QED
    BY <1>4, <1>6 DEF Shortens

LEMMA OrOptPays ==
    ASSUME day \in DOMAIN Days, NEW r \in Seq(Stops), NEW n \in Nat, 1 <= n, NEW q \in OrOpt(r, n)
    PROVE  Shortens(q, r)
<1>1. PICK m \in Nat : m = Len(r)
    BY LenProperties
<1>2. n < m
    BY <1>1 DEF OrOpt
<1>3. PICK i \in 1 .. m - n + 1, p \in 1 .. m - n + 1 :
         OrOptGain(r, i, n, p) > 0 /\ q = Moved(r, i, n, p)
    BY <1>1, <1>2 DEF OrOpt
<1>4. i \in 1 .. Len(r) - n + 1 /\ p \in 1 .. Len(r) - n + 1
    BY <1>1, <1>3
<1>5. /\ RouteDist(q) = RouteDist(r) - OrOptGain(r, i, n, p) /\ q \in Seq(Stops)
      /\ RouteDist(q) \in Int /\ RouteDist(r) \in Int /\ OrOptGain(r, i, n, p) \in Int
    BY <1>3, <1>4, MovePrice
<1>6. RouteDist(q) < RouteDist(r)
    BY <1>3, <1>5
<1> QED
    BY <1>5, <1>6 DEF Shortens

LEMMA OffersPay ==
    ASSUME day \in DOMAIN Days, NEW r \in Seq(Stops), pc \in LocalSteps, NEW q \in Offers(r)
    PROVE  Shortens(q, r)
<1>1. q \in TwoOpt(r, 2) \/ q \in OrOpt(r, 1) \/ q \in OrOpt(r, 2) \/ q \in OrOpt(r, 3)
    BY DEF LocalSteps, Offers
<1>2. CASE q \in TwoOpt(r, 2)
    BY <1>2, TwoOptPays
<1>3. ASSUME NEW n \in {1, 2, 3}, q \in OrOpt(r, n)
      PROVE  Shortens(q, r)
    <2>1. n \in Nat /\ 1 <= n
        OBVIOUS
    <2> QED
        BY <1>3, <2>1, OrOptPays
<1> QED
    BY <1>1, <1>2, <1>3

LEMMA LocalMovePays ==
    ASSUME SearchInv, LocalMove
    PROVE  Pays(sol', sol)
<1>1. PICK x, o, l, c, b : Holds(x, o, l, c, b)
    BY SearchNow
<1>2. pc \in LocalSteps /\ at \in Vehicles
    BY DEF LocalMove, SearchInv, SearchTypes, LocalSteps
<1>3. PICK v, r : v = at /\ r \in Offers(x.routes[v]) /\ sol' = [x EXCEPT !.routes[v] = r]
    BY <1>1 DEF LocalMove, Holds
<1>4. PICK P : P = Stops \ (o \cup l) /\ IsSolution(x, P) /\ sol = x /\ day \in DOMAIN Days
    BY <1>1 DEF Holds
<1>5. v \in Vehicles
    BY <1>2, <1>3
<1>6. PICK q : q = x.routes[v] /\ q \in Seq(Stops)
    BY <1>4, <1>5, SolutionFacts
<1>7. Shortens(r, q)
    BY <1>2, <1>3, <1>4, <1>6, OffersPay
<1>8. PICK f, g : f = x.routes /\ g = [f EXCEPT ![v] = r]
    OBVIOUS
<1>9. DOMAIN f = Vehicles /\ \A u \in Vehicles : f[u] \in Seq(Stops)
    BY <1>4, <1>8 DEF IsSolution, Carries
<1>10. Reroutes(g, f, v) /\ g[v] = r /\ f[v] = q
    <2>1. g[v] = r /\ f[v] = q /\ r \in Seq(Stops)
        BY <1>5, <1>6, <1>7, <1>8, <1>9 DEF Shortens
    <2>2. \A u \in Vehicles : u # v => g[u] = f[u]
        BY <1>8, <1>9
    <2> QED
        BY <1>9, <2>1, <2>2 DEF Reroutes
<1>11. /\ Length(g) = Length(f) + (RouteDist(r) - RouteDist(q))
       /\ Length(g) \in Int /\ Length(f) \in Int /\ RouteDist(r) \in Int /\ RouteDist(q) \in Int
    BY <1>4, <1>5, <1>10, LengthChanges
<1>12. Length(g) < Length(f)
    BY <1>7, <1>11 DEF Shortens
<1>13. PICK y : y = sol' /\ y.routes = g
    BY <1>3, <1>4, <1>8 DEF IsSolution
<1> QED
    BY <1>4, <1>8, <1>12, <1>13 DEF Pays, TotalCost

\* The routes of y and x differ on vehicles v and w only.
ReroutesTwo(y, x, v, w) ==
    /\ \A u \in Vehicles : x[u] \in Seq(Stops) /\ y[u] \in Seq(Stops)
    /\ \A u \in Vehicles \ {v, w} : y[u] = x[u]

LEMMA TwoLengthsChange ==
    ASSUME day \in DOMAIN Days, NEW x \in [Vehicles -> Seq(Stops)], NEW y, NEW v \in Vehicles,
           NEW w \in Vehicles, v # w, ReroutesTwo(y, x, v, w)
    PROVE  /\ Length(y) = Length(x) + (RouteDist(y[v]) - RouteDist(x[v]))
                                    + (RouteDist(y[w]) - RouteDist(x[w]))
           /\ Length(y) \in Int /\ Length(x) \in Int
           /\ RouteDist(y[v]) \in Int /\ RouteDist(x[v]) \in Int
           /\ RouteDist(y[w]) \in Int /\ RouteDist(x[w]) \in Int
<1>1. PICK z : z = [x EXCEPT ![v] = y[v]]
    OBVIOUS
<1>2. z[v] = y[v] /\ z[w] = x[w] /\ \A u \in Vehicles : u # v => z[u] = x[u]
    BY <1>1
<1>3. \A u \in Vehicles : x[u] \in Seq(Stops) /\ y[u] \in Seq(Stops)
    BY DEF ReroutesTwo
<1>4. \A u \in Vehicles : z[u] \in Seq(Stops)
    <2>1. ASSUME NEW u \in Vehicles PROVE z[u] \in Seq(Stops)
        <3>1. CASE u = v
            BY <1>2, <1>3, <3>1
        <3>2. CASE u # v
            BY <1>2, <1>3, <3>2
        <3> QED
            BY <3>1, <3>2
    <2> QED
        BY <2>1
<1>5. Reroutes(z, x, v)
    BY <1>2, <1>3, <1>4 DEF Reroutes
<1>6. Reroutes(y, z, w)
    <2>1. \A u \in Vehicles : u # w => y[u] = z[u]
        <3>1. ASSUME NEW u \in Vehicles, u # w PROVE y[u] = z[u]
            <4>1. CASE u = v
                BY <1>2, <4>1
            <4>2. CASE u # v
                <5>1. y[u] = x[u]
                    BY <3>1, <4>2 DEF ReroutesTwo
                <5> QED
                    BY <1>2, <4>2, <5>1
            <4> QED
                BY <4>1, <4>2
        <3> QED
            BY <3>1
    <2> QED
        BY <1>3, <1>4, <2>1 DEF Reroutes
<1>7. /\ Length(z) = Length(x) + (RouteDist(z[v]) - RouteDist(x[v]))
      /\ Length(z) \in Int /\ Length(x) \in Int
      /\ RouteDist(z[v]) \in Int /\ RouteDist(x[v]) \in Int
    BY <1>5, LengthChanges
<1>8. /\ Length(y) = Length(z) + (RouteDist(y[w]) - RouteDist(z[w]))
      /\ Length(y) \in Int /\ RouteDist(y[w]) \in Int /\ RouteDist(z[w]) \in Int
    BY <1>6, LengthChanges
<1>9. PICK a \in Int, b \in Int, c \in Int, d \in Int, e \in Int, m \in Int, n \in Int :
        /\ a = Length(x) /\ b = Length(z) /\ c = Length(y) /\ d = RouteDist(y[v]) /\ e = RouteDist(x[v])
        /\ m = RouteDist(y[w]) /\ n = RouteDist(x[w])
    BY <1>2, <1>7, <1>8
<1>10. b = a + (d - e) /\ c = b + (m - n)
    BY <1>2, <1>7, <1>8, <1>9
<1> QED
    BY <1>9, <1>10

\* A stop put into a route.
LEMMA InsertionIs ==
    ASSUME NEW w \in Seq(Stops), NEW s \in Stops, NEW p \in 1 .. Len(w) + 1
    PROVE  InsertAt(w, p, s) \in Seq(Stops) /\ IsSplice(InsertAt(w, p, s), w, p, <<s>>)
<1>1. PICK T : T = Stops
    OBVIOUS
<1>2. PICK q : q = <<s>>
    OBVIOUS
<1>3. w \in Seq(T) /\ q \in Seq(T)
    BY <1>1, <1>2
<1>4. PICK x : x = InsertAt(w, p, s)
    OBVIOUS
<1>5. x = SubSeq(w, 1, p - 1) \o q \o SubSeq(w, p, Len(w))
    BY <1>2, <1>4 DEF InsertAt
<1>6. x \in Seq(T) /\ IsSplice(x, w, p, q)
    BY <1>3, <1>5, SpliceIs
<1> QED
    BY <1>1, <1>2, <1>4, <1>6

IsTaken(q, r, i, s) ==
    q = Without(r, {s}) /\ q \in Seq(Stops) /\ Len(q) = Len(r) - 1 /\ IsSplice(r, q, i, <<s>>)

\* A stop taken out of a route.
LEMMA TakenIs ==
    ASSUME NEW r \in Seq(Stops), Once(r), NEW i \in 1 .. Len(r), NEW s, s = r[i],
           NEW q, q = RemoveAt(r, i)
    PROVE  IsTaken(q, r, i, s)
<1>1. PICK T : T = Stops
    OBVIOUS
<1>2. r \in Seq(T)
    BY <1>1
<1>3. /\ q = Without(r, {s}) /\ q \in Seq(T)
      /\ Len(q) = Len(r) - 1 /\ IsSplice(r, q, i, <<s>>)
    BY <1>2, RemovalIs
<1> QED
    BY <1>1, <1>3 DEF IsTaken

LEMMA RelocatedPays ==
    ASSUME day \in DOMAIN Days, NEW x, x = sol, NEW P, IsSolution(x, P), NEW y \in Relocated
    PROVE  Pays(y, x)
<1>1. PICK d \in Vehicles \X Stops \X Vehicles \X (1 .. Cardinality(Stops)) :
            /\ d[2] \in ToSet(x.routes[d[1]]) /\ d[1] # d[3]
            /\ <<d[2], d[3], d[4]>> \in Places(x, {d[2]})
            /\ LET r == x.routes[d[1]]
                   i == CHOOSE k \in DOMAIN r : r[k] = d[2]
               IN InsertDelta(RemoveAt(r, i), i, d[2]) > InsertDelta(x.routes[d[3]], d[4], d[2])
            /\ y = Insert(Remove1(x, d[1], d[2]), d[3], d[4], d[2])
    BY DEF Relocated
<1>2. PICK v, s, w, p : v = d[1] /\ s = d[2] /\ w = d[3] /\ p = d[4]
    OBVIOUS
<1>3. v \in Vehicles /\ s \in Stops /\ w \in Vehicles /\ v # w /\ s \in ToSet(x.routes[v])
    BY <1>1, <1>2
<1>4. PICK r, t : r = x.routes[v] /\ t = x.routes[w] /\ r \in Seq(Stops) /\ t \in Seq(Stops) /\ Once(r)
    BY <1>3, SolutionFacts
<1>5. PICK n \in Nat : n = Len(t)
    BY <1>4, LenProperties
<1>6. p \in 1 .. Len(t) + 1
    <2>1. PICK c : c = <<s, w, p>> /\ c \in Places(x, {s})
        BY <1>1, <1>2
    <2>2. c[1] = s /\ c[2] = w /\ c[3] = p
        BY <2>1
    <2>3. p \in Nat /\ 1 <= p /\ p <= Len(x.routes[w]) + 1
        BY <2>1, <2>2, PlaceFacts
    <2> QED
        BY <1>4, <1>5, <2>3
<1>7. PICK i : i = CHOOSE k \in DOMAIN r : r[k] = s
    OBVIOUS
<1>8. i \in 1 .. Len(r) /\ s = r[i]
    <2>1. \E k \in DOMAIN r : r[k] = s
        BY <1>3, <1>4 DEF ToSet
    <2>2. DOMAIN r = 1 .. Len(r)
        BY <1>4, LenProperties
    <2> QED
        BY <1>7, <2>1, <2>2
<1>9. InsertDelta(RemoveAt(r, i), i, s) > InsertDelta(t, p, s)
    BY <1>1, <1>2, <1>4, <1>7
<1>10. PICK q : q = RemoveAt(r, i)
    OBVIOUS
<1>11. q = Without(r, {s}) /\ q \in Seq(Stops) /\ Len(q) = Len(r) - 1 /\ IsSplice(r, q, i, <<s>>)
    <2>1. IsTaken(q, r, i, s)
        BY <1>4, <1>8, <1>10, TakenIs
    <2> QED
        BY <2>1 DEF IsTaken
<1>12. PICK u : u = InsertAt(t, p, s)
    OBVIOUS
<1>13. u \in Seq(Stops) /\ IsSplice(u, t, p, <<s>>)
    BY <1>3, <1>4, <1>6, <1>12, InsertionIs
<1>14. i \in 1 .. Len(q) + 1
    <2>1. PICK m \in Nat : m = Len(r)
        BY <1>4, LenProperties
    <2> QED
        BY <1>8, <1>11, <2>1
<1>15. /\ RouteDist(r) = RouteDist(q) + InsertDelta(q, i, s)
       /\ RouteDist(r) \in Int /\ RouteDist(q) \in Int /\ InsertDelta(q, i, s) \in Int
    BY <1>3, <1>4, <1>11, <1>14, InsertPrice
<1>16. /\ RouteDist(u) = RouteDist(t) + InsertDelta(t, p, s)
       /\ RouteDist(u) \in Int /\ RouteDist(t) \in Int /\ InsertDelta(t, p, s) \in Int
    BY <1>3, <1>4, <1>6, <1>13, InsertPrice
<1>17. PICK f, g : f = x.routes /\ g = [[f EXCEPT ![v] = q] EXCEPT ![w] = u]
    OBVIOUS
<1>18. f \in [Vehicles -> Seq(Stops)]
    BY <1>17 DEF IsSolution, Carries
<1>19. y.routes = g
    <2>1. PICK z : z = Remove1(x, v, s)
        OBVIOUS
    <2>2. z.routes = [f EXCEPT ![v] = q]
        BY <1>4, <1>11, <1>17, <2>1 DEF Remove1
    <2>3. z.routes[w] = t
        BY <1>3, <1>4, <1>17, <1>18, <2>2
    <2>4. y = Insert(z, w, p, s)
        BY <1>1, <1>2, <2>1
    <2>5. y.routes = [z.routes EXCEPT ![w] = InsertAt(z.routes[w], p, s)]
        BY <2>4 DEF Insert
    <2> QED
        BY <1>12, <1>17, <2>2, <2>3, <2>5
<1>20. g[v] = q /\ g[w] = u /\ f[v] = r /\ f[w] = t /\ \A k \in Vehicles \ {v, w} : g[k] = f[k]
    BY <1>3, <1>4, <1>17, <1>18
<1>21. ReroutesTwo(g, f, v, w)
    <2>1. ASSUME NEW k \in Vehicles PROVE g[k] \in Seq(Stops)
        <3>1. CASE k \in {v, w}
            BY <1>11, <1>13, <1>20, <3>1
        <3>2. CASE k \notin {v, w}
            BY <1>18, <1>20, <3>2
        <3> QED
            BY <3>1, <3>2
    <2> QED
        BY <1>18, <1>20, <2>1 DEF ReroutesTwo
<1>22. /\ Length(g) = Length(f) + (RouteDist(g[v]) - RouteDist(f[v])) + (RouteDist(g[w]) - RouteDist(f[w]))
       /\ Length(g) \in Int /\ Length(f) \in Int
    BY <1>3, <1>18, <1>21, TwoLengthsChange
<1>23. Length(g) < Length(f)
    <2>1. Length(g) = Length(f) + (RouteDist(q) - RouteDist(r)) + (RouteDist(u) - RouteDist(t))
        BY <1>20, <1>22
    <2>2. InsertDelta(q, i, s) > InsertDelta(t, p, s)
        BY <1>9, <1>10
    <2> QED
        BY <1>15, <1>16, <1>22, <2>1, <2>2
<1> QED
    BY <1>17, <1>19, <1>23 DEF Pays, TotalCost

IsReplaced(q, r, a, b) == q = Replaced(r, a, b)

\* The route that b takes the place of a in.
LEMMA PutIs ==
    ASSUME NEW r \in Seq(Stops), Once(r), NEW a \in ToSet(r), NEW b \in Stops,
           NEW q, IsReplaced(q, r, a, b)
    PROVE  q \in Seq(Stops) /\ \E i \in 1 .. Len(r) : a = r[i] /\ IsPut(q, r, i, b)
<1>1. PICK n \in Nat : n = Len(r) /\ DOMAIN r = 1 .. n
    BY LenProperties
<1>2. PICK i \in 1 .. n : a = r[i]
    BY <1>1 DEF ToSet
<1>3. \A k \in 1 .. n : r[k] = a <=> k = i
    BY <1>1, <1>2 DEF Once
<1>4. DOMAIN q = 1 .. n /\ \A k \in 1 .. n : q[k] = IF k = i THEN b ELSE r[k]
    BY <1>1, <1>3 DEF IsReplaced, Replaced
<1>5. PICK T : T = Stops
    OBVIOUS
<1>6. \A k \in 1 .. n : q[k] \in T
    <2>1. \A k \in 1 .. n : r[k] \in T
        BY <1>1, <1>5
    <2> QED
        BY <1>4, <1>5, <2>1
<1>7. q = [k \in 1 .. n |-> q[k]]
    BY <1>1 DEF IsReplaced, Replaced
<1>8. q \in Seq(T)
    BY ONLY <1>1, <1>6, <1>7
<1>9. Len(q) = n
    BY <1>4, <1>8, LenProperties
<1>10. q \in Seq(Stops) /\ IsPut(q, r, i, b)
    BY <1>1, <1>4, <1>5, <1>8, <1>9 DEF IsPut
<1> QED
    BY <1>1, <1>2, <1>10

LEMMA SwappedPays ==
    ASSUME day \in DOMAIN Days, NEW x, x = sol, NEW P, IsSolution(x, P), NEW y \in Swapped
    PROVE  Pays(y, x)
<1>1. PICK d \in Vehicles \X Stops \X Vehicles \X Stops :
            /\ d[1] < d[3]
            /\ d[2] \in ToSet(x.routes[d[1]]) /\ d[4] \in ToSet(x.routes[d[3]])
            /\ SwapDelta(x.routes[d[1]], d[2], d[4]) + SwapDelta(x.routes[d[3]], d[4], d[2]) < 0
            /\ y = Put(Put(x, d[1], d[2], d[4]), d[3], d[4], d[2])
    BY DEF Swapped
<1>2. PICK v, a, w, b : v = d[1] /\ a = d[2] /\ w = d[3] /\ b = d[4]
    OBVIOUS
<1>3. /\ v \in Vehicles /\ w \in Vehicles /\ v < w /\ a \in Stops /\ b \in Stops
      /\ a \in ToSet(x.routes[v]) /\ b \in ToSet(x.routes[w])
    BY <1>1, <1>2
<1>4. v # w
    BY <1>3, VehicleFacts
<1>5. PICK r, t : /\ r = x.routes[v] /\ t = x.routes[w] /\ r \in Seq(Stops) /\ t \in Seq(Stops)
                  /\ Once(r) /\ Once(t)
    BY <1>3, SolutionFacts
<1>6. SwapDelta(r, a, b) + SwapDelta(t, b, a) < 0
    BY <1>1, <1>2, <1>5
<1>7. PICK q, u : /\ q = [k \in DOMAIN r |-> IF r[k] = a THEN b ELSE r[k]]
                  /\ u = [k \in DOMAIN t |-> IF t[k] = b THEN a ELSE t[k]]
    OBVIOUS
<1>a. IsReplaced(q, r, a, b) /\ IsReplaced(u, t, b, a)
    BY <1>7 DEF IsReplaced, Replaced
<1>8. q \in Seq(Stops) /\ \E i \in 1 .. Len(r) : a = r[i] /\ IsPut(q, r, i, b)
    BY <1>3, <1>5, <1>a, PutIs
<1>9. u \in Seq(Stops) /\ \E i \in 1 .. Len(t) : b = t[i] /\ IsPut(u, t, i, a)
    BY <1>3, <1>5, <1>a, PutIs
<1>10. /\ RouteDist(q) = RouteDist(r) + SwapDelta(r, a, b)
       /\ RouteDist(q) \in Int /\ RouteDist(r) \in Int /\ SwapDelta(r, a, b) \in Int
    <2>1. PICK i \in 1 .. Len(r) : a = r[i] /\ IsPut(q, r, i, b)
        BY <1>8
    <2> QED
        BY <1>3, <1>5, <2>1, SwapPrice
<1>11. /\ RouteDist(u) = RouteDist(t) + SwapDelta(t, b, a)
       /\ RouteDist(u) \in Int /\ RouteDist(t) \in Int /\ SwapDelta(t, b, a) \in Int
    <2>1. PICK i \in 1 .. Len(t) : b = t[i] /\ IsPut(u, t, i, a)
        BY <1>9
    <2> QED
        BY <1>3, <1>5, <2>1, SwapPrice
<1>12. PICK f, g : f = x.routes /\ g = [[f EXCEPT ![v] = q] EXCEPT ![w] = u]
    OBVIOUS
<1>13. f \in [Vehicles -> Seq(Stops)]
    BY <1>12 DEF IsSolution, Carries
<1>14. y.routes = g
    <2>1. PICK z : z = Put(x, v, a, b)
        OBVIOUS
    <2>2. z.routes = [f EXCEPT ![v] = q]
        BY <1>5, <1>7, <1>12, <2>1 DEF Put
    <2>3. z.routes[w] = t
        BY <1>3, <1>4, <1>5, <1>12, <1>13, <2>2
    <2>4. y = Put(z, w, b, a)
        BY <1>1, <1>2, <2>1
    <2>5. y.routes = [z.routes EXCEPT ![w] = u]
        BY <1>7, <2>3, <2>4 DEF Put
    <2> QED
        BY <1>12, <2>2, <2>5
<1>15. g[v] = q /\ g[w] = u /\ f[v] = r /\ f[w] = t /\ \A k \in Vehicles \ {v, w} : g[k] = f[k]
    BY <1>3, <1>4, <1>5, <1>12, <1>13
<1>16. ReroutesTwo(g, f, v, w)
    <2>1. ASSUME NEW k \in Vehicles PROVE g[k] \in Seq(Stops)
        <3>1. CASE k \in {v, w}
            BY <1>8, <1>9, <1>15, <3>1
        <3>2. CASE k \notin {v, w}
            BY <1>13, <1>15, <3>2
        <3> QED
            BY <3>1, <3>2
    <2> QED
        BY <1>13, <1>15, <2>1 DEF ReroutesTwo
<1>17. /\ Length(g) = Length(f) + (RouteDist(g[v]) - RouteDist(f[v])) + (RouteDist(g[w]) - RouteDist(f[w]))
       /\ Length(g) \in Int /\ Length(f) \in Int
    BY <1>3, <1>4, <1>13, <1>16, TwoLengthsChange
<1>18. Length(g) < Length(f)
    <2>1. Length(g) = Length(f) + (RouteDist(q) - RouteDist(r)) + (RouteDist(u) - RouteDist(t))
        BY <1>15, <1>17
    <2> QED
        BY <1>6, <1>10, <1>11, <1>17, <2>1
<1> QED
    BY <1>12, <1>14, <1>18 DEF Pays, TotalCost

\* A step of the local search leaves the solution alone or makes it shorter.
LEMMA StepPays ==
    ASSUME SearchInv, SearchNext, pc \in LocalSteps \cup {"relocate", "swap"}, sol' # sol
    PROVE  Pays(sol', sol)
<1>1. CASE LocalMove
    BY <1>1, LocalMovePays
<1>2. CASE LocalNext
    BY <1>2 DEF LocalNext
<1>3. ASSUME sol' \in Relocated \/ sol' \in Swapped PROVE Pays(sol', sol)
    <2>1. PICK x, o, l, c, b : Holds(x, o, l, c, b)
        BY SearchNow
    <2>2. PICK P : P = Stops \ (o \cup l)
        OBVIOUS
    <2>3. x = sol /\ IsSolution(x, P) /\ day \in DOMAIN Days
        BY <2>1, <2>2 DEF Holds
    <2>4. PICK y : y = sol' /\ (y \in Relocated \/ y \in Swapped)
        BY <1>3
    <2>5. Pays(y, x)
        BY <2>3, <2>4, RelocatedPays, SwappedPays
    <2> QED
        BY <2>3, <2>4, <2>5 DEF Pays, TotalCost
<1>4. CASE Relocate
    BY <1>3, <1>4 DEF Relocate
<1>5. CASE Swap
    BY <1>3, <1>5 DEF Swap
<1>6. ~ (PackStop \/ NextVehicle \/ FitFurthest \/ SeedVehicle \/ InsertCheapest)
    BY DEF LocalSteps, PackStop, NextVehicle, FitFurthest, SeedVehicle, InsertCheapest
<1>7. ~ (Destroy \/ Reinsert \/ Accept \/ Intensify)
    BY DEF LocalSteps, Destroy, Reinsert, Accept, Intensify
<1> QED
    BY <1>1, <1>2, <1>4, <1>5, <1>6, <1>7 DEF SearchNext

\* A move is priced by the edges it changes, and taken when that price is a saving: every
\* step of the local search (localSearchAll, relocate, swap) makes the whole plan shorter,
\* for any vehicles, stops and positions, so none of its loops can come back to a solution.
THEOREM EveryMovePays == SearchSpec => MovesPay
<1>1. SearchInit => SearchInv
    BY SearchStarts
<1>2. SearchInv /\ [SearchNext]_search => SearchInv'
    BY SearchStep, SearchStays
<1>3. SearchInv /\ [SearchNext]_search
         => [(/\ pc \in {"2opt", "or1", "or2", "or3", "relocate", "swap"}
              /\ sol' # sol) => TotalCost(sol') < TotalCost(sol)]_search
    <2>1. ASSUME SearchInv, [SearchNext]_search,
                 pc \in {"2opt", "or1", "or2", "or3", "relocate", "swap"}, sol' # sol
          PROVE  TotalCost(sol') < TotalCost(sol)
        <3>1. SearchNext
            BY <2>1 DEF search
        <3>2. pc \in LocalSteps \cup {"relocate", "swap"}
            BY <2>1 DEF LocalSteps
        <3>3. Pays(sol', sol)
            BY <2>1, <3>1, <3>2, StepPays
        <3> QED
            BY <3>3 DEF Pays
    <2> QED
        BY <2>1
<1> QED
    BY <1>1, <1>2, <1>3, PTL DEF SearchSpec, MovesPay
=============================================================================
