---------------------------- MODULE OptimizeRace ----------------------------
(***************************************************************************)
(* Requests that re-plan whole plans, at the grain of their awaits:        *)
(* optimizeRoutePlan, autoDispatchPlan, assignRoute, lockRoute and         *)
(* createRoutePlan of routePlanController and autoDispatchService.         *)
(* RoutePlanning has the same handlers as atomic steps; here two           *)
(* dispatchers press the buttons at the same time.                         *)
(*                                                                         *)
(* External, from how the schemas and handlers use it: updateMany and      *)
(* deleteMany are one step and look at no version; create fails on the     *)
(* unique index (RoutePlanID, VehicleID); save() of a changed driver,      *)
(* vehicle or status fails only if the document is gone (or, for the       *)
(* vehicle, on that index).                                                *)
(*                                                                         *)
(* Which driver is free first, which order fits which vehicle and in which *)
(* order routes are worked through is left open.  Edits of single stops    *)
(* are in RouteEdits, trips and the plan's status in RouteCommits.         *)
(***************************************************************************)
EXTENDS FiniteSets, Naturals

CONSTANTS Orders,    \* approved SalesOrder documents of one day
          Plans,     \* RoutePlan documents of one depot and day
          Vehicles,  \* active vehicles of the depot
          Drivers,   \* active drivers of the depot
          Routes,    \* ids of DeliveryRoute documents, never used twice
          Requests,  \* slots for requests being served at the same time
          None       \* no driver, vehicle, plan or route

ASSUME NoneAssumption == None \notin Plans \cup Vehicles \cup Drivers \cup Routes
ASSUME PlansAssumption == IsFiniteSet(Plans)

VARIABLES code,      \* the sequence number in RoutePlan.PlanCode, 0 if there is no such plan
          planning,  \* SalesOrder.PlanningStatus
          route,     \* the DeliveryRoute documents
          at,        \* the await a request is suspended at
          local,     \* what a request has in memory
          contested, \* history: orders two requests had in hand, or one that failed
          crowded,   \* history: plans two requests worked on at the same time
          byHand,    \* history: routes whose driver was picked in the request
          recounted  \* history: a plan was deleted, or two were numbered at the same time

documents == <<code, planning, route>>
vars == <<code, planning, route, at, local, contested, crowded, byHand, recounted>>

RouteStatus == {"UNUSED", "PLANNED", "LOCKED", "DELETED"}
DeliveryRoute == [plan : Plans \cup {None}, vehicle : Vehicles \cup {None},
                  driver : Drivers \cup {None}, status : RouteStatus, load : SUBSET Orders]
Stage == {"idle", "count", "release", "drop", "pool", "create", "save", "mark",
          "lockSave", "lockOrders", "assign", "clear", "dispatch"}

\* hand: the orders the request has read to change; reset: the routes it read
\* to change; todo: what is to be loaded on which vehicle; open: the routes to be
\* given a driver; busy and used: the vehicles and drivers it must not take; id,
\* driver, vehicle: the route it is working on and what it will set there; made:
\* the orders it has put on routes.
Local == [plan : Plans \cup {None}, count : Nat, hand : SUBSET Orders, reset : SUBSET Routes,
          open : SUBSET Routes,
          todo : [Vehicles -> SUBSET Orders], busy : SUBSET Vehicles, used : SUBSET Drivers,
          id : Routes \cup {None}, driver : Drivers \cup {None},
          vehicle : Vehicles \cup {None}, made : SUBSET Orders]
Blank == [plan |-> None, count |-> 0, hand |-> {}, reset |-> {}, open |-> {},
          todo |-> [v \in Vehicles |-> {}], busy |-> {}, used |-> {},
          id |-> None, driver |-> None, vehicle |-> None, made |-> {}]
NoRoute == [plan |-> None, vehicle |-> None, driver |-> None, status |-> "UNUSED", load |-> {}]

TypeOK ==
  /\ code \in [Plans -> Nat]
  /\ planning \in [Orders -> {"PENDING", "PLANNED", "LOCKED"}]
  /\ route \in [Routes -> DeliveryRoute]
  /\ at \in [Requests -> Stage]
  /\ local \in [Requests -> Local]
  /\ contested \in SUBSET Orders /\ crowded \in SUBSET Plans
  /\ byHand \in SUBSET Routes /\ recounted \in BOOLEAN

Init ==
  /\ code = [p \in Plans |-> 0]
  /\ planning = [o \in Orders |-> "PENDING"]
  /\ route = [r \in Routes |-> NoRoute]
  /\ at = [q \in Requests |-> "idle"]
  /\ local = [q \in Requests |-> Blank]
  /\ contested = {} /\ crowded = {} /\ byHand = {} /\ recounted = FALSE

-----------------------------------------------------------------------------
(* Documents and requests.                                                 *)

Stored(r) == route[r].status \in {"PLANNED", "LOCKED"}
RoutesOf(p) == {r \in Routes : Stored(r) /\ route[r].plan = p}
LoadOf(R) == UNION {route[r].load : r \in R}
DriversOf(R) == {route[r].driver : r \in R} \ {None}
Taken(p, v) == \E r \in RoutesOf(p) : route[r].vehicle = v

\* findAvailableDriver, and the first free one of a list: a free driver, or none if all are taken.
FreeDrivers(used) == IF Drivers \subseteq used THEN {None} ELSE Drivers \ used

\* The histories: what two requests hold or work on at the same time.
Watch ==
  /\ contested' = contested \cup
       {o \in Orders : \E p, q \in Requests : p # q /\ o \in local'[p].hand \cap local'[q].hand}
  /\ crowded' = crowded \cup
       {p \in Plans : \E q, s \in Requests : q # s /\ local'[q].plan = p /\ local'[s].plan = p}

Arrives(q, stage, memory) ==
  /\ at[q] = "idle"
  /\ at' = [at EXCEPT ![q] = stage]
  /\ local' = [local EXCEPT ![q] = memory]

Goes(q, from, to, memory) ==
  /\ at[q] = from
  /\ at' = [at EXCEPT ![q] = to]
  /\ local' = [local EXCEPT ![q] = memory]

Answers(q, from) == Goes(q, from, "idle", Blank)

\* A handler throws, or the process dies: nothing is undone.
Fails(q) ==
  /\ at[q] # "idle"
  /\ at' = [at EXCEPT ![q] = "idle"]
  /\ local' = [local EXCEPT ![q] = Blank]
  /\ contested' = contested \cup local[q].hand
  /\ UNCHANGED <<documents, crowded, byHand, recounted>>

-----------------------------------------------------------------------------
(* createRoutePlan and deleteRoutePlan.                                    *)

SameDayCount == Cardinality({p \in Plans : code[p] # 0})

CreatePlanCounts(q) ==
  /\ Arrives(q, "count", [Blank EXCEPT !.count = SameDayCount])
  /\ recounted' = (recounted \/ \E p \in Requests : at[p] = "count")
  /\ Watch
  /\ UNCHANGED <<documents, byHand>>

\* The code is count + 1.  Nothing makes PlanCode unique, so create goes through.
CreatePlan(q, p) ==
  /\ code[p] = 0
  /\ \A r \in Routes : route[r].plan # p
  /\ Answers(q, "count")
  /\ code' = [code EXCEPT ![p] = local[q].count + 1]
  /\ Watch
  /\ UNCHANGED <<planning, route, byHand, recounted>>

\* deleteRoutePlan takes its orders back and deletes routes and plan; here in one step.
DeletePlan(p) ==
  /\ code[p] # 0
  /\ planning' = [o \in Orders |->
       IF \E r \in RoutesOf(p) : o \in route[r].load /\ route[r].status = planning[o]
         THEN "PENDING" ELSE planning[o]]
  /\ route' = [r \in Routes |->
       IF r \in RoutesOf(p) THEN [route[r] EXCEPT !.status = "DELETED"] ELSE route[r]]
  /\ code' = [code EXCEPT ![p] = 0]
  /\ recounted' = TRUE
  /\ contested' = contested \cup {o \in LoadOf(RoutesOf(p)) : \E q \in Requests : o \in local[q].hand}
  /\ UNCHANGED <<at, local, crowded, byHand>>

-----------------------------------------------------------------------------
(* optimizeRoutePlan.                                                      *)

\* The routes that are wiped: all of the plan that are PLANNED.
ToReset(p) == {r \in RoutesOf(p) : route[r].status = "PLANNED"}

OptimizeReads(q, p) ==
  LET reset == ToReset(p)  kept == RoutesOf(p) \ reset IN
  /\ code[p] # 0
  /\ Arrives(q, IF reset = {} THEN "pool" ELSE "release",
             [Blank EXCEPT !.plan = p, !.reset = reset, !.hand = LoadOf(reset),
                           !.busy = {route[r].vehicle : r \in kept}, !.used = DriversOf(kept)])
  /\ Watch
  /\ UNCHANGED <<documents, byHand, recounted>>

\* Mutant: the orders of the wiped routes are not released.
KeepPlanned(S) == planning

\* updateMany without a filter on the status.
Released(S) == [o \in Orders |-> IF o \in S THEN "PENDING" ELSE planning[o]]

OptimizeReleases(q) ==
  /\ Goes(q, "release", "drop", local[q])
  /\ planning' = Released(local[q].hand)
  /\ Watch
  /\ UNCHANGED <<code, route, byHand, recounted>>

\* deleteMany by id, whatever has become of the routes.
OptimizeDrops(q) ==
  /\ Goes(q, "drop", "pool", local[q])
  /\ route' = [r \in Routes |-> IF r \in local[q].reset
                                  THEN [route[r] EXCEPT !.status = "DELETED"] ELSE route[r]]
  /\ Watch
  /\ UNCHANGED <<code, planning, byHand, recounted>>

Pool == {o \in Orders : planning[o] = "PENDING"}

\* The packers and solvers: any part of the pool on any vehicles that are not kept.
Packings(pool, vehicles) ==
  {todo \in [Vehicles -> SUBSET pool] :
     /\ \E v \in vehicles : todo[v] # {}
     /\ \A v \in Vehicles \ vehicles : todo[v] = {}
     /\ \A v, w \in vehicles : v # w => todo[v] \cap todo[w] = {}}

OptimizeReadsPool(q) ==
  /\ \E todo \in Packings(Pool, Vehicles \ local[q].busy) :
       Goes(q, "pool", "create",
            [local[q] EXCEPT !.todo = todo,
                             !.hand = @ \cup UNION {todo[v] : v \in Vehicles}])
  /\ Watch
  /\ UNCHANGED <<documents, byHand, recounted>>

\* DeliveryRoute.create for the next packed vehicle, with the first free driver.
OptimizeCreates(q) ==
  \E v \in Vehicles, r \in Routes, d \in FreeDrivers(local[q].used) :
    /\ local[q].todo[v] # {}
    /\ route[r].status = "UNUSED"
    /\ ~Taken(local[q].plan, v)
    /\ route' = [route EXCEPT ![r] =
         [plan |-> local[q].plan, vehicle |-> v, driver |-> d,
          status |-> "PLANNED", load |-> local[q].todo[v]]]
    /\ Goes(q, "create", "save",
            [local[q] EXCEPT !.todo[v] = {}, !.id = r, !.used = (@ \cup {d}) \ {None},
                             !.made = @ \cup local[q].todo[v]])
    /\ Watch
    /\ UNCHANGED <<code, planning, byHand, recounted>>

\* dr.save() with the recomputed times: it fails if the route is gone (Fails).
OptimizeSaves(q) ==
  /\ Goes(q, "save", IF \E v \in Vehicles : local[q].todo[v] # {} THEN "create" ELSE "mark",
          local[q])
  /\ Stored(local[q].id)
  /\ Watch
  /\ UNCHANGED <<documents, byHand, recounted>>

OptimizeMarks(q) ==
  /\ Answers(q, "mark")
  /\ planning' = [o \in Orders |-> IF o \in local[q].made THEN "PLANNED" ELSE planning[o]]
  /\ Watch
  /\ UNCHANGED <<code, route, byHand, recounted>>

-----------------------------------------------------------------------------
(* lockRoute.                                                              *)

\* Mutant: only drivers of LOCKED routes count as used.
UsedByLocked(r) == DriversOf({s \in RoutesOf(route[r].plan) \ {r} : route[s].status = "LOCKED"})

\* The drivers of the plan's other routes.
UsedBeside(r) == DriversOf(RoutesOf(route[r].plan) \ {r})

\* An own driver is kept; without a free one the handler refuses.
LockReads(q, r) ==
  /\ route[r].status = "PLANNED"
  /\ code[route[r].plan] # 0
  /\ route[r].load # {}
  /\ \E d \in IF route[r].driver = None THEN FreeDrivers(UsedBeside(r)) \ {None} ELSE {None} :
       Arrives(q, "lockSave", [Blank EXCEPT !.plan = route[r].plan, !.id = r, !.driver = d,
                                            !.hand = route[r].load])
  /\ Watch
  /\ UNCHANGED <<documents, byHand, recounted>>

LockSaves(q) ==
  LET r == local[q].id  d == local[q].driver IN
  /\ Goes(q, "lockSave", "lockOrders", local[q])
  /\ Stored(r)
  /\ route' = [route EXCEPT ![r].status = "LOCKED",
                            ![r].driver = IF d = None THEN @ ELSE d]
  /\ Watch
  /\ UNCHANGED <<code, planning, byHand, recounted>>

\* bulkUpdateOrderPlanningStatus(PLANNED, LOCKED).
LockMarks(q) ==
  /\ planning' = [o \in Orders |-> IF o \in local[q].hand /\ planning[o] = "PLANNED"
                                     THEN "LOCKED" ELSE planning[o]]
  /\ Answers(q, "lockOrders")
  /\ Watch
  /\ UNCHANGED <<code, route, byHand, recounted>>

-----------------------------------------------------------------------------
(* assignRoute and autoDispatchPlan.                                       *)

\* vehicle = None: the request changes the driver only.
AssignReads(q, r, d, v) ==
  /\ Stored(r)
  /\ code[route[r].plan] # 0
  /\ v # None => route[r].status # "LOCKED" /\ ~Taken(route[r].plan, v)
  /\ Arrives(q, "assign", [Blank EXCEPT !.plan = route[r].plan, !.id = r,
                                        !.driver = d, !.vehicle = v])
  /\ Watch
  /\ UNCHANGED <<documents, byHand, recounted>>

AssignSaves(q) ==
  LET r == local[q].id  v == local[q].vehicle IN
  /\ Answers(q, "assign")
  /\ Stored(r)
  /\ v # None => ~Taken(route[r].plan, v)
  /\ route' = [route EXCEPT ![r].driver = local[q].driver,
                            ![r].vehicle = IF v = None THEN @ ELSE v]
  /\ byHand' = byHand \cup {r}
  /\ Watch
  /\ UNCHANGED <<code, planning, recounted>>

\* reassignAll: the PLANNED routes are cleared of their drivers first.
DispatchReads(q, p, reassignAll) ==
  LET clear == {r \in RoutesOf(p) : /\ reassignAll /\ route[r].status = "PLANNED"
                                    /\ route[r].driver # None}
      open == clear \cup {r \in RoutesOf(p) : route[r].driver = None}
  IN
  /\ code[p] # 0
  /\ open # {}
  /\ Arrives(q, IF clear = {} THEN "dispatch" ELSE "clear",
             [Blank EXCEPT !.plan = p, !.reset = clear, !.open = open,
                           !.used = DriversOf(RoutesOf(p) \ open)])
  /\ Watch
  /\ UNCHANGED <<documents, byHand, recounted>>

\* One save of the clearing loop.
DispatchClears(q) ==
  \E r \in local[q].reset :
    /\ Stored(r)
    /\ Goes(q, "clear", IF local[q].reset = {r} THEN "dispatch" ELSE "clear",
            [local[q] EXCEPT !.reset = @ \ {r}])
    /\ route' = [route EXCEPT ![r].driver = None]
    /\ Watch
    /\ UNCHANGED <<code, planning, byHand, recounted>>

\* One turn of the loop: the best driver not used yet is saved, or the route is skipped.
Dispatches(q) ==
  \E r \in local[q].open, d \in FreeDrivers(local[q].used) :
    /\ d # None => Stored(r)
    /\ route' = IF d = None THEN route ELSE [route EXCEPT ![r].driver = d]
    /\ Goes(q, "dispatch", "dispatch",
            [local[q] EXCEPT !.open = @ \ {r}, !.used = (@ \cup {d}) \ {None}])
    /\ Watch
    /\ UNCHANGED <<code, planning, byHand, recounted>>

DispatchAnswers(q) ==
  /\ local[q].open = {}
  /\ Answers(q, "dispatch")
  /\ Watch
  /\ UNCHANGED <<documents, byHand, recounted>>

-----------------------------------------------------------------------------
Step(q) ==
  \/ CreatePlanCounts(q)
  \/ \E p \in Plans : CreatePlan(q, p)
  \/ \E p \in Plans : OptimizeReads(q, p)
  \/ OptimizeReleases(q)
  \/ OptimizeDrops(q)
  \/ OptimizeReadsPool(q)
  \/ OptimizeCreates(q)
  \/ OptimizeSaves(q)
  \/ OptimizeMarks(q)
  \/ \E r \in Routes : LockReads(q, r)
  \/ LockSaves(q)
  \/ LockMarks(q)
  \/ \E r \in Routes, d \in Drivers \cup {None}, v \in Vehicles \cup {None} : AssignReads(q, r, d, v)
  \/ AssignSaves(q)
  \/ \E p \in Plans, all \in BOOLEAN : DispatchReads(q, p, all)
  \/ DispatchClears(q)
  \/ Dispatches(q)
  \/ DispatchAnswers(q)
  \/ Fails(q)

Next == (\E q \in Requests : Step(q)) \/ (\E p \in Plans : DeletePlan(p))

Spec == Init /\ [][Next]_vars

-----------------------------------------------------------------------------
(* Properties.                                                             *)

Carrying(o) == {r \in Routes : Stored(r) /\ o \in route[r].load}
InHand(o) == \E q \in Requests : o \in local[q].hand

\* An order that was never in the hands of two requests at once, nor of one
\* that failed, is PENDING on no route or on exactly one route with that
\* route's status, however optimisations, locks and deletions of different
\* plans interleave (routePlanController.js:1328-1651, 862-899).
UncontestedOrdersAgree ==
  \A o \in Orders \ contested : ~InHand(o) =>
    /\ \A r, s \in Carrying(o) : r = s
    /\ planning[o] = IF Carrying(o) = {} THEN "PENDING"
                     ELSE route[CHOOSE r \in Carrying(o) : TRUE].status

\* Two routes of one plan have the same driver only if somebody picked one of
\* them by hand or two requests worked on the plan at once: the optimiser, the
\* lock and auto-dispatch each look for drivers the plan does not use
\* (routePlanController.js:1571, 877-882; autoDispatchService.js:147).
OneRoutePerDriver ==
  \A r, s \in Routes :
    (r # s /\ Stored(r) /\ Stored(s) /\ route[r].plan = route[s].plan
       /\ route[r].driver = route[s].driver /\ route[r].driver # None)
      => route[r].plan \in crowded \/ r \in byHand \/ s \in byHand

\* Plans of a day have different codes unless one was deleted before or two
\* were numbered at the same time: the number is a count read before the
\* create, and no index guards it (routePlanController.js:606-620).
PlanCodesDiffer ==
  \A p, q \in Plans : (p # q /\ code[p] # 0 /\ code[p] = code[q]) => recounted

\* What a handler looks up as free and takes later, a driver or a plan's number, nobody
\* else takes in between (routePlanController.js:606-620, 871-882).
TakenOnce == OneRoutePerDriver /\ PlanCodesDiffer
=============================================================================
