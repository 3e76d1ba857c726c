---------------------------- MODULE PlanningScreen ----------------------------
(***************************************************************************)
(* PlanningPage.jsx: one planner, the react-query caches the page reads    *)
(* and the requests it makes.  A route is its status, its crew (vehicle,   *)
(* driver, shift, contract) and its stops; crews and stops are versions.   *)
(* Nobody else edits these plans, and a GET is answered.  What requests of *)
(* several planners do to one another is in RouteEdits and RouteCommits,   *)
(* and the server's rules are those of RoutePlanning.                      *)
(*                                                                         *)
(* External: react-query 5.  A key that is looked at is fetched when it    *)
(* has no data or stale data; invalidating marks keys stale and fetches    *)
(* those looked at anew, dropping a fetch in flight; setQueryData neither  *)
(* drops nor stops one.  A mutation's onSuccess is the one of the latest   *)
(* render, until its hook is used again.                                   *)
(***************************************************************************)
EXTENDS Integers, Sequences, FiniteSets, SequencesExt

CONSTANTS Plans, Routes, Calls, None,
          MaxClicks  \* bound: requests made
RouteRecords == [status : {"absent", "PLANNED", "LOCKED", "FINALIZED"}, crew : Nat, stops : Nat]
ASSUME ScreenAssumption ==
    IsFiniteSet(Plans) /\ None \notin Plans /\ None \notin RouteRecords /\ MaxClicks \in Nat

Absent == [status |-> "absent", crew |-> 0, stops |-> 0]
PlannedRoute(n) == [status |-> "PLANNED", crew |-> n, stops |-> n]
NoRoutes == [r \in Routes |-> Absent]
NoData == [r \in Routes |-> None]
NoFetch == [at |-> "none", data |-> NoData, clean |-> TRUE]
Asked == [NoFetch EXCEPT !.at = "asked"]
NoCall == [at |-> "idle", kind |-> None, plan |-> None, route |-> None, view |-> None,
           result |-> None, answer |-> Absent]

VARIABLES plans,       \* server: the day's plans, in the order they were made
          routes,      \* server: of each plan
          list,        \* cache: ["route-plans"]
          listFetch,
          detail,      \* cache: ["route-plan-detail", id]
          stale,       \* the plans whose detail is stale
          detailFetch,
          activeId,    \* activePlanId
          calls,       \* of the mutations
          clicks,
          missed       \* history: plans of which a change may not be on the screen

screen == <<plans, routes, list, listFetch, detail, stale, detailFetch, activeId, calls, clicks, missed>>
server == <<plans, routes>>

InList(p, l) == \E i \in DOMAIN l : l[i] = p
\* plans.find(id) ?? plans[0] ?? null
Active(l, id) == IF InList(id, l) THEN id ELSE IF l = <<>> THEN None ELSE Head(l)
ActivePlan == Active(list, activeId)

\* The detail's key follows the plan shown: one it has no fresh data of is fetched.
Looking(p, data, old, fetches) ==
    IF p # None /\ fetches[p] = NoFetch /\ (data[p] = NoData \/ p \in old)
    THEN [fetches EXCEPT ![p] = Asked] ELSE fetches

ScreenInit ==
    /\ plans \in SetToAllKPermutations(Plans)
    /\ routes = [p \in Plans |-> IF InList(p, plans) THEN [r \in Routes |-> PlannedRoute(1)] ELSE NoRoutes]
    /\ list = <<>> /\ listFetch = "asked"
    /\ detail = [p \in Plans |-> NoData] /\ stale = {}
    /\ detailFetch = [p \in Plans |-> NoFetch]
    /\ activeId = None
    /\ calls = [c \in Calls |-> NoCall]
    /\ clicks = 0 /\ missed = {}

-----------------------------------------------------------------------------
(* What the page offers for the data it shows.                             *)

\* A row of the timeline: orders are dropped on it, its own are dragged and taken off, and
\* its buttons.
RowTakes(route) == route.status \notin {"LOCKED", "FINALIZED", "absent"}
OrdersMove(route) == route.status = "PLANNED"
RowOffers(route) ==
    CASE route.status = "PLANNED" -> {"swap", "assign", "lock", "removeRoute"}
      [] route.status = "LOCKED" -> {"unlock", "finalize", "removeRoute"}
      [] OTHER -> {}

\* The header of the plan; a plan's status is that of its routes.
Finished(shown) == shown # NoRoutes /\ \A r \in Routes : shown[r].status \in {"FINALIZED", "absent"}
PlanOffers(shown) == IF Finished(shown) THEN {} ELSE {"removePlan", "optimise", "addRoute"}

Send(c, kind, r) ==
    /\ calls[c] = NoCall /\ clicks < MaxClicks
    /\ clicks' = clicks + 1
    /\ calls' = [d \in Calls |->
          IF d = c THEN [NoCall EXCEPT !.at = "sent", !.kind = kind, !.plan = ActivePlan, !.route = r]
          \* The hook's former mutation keeps the callbacks of this render.
          ELSE IF calls[d].kind = kind /\ calls[d].view = None THEN [calls[d] EXCEPT !.view = ActivePlan]
          ELSE calls[d]]
    /\ UNCHANGED <<server, list, listFetch, detail, stale, detailFetch, activeId, missed>>

PlanShown == ActivePlan # None /\ detail[ActivePlan] # NoData

\* The rows under the full-screen map offer what those of the page do.
Click(c, r, kind) ==
    /\ PlanShown /\ kind \in RowOffers(detail[ActivePlan][r])
    /\ Send(c, kind, r)
\* An order is dropped on a row, given to it or taken off.
EditOrders(c, r) ==
    /\ PlanShown
    /\ RowTakes(detail[ActivePlan][r]) \/ OrdersMove(detail[ActivePlan][r])
    /\ Send(c, "edit", r)
ClickPlan(c, kind) ==
    /\ PlanShown /\ kind \in PlanOffers(detail[ActivePlan]) \ {"addRoute"}
    /\ Send(c, kind, None)
\* Of a vehicle the plan does not use.
AddVehicle(c) ==
    /\ PlanShown /\ "addRoute" \in PlanOffers(detail[ActivePlan])
    /\ Send(c, "addRoute", None)
ClickCreate(c) == Send(c, "create", None)

SelectPlan(p) ==
    /\ InList(p, list) /\ p # activeId
    /\ activeId' = p
    /\ detailFetch' = Looking(p, detail, stale, detailFetch)
    /\ UNCHANGED <<server, list, listFetch, detail, stale, calls, clicks, missed>>

\* The 30 s of staleTime are over.
GrowOld(p) ==
    /\ detail[p] # NoData /\ p \notin stale
    /\ stale' = stale \cup {p}
    /\ UNCHANGED <<server, list, listFetch, detail, detailFetch, activeId, calls, clicks, missed>>

-----------------------------------------------------------------------------
(* The server.                                                             *)

Needs == [lock |-> {"PLANNED"}, unlock |-> {"LOCKED"}, finalize |-> {"LOCKED"},
          assign |-> {"PLANNED", "LOCKED"}, swap |-> {"PLANNED"}, edit |-> {"PLANNED"},
          removeRoute |-> {"PLANNED", "LOCKED"}]
After(kind, route) ==
    CASE kind = "lock" -> [route EXCEPT !.status = "LOCKED"]
      [] kind = "unlock" -> [route EXCEPT !.status = "PLANNED"]
      [] kind = "finalize" -> [route EXCEPT !.status = "FINALIZED"]
      [] kind = "assign" -> [route EXCEPT !.crew = @ + 1]
      [] kind = "swap" -> [route EXCEPT !.crew = @ + 1, !.stops = @ + 1]
      [] kind = "edit" -> [route EXCEPT !.stops = @ + 1]
      [] kind = "removeRoute" -> Absent

Reply(c, result, answer) ==
    /\ calls' = [calls EXCEPT ![c].at = "answered", ![c].result = result, ![c].answer = answer]
    /\ UNCHANGED <<list, listFetch, detail, stale, detailFetch, activeId, clicks, missed>>

OnRoute(c) == calls[c].kind \in DOMAIN Needs
\* The answer may be lost on its way.
ServeRoute(c) ==
    /\ calls[c].at = "sent" /\ OnRoute(c)
    /\ LET p == calls[c].plan
           r == calls[c].route
       IN IF InList(p, plans) /\ routes[p][r].status \in Needs[calls[c].kind]
          THEN /\ routes' = [routes EXCEPT ![p][r] = After(calls[c].kind, @)]
               /\ \E result \in {"ok", "broken"} : Reply(c, result, routes'[p][r])
          ELSE routes' = routes /\ Reply(c, "refused", Absent)
    /\ UNCHANGED plans

ServeAddRoute(c) ==
    /\ calls[c].at = "sent" /\ calls[c].kind = "addRoute"
    /\ LET free == {r \in Routes : routes[calls[c].plan][r] = Absent}
       IN IF InList(calls[c].plan, plans) /\ free # {}
          THEN \E r \in free : routes' = [routes EXCEPT ![calls[c].plan][r] = PlannedRoute(1)] /\ Reply(c, "ok", Absent)
          ELSE routes' = routes /\ Reply(c, "refused", Absent)
    /\ UNCHANGED plans

\* The planned routes are deleted before it is known that new ones can be built.
Repacked(before, full) ==
    [r \in Routes |-> IF before[r].status # "PLANNED" THEN before[r]
                      ELSE IF full THEN PlannedRoute(before[r].stops + 1) ELSE Absent]
ServeOptimise(c) ==
    /\ calls[c].at = "sent" /\ calls[c].kind = "optimise"
    /\ IF InList(calls[c].plan, plans)
       THEN \E full \in BOOLEAN : /\ routes' = [routes EXCEPT ![calls[c].plan] = Repacked(@, full)]
                                  /\ Reply(c, IF full THEN "ok" ELSE "broken", Absent)
       ELSE routes' = routes /\ Reply(c, "refused", Absent)
    /\ UNCHANGED plans

ServeCreate(c) ==
    /\ calls[c].at = "sent" /\ calls[c].kind = "create"
    /\ LET free == {p \in Plans : ~InList(p, plans) /\ routes[p] = NoRoutes /\ detail[p] = NoData}
       IN IF free # {}
          THEN \E p \in free : /\ plans' = Append(plans, p)
                               /\ calls' = [calls EXCEPT ![c].at = "answered", ![c].result = "ok", ![c].plan = p]
          ELSE /\ calls' = [calls EXCEPT ![c].at = "answered", ![c].result = "refused"]
               /\ UNCHANGED plans
    /\ UNCHANGED <<routes, list, listFetch, detail, stale, detailFetch, activeId, clicks, missed>>

ServeRemovePlan(c) ==
    /\ calls[c].at = "sent" /\ calls[c].kind = "removePlan"
    /\ LET p == calls[c].plan
       IN IF InList(p, plans) /\ \A r \in Routes : routes[p][r].status # "FINALIZED"
          THEN /\ plans' = RemoveAt(plans, CHOOSE i \in DOMAIN plans : plans[i] = p)
               /\ routes' = [routes EXCEPT ![p] = NoRoutes]
               /\ Reply(c, "ok", Absent)
          ELSE UNCHANGED server /\ Reply(c, "refused", Absent)

-----------------------------------------------------------------------------
(* Answers to the mutations.                                               *)

\* A fetch that was read before an answer and goes on shows what was before it.
Spoilt(fetch) == [fetch EXCEPT !.clean = @ /\ fetch.at # "read"]

\* Mutant: the details of the plans are left out of invalidate.
InvalidateLists(id) == listFetch' = "asked" /\ UNCHANGED <<list, detail, stale, detailFetch>>

\* invalidate(): every key is stale and those looked at are fetched anew.
Invalidate(id) ==
    LET old == {p \in Plans : detail[p] # NoData}
        shown == {ActivePlan, Active(list, id)}
    IN /\ stale' = old
       /\ listFetch' = "asked"
       /\ detailFetch' = [p \in Plans |-> IF p \in shown THEN Asked ELSE Spoilt(detailFetch[p])]
       /\ UNCHANGED <<list, detail>>

\* A later request on this route was served before this answer came.
Overtaken(c) ==
    LET p == calls[c].plan
        r == calls[c].route
    IN calls[c].answer.status # routes[p][r].status \/ calls[c].answer.crew # routes[p][r].crew

\* updateRouteCache: the answer without its stops into the plan shown.
View(c) == IF calls[c].view = None THEN ActivePlan ELSE calls[c].view
Patched(c) ==
    LET p == View(c)
        r == calls[c].route
    IN IF p = calls[c].plan /\ detail[p] # NoData /\ detail[p][r] # Absent
       THEN [detail EXCEPT ![p][r] = [calls[c].answer EXCEPT !.stops = detail[p][r].stops]]
       ELSE detail
PatchRoute(c) ==
    LET p == calls[c].plan
        q == View(c)
    IN /\ detail' = Patched(c)
       /\ stale' = IF q # None /\ detail[q] # NoData THEN stale \ {q} ELSE stale
       /\ listFetch' = "asked"
       /\ detailFetch' = [detailFetch EXCEPT ![p] = Spoilt(@)]
       /\ missed' = missed \cup (IF q # p \/ ActivePlan # p \/ Overtaken(c) THEN {p} ELSE {})
                            \cup (IF q # ActivePlan /\ q \in stale THEN {q} ELSE {})
       /\ UNCHANGED <<list, activeId>>

Patching == {"lock", "unlock", "finalize", "assign"}
Done(c) == calls' = [calls EXCEPT ![c] = NoCall] /\ UNCHANGED <<server, clicks>>

Succeed(c) ==
    /\ calls[c].at = "answered" /\ calls[c].result = "ok"
    /\ CASE calls[c].kind \in Patching -> PatchRoute(c) /\ Done(c)
         [] calls[c].kind = "create" ->
              \* The new plan is chosen and optimised without being asked again.
              /\ activeId' = calls[c].plan /\ Invalidate(calls[c].plan)
              /\ calls' = [calls EXCEPT ![c] = [NoCall EXCEPT !.at = "sent", !.kind = "optimise", !.plan = calls[c].plan]]
              /\ UNCHANGED <<server, clicks, missed>>
         [] calls[c].kind = "removePlan" ->
              activeId' = None /\ Invalidate(None) /\ Done(c) /\ UNCHANGED missed
         [] OTHER -> Invalidate(activeId) /\ Done(c) /\ UNCHANGED <<activeId, missed>>

\* onError only tells: what the server did before it failed is not on the screen.
Fail(c) ==
    /\ calls[c].at = "answered" /\ calls[c].result # "ok"
    /\ missed' = IF calls[c].result = "broken" THEN missed \cup {calls[c].plan} ELSE missed
    /\ detailFetch' = IF calls[c].result = "broken"
                      THEN [detailFetch EXCEPT ![calls[c].plan] = Spoilt(@)] ELSE detailFetch
    /\ Done(c)
    /\ UNCHANGED <<list, listFetch, detail, stale, activeId>>

-----------------------------------------------------------------------------
(* Fetches.                                                                *)

\* All of one day and one office; the server sorts them by the day only.
ListRoutePlans == plans

ListArrives ==
    /\ listFetch = "asked" /\ listFetch' = "none"
    /\ list' = ListRoutePlans
    /\ detailFetch' = Looking(Active(ListRoutePlans, activeId), detail, stale, detailFetch)
    /\ UNCHANGED <<server, detail, stale, activeId, calls, clicks, missed>>

\* The routes are read at once; the names of customers and goods that are added to their
\* stops are read after them.
EnrichedRoutes(p) == routes[p]

DetailRead(p) ==
    /\ detailFetch[p].at = "asked"
    /\ detailFetch' = [detailFetch EXCEPT ![p] = [@ EXCEPT !.at = "read", !.data = EnrichedRoutes(p)]]
    /\ UNCHANGED <<server, list, listFetch, detail, stale, activeId, calls, clicks, missed>>

DetailArrives(p) ==
    /\ detailFetch[p].at = "read"
    /\ detail' = [detail EXCEPT ![p] = detailFetch[p].data]
    /\ stale' = stale \ {p}
    /\ missed' = IF detailFetch[p].clean THEN missed \ {p} ELSE missed \cup {p}
    /\ detailFetch' = [detailFetch EXCEPT ![p] = NoFetch]
    /\ UNCHANGED <<server, list, listFetch, activeId, calls, clicks>>

ScreenNext ==
    \/ \E c \in Calls :
          \/ ClickCreate(c) \/ AddVehicle(c) \/ \E k \in {"removePlan", "optimise"} : ClickPlan(c, k)
          \/ \E r \in Routes : EditOrders(c, r) \/ \E k \in DOMAIN Needs : Click(c, r, k)
          \/ ServeRoute(c) \/ ServeAddRoute(c) \/ ServeOptimise(c) \/ ServeCreate(c) \/ ServeRemovePlan(c)
          \/ Succeed(c) \/ Fail(c)
    \/ \E p \in Plans : SelectPlan(p) \/ GrowOld(p) \/ DetailRead(p) \/ DetailArrives(p)
    \/ ListArrives

ScreenSpec == ScreenInit /\ [][ScreenNext]_screen

-----------------------------------------------------------------------------
\* When nothing is under way, the plan PlanningPage.jsx shows has the routes it has on the
\* server, although lock, unlock, finalize and assignments only patch the cached plan
\* (PlanningPage.jsx:285): unless such an answer met another plan on the screen, a fetch
\* that was read before it, or a request served after it, or unless a request failed after
\* it had changed something.
RestingScreenIsTrue ==
    LET p == ActivePlan
    IN (/\ listFetch = "none" /\ \A c \in Calls : calls[c] = NoCall
        /\ p # None /\ detailFetch[p] = NoFetch /\ p \notin missed) => detail[p] = routes[p]
=============================================================================
