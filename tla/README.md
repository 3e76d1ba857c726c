# TLA+ models of the road freight TMS

Specifications, TLC runs and TLAPS proofs for the transport management system in `src/`:
dispatchers plan sales orders onto vehicle routes, lock and finalize the routes, drivers run
the resulting trips from a phone, and a monitoring page follows them. All business state is in
MongoDB, reached through Mongoose from an Express server; **there are no transactions**
(`authController.js:104` says so of the standalone database), so every handler is a sequence of
reads and single-document saves separated by awaits.

Paths below are relative to `src/backend/src/` unless they start with `src/`; `PlanningPage.jsx` and
the other pages are in `src/frontend-web/src/features/`, the driver's screens in
`src/frontend-app/src/screens/`.

- [1. The system](#1-the-system)
- [2. The modules](#2-the-modules)
- [3. The runs](#3-the-runs)
- [4. The proofs](#4-the-proofs)
- [5. Where code and documents disagree](#5-where-code-and-documents-disagree)
- [6. What is not modelled, and the plan](#6-what-is-not-modelled-and-the-plan)

## 1. The system

### 1.1 Components

| Component | State | Operations | Correct when |
|---|---|---|---|
| Order lifecycle (`controllers/orderController.js`) | `SalesOrder`: OrderStatus, ApprovalStatus, PlanningStatus, Items, TotalPrice | create, upload, update, delete, change status, change planning status by hand, allocate, approve, reject | an order's planning status names the one route that carries it; its total is that of its items |
| Route planning (`controllers/routePlanController.js`) | `RoutePlan.Status`; `DeliveryRoute`: plan, Status, Stops, vehicle, driver, times and totals | create/delete plan, add/remove route, add/remove/move/reorder order, lock, unlock, finalize, assign, optimise, benchmark, auto-dispatch | plan status, route statuses, order statuses and trips agree; an order is on one truck; FINALIZED is final; overlapping edits lose nothing; figures follow from the stops |
| Trip synchronisation (`services/tripService.js`) | `Trip`, one per route (unique index) | `ensureTripForRouteId`, `ensureTripsForPlanId`, `cancelTripForRouteId` | a committed route has a live trip with its orders; a started trip is never reset or cancelled |
| Driver trip handlers (`controllers/tripController.js`) | `Trip.Status`, `Tasks[]`, `CurrentTaskIndex` | confirm, start loading, start, task updates, return, finish; lists that synchronise first | status tells the truth about the tasks; reports are kept; started trips can always be finished |
| Driver assignment (`assignRoute`, `services/autoDispatchService.js`) | `DeliveryRoute.DriverID`, `VehicleID` | assign, auto-dispatch, automatic driver on lock | a driver has one route of a plan |
| ETA cascade (`services/etaService.js`) | planned times of the open tasks, `EtaHistory` | shift after a completed stop; explain a large deviation; report a delay | the times are the plan's moved by what the history records |
| GPS tracking (`src/frontend-app/src/services/gpsTracker.js`, `postGps`) | a persistent queue on the phone; `GpsLog`, `Trip.Last…` | tick, enqueue, flush, start, stop, resume; `postGps` | no point is lost short of the queue's limit, nor logged twice without cause; the position does not go back in time |
| Live deviation (`socket.js`) | counters per trip in memory | `checkDeviation` | an incident rests on enough far positions, and one comes per cool-down |
| Session tokens (`controllers/authController.js`, `src/frontend-web/src/api/client.js`) | access and refresh tokens, blacklist, the client's queue of waiting requests | login, refresh with rotation, logout; single-flight refresh | every waiting request is retried or rejected; nobody is thrown out by a rotation he asked for |
| Response cache (`utils/cache.js`) | key to response with a TTL | fill on a miss, invalidate on a write | stale entries have a known cause |
| Maintenance (`maintenanceController`, `driverMaintenanceController`, two screens) | `VehicleMaintenance` | office form, review, driver's report | a closed record is not reopened by who could know |
| Trip incidents | `TripIncident.Status` | report, acknowledge, resolve, dismiss | a closed incident is not reopened by who could know |
| Traffic factors (`services/trafficFactorService.js`) | `TrafficFactor` records, the table of a plan | learn, report a jam, expire, look up | a jam counts for its time and no longer |
| Packing (`utils/routeOptimizer.js`), optimiser service (`src/optimizer-service`) | solutions under search | packers, 2-opt, large-neighbourhood search, genetic search | every order once, vehicles carry what they may, moves pay |
| Users, organisations | `User`, `Organization`, role groups | register, invite, verify, reset; create, import, retype, delete | links are spent once; the tree keeps its types and paths |
| Master data | customers, products, vehicles, drivers, services | CRUD and import | a carrier exactly for what is outsourced |
| Messages, notifications | `DriverMessage`, `Notification` | send, list, mark | counts hide nothing |
| Screens (web and app) | query caches, forms, the tracker | see section 2.9 | at rest, a screen shows what the server has |
| Payroll, reports, AI and support, e-mail, audit, demo, public tracking | | | not modelled, section 6 |

### 1.2 How they interact

- Lock and finalize write the route, then its orders one by one (`bulkUpdateOrderPlanningStatus`),
  then call `ensureTripForRouteId`, then recompute the plan's status. Unlock and remove cancel the
  trip through `cancelTripForRouteId`. None of this is one transaction.
- Every trip list (`listTrips`, polled every 5 s by the monitoring page; `getMyTrips`, polled by
  the driver's app; `syncPlanTrips`) first calls `ensureTripForRouteId` for every committed route.
  Reading therefore writes: it repairs what a dead lock left out, and it resets trips that were
  confirmed but not started.
- A trip is a copy of its route (driver, orders, times). Planning does not look at the trip before
  it unlocks, edits or deletes the route.
- The driver's reports write `SalesOrder.OrderStatus` before they save the trip.
- A completed stop, an explanation and an incident each shift the planned times of the trip's
  remaining stops; the next list of a trip that has not started copies the route's times over them.
- Dispatchers, the driver and the polls share the documents and nothing else. Mongoose
  checks a document's version only when an array is rewritten (`Stops`, `Tasks`); a save of
  `Status` alone overwrites whatever is there. A save sends only the fields that differ
  from what was loaded.
- Jam reports come in as incidents and change the table the next plan is timed with.
- The web pages keep what they read in react-query caches. Some mutations refetch, some patch the
  cache, some do neither; answers arrive in any order. The app's screens hold a copy each.
- All API calls of the web client go through one interceptor that renews the session on a 401.

### 1.3 What is hard

`PROJECT.json` lists each hazard with its line. The ones that shaped the models:

1. Long sequences of legal calls (lock, run, unlock, re-plan, optimise) over four collections,
   each handler recomputing a different part of the redundant state.
2. Two requests interleaved at their awaits: the same order dragged twice, a route locked while it
   is edited, two plans optimised over one pool of orders, two updates of one record, a child
   created under an organisation that is being deleted.
3. One save of several failing, or the process dying between two of them.
4. A trip list racing the driver, and having to repair what 2 and 3 left.
5. Planners acting on a route whose trip is on the road.
6. Answers that come late, out of order or not at all, at screens that have moved on: another plan,
   another chat, another filter, another stop.
7. A refresh of the session seen by several waiting calls and several tabs.
8. Clocks: times of day that wrap at midnight, jams that end, cool-downs, links that lapse.

## 2. The modules

| Module | Models | Grain |
|---|---|---|
| `RoutePlanning` | orders, plans, routes, stops, and each route's trip as a class of statuses | one action per handler, atomic |
| `TripExecution` | one plan's trips: the seven statuses, tasks, current stop, driver copy; the planner handlers that touch a trip | one action per handler, atomic |
| `TripLifecycle` | abstract: what planning and driving promise each other about a trip | |
| `RouteEdits` | the handlers that change stops, route statuses and order statuses, overlapping | one action per await |
| `RouteCommits` | lock, unlock, finalize, remove, add, trip lists and the driver, overlapping and failing | one action per await |
| `OptimizeRace` | optimise, auto-dispatch, assign, lock, create and delete plans, overlapping and failing | one action per await |
| `EtaCascade` | the times of a trip on the road and `EtaHistory` | one action per await |
| `GpsTracker` | the phone's queue of position points and `postGps` | one action per await |
| `SessionTokens` | the web client's interceptor, its store in several tabs, the server's token handlers | one action per await |
| `LiveDeviation`, `ResponseCache`, `VehicleMaintenance`, `Organizations`, `Accounts`, `TrafficFactors` | one server component each, requests overlapping | one action per await |
| `RouteTimetable`, `TrafficTable` | times, distance, load and cost of a route; the traffic table and its look-ups | one action per handler |
| `RouteMoves`, `RouteSearch`, `OptimizerService` | the packers and heuristics of the backend and of the optimiser service | one action per insertion or move |
| `OrderEntry`, `MasterData` | contents of orders; the other records with their screen | one action per await |
| `PlanningScreen`, `RouteMap`, `IncidentDesk`, `TripChat`, `NoticeList`, `OrdersScreen`, `MaintenanceDesk`, `DriverScreens` | the screens, each with its server | one action per click, request, answer |
| `Documents` | what requests that read, change and save a document have in common | |
| `MC…` | values, symmetry, bounds, and statements of the documents that the code does not keep | |
| `…_proofs` | theorems | |

`RoutePlanning` and `TripExecution` overlap on purpose in the trip. `RoutePlanning` has every
planning operation and a driver who only starts, delivers and ends; `TripExecution` has every driver
handler and the planning operations reduced to what they do to a trip. Both implement
`TripLifecycle` under their own refinement mapping (`trip` is a class of `Trip.Status`, `load` the
orders carried), so each may rely on the other behaving as `TripLifecycle` says. `RouteEdits`,
`RouteCommits` and `OptimizeRace` give up the assumption that a handler is atomic; their
properties say that, as long as requests do not overlap (or do not touch the same order), the steps
leave what the atomic handlers of `RoutePlanning` leave.

In every module a **history variable** records the one thing that excuses a disagreement: an
overlap, a lost answer, a manual override. The properties then say that there is no other cause. The
comment on each property names the exemption.

### 2.1 RoutePlanning

| Variable | In the code |
|---|---|
| `orderStatus`, `approved`, `planning` | `SalesOrder.OrderStatus`, `ApprovalStatus`, `PlanningStatus` |
| `planStatus` | `RoutePlan.Status` |
| `routePlan`, `routeStatus`, `stops` | `DeliveryRoute.RoutePlanID`, `Status`, the orders in `Stops` |
| `trip`, `manifest` | class of `Trip.Status`, the orders in `Trip.Tasks` |
| `overridden`, `detached` | history: orders set by hand; routes unlocked or deleted under a started trip |

Actions carry the handlers' names. `changeOrderStatus` and `changePlanningStatus` go through a
list of orders and stop at the first illegal one; since they handle one order after the other and
nothing is undone, a list of orders is a sequence of single-order actions. `optimizeRoutePlan` is two
actions: it resets the plan's PLANNED routes, and then either fails (`OptimizeFails`) or spreads
*any* part of the eligible orders over *any* new routes (`OptimizeSucceeds`). The search itself is in
`RouteSearch` (2.6). Capacity, capability, handling-class and driver
guards only make a handler refuse.

The two history variables bound what is claimed: `changePlanningStatus` may set any status, and
unlocking a route does not look at its trip, so the agreement properties speak of orders never
set by hand and routes not pulled from under a started trip.

### 2.2 TripExecution

`status`, `task`, `current`, `tripDriver` are the fields of `Trip`; `route` and `driver` those of
`DeliveryRoute`. `EnsureTrip` has the code's two branches: a started trip takes over the driver only,
any other is assigned afresh with all tasks pending. The driver's handlers accept only the
trip's own driver and refuse a completed or cancelled trip (`loadDriverTrip`). `updateTask` accepts
any open task in any order, also before the trip was started; the model has that.

Fairness (`DiligentDriver`): whoever holds a started trip goes on closing its tasks and finishes it
when none is left. The app offers nothing else to do with such a trip. Nothing is assumed of
planners, who may hand the trip to and fro forever; only a trip that loses its driver for good is
exempt.

### 2.3 RouteEdits

A request is a slot in `Requests` with the await it is suspended at (`at`), what it has in memory
(`local`) and the set of routes whose stored `__v` is still the one it read (`fresh`). Saving a route's
`Stops` needs `r \in fresh[q]` and removes `r` from everyone's `fresh`: Mongoose rewrites
the array, sends the version it read in the filter and increments it. (Every handler that edits stops
assigns `route.Stops` in `refreshRouteMetrics`, so the array is always rewritten.) A
status save has no guard but existence. `RoutePlanning`'s atomic handlers are cut where the code
awaits a read or a write of these documents; awaits on products, vehicles or customers are not
visible to the other requests and are merged.

The initial states are plans as the optimiser leaves them. Approval, voiding, the plan's
status and trips are in the other modules. A handler here fails only by a version conflict or a
vanished document.

### 2.4 RouteCommits

The other half of the same handlers: plan status, route statuses and the trip of each route. The
plan is read before the route, the route before it is saved, the trip after that, and the plan's status is
saved last: each of the four is an action. `Fails` lets a request die at any await (process,
database or version conflict). `ensureTripForRouteId` is three awaits: route, trip, save. It writes
`Tasks`, an array, so a save that changes tasks conflicts with another one since its read
(`current`); it writes `Status` only if it differs from the status it read; and `Trip.create` fails on
the unique `DeliveryRouteID`. `Monitor` is the slot of the polled trip list.

Fairness (`Polling`): the monitoring page polls every 5 s (`refetchInterval: 5000`,
`MonitoringPage.jsx:398`) and Node serves each await of the poll in turn. A poll may fail on a
conflict. Nothing else is fair: other requests may stop anywhere and for ever.

### 2.5 GpsTracker

| Variable | In the code |
|---|---|
| `bound`, `flusher` | `this.tripId`, `this._flushing` |
| `tick`, `copy` | where the tick of a point is suspended, the array it has in memory |
| `queue` | the stored `gps_queue_<trip>` |
| `batch`, `post` | the bodies of the `postGps` requests and how far the server is with each |
| `logged`, `lastGps` | documents in `GpsLog` per point, `Trip.LastLatitude`, `LastLongitude`, `LastGpsAt` |

A tick reads the queue, stores it with its point, and flushes; each read, store and post is a step
of its own. A flush may fail (axios gives up after 15 s) while its post is still on its way: the
server serves it then, later or never. `Kill` forgets everything but `queue`. The history variables
name the reasons for which a point may be missing, doubled or late: `crowded` (two ticks between
read and store), `overtaken` (stored while an answered upload was under way), `dropped` (over the
limit, or in memory when the app died), `unsure` (posted without an answer), `restored`
(answered while a tick held an older queue). The properties say that there are no others.

### 2.6 OptimizeRace, RouteTimetable and the searches

`OptimizeRace` cuts the handlers that plan whole days at their awaits: `optimizeRoutePlan` (reads the
routes it resets, releases their orders with an `updateMany`, drops the routes, reads the pool, creates
a route per vehicle, saves its times, marks the orders), `lockRoute`, `assignRoute`,
`autoDispatchPlan`, `createRoutePlan`. A request's memory (`local`) has the orders in hand, the
vehicles and drivers it must not take, and what is left to do. `Fails` ends a request at any await.
The histories: `contested` (orders two requests had in hand, or one that failed), `crowded` (plans
two requests worked on), `byHand` (routes whose driver somebody picked), `recounted` (a plan was
deleted, or two were numbered at once).

`RouteTimetable` is the other half of the same handlers: what a route says of itself. Load, distance,
cost and times are computed from the stops, the vehicle, the traffic table, the shift and the
contract; which of them each handler recomputes differs, and `behind`, `overfilled` and `timedBy` say
where that leaves a route. Times are tenths of a minute, so that the rounding of the code is the
model's; `TrafficTable` has the precedence of hour, day and zone factors as `lookupTrafficFactor` has
it.

`RouteMoves` has length, insertion cost, 2-opt, or-opt, relocate and swap with the code's delta
formulas. `RouteSearch` runs the packers and the two heuristics of the backend over them,
`OptimizerService` the genetic search of `optimizer-service/hgs` with its two baselines. An insertion,
a removal or an improving move is a step; a random draw is any outcome; distances are those of small
maps. The time limit may end a phase anywhere.

### 2.7 EtaCascade

A time is a slot of the day and wraps at `DayLength` as `"HH:mm"` does. The actions are completing
and failing a stop, the driver's explanation of a large deviation, an incident with a delay, and the
synchronisation that copies the plan's times; each loads the trip, writes its other collection and saves
what it changed. `raced`, `wiped` and `broken` are the histories. `save()` in this module is the three
cases of Mongoose: fields of tasks in place, a push to `EtaHistory`, `Tasks` replaced.

### 2.8 Sessions and the services

`SessionTokens` numbers the pairs of tokens in the order they are signed. Each tab has its
zustand store; `persisted` is the copy in `localStorage`, which a reload reads back. A call is `sent`,
`denied` (401), `waiting` in the queue, or it is the one that refreshes (`refresh`, `renewable`,
`renewed`, `refused`). The server checks the blacklist in one step and rotates in another.
`stores` says whether the blacklist can store at all: section 5.

| Module | What is interleaved | History |
|---|---|---|
| `LiveDeviation` | the checks of successive positions, each awaiting the trip and then the incident it files | which incident was decided on before another was stored |
| `ResponseCache` | a fill and an invalidation after a write, for readers of several organisations; Redis may be away | `excused` of an entry |
| `VehicleMaintenance` | the office's and the driver's requests on one record; a save that replaces the photos checks the version, no other does | `overtaken` |
| `Organizations` | create, import, retype, delete and register, each looking at parent or children first | `excused` |
| `Accounts` | verify, reset, invite, resend and delete on one account | `spent`, with `late` |
| `TrafficFactors` | the nightly job, the table of a plan under construction, and jam reports | `disputed`, `promised` |

### 2.9 Orders, records and screens

`OrderEntry` has what an order carries and costs: create, update with or without items, approve,
import in groups, a price that changes meanwhile. `MasterData` has the records under the tabs of
`MasterDataPage.jsx` with two desks, a form each, and the import dialog: a form sends what it showed
when it was opened, and `save()` writes what differs from the document as loaded. The handlers of the seven
tabs (`ListCustomers`, `DeleteVehicle`, …) are one generic action each, applied to a tab. `Accounts` has the
import of users beside their invitation: who is imported is active at once and has no link.

The screens share one form: the server's documents, the page's copies (query caches, state of
components), the requests under way with what they were asked for, and a history that names the
disorder (`missed`, `crossed`, `muddled`, `late`, `overlap`, …).

| Module | Screen | Particular |
|---|---|---|
| `PlanningScreen` | `PlanningPage.jsx` | lock, unlock, finalize and assignment patch the cached plan, other changes refetch; the plan shown may change meanwhile; orders are dragged to a place between stops or dropped on a row |
| `RouteMap` | its map | geocoding and road look-ups that no effect cancels |
| `IncidentDesk` | `MonitoringPage.jsx` | open and acknowledged incidents polled by two requests |
| `TripChat` | its chat and `DriverMessagesScreen.jsx` | badges, polls on both sides, replies |
| `NoticeList` | `NotificationsScreen.jsx` | the count changes on its own when a mark is answered |
| `OrdersScreen` | `OrdersPage.jsx` | filter and page, lists kept per key, drawer, dialogs, upload |
| `MaintenanceDesk` | `MaintenanceTab.jsx`, `MaintenanceDetailScreen.jsx` | the office's list is not told what drivers do |
| `DriverScreens` | route list, route, map, stop and proof of delivery | a stack of screens, each with the trip as it last read it; GPS on or off |

## 3. The runs

Deadlock checking is off in every run. The models have finitely many documents or a bound on what is
asked for, and nobody is obliged to send requests, so they may really stop.

| Run | Properties | Instance |
|---|---|---|
| `planning` | `UntouchedOrdersAgree`, `PlanStatusAgrees`, `TripsAgree`, `ImplementsLifecycle` | 2 orders, 1 plan, 2 routes; `FewOverrides`, `FewDetached` |
| `trips` | `StatusTracksTasks`, `ReportsAreKept`, `ImplementsLifecycle`, `StartedTripsFinish` | 1 route with 3 stops, 2 drivers |
| `edits` | `OrdersAreKept`, `SerialRequestsAgree`, `EditsAreNotLost` | 2 orders, 2 routes, 2 requests; `FewAstray` |
| `commits` | `SerialRequestsAgree`, `ListingHeals` | 1 route, 2 requests and the poll |
| `gps` | `NothingElseIsLost`, `LoggedOnce`, `PositionAdvances` | 4 points, batches of 2, a queue of 3 |
| `dispatch` | `UncontestedOrdersAgree`, `TakenOnce` | 2 of everything; `FewDisturbed` |
| `sessions` | `ShowsTheTokensUser`, `SessionCanBeRenewed`, `WaitersSettle` | 2 tabs, 2 users, 2 calls, 3 pairs; `FewChanges` |
| `services` | one or two properties for each of eight modules | `MCServices`: eight parts |
| `screens` | `RestingScreenIsTrue`, `StopsAreDrawnInPlace`, `CountsAreHonest`, `UndoneUnaware` | `MCScreens`: six parts |
| `workday` | `CarrierIffOutsourced`, `TotalIsOfItsItems`, `EmptyPageHasShrunk`, `ScreensFollowTheTrip`, `RoutesAreSound`, `MovesPay` | `MCWorkday`: six parts |
| `auto_refresh`, `delay_wiped` | `RefreshGivesAPair`, `DelaysSurvive` | section 5; they must find a violation |

**Parts.** `MCServices`, `MCScreens` and `MCWorkday` each hold several components that do not interact.
The variable `part` picks one in the initial state and only that one moves, so the state space is the
sum of the parts' and not their product, and each property is checked on the whole of its part:

- `services`: `LiveDeviation`, `VehicleMaintenance`, `ResponseCache`, `Organizations`, `Accounts`,
  `TrafficFactors`, `RouteTimetable`, `EtaCascade`;
- `screens`: `PlanningScreen`, `RouteMap`, `IncidentDesk`, `TripChat`, `NoticeList`, `MaintenanceDesk`;
- `workday`: `MasterData`, `OrderEntry`, `OrdersScreen`, `RouteSearch`, `OptimizerService`, `DriverScreens`.

Bounds and why they are enough:

- Two routes and two orders are what a move, a conflict between routes and a plan with a
  finalized and an open route need; the properties relate at most two routes and one order.
- `FewOverrides` (one order ever set by hand) and `FewDetached` (one route ever pulled from under
  a started trip) bound histories that exempt what they contain from the properties: a second
  exemption only leaves less to violate. `FewAstray`, `FewDisturbed` and `FewChanges` do the same for
  orders taken off, lost or doubled, for contested orders and crowded plans, and for mishaps of a
  session. The theorems of section 4 have none of these bounds.
- Three stops distinguish the first, the current and a later one; two drivers are one handover.
- Four points and a queue of three reach the limit with a batch in flight; three ticks are what
  it takes to put answered points back out of order.
- Two overlapping requests: every conflict in the code is between one reader and one writer. The
  polled list is a third party in `commits`.
- Two tabs, two calls: a call that refreshes and one that waits in one tab, or one in each. Three pairs
  are two logins and a renewal, or a login and two renewals.
- `ShortHistories`, `FewEvents` (`services`): two warnings, two jams, one route whose shift, contract or
  times have changed; two incidents or shifts, and one mishap at most. A day of eight slots with the
  second stop late wraps at midnight.
- `FewMessages` (`screens`): the dispatcher opens one of the two trips; three messages reach the
  limit of two the driver's list has. `MaxClicks`, `MaxUpdates`, `MaxOrders` = 2 or 3: two
  requests cross, and a third meets what they leave.
- `ShortWalks` (`workday`): the driver's stack of screens is three deep. Five days of five stops and two
  vehicles were chosen so that every heuristic meets an order no vehicle takes, a full truck, an
  exchange and a reversal; the service plans three stops whose loads fit in one way only.
- Names that no action or property distinguishes are symmetric, in runs without liveness; in
  `sessions` the liveness property quantifies over all interchangeable calls alike.

What the deeper properties say:

- **OrdersAreKept / EditsAreNotLost**: two dispatchers who drag, add, remove, lock or
  delete at the same time never put an order on two routes and never overwrite each other's edit. The
  mutant that saves `Stops` without a version breaks both: the version check is all there is. An order
  that is on no route was taken off by someone, or belongs to a move that has answered with an error.
- **ListingHeals**: if the other requests come to rest, with any of them dead half-way or
  the slower of a lock and an unlock last, the polls give every committed route a live trip for good. It does
  not promise the reverse: a trip left open on a route that is unlocked is not cleaned up by a list.
- **NothingElseIsLost / LoggedOnce / PositionAdvances**: the queue survives lost answers and crashes
  without losing a point, and what it sends twice or late is what it cannot know was received.
- **StartedTripsFinish**: planners cannot strand a started trip, whatever they do to its route.
- **UncontestedOrdersAgree / TakenOnce**: optimisations of different plans over one pool agree on every
  order that only one of them had in hand; what is looked up as free stays free unless two requests
  work on one plan.
- **SessionCanBeRenewed / WaitersSettle**: rotation never costs a tab its session whose answers
  arrive and whose tokens no other tab holds, and no call waits for ever.
- **TimesAreAccounted**: whatever order stops are closed and delays reported in, an open stop stands
  at the plan's time moved by the recorded shifts before it, also across midnight.
- **RestingScreenIsTrue** and the other screens: at rest the page shows the server's state, but for
  disorders that are named.
- **RoutesAreSound / MovesPay**: over every random choice of every heuristic, stops are neither lost
  nor doubled and each accepted move shortens the whole solution by what its formula promises.

**Fairness.** `DiligentDriver` (`trips`): whoever holds a started trip goes on closing its tasks and
finishes it when none is left; the app offers nothing else to do with such a trip. `Polling`
(`commits`): the monitoring page polls every 5 s (`refetchInterval: 5000`, `MonitoringPage.jsx:398`) and
Node serves each await of the poll in turn; a poll may fail on a conflict. `SessionTokens`: the server
answers a refresh, and the tab's event loop takes the answer or the error axios makes of none. Nothing else
is fair: planners may hand a trip to and fro for ever, other requests may stop anywhere.

## 4. The proofs

`tlapm` checks every proof; the theorems hold for any sets of orders, plans, routes, drivers, users,
tabs, records and requests, any number of stops and any sizes of queues, batches and pages. They assume:
the null values are none of the documents (`NoPlanAssumption`, `NoDriverAssumption`, `NoneAssumption`,
`MonitorAssumption`, `RecordsAssumption`, `DriversAssumption`, `ScreenAssumption`); a trip has a stop (`NStopsAssumption`), a
batch and a queue hold a point (`SizesAssumption`), a page an order (`ListAssumption`); the plans are
finitely many (`PlansAssumption`, `ScreenAssumption`: their number is counted); a warning needs more than one far position, and
the cool-down is a number (`TriggerAssumption`: the code has 4, and 5 minutes); a vehicle's speed is positive and
its load limit a number (`TimetableAssumption`); a jam's life is a number, and jams are reported in the
zones the table knows (`TrafficAssumption`); vehicles are numbered from 1 and there is one
(`VehiclesAssumption`: with none both entry points answer at once); every day has a weight, a volume and
a place for each stop, natural numbers and coordinates (`DaysAssumption`); a shift ends after it starts
(`ShiftAssumption`). What the models fix stays fixed in the theorems: the three prices of
`OrderEntry`, the three zones of `TrafficTable`.

**RoutePlanning_proofs.** `TypeOK` is inductive by itself (`TypeCorrect`). The agreement
properties are not: `PlanStatusAgrees` needs to know that a route's plan exists, `TripsAgree`
that a route pulled from under its trip was pulled from under a *started* one (otherwise a cancelled trip
could be reopened with the old orders), and `UntouchedOrdersAgree` that an order id not yet
created is on no route. Hence

    IInv == TypeOK /\ FreshAndDetached /\ RoutesHavePlans
            /\ UntouchedOrdersAgree /\ PlanStatusAgrees /\ TripsAgree

with one lemma per handler (`LockRouteKeeps`, …), `InvStep` and `Invariance`. From it follow
`OrdersAgree`, `PlansAgree`, `RoutesAndTripsAgree`, and

- `NoDoubleLoading`: `OneTruckPerOrder`, since a live trip's orders are its route's stops and an
  order has one route;
- `FinalizedIsFinal`: the action property `FinalizedStaysFrozen`. It needs `PlanStatusAgrees`: a
  FINALIZED plan keeps its routes because all of them are FINALIZED;
- `PlanningImplementsLifecycle`: every handler's step is a step or a stutter of `TripLifecycle`.

The module goes on to the heuristics that fill the routes, for any number of vehicles and stops:
`StopsStayKept` and `VehiclesStayWithinLimits` for the backend's (`RouteSearch`), `RoutesStaySound` with the
service's as well (`OptimizerService`). What goes wrong in such code is a stop lost or doubled between the
several solutions it holds at once, so the invariant is about all of them:

    SearchInv  == the current, best and working solution each carry their stops once (IsSolution),
                  with loads that are the sums, within the limits (Permitted) unless a stop was forced
    ServiceInv == every individual of the population, the children, the best found and the one being
                  worked on carry each stop once (Carries)

and says which stops these are: all but those that are open or given up. `MaySwap` looks at weights kept
by adding and subtracting, so `Permitted` needs `Weighed`; the crossover numbers the free vehicles
(`FreeAreNumbered`) and must not take a stop the child has (`ChildCarries`). Below are lemmas on sequences
without repetition: what inserting, cutting, reversing, filtering and joining do to the stops of a route.

`EveryMovePays` is the action property `MovesPay`. The code prices a move by the few edges it changes and
never recomputes a length; the theorem says that the price is right, for routes of any length, at either end
of them and for segments put back next to where they were. A length is a sum of legs; two sums that rise alike
over a stretch differ by a constant (`AlikeRise`), one that runs backwards too (`MirroredRise`, and that needs
the distance to be symmetric, which haversine is). This gives the price of a reversal (`TurnPrice`) and of
a segment put in (`SplicePrice`); or-opt and relocation take one out and put it in (`MovePrice`, `InsertPrice`),
an exchange puts another stop where one was taken out (`SwapPrice`), and only two routes change
(`TwoLengthsChange`).

**TripExecution_proofs.** The invariant is

    IInv == TypeOK /\ StatusTracksTasks /\ CurrentIsFirstOpen

and its parts need each other. `EnsureTrip` sets every task of a trip that has not started back to
pending: this loses no report only because `StatusTracksTasks` says such a trip has none, and
it leaves the current stop right only because the first stop is then open. `updateTask` looks for
the first open stop with `findIndex`; that there is one when a task is open is `FirstOpenIsFirst`,
by the well-foundedness of the naturals. From it follow `ExecutionTypes`, `StatusIsTrue`,
`DriverSentToFirstOpen`, the action property `ReportsAreKept` (`NoReportLost`), and
`ExecutionImplementsLifecycle`. With `PlanningImplementsLifecycle` both sides of the trip are proved
to keep the contract through which each relies on the other.

The module goes on to the driver's two screens (`DriverScreens`), which show that trip: `ScreensFollow`.
While the history is clear, requests are under way together only if both look, so what was
answered *is* the trip (`Uncrossed`); and a screen that is behind has an answer coming that it still
listens to (`RouteFollows`, `MapFollows`). That needs the walks a driver can take through the screens
(`Walks`: the navigator's stack is one of eight) and that the screen a request came from is on the walk
(`ListenersAreOnTheWalk`).

Third, the orders behind the trips (`OrderEntry`): `TotalsAgree`. An update keeps the order it loaded in memory
(`LoadedIsStored`): when nothing has overtaken it, the version is the stored one and so are the items it
did not replace; what it has priced is what its own items cost, until a price changes (`PricedAgrees`).

**RouteEdits_proofs.** The argument for overlapping requests is one sentence: *a copy whose
version has not moved is the document* (`FreshCopies`). Every save of stops that goes through has
`r \in fresh[q]`, so it acts on the stored stops as if read at that moment
(`SavedCopyIsCurrent`). With `LocalsInPlace` (what a request has in memory at each await) it makes

    IInv == TypeOK /\ LocalsInPlace /\ FreshCopies /\ AtMostOnePlace /\ NoSilentLoss

inductive: `EditInvariance`, `EditTypes`, `OnePlaceOnly`, `LossIsReported`, both at once (`OrdersStay`),
and the action property `NoLostUpdate`. The argument for requests one at a time is a Hoare proof written as
an invariant: `Underway(q)` says, for each await, what a lone handler has done so far to the orders it has
in hand and that nothing else needs mending; the answer mends the rest (`Serial`, `SerialAgreement`).

**RouteCommits_proofs.** The same for the handlers that commit: plan, routes and trips agree between
requests because `Underway` says at each await which of the three is ahead of the others. It depends on
the path a handler came by: inside `ensureTripForRoute` the plan may lag behind a lock, has
to be LOCKED for a finalisation and agrees under the driver's polling. The routes other than
the handler's own stay in agreement throughout (`OthersAgree`). `SerialAgreement` follows; the
interleavings after the first overlap are TLC's.

**OptimizeRace_proofs.** Here requests overlap, and the history (`Watch`) only says that two had the
same order in hand, or worked on the same plan. The invariant reads it backwards: *an order that is
not in the history is in at most one memory (`Disjoint`), and the documents still say what that memory
says of it* (`Held`, one line per await). For drivers, likewise: whoever alone works on a plan
remembers every driver the plan uses (`Knows`); `Numbered` counts the plans. `OrdersAgree` and
`FreeWhenTaken` follow.

**SessionTokens_proofs.** A tab's refresh in flight carries the token of that tab's store, unless the
store was moved (`Flights`, one at a time); a pair the server has signed and not delivered is known to
nobody but its request (`Undelivered`); tabs that hold one token, or a token somebody else refreshes,
are in the history (`Holders`). The three need each other: a delivery may overwrite the store because
of the first, buys nothing twice because of the second, and can be spent by nobody else because of the
third. They give `TokensOfTheUser`, `Renewable`, `QueueIsServed` and `OnePair`.

The module also holds two of the parts that work on their own. `FiguresAgree` (`RouteTimetable`) is inductive
with its types alone: every handler that moves stops refreshes both routes it touched, and what it leaves
stale is marked. `JamsLast` (`TrafficFactors`) needs more, since a jam is extended by its number,
after the look that found it: a number names one record (`FactorIds`), a report that is being served finds the
record of its own zone (`Finds`) and, in a zone that is not disputed, is the only one there and outlives every promise made
before it (`Alone`). What a purge leaves, every record in force and no other, is `RemainingFacts`, by a
least counterexample.

**GpsTracker_proofs.** Ticks and flushes write back copies of the queue they read before an await, so
the argument is about the copies: *a copy that may be written back and the stored queue differ only in
points that are settled*, that is logged, or missing for a reason the history names. `Basic` (types,
what each tick and post is at) is inductive and gives `Types`; with

    Copies == CrowdedReaders /\ QueueInCopies /\ CopiesInQueue /\ FlushSees

also `Basic /\ Copies /\ NothingElseIsLost` is, which gives `Loss`. Both directions are needed:
`QueueInCopies` and `FlushSees` say that writing a copy back loses nothing but settled points,
`CopiesInQueue` that the next reader starts from a queue for which this is still true. What is settled
stays settled (`SettledStays`). `NoDoubleLog` is the converse: a point that was posted and answered is in no
queue and no copy (`Once`). `PositionOrder` adds the order: queues rise, and the first batch of any queue
reaches every point that was ever posted (`InOrder`), so that an answered post never moves the position back.

**Parts_proofs.** Fourteen parts that share no state with the others, each of its own specification, the last
four of `MCSpec`, in which one screen is at work:

| Theorem | The part of the invariant that is not the property |
|---|---|
| `EarnedWarnings` (`LiveDeviation`) | a check about to store rests on enough far positions, and if no other stored meanwhile the last warning is a cool-down ago |
| `StaleEntries` (`ResponseCache`) | what a read has seen is still shown, or the read is already excused |
| `TreeStays` (`Organizations`) | what a request that was not overtaken has found in the tree is still so |
| `OneTimeLinks` (`Accounts`) | a link has one kind; one not stored yet is known to its maker only; who carries one to be spent empties its field |
| `NoReopening` (`VehicleMaintenance`, an action property) | a driver's request that was not overtaken works on a record that is still open |
| `CarriersMatch` (`MasterData`) | every body a form can send is consistent, and a document loaded as it is stored is stored as filled in |
| `PagesShrinkOnly` (`OrdersScreen`) | of a filter no order has left, every page asked for or listed has orders. That the k-th of n orders exists is `PlaceTaken`, by induction on a finite set through a well-founded order |
| `DrawnInPlace` (`RouteMap`) | a look-up's answer has the places of the customers it names; a stop without a point is being looked up; road lines are those of the points, or are being looked up |
| `ShiftsAreAccounted`, `OrdersFollowReports` (`EtaCascade`) | a request nobody raced still has the trip's times and tasks; what it will save moves exactly the open stops behind the entry it pushes; an entry, pushed or about to be, is of an incident that was filed with that delay, and of no other entry's. That the recorded shifts before a stop can be summed, and grow by the entry appended, is `SumExists`, `SumIsOne` and `OneShiftMore` (a least counterexample instead of an induction); that a sum may be taken modulo the day at every step, `ShiftWraps` |
| `RestingScreen` (`PlanningScreen`) | what the page lacks of a plan comes with an answer on its way (`AgreesButForPatches`), the plan is being fetched, or it is out of view and will be fetched when it comes into it; a fetch that was read and not spoilt since is as good as the page (`FetchIsGood`) |
| `HonestCounts` (`TripChat`, `NoticeList`) | a count, kept or under way, is at most what the driver has written, so a list read later covers it; an answer asked for since the tab was chosen is of that tab (`TabFollows`); the count of notices covers what is unread *and* each mark that is served and not answered, since its answer will take one off (`CountCovers`) |
| `UndoneOnlyUnaware` (`IncidentDesk`, `MaintenanceDesk`; an action property) | who still shows a closed incident, or is about to, is on its list `closedFor` (`ClosedButShown`); a form, an approval or a change under way that is not excused has the record's status, and so has the list, but while it is about to be read again (`ListAgrees`) |

**What proving found.** Two `CASE`s of the models had overlapping arms (`Leave` in `SessionTokens` and in
`DriverScreens`), of which TLC takes the first and the semantics any; the code's `if … else if` is now nested.
`EtaCascade` summed shifts with a fold, of which nothing can be proved here: `ShiftsBefore` is a recursive
function now. `PlanningScreen` took a deleted plan out of the list with a filter; the list holds a plan once,
so it removes the one place now. Likewise `TrafficFactors` filtered its
records (`Remaining` now), `OrderEntry` folded its sum (`Total` sums a function) and built an import from pairs, which
the prover cannot read; `RouteMoves` summed loads and lengths with folds (`SumTo` now), and `SelectSeq` filtered
routes (`Without` now). `RouteTimetable` gave an empty route a load and a distance by way of its vehicle,
where the code says zero; took a vehicle without a limit for one that carries nothing; and did not
refresh the distance when a shift is set. `JobsNext` lacked `CloseReview`, an action defined and named by its lemma
and by no disjunct. `MCGpsTracker`, `MCRouteCommits` and `MCTripExecution` had stated properties the proofs need: these are in
the components' modules now.

**Model-checked only.**
- All liveness (`StartedTripsFinish`, `ListingHeals`, `WaitersSettle`): TLAPS does not do liveness under
  fairness.

  Every safety and action property of the passing runs is stated by a theorem. Of a search it is proved
  that no step is wrong and that none of its local moves can come back, not that what it finds is short.

## 5. Where code and documents disagree

Two runs must find their property violated:

| Run | Document | Code |
|---|---|---|
| `auto_refresh` | `authController.js:392`: the pair is renewed without logging in again; `client.js:22` the same | `TokenBlacklist`'s schema has `_id: false` on a top-level document, which Mongoose does not save; `refresh` fails at its rotation, and so does `logout` |
| `delay_wiped` | `tripController.js:311`: a reported delay is cascaded to the open stops and kept in `EtaHistory` | on a trip that has not started, the next trip list copies the plan's times again (`tripService.js:106`) and leaves the history |

Six more are stated in the modules beside the code they are about. Name the property in that run's
cfg (as an `INVARIANT`, the first three as a `PROPERTY`) and TLC shows the behaviour:

| Property | Document | Code |
|---|---|---|
| `WorkflowOnlyAdvances` (`TripExecution`) | `src/README.md:260`: ASSIGNED → DRIVER_CONFIRMED → LOADING → IN_PROGRESS → … | every trip list and `finalizeRoute` set a confirmed or loading trip back to ASSIGNED (`tripService.js:108`) |
| `LockedPlanFrozen` (`MCRoutePlanning`) | `src/docs-site/docs/role-planner/lap-ke-hoach.md:113`: a LOCKED plan can no longer be edited | locking one route locks the plan; routes are still added and edited |
| `DeliveredNotReplanned` (`MCRoutePlanning`) | `src/README.md:258`: orders end at DELIVERED | a delivered order is freed by unlocking its route and planned again |
| `MoveIsAtomic` (`MCRouteEdits`) | `routePlanController.js:1055`: "Atomically move" | two saves; if the second conflicts, the order is on no route and still PLANNED |
| `FinalizedIsFinal` (`RouteCommits`) | `src/docs-site/docs/testing/test-cases.md:101`: a finalized plan can no longer be edited | a slow `lockRoute` writes LOCKED over a route finalized meanwhile, in a FINALIZED plan |
| `OnlyOverflowIsLost` (`GpsTracker`) | `gpsTracker.js:26`: points are dropped when the queue exceeds `MAX_QUEUE`; `:5`: what cannot be sent is queued | `flush` stores the rest of the queue it read *before* the upload; a point stored meanwhile is gone |

Modelling met more of the code's corners. They are in the models as the code has them, and the history
variables name them where a property would fail:

- *Planning.* A packer always builds the plan: the shifts a plan can have never reach the HGS and
  legacy branches of `optimizeRoutePlan` (1503-1562), though a comment (1485) and `src/README.md:15` call HGS
  the default. The pool and `addOrderToRoute` do not exclude DELIVERED orders. `autoDispatchRoutePlan`
  syncs trips by a `RouteCode` that `DeliveryRoute` has not. `refreshRouteMetrics` leaves the times of
  an emptied route, `assignRoute` with a vehicle does not retime it, edits forget the traffic factors, and
  the leg back to the depot never has one. `minutesToHHMM(59.6)` is "00:00".
- *Searches.* `greedyReinsert` force-places a stop whatever the capacity; `trySwap` looks at weight and
  not at volume; an infeasible but short initial individual is never replaced by a longer feasible
  child (`hgs/algorithm.py:116`).
- *Trips.* An incident without a place is stored at latitude 0 (`Number(null)`). An incident can go from any
  status to any other. The app offers to explain a deviation once and forgets the prompt after any
  answer; a completion from the proof screen never offers it. `driver_location_update`
  (`socket.js:138-174`) uses `driver` outside the `try` it is declared in.
- *Traffic.* A jam record has no radii, so it sorts behind the urban zone and never raises an urban leg;
  the nightly job is not idempotent; an organisation created after start has no defaults until the
  next start, nor has one whose only record is a jam.
- *Screens.* A confirmed deletion deletes the plan shown at that moment. With no plan the road effect
  of `PlanningPage.jsx` runs at every render. A shift change empties the geocoded points with nothing to
  bring them back. Nothing sets `ReadByDispatcherAt`. `listMyMessages` is limited to the oldest 300.
  The trip a driver's reply goes to may change under him when no tab is chosen. The maintenance list is not
  polled, so a stale form writes an older status over the driver's report. The page of the orders' list stays when the
  list shrinks. A slow answer on the route screen may turn GPS off on a running trip.
- *Records.* Two overlapping `updateVehicle` calls can leave an in-house vehicle with a carrier. A service
  can be deleted under the vehicles that point to it. `approveOrder` asks for no status. An update that
  leaves the items alone writes the total only if it differs from the one it loaded, and may cross one
  that replaces them. A partly imported order cannot be completed by importing again.
- *Accounts.* `verifyEmail` activates whatever the status was. `importOrganizations` takes roots of any type.
  No page of the web client calls `/auth/logout`.

## 6. What is not modelled, and the plan

Left out inside the modelled parts: photos, cash and notes; names, texts and the layout of screens;
the comparison report of `/benchmark`; crashes in `RouteEdits`; plans deleted while `RouteCommits` runs;
storage failures of the phone; role groups and the scope query; categories of products and
`OrderTripAllocation`.

Not modelled: payroll and reports (computed at each request from documents other parts write), the AI
agent, support chat and e-mail (text and outside services), audit log, rate limit and performance monitor
(side channels), demo data and seed (bulk insertion), public tracking (read-only), dashboards, settings
and internationalisation of the clients (presentation).

