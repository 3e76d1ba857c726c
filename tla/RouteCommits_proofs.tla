------------------------- MODULE RouteCommits_proofs -------------------------
(***************************************************************************)
(* Proofs about RouteCommits, for any routes and request slots: plan,      *)
(* routes and trips disagree only after an overlap or a failure.  A        *)
(* request that is alone breaks the agreement for its own route and puts   *)
(* it together again; Underway says how far it is at each await.           *)
(***************************************************************************)
EXTENDS RouteCommits, TLAPS

-----------------------------------------------------------------------------
(* The inductive invariant.                                                *)

Ensuring == {"ensureRoute", "ensureTrip", "ensureSave"}
Cancelling == {"cancelRead", "cancelSave"}

\* The handlers that can be suspended at each await, and what they remember.
InPlace(q) ==
  LET by == local[q].by IN
  /\ at[q] # "idle" => local[q].route \in Routes
  /\ at[q] = "readRoute" => by \in {"lock", "unlock", "finalize", "remove"}
  /\ at[q] = "saveStatus" => by \in {"lock", "unlock", "finalize"}
  /\ at[q] \in Ensuring => by \in {"lock", "finalize", "list"}
  /\ at[q] \in Cancelling => by \in {"unlock", "remove"}
  /\ at[q] = "deleteRoute" => by = "remove"
  /\ at[q] = "readRoutes" => by \in {"remove", "finalize"}
  /\ at[q] = "savePlan" => by \in {"lock", "remove", "finalize"}

LocalsInPlace == \A q \in Slots : InPlace(q)

\* A request is alone unless two have overlapped.
Alone == \A p, q \in Slots : at[p] # "idle" /\ at[q] # "idle" => p = q

\* The plan is as the handler read it, and not FINALIZED.
PlanAsRead(q) == local[q].plan = planStatus /\ planStatus # "FINALIZED"

\* What a lone request has done to the plan and to its own route by each await.
Underway(q) ==
  LET r == local[q].route  by == local[q].by IN
  /\ at[q] \in {"readRoute", "createRoute", "saveStatus", "driverSave"} => PlanAgrees /\ TripAgrees(r)
  /\ at[q] \in {"readRoute", "saveStatus"} /\ by # "unlock" => local[q].plan = planStatus
  /\ at[q] = "readRoute" /\ by = "remove" => planStatus # "FINALIZED"
  /\ at[q] = "createRoute" => planStatus # "FINALIZED"
  /\ at[q] = "saveStatus" => status[r] = IF by = "lock" THEN "PLANNED" ELSE "LOCKED"
  /\ at[q] \in Ensuring =>
       /\ by = "lock" => /\ status[r] = "LOCKED" /\ PlanAsRead(q)
                         /\ planStatus = "DRAFT" => \A s \in PlanRoutes \ {r} : status[s] = "PLANNED"
       /\ by = "finalize" => /\ status[r] = "FINALIZED" /\ TripAgrees(r)
                             /\ planStatus = "LOCKED" /\ PlanAsRead(q)
       /\ by = "list" => PlanAgrees /\ TripAgrees(r)
       /\ at[q] # "ensureRoute" => status[r] \in Committed
       /\ at[q] = "ensureSave" => local[q].seen = trip[r] /\ local[q].current
  /\ at[q] \in Cancelling =>
       /\ PlanAgrees
       /\ by = "unlock" => status[r] = "PLANNED"
       /\ by = "remove" => status[r] \in {"PLANNED", "LOCKED"} /\ PlanAsRead(q)
  /\ at[q] = "deleteRoute" =>
       PlanAgrees /\ status[r] \in {"PLANNED", "LOCKED"} /\ PlanAsRead(q) /\ trip[r] \notin Startable
  /\ at[q] = "readRoutes" => PlanAgrees /\ TripAgrees(r) /\ PlanAsRead(q)
  /\ at[q] = "savePlan" =>
       /\ TripAgrees(r)
       /\ by = "remove" => \A s \in PlanRoutes : status[s] = "PLANNED"
       /\ by = "finalize" => PlanRoutes # {} /\ \A s \in PlanRoutes : status[s] = "FINALIZED"
  /\ at[q] = "driverSave" => trip[r] \in Startable /\ local[q].seen \in Live

Resting == PlanAgrees /\ \A r \in Routes : TripAgrees(r)
OthersAgree(q) == \A s \in Routes \ {local[q].route} : TripAgrees(s)

\* Undisturbed, the other routes agree with their trips, and everything does when
\* no request is under way.
Serial ==
  ~disturbed =>
    /\ Alone
    /\ (\A q \in Slots : at[q] = "idle") => Resting
    /\ \A q \in Slots : at[q] # "idle" => Underway(q) /\ OthersAgree(q)

IInv == TypeOK /\ LocalsInPlace /\ Serial

-----------------------------------------------------------------------------
(* Steps in general.                                                       *)

LEMMA BlankTyped == Blank \in Local /\ Blank.by = "none"
  BY DEF Blank, Local, Handler, PlanStatus, TripStatus

\* A request that comes when all are idle finds everything in agreement; one that
\* does not is an overlap.
LEMMA ArrivalKeepsSerial ==
  ASSUME IInv, NEW q \in Slots, NEW stage \in Stage \ {"idle"}, NEW memory \in Local,
         Arrives(q, stage, memory),
         ~disturbed' /\ Resting' => Underway(q)'
  PROVE  Serial'
<1> SUFFICES ASSUME ~disturbed' PROVE Serial'
  BY DEF Serial
<1>1. ~disturbed /\ \A p \in Slots : at[p] = "idle"
  BY DEF Arrives
<1>2. Resting
  BY <1>1 DEF IInv, Serial
<1>3. Resting'
  BY <1>2 DEF Arrives, documents, Resting, PlanAgrees, PlanRoutes, TripAgrees
<1>4. at'[q] # "idle" /\ \A p \in Slots \ {q} : at'[p] = "idle"
  BY <1>1 DEF Arrives, IInv, TypeOK
<1>5. Underway(q)' /\ OthersAgree(q)'
  BY <1>3 DEF Resting, OthersAgree
<1> QED
  BY <1>4, <1>5 DEF Serial, Alone

\* The step of a lone request concerns only itself.
LEMMA LoneStepKeepsSerial ==
  ASSUME IInv, NEW q \in Slots, at[q] # "idle", disturbed' = disturbed,
         \A p \in Slots \ {q} : at'[p] = at[p],
         (Underway(q) /\ OthersAgree(q)) =>
            IF at'[q] = "idle" THEN Resting' ELSE Underway(q)' /\ OthersAgree(q)'
  PROVE  Serial'
<1> SUFFICES ASSUME ~disturbed' PROVE Serial'
  BY DEF Serial
<1>1. ~disturbed /\ Underway(q) /\ OthersAgree(q) /\ Alone
  BY DEF IInv, Serial
<1>2. \A p \in Slots \ {q} : at'[p] = "idle"
  BY <1>1 DEF Alone
<1>3. CASE at'[q] = "idle"
  BY <1>1, <1>2, <1>3 DEF Serial, Alone
<1>4. CASE at'[q] # "idle"
  BY <1>1, <1>2, <1>4 DEF Serial, Alone
<1> QED
  BY <1>3, <1>4

-----------------------------------------------------------------------------
(* The ends of a step: the request arrives, goes on, answers or leaves     *)
(* ensureTripForRouteId.                                                   *)

DocumentsTyped ==
  /\ planStatus \in PlanStatus
  /\ status \in [Routes -> RouteStatus \cup {"NONE", "DELETED"}]
  /\ trip \in [Routes -> TripStatus]

LEMMA ArrivalKeeps ==
  ASSUME IInv, NEW q \in Slots, NEW stage \in Stage \ {"idle"}, NEW memory \in Local,
         Arrives(q, stage, memory), InPlace(q)',
         ~disturbed' /\ Resting' => Underway(q)'
  PROVE  IInv'
<1>1. TypeOK'
  BY DEF IInv, TypeOK, Arrives, documents
<1>2. \A p \in Slots \ {q} : at'[p] = at[p] /\ local'[p] = local[p]
  BY DEF IInv, TypeOK, Arrives
<1>3. LocalsInPlace'
  BY <1>2 DEF IInv, LocalsInPlace, InPlace
<1> QED
  BY <1>1, <1>3, ArrivalKeepsSerial DEF IInv

LEMMA StepKeeps ==
  ASSUME IInv, NEW q \in Slots, at[q] # "idle", disturbed' = disturbed, DocumentsTyped',
         at' \in [Slots -> Stage], local' \in [Slots -> Local],
         \A p \in Slots \ {q} : /\ at'[p] = at[p]
                                 /\ local'[p].by = local[p].by
                                 /\ local'[p].route = local[p].route,
         InPlace(q)',
         Underway(q) /\ OthersAgree(q) =>
           IF at'[q] = "idle" THEN Resting' ELSE Underway(q)' /\ OthersAgree(q)'
  PROVE  IInv'
<1>1. TypeOK'
  BY DEF IInv, TypeOK, DocumentsTyped
<1>2. LocalsInPlace'
  BY DEF IInv, LocalsInPlace, InPlace
<1> QED
  BY <1>1, <1>2, LoneStepKeepsSerial DEF IInv

LEMMA AnswersKeeps ==
  ASSUME IInv, NEW q \in Slots, at[q] # "idle", Answers(q), disturbed' = disturbed,
         DocumentsTyped', Underway(q) /\ OthersAgree(q) => Resting'
  PROVE  IInv'
<1>1. /\ at' \in [Slots -> Stage] /\ local' \in [Slots -> Local] /\ at'[q] = "idle"
      /\ \A p \in Slots \ {q} : at'[p] = at[p] /\ local'[p] = local[p]
  BY BlankTyped DEF Answers, IInv, TypeOK, Stage
<1>2. InPlace(q)'
  BY <1>1 DEF InPlace, Ensuring, Cancelling
<1> QED
  BY <1>1, <1>2, StepKeeps

LEMMA GoesToKeeps ==
  ASSUME IInv, NEW q \in Slots, at[q] # "idle", NEW stage \in Stage \ {"idle"},
         GoesTo(q, stage), disturbed' = disturbed, DocumentsTyped', InPlace(q)',
         Underway(q) /\ OthersAgree(q) => Underway(q)' /\ OthersAgree(q)'
  PROVE  IInv'
<1>1. /\ at' \in [Slots -> Stage] /\ local' \in [Slots -> Local] /\ at'[q] # "idle"
      /\ \A p \in Slots \ {q} : at'[p] = at[p] /\ local'[p] = local[p]
  BY DEF GoesTo, IInv, TypeOK
<1> QED
  BY <1>1, StepKeeps

\* A handler that leaves ensureTripForRouteId with the trips in agreement has done
\* what its next await asks, or all it had to do.
LEMMA LeavesEnsureKeeps ==
  ASSUME IInv, NEW q \in Slots, at[q] \in Ensuring, NEW memory \in [Slots -> Local],
         memory[q] = local[q],
         \A p \in Slots : memory[p].by = local[p].by /\ memory[p].route = local[p].route,
         LeavesEnsure(q, memory), UNCHANGED <<planStatus, status, disturbed>>,
         DocumentsTyped',
         Underway(q) /\ OthersAgree(q) => \A s \in Routes : TripAgrees(s)'
  PROVE  IInv'
<1> DEFINE m == Forgets(memory[q])
<1>1. /\ m \in Local /\ m.by = local[q].by /\ m.route = local[q].route
      /\ m.plan = local[q].plan /\ m.todo = local[q].todo
  BY DEF Forgets, Local, TripStatus
<1>2. at[q] # "idle" /\ at \in [Slots -> Stage] /\ local[q] \in Local
  BY DEF Ensuring, IInv, TypeOK
<1>3. local[q].route \in Routes /\ local[q].by \in {"lock", "finalize", "list"}
  BY <1>2 DEF IInv, LocalsInPlace, InPlace
<1>4. /\ at' = [at EXCEPT ![q] = AfterEnsure(q)]
      /\ \A p \in Slots \ {q} : at'[p] = at[p]
  BY <1>2 DEF LeavesEnsure
<1>5. CASE AfterEnsure(q) = "idle"
  <2>1. local' = [memory EXCEPT ![q] = Blank] /\ at'[q] = "idle"
    BY <1>2, <1>4, <1>5 DEF LeavesEnsure
  <2>2. local' \in [Slots -> Local] /\ at' \in [Slots -> Stage]
    BY <1>2, <1>4, <1>5, <2>1, BlankTyped DEF Stage
  <2>3. InPlace(q)'
    BY <2>1 DEF InPlace, Ensuring, Cancelling
  <2>4. ASSUME Underway(q), OthersAgree(q) PROVE Resting'
    <3>1. PlanAgrees
      BY <1>2, <1>3, <1>5, <2>4 DEF AfterEnsure, Underway, PlanAsRead, PlanAgrees, Local, PlanStatus
    <3> QED
      BY <3>1, <2>4 DEF Resting, PlanAgrees, PlanRoutes
  <2> QED
    BY <1>2, <1>4, <2>1, <2>2, <2>3, <2>4, StepKeeps
<1>6. CASE AfterEnsure(q) = "ensureRoute"
  <2>1. PICK r \in m.todo : local' = [memory EXCEPT ![q] = [m EXCEPT !.route = r, !.todo = @ \ {r}]]
    BY <1>6 DEF LeavesEnsure
  <2>2. r \in Routes /\ local[q].by = "list" /\ at'[q] = "ensureRoute"
    BY <1>1, <1>2, <1>3, <1>4, <1>6, <2>1 DEF AfterEnsure, Local
  <2>3. [m EXCEPT !.route = r, !.todo = @ \ {r}] \in Local
    BY <1>1, <2>2 DEF Local
  <2>4. local' \in [Slots -> Local] /\ at' \in [Slots -> Stage]
    BY <1>2, <1>4, <1>6, <2>1, <2>3 DEF Stage
  <2>5. local'[q].route = r /\ local'[q].by = "list"
    BY <1>1, <2>1, <2>2 DEF Local
  <2>6. InPlace(q)'
    BY <2>2, <2>5 DEF InPlace, Ensuring, Cancelling
  <2>7. ASSUME Underway(q), OthersAgree(q) PROVE Underway(q)' /\ OthersAgree(q)'
    <3>1. PlanAgrees'
      BY <2>2, <2>7 DEF Underway, PlanAgrees, PlanRoutes
    <3> QED
      BY <2>2, <2>5, <2>7, <3>1 DEF Underway, OthersAgree, Ensuring, Cancelling
  <2> QED
    BY <1>2, <1>4, <2>1, <2>2, <2>4, <2>6, <2>7, StepKeeps
<1>7. CASE AfterEnsure(q) \notin {"idle", "ensureRoute"}
  <2>1. local' = [memory EXCEPT ![q] = m]
    BY <1>7 DEF LeavesEnsure
  <2>2. \/ local[q].by = "finalize" /\ at'[q] = "readRoutes"
        \/ local[q].by = "lock" /\ at'[q] = "savePlan"
    BY <1>2, <1>3, <1>4, <1>7 DEF AfterEnsure
  <2>3. local' \in [Slots -> Local] /\ at' \in [Slots -> Stage] /\ local'[q] = m
    BY <1>1, <1>2, <1>3, <1>4, <1>7, <2>1 DEF Stage, AfterEnsure
  <2>4. InPlace(q)'
    BY <1>1, <1>3, <2>2, <2>3 DEF InPlace, Ensuring, Cancelling
  <2>5. ASSUME Underway(q), OthersAgree(q) PROVE Underway(q)' /\ OthersAgree(q)'
    <3>1. CASE local[q].by = "finalize"
      <4>1. PlanAgrees' /\ PlanAsRead(q)'
        BY <1>1, <2>3, <2>5, <3>1 DEF Underway, PlanAgrees, PlanAsRead
      <4> QED
        BY <1>1, <1>3, <2>2, <2>3, <2>5, <3>1, <4>1 DEF Underway, OthersAgree, Ensuring, Cancelling
    <3>2. CASE local[q].by = "lock"
      BY <1>1, <1>3, <2>2, <2>3, <2>5, <3>2 DEF Underway, OthersAgree, Ensuring, Cancelling
    <3> QED
      BY <2>2, <3>1, <3>2
  <2> QED
    BY <1>2, <1>4, <2>1, <2>2, <2>3, <2>4, <2>5, StepKeeps
<1> QED
  BY <1>5, <1>6, <1>7

-----------------------------------------------------------------------------
(* Arrivals.                                                               *)

LEMMA ReadPlanKeeps ==
  ASSUME IInv, NEW q \in Requests, NEW r \in Routes,
         LockRoute(q, r) \/ FinalizeRoute(q, r) \/ RemoveRoute(q, r)
  PROVE  IInv'
<1>1. PICK by \in {"lock", "finalize", "remove"} :
        ReadPlan(q, by, r) /\ (by = "remove" => planStatus # "FINALIZED")
  BY DEF LockRoute, FinalizeRoute, RemoveRoute
<1> DEFINE m == [Blank EXCEPT !.by = by, !.route = r, !.plan = planStatus]
<1>2. q \in Slots /\ m \in Local /\ "readRoute" \in Stage \ {"idle"}
  BY BlankTyped DEF Slots, Local, Handler, Stage, IInv, TypeOK
<1>3. Arrives(q, "readRoute", m)
  BY <1>1 DEF ReadPlan
<1>4. /\ at'[q] = "readRoute" /\ local'[q].by = by /\ local'[q].route = r
      /\ local'[q].plan = planStatus /\ planStatus' = planStatus
  BY <1>2, <1>3 DEF Arrives, IInv, TypeOK, Blank, documents
<1>5. InPlace(q)'
  BY <1>4 DEF InPlace, Ensuring, Cancelling
<1>6. Resting' => Underway(q)'
  BY <1>1, <1>4 DEF Underway, Resting, Ensuring, Cancelling
<1> QED
  BY <1>2, <1>3, <1>5, <1>6, ArrivalKeeps

LEMMA UnlockRouteKeeps ==
  ASSUME IInv, NEW q \in Requests, NEW r \in Routes, UnlockRoute(q, r)
  PROVE  IInv'
<1> DEFINE m == [Blank EXCEPT !.by = "unlock", !.route = r]
<1>1. q \in Slots /\ m \in Local /\ "readRoute" \in Stage \ {"idle"}
  BY BlankTyped DEF Slots, Local, Handler, Stage
<1>2. Arrives(q, "readRoute", m)
  BY DEF UnlockRoute
<1>3. at'[q] = "readRoute" /\ local'[q].by = "unlock" /\ local'[q].route = r
  BY <1>1, <1>2 DEF Arrives, IInv, TypeOK, Blank
<1>4. InPlace(q)'
  BY <1>3 DEF InPlace, Ensuring, Cancelling
<1>5. Resting' => Underway(q)'
  BY <1>3 DEF Underway, Resting, Ensuring, Cancelling
<1> QED
  BY <1>1, <1>2, <1>4, <1>5, ArrivalKeeps

LEMMA AddRouteKeeps ==
  ASSUME IInv, NEW q \in Requests, NEW r \in Routes, AddRoute(q, r)
  PROVE  IInv'
<1> DEFINE m == [Blank EXCEPT !.by = "add", !.route = r]
<1>1. q \in Slots /\ m \in Local /\ "createRoute" \in Stage \ {"idle"}
  BY BlankTyped DEF Slots, Local, Handler, Stage
<1>2. Arrives(q, "createRoute", m)
  BY DEF AddRoute
<1>3. /\ at'[q] = "createRoute" /\ local'[q].by = "add" /\ local'[q].route = r
      /\ planStatus' = planStatus /\ planStatus # "FINALIZED"
  BY <1>1, <1>2 DEF Arrives, IInv, TypeOK, Blank, documents, AddRoute
<1>4. InPlace(q)'
  BY <1>3 DEF InPlace, Ensuring, Cancelling
<1>5. Resting' => Underway(q)'
  BY <1>3 DEF Underway, Resting, Ensuring, Cancelling
<1> QED
  BY <1>1, <1>2, <1>4, <1>5, ArrivalKeeps

LEMMA ListTripsKeeps ==
  ASSUME IInv, ListTrips(Monitor)
  PROVE  IInv'
<1> DEFINE committed == {r \in Routes : status[r] \in Committed}
<1>1. PICK r \in committed :
        Arrives(Monitor, "ensureRoute",
                [Blank EXCEPT !.by = "list", !.route = r, !.todo = committed \ {r}])
  BY DEF ListTrips
<1> DEFINE m == [Blank EXCEPT !.by = "list", !.route = r, !.todo = committed \ {r}]
<1>2. Monitor \in Slots /\ m \in Local /\ "ensureRoute" \in Stage \ {"idle"}
  BY BlankTyped DEF Slots, Local, Handler, Stage
<1>3. at'[Monitor] = "ensureRoute" /\ local'[Monitor].by = "list" /\ local'[Monitor].route = r
  BY <1>1, <1>2 DEF Arrives, IInv, TypeOK, Blank
<1>4. InPlace(Monitor)'
  BY <1>3 DEF InPlace, Ensuring, Cancelling
<1>5. Resting' => Underway(Monitor)'
  BY <1>3 DEF Underway, Resting, Ensuring, Cancelling
<1> QED
  BY <1>1, <1>2, <1>4, <1>5, ArrivalKeeps

LEMMA DriverRequestKeeps ==
  ASSUME IInv, NEW q \in Requests, NEW r \in Routes, NEW to \in TripStatus,
         DriverRequest(q, r, to)
  PROVE  IInv'
<1> DEFINE m == [Blank EXCEPT !.by = "drive", !.route = r, !.seen = to]
<1>1. q \in Slots /\ m \in Local /\ "driverSave" \in Stage \ {"idle"}
  BY BlankTyped DEF Slots, Local, Handler, Stage
<1>2. Arrives(q, "driverSave", m)
  BY DEF DriverRequest
<1>3. trip[r] \in Startable /\ to \in Live
  BY DEF DriverRequest, DriverMoves, Startable, Live
<1>4. /\ at'[q] = "driverSave" /\ local'[q].by = "drive" /\ local'[q].route = r
      /\ local'[q].seen = to /\ trip' = trip
  BY <1>1, <1>2 DEF Arrives, IInv, TypeOK, Blank, documents
<1>5. InPlace(q)'
  BY <1>4 DEF InPlace, Ensuring, Cancelling
<1>6. Resting' => Underway(q)'
  BY <1>3, <1>4 DEF Underway, Resting, Ensuring, Cancelling
<1> QED
  BY <1>1, <1>2, <1>5, <1>6, ArrivalKeeps

\* A failure disturbs.
LEMMA FailsKeeps ==
  ASSUME IInv, NEW q \in Requests, Fails(q)
  PROVE  IInv'
<1>1. /\ at' \in [Slots -> Stage] /\ local' \in [Slots -> Local] /\ at'[q] = "idle"
      /\ \A p \in Slots \ {q} : at'[p] = at[p] /\ local'[p] = local[p]
  BY BlankTyped DEF Fails, Answers, IInv, TypeOK, Stage, Slots
<1>2. TypeOK'
  BY <1>1 DEF Fails, IInv, TypeOK, documents
<1>3. LocalsInPlace'
  BY <1>1 DEF IInv, LocalsInPlace, InPlace, Ensuring, Cancelling
<1> QED
  BY <1>2, <1>3 DEF Fails, IInv, Serial

-----------------------------------------------------------------------------
(* The awaits of a request.                                                *)

LEMMA CreateRouteKeeps ==
  ASSUME IInv, NEW q \in Slots, CreateRoute(q)
  PROVE  IInv'
<1> DEFINE r == local[q].route
<1>1. r \in Routes /\ at[q] = "createRoute" /\ status[r] = "NONE"
  BY DEF CreateRoute, IInv, LocalsInPlace, InPlace
<1>2. status' = [status EXCEPT ![r] = "PLANNED"] /\ planStatus' = planStatus /\ trip' = trip
  BY DEF CreateRoute
<1>3. DocumentsTyped'
  BY <1>1, <1>2 DEF DocumentsTyped, IInv, TypeOK, RouteStatus
<1>4. ASSUME Underway(q), OthersAgree(q) PROVE Resting'
  <2>1. PlanAgrees /\ planStatus # "FINALIZED" /\ \A s \in Routes : TripAgrees(s)
    BY <1>1, <1>4 DEF Underway, OthersAgree
  <2>2. \A s \in Routes : status'[s] = IF s = r THEN "PLANNED" ELSE status[s]
    BY <1>1, <1>2 DEF IInv, TypeOK
  <2>3. \A s \in Routes : TripAgrees(s)'
    BY <1>1, <1>2, <2>1, <2>2 DEF TripAgrees, Committed
  <2>4. PlanAgrees'
    BY <1>2, <2>1, <2>2 DEF PlanAgrees, PlanRoutes
  <2> QED
    BY <2>3, <2>4 DEF Resting
<1> QED
  BY <1>1, <1>3, <1>4, AnswersKeeps DEF CreateRoute

LEMMA ReadRouteKeeps ==
  ASSUME IInv, NEW q \in Slots, ReadRoute(q)
  PROVE  IInv'
<1> DEFINE r == local[q].route
           by == local[q].by
<1>1. r \in Routes /\ at[q] = "readRoute" /\ by \in {"lock", "unlock", "finalize", "remove"}
  BY DEF ReadRoute, IInv, LocalsInPlace, InPlace
<1>2. UNCHANGED <<planStatus, status, trip, disturbed>> /\ DocumentsTyped'
  BY DEF ReadRoute, documents, DocumentsTyped, IInv, TypeOK
<1>3. CASE status[r] \notin Accepts(by)
  <2>1. Answers(q)
    BY <1>3 DEF ReadRoute
  <2>2. ASSUME Underway(q), OthersAgree(q) PROVE Resting'
    BY <1>1, <1>2, <2>2 DEF Underway, OthersAgree, Resting, PlanAgrees, PlanRoutes, TripAgrees
  <2> QED
    BY <1>1, <1>2, <2>1, <2>2, AnswersKeeps
<1>4. CASE status[r] \in Accepts(by) /\ by = "remove"
  <2>1. GoesTo(q, "cancelRead") /\ status[r] \in {"PLANNED", "LOCKED"}
    BY <1>4 DEF ReadRoute, Accepts
  <2>2. at'[q] = "cancelRead" /\ local' = local
    BY <2>1 DEF GoesTo, IInv, TypeOK
  <2>3. InPlace(q)'
    BY <1>1, <1>4, <2>2 DEF InPlace, Ensuring, Cancelling
  <2>4. ASSUME Underway(q), OthersAgree(q) PROVE Underway(q)' /\ OthersAgree(q)'
    <3>1. PlanAgrees' /\ PlanAsRead(q)' /\ OthersAgree(q)'
      BY <1>1, <1>2, <1>4, <2>2, <2>4
         DEF Underway, OthersAgree, PlanAgrees, PlanRoutes, TripAgrees, PlanAsRead
    <3> QED
      BY <1>2, <1>4, <2>1, <2>2, <3>1 DEF Underway, Ensuring, Cancelling
  <2> QED
    BY <1>1, <1>2, <2>1, <2>3, <2>4, GoesToKeeps DEF Stage
<1>5. CASE status[r] \in Accepts(by) /\ by # "remove"
  <2>1. /\ GoesTo(q, "saveStatus") /\ by \in {"lock", "unlock", "finalize"}
        /\ status[r] = IF by = "lock" THEN "PLANNED" ELSE "LOCKED"
    BY <1>1, <1>5 DEF ReadRoute, Accepts
  <2>2. at'[q] = "saveStatus" /\ local' = local
    BY <2>1 DEF GoesTo, IInv, TypeOK
  <2>3. InPlace(q)'
    BY <1>1, <2>1, <2>2 DEF InPlace, Ensuring, Cancelling
  <2>4. ASSUME Underway(q), OthersAgree(q) PROVE Underway(q)' /\ OthersAgree(q)'
    <3>1. PlanAgrees' /\ TripAgrees(r)' /\ OthersAgree(q)'
      BY <1>1, <1>2, <2>2, <2>4 DEF Underway, OthersAgree, PlanAgrees, PlanRoutes, TripAgrees
    <3>2. by # "unlock" => local[q].plan = planStatus
      BY <1>1, <2>4 DEF Underway
    <3> QED
      BY <1>2, <2>1, <2>2, <3>1, <3>2 DEF Underway, Ensuring, Cancelling
  <2> QED
    BY <1>1, <1>2, <2>1, <2>3, <2>4, GoesToKeeps DEF Stage
<1> QED
  BY <1>3, <1>4, <1>5

LEMMA SaveStatusKeeps ==
  ASSUME IInv, NEW q \in Slots, SaveStatus(q)
  PROVE  IInv'
<1> DEFINE r == local[q].route
           by == local[q].by
<1>1. r \in Routes /\ at[q] = "saveStatus" /\ by \in {"lock", "unlock", "finalize"}
  BY DEF SaveStatus, IInv, LocalsInPlace, InPlace
<1>2. UNCHANGED <<planStatus, trip, disturbed>>
  BY DEF SaveStatus
<1>3. CASE status[r] = "DELETED"
  <2>1. Answers(q) /\ status' = status
    BY <1>3 DEF SaveStatus
  <2>2. DocumentsTyped'
    BY <1>2, <2>1 DEF DocumentsTyped, IInv, TypeOK
  <2>3. ~Underway(q)
    BY <1>1, <1>3 DEF Underway
  <2> QED
    BY <1>1, <1>2, <2>1, <2>2, <2>3, AnswersKeeps
<1>4. CASE status[r] # "DELETED"
  <2> DEFINE stage == IF by = "unlock" THEN "cancelRead" ELSE "ensureRoute"
  <2>1. status' = [status EXCEPT ![r] = Gives(by)] /\ GoesTo(q, stage)
    BY <1>4 DEF SaveStatus
  <2>2. Gives(by) = CASE by = "lock" -> "LOCKED" [] by = "unlock" -> "PLANNED" [] by = "finalize" -> "FINALIZED"
    BY DEF Gives
  <2>3. DocumentsTyped' /\ \A s \in Routes : status'[s] = IF s = r THEN Gives(by) ELSE status[s]
    BY <1>1, <1>2, <2>1, <2>2 DEF DocumentsTyped, IInv, TypeOK, RouteStatus
  <2>4. at'[q] = stage /\ local' = local
    BY <2>1 DEF GoesTo, IInv, TypeOK
  <2>5. InPlace(q)'
    BY <1>1, <2>4 DEF InPlace, Ensuring, Cancelling
  <2>6. ASSUME Underway(q), OthersAgree(q) PROVE Underway(q)' /\ OthersAgree(q)'
    <3>1. /\ PlanAgrees /\ TripAgrees(r) /\ (by # "unlock" => local[q].plan = planStatus)
          /\ status[r] = IF by = "lock" THEN "PLANNED" ELSE "LOCKED"
      BY <1>1, <2>6 DEF Underway
    <3>2. OthersAgree(q)'
      BY <1>2, <2>3, <2>4, <2>6 DEF OthersAgree, TripAgrees
    <3>3. planStatus # "FINALIZED"
      BY <1>1, <3>1 DEF PlanAgrees, PlanRoutes, RouteStatus
    <3>4. CASE by = "unlock"
      <4>1. PlanAgrees'
        BY <1>1, <1>2, <2>2, <2>3, <3>1, <3>3, <3>4 DEF PlanAgrees, PlanRoutes
      <4> QED
        BY <1>1, <2>2, <2>3, <2>4, <3>2, <3>4, <4>1 DEF Underway, Ensuring, Cancelling
    <3>5. CASE by = "lock"
      <4>1. status'[r] = "LOCKED" /\ PlanAsRead(q)'
        BY <1>1, <1>2, <2>2, <2>3, <2>4, <3>1, <3>3, <3>5 DEF PlanAsRead
      <4>2. planStatus' = "DRAFT" => \A s \in PlanRoutes' \ {r} : status'[s] = "PLANNED"
        BY <1>2, <2>3, <3>1 DEF PlanAgrees, PlanRoutes
      <4> QED
        BY <1>1, <2>4, <3>2, <3>5, <4>1, <4>2 DEF Underway, Ensuring, Cancelling
    <3>6. CASE by = "finalize"
      <4>1. status'[r] = "FINALIZED" /\ PlanAsRead(q)' /\ TripAgrees(r)'
        BY <1>1, <1>2, <2>2, <2>3, <2>4, <3>1, <3>3, <3>6 DEF PlanAsRead, TripAgrees, Committed
      <4>2. planStatus' = "LOCKED"
        BY <1>1, <1>2, <3>1, <3>3, <3>6 DEF PlanAgrees, PlanRoutes, RouteStatus, IInv, TypeOK, PlanStatus
      <4> QED
        BY <1>1, <2>4, <3>2, <3>6, <4>1, <4>2 DEF Underway, Ensuring, Cancelling
    <3> QED
      BY <1>1, <3>4, <3>5, <3>6
  <2> QED
    BY <1>1, <1>2, <2>1, <2>3, <2>5, <2>6, GoesToKeeps DEF Stage
<1> QED
  BY <1>3, <1>4

LEMMA EnsureRouteKeeps ==
  ASSUME IInv, NEW q \in Slots, EnsureRoute(q)
  PROVE  IInv'
<1> DEFINE r == local[q].route
           by == local[q].by
<1>1. r \in Routes /\ at[q] = "ensureRoute" /\ by \in {"lock", "finalize", "list"}
  BY DEF EnsureRoute, IInv, LocalsInPlace, InPlace, Ensuring
<1>2. UNCHANGED <<planStatus, status, trip, disturbed>> /\ DocumentsTyped'
  BY DEF EnsureRoute, documents, DocumentsTyped, IInv, TypeOK
<1>3. CASE status[r] \in Committed
  <2>1. GoesTo(q, "ensureTrip")
    BY <1>3 DEF EnsureRoute
  <2>2. at'[q] = "ensureTrip" /\ local' = local
    BY <2>1 DEF GoesTo, IInv, TypeOK
  <2>3. InPlace(q)'
    BY <1>1, <2>2 DEF InPlace, Ensuring, Cancelling
  <2>4. ASSUME Underway(q), OthersAgree(q) PROVE Underway(q)' /\ OthersAgree(q)'
    BY <1>1, <1>2, <1>3, <2>2, <2>4
       DEF Underway, OthersAgree, Ensuring, Cancelling, PlanAgrees, PlanRoutes, TripAgrees, PlanAsRead
  <2> QED
    BY <1>1, <1>2, <2>1, <2>3, <2>4, GoesToKeeps DEF Stage
<1>4. CASE status[r] \notin Committed
  <2>1. LeavesEnsure(q, local) /\ local \in [Slots -> Local]
    BY <1>4 DEF EnsureRoute, IInv, TypeOK
  <2>2. ASSUME Underway(q), OthersAgree(q) PROVE \A s \in Routes : TripAgrees(s)'
    BY <1>1, <1>2, <1>4, <2>2 DEF Underway, OthersAgree, Ensuring, TripAgrees, Committed
  <2> QED
    BY <1>1, <1>2, <2>1, <2>2, LeavesEnsureKeeps DEF Ensuring
<1> QED
  BY <1>3, <1>4

LEMMA EnsureTripKeeps ==
  ASSUME IInv, NEW q \in Slots, EnsureTrip(q)
  PROVE  IInv'
<1> DEFINE r == local[q].route
           by == local[q].by
<1>1. r \in Routes /\ at[q] = "ensureTrip" /\ by \in {"lock", "finalize", "list"}
  BY DEF EnsureTrip, IInv, LocalsInPlace, InPlace, Ensuring
<1>2. UNCHANGED <<planStatus, status, trip, disturbed>> /\ DocumentsTyped'
  BY DEF EnsureTrip, documents, DocumentsTyped, IInv, TypeOK
<1>3. /\ at' = [at EXCEPT ![q] = "ensureSave"]
      /\ local' = [local EXCEPT ![q] = [local[q] EXCEPT !.seen = trip[r], !.current = TRUE]]
  BY DEF EnsureTrip
<1>4. [local[q] EXCEPT !.seen = trip[r], !.current = TRUE] \in Local
  BY <1>1 DEF IInv, TypeOK, Local
<1>5. /\ at' \in [Slots -> Stage] /\ local' \in [Slots -> Local] /\ at'[q] = "ensureSave"
      /\ local'[q].by = by /\ local'[q].route = r /\ local'[q].plan = local[q].plan
      /\ local'[q].seen = trip[r] /\ local'[q].current
      /\ \A p \in Slots \ {q} : at'[p] = at[p] /\ local'[p] = local[p]
  BY <1>3, <1>4 DEF IInv, TypeOK, Stage, Local
<1>6. InPlace(q)'
  BY <1>1, <1>5 DEF InPlace, Ensuring, Cancelling
<1>7. ASSUME Underway(q), OthersAgree(q) PROVE Underway(q)' /\ OthersAgree(q)'
  <2>1. status[r] \in Committed /\ OthersAgree(q)'
    BY <1>1, <1>2, <1>5, <1>7 DEF Underway, Ensuring, OthersAgree, TripAgrees
  <2> QED
    BY <1>1, <1>2, <1>5, <1>7, <2>1
       DEF Underway, Ensuring, Cancelling, PlanAgrees, PlanRoutes, TripAgrees, PlanAsRead
<1> QED
  BY <1>1, <1>2, <1>5, <1>6, <1>7, StepKeeps

\* Whatever a lone request read of the trip, what it saves leaves a live one.
LEMMA SavedTripAgrees ==
  ASSUME IInv, NEW q \in Slots, at[q] = "ensureSave", local[q].route \in Routes,
         trip' = TripSaved(local[q].route, local[q].seen), UNCHANGED <<planStatus, status>>
  PROVE  /\ DocumentsTyped'
         /\ Underway(q) /\ OthersAgree(q) => \A s \in Routes : TripAgrees(s)'
<1> DEFINE r == local[q].route
<1>1. DocumentsTyped'
  BY DEF DocumentsTyped, IInv, TypeOK, TripSaved, TripStatus
<1>2. ASSUME Underway(q), OthersAgree(q), NEW s \in Routes PROVE TripAgrees(s)'
  <2>1. local[q].seen = trip[r] /\ status[r] \in Committed
    BY <1>2 DEF Underway, Ensuring
  <2>2. CASE s = r
    <3>1. trip'[r] \in Live
      BY <2>1 DEF TripSaved, IInv, TypeOK, TripStatus, Live
    <3> QED
      BY <2>1, <2>2, <3>1 DEF TripAgrees
  <2>3. CASE s # r
    <3>1. trip'[s] = trip[s]
      BY <2>3 DEF TripSaved, IInv, TypeOK
    <3> QED
      BY <1>2, <2>3, <3>1 DEF OthersAgree, TripAgrees
  <2> QED
    BY <2>2, <2>3
<1> QED
  BY <1>1, <1>2

LEMMA CreateTripKeeps ==
  ASSUME IInv, NEW q \in Slots, CreateTrip(q)
  PROVE  IInv'
<1> DEFINE r == local[q].route
<1>1. r \in Routes /\ at[q] = "ensureSave" /\ local[q].seen = "NONE" /\ local \in [Slots -> Local]
  BY DEF CreateTrip, IInv, TypeOK, LocalsInPlace, InPlace
<1>2. UNCHANGED <<planStatus, status, disturbed>>
  BY DEF CreateTrip
<1>3. CASE trip[r] = "NONE"
  <2>1. LeavesEnsure(q, local) /\ trip' = TripSaved(r, local[q].seen)
    BY <1>1, <1>3 DEF CreateTrip
  <2> QED
    BY <1>1, <1>2, <2>1, SavedTripAgrees, LeavesEnsureKeeps DEF Ensuring
<1>4. CASE trip[r] # "NONE"
  <2>1. Answers(q) /\ trip' = trip
    BY <1>4 DEF CreateTrip
  <2>2. ~Underway(q)
    BY <1>1, <1>4 DEF Underway, Ensuring
  <2> QED
    BY <1>1, <1>2, <2>1, <2>2, AnswersKeeps DEF DocumentsTyped, IInv, TypeOK
<1> QED
  BY <1>3, <1>4

LEMMA EnsureSaveKeeps ==
  ASSUME IInv, NEW q \in Slots, EnsureSave(q)
  PROVE  IInv'
<1> DEFINE r == local[q].route
<1>1. r \in Routes /\ at[q] = "ensureSave" /\ local \in [Slots -> Local]
  BY DEF EnsureSave, IInv, TypeOK, LocalsInPlace, InPlace
<1>2. UNCHANGED <<planStatus, status, disturbed>>
  BY DEF EnsureSave
<1>3. PICK differ \in BOOLEAN :
        IF differ /\ ~local[q].current
        THEN Answers(q) /\ UNCHANGED trip
        ELSE /\ LeavesEnsure(q, IF differ THEN Stale(r, q) ELSE local)
             /\ trip' = TripSaved(r, local[q].seen)
  BY DEF EnsureSave
<1>4. CASE differ /\ ~local[q].current
  <2>1. Answers(q) /\ trip' = trip
    BY <1>3, <1>4
  <2>2. ~Underway(q)
    BY <1>1, <1>4 DEF Underway, Ensuring
  <2> QED
    BY <1>1, <1>2, <2>1, <2>2, AnswersKeeps DEF DocumentsTyped, IInv, TypeOK
<1>5. CASE ~(differ /\ ~local[q].current)
  <2> DEFINE memory == IF differ THEN Stale(r, q) ELSE local
  <2>1. LeavesEnsure(q, memory) /\ trip' = TripSaved(r, local[q].seen)
    BY <1>3, <1>5
  <2>2. \A m \in Local : LET n == [m EXCEPT !.current = FALSE] IN
                           n \in Local /\ n.by = m.by /\ n.route = m.route
    BY DEF Local
  <2>3. /\ memory \in [Slots -> Local] /\ memory[q] = local[q]
        /\ \A p \in Slots : memory[p].by = local[p].by /\ memory[p].route = local[p].route
    BY <1>1, <2>2 DEF Stale
  <2> HIDE DEF memory
  <2> QED
    BY <1>1, <1>2, <2>1, <2>3, SavedTripAgrees, LeavesEnsureKeeps DEF Ensuring
<1> QED
  BY <1>4, <1>5

\* What cancelTripForRouteId leaves: a trip that cannot be started any more.
LEMMA AfterCancelKeeps ==
  ASSUME IInv, NEW q \in Slots, at[q] \in Cancelling, AfterCancel(q),
         UNCHANGED <<planStatus, status, disturbed>>, DocumentsTyped',
         trip'[local[q].route] \notin Startable,
         \A s \in Routes \ {local[q].route} : trip'[s] = trip[s]
  PROVE  IInv'
<1> DEFINE r == local[q].route
           by == local[q].by
<1>1. at[q] # "idle" /\ r \in Routes /\ by \in {"unlock", "remove"}
  BY DEF Cancelling, IInv, LocalsInPlace, InPlace
<1>2. ASSUME Underway(q), OthersAgree(q) PROVE PlanAgrees' /\ \A s \in Routes \ {r} : TripAgrees(s)'
  BY <1>2 DEF Underway, OthersAgree, PlanAgrees, PlanRoutes, TripAgrees
<1>3. CASE by = "unlock"
  <2>1. Answers(q)
    BY <1>3 DEF AfterCancel
  <2>2. ASSUME Underway(q), OthersAgree(q) PROVE Resting'
    <3>1. status'[r] = "PLANNED"
      BY <1>3, <2>2 DEF Underway
    <3>2. \A s \in Routes : TripAgrees(s)'
      BY <1>2, <2>2, <3>1 DEF TripAgrees, Committed
    <3> QED
      BY <1>2, <2>2, <3>2 DEF Resting
  <2> QED
    BY <1>1, <2>1, <2>2, AnswersKeeps
<1>4. CASE by = "remove"
  <2>1. GoesTo(q, "deleteRoute")
    BY <1>4 DEF AfterCancel
  <2>2. at'[q] = "deleteRoute" /\ local' = local
    BY <2>1 DEF GoesTo, IInv, TypeOK
  <2>3. InPlace(q)'
    BY <1>1, <1>4, <2>2 DEF InPlace, Ensuring, Cancelling
  <2>4. ASSUME Underway(q), OthersAgree(q) PROVE Underway(q)' /\ OthersAgree(q)'
    <3>1. PlanAsRead(q)' /\ status'[r] \in {"PLANNED", "LOCKED"} /\ OthersAgree(q)'
      BY <1>2, <1>4, <2>2, <2>4 DEF Underway, PlanAsRead, OthersAgree
    <3> QED
      BY <1>2, <2>2, <2>4, <3>1 DEF Underway, Ensuring, Cancelling
  <2> QED
    BY <1>1, <2>1, <2>3, <2>4, GoesToKeeps DEF Stage
<1> QED
  BY <1>1, <1>3, <1>4

LEMMA CancelReadKeeps ==
  ASSUME IInv, NEW q \in Slots, CancelRead(q)
  PROVE  IInv'
<1> DEFINE r == local[q].route
<1>1. at[q] = "cancelRead" /\ r \in Routes /\ local[q].by \in {"unlock", "remove"}
  BY DEF CancelRead, IInv, LocalsInPlace, InPlace, Cancelling
<1>2. UNCHANGED <<planStatus, status, trip, disturbed>> /\ DocumentsTyped'
  BY DEF CancelRead, documents, DocumentsTyped, IInv, TypeOK
<1>3. CASE trip[r] \in Startable
  <2>1. GoesTo(q, "cancelSave")
    BY <1>3 DEF CancelRead
  <2>2. at'[q] = "cancelSave" /\ local' = local
    BY <2>1 DEF GoesTo, IInv, TypeOK
  <2>3. InPlace(q)'
    BY <1>1, <2>2 DEF InPlace, Ensuring, Cancelling
  <2>4. ASSUME Underway(q), OthersAgree(q) PROVE Underway(q)' /\ OthersAgree(q)'
    BY <1>1, <1>2, <2>2, <2>4
       DEF Underway, OthersAgree, Ensuring, Cancelling, PlanAgrees, PlanRoutes, TripAgrees, PlanAsRead
  <2> QED
    BY <1>1, <1>2, <2>1, <2>3, <2>4, GoesToKeeps DEF Stage
<1>4. CASE trip[r] \notin Startable
  BY <1>1, <1>2, <1>4, AfterCancelKeeps DEF CancelRead, Cancelling
<1> QED
  BY <1>3, <1>4

LEMMA CancelSaveKeeps ==
  ASSUME IInv, NEW q \in Slots, CancelSave(q)
  PROVE  IInv'
<1> DEFINE r == local[q].route
<1>1. at[q] = "cancelSave" /\ r \in Routes /\ trip' = [trip EXCEPT ![r] = "CANCELLED"]
  BY DEF CancelSave, IInv, LocalsInPlace, InPlace
<1>2. UNCHANGED <<planStatus, status, disturbed>>
  BY DEF CancelSave
<1>3. DocumentsTyped'
  BY <1>1, <1>2 DEF DocumentsTyped, IInv, TypeOK, TripStatus
<1>4. trip'[r] \notin Startable /\ \A s \in Routes \ {r} : trip'[s] = trip[s]
  BY <1>1 DEF IInv, TypeOK, Startable
<1> QED
  BY <1>1, <1>2, <1>3, <1>4, AfterCancelKeeps DEF CancelSave, Cancelling

LEMMA DeleteRouteKeeps ==
  ASSUME IInv, NEW q \in Slots, DeleteRoute(q)
  PROVE  IInv'
<1> DEFINE r == local[q].route
<1>1. at[q] = "deleteRoute" /\ r \in Routes /\ local[q].by = "remove"
  BY DEF DeleteRoute, IInv, LocalsInPlace, InPlace
<1>2. /\ status' = [status EXCEPT ![r] = "DELETED"] /\ GoesTo(q, "readRoutes")
      /\ UNCHANGED <<planStatus, trip, disturbed>>
  BY DEF DeleteRoute
<1>3. DocumentsTyped' /\ \A s \in Routes : status'[s] = IF s = r THEN "DELETED" ELSE status[s]
  BY <1>1, <1>2 DEF DocumentsTyped, IInv, TypeOK
<1>4. at'[q] = "readRoutes" /\ local' = local
  BY <1>2 DEF GoesTo, IInv, TypeOK
<1>5. InPlace(q)'
  BY <1>1, <1>4 DEF InPlace, Ensuring, Cancelling
<1>6. ASSUME Underway(q), OthersAgree(q) PROVE Underway(q)' /\ OthersAgree(q)'
  <2>1. PlanAgrees /\ PlanAsRead(q) /\ trip[r] \notin Startable
    BY <1>1, <1>6 DEF Underway
  <2>2. PlanAgrees' /\ PlanAsRead(q)'
    BY <1>2, <1>3, <1>4, <2>1 DEF PlanAgrees, PlanAsRead, PlanRoutes, RouteStatus
  <2>3. TripAgrees(r)' /\ OthersAgree(q)'
    BY <1>1, <1>2, <1>3, <1>4, <1>6, <2>1 DEF TripAgrees, OthersAgree, Committed
  <2> QED
    BY <1>1, <1>4, <2>2, <2>3 DEF Underway, Ensuring, Cancelling
<1> QED
  BY <1>1, <1>2, <1>3, <1>5, <1>6, GoesToKeeps DEF Stage

LEMMA ReadRoutesKeeps ==
  ASSUME IInv, NEW q \in Slots, ReadRoutes(q)
  PROVE  IInv'
<1> DEFINE r == local[q].route
           by == local[q].by
           saves == Concludes(by) /\ local[q].plan # PlanBecomes[by]
<1>1. r \in Routes /\ at[q] = "readRoutes" /\ by \in {"remove", "finalize"}
  BY DEF ReadRoutes, IInv, LocalsInPlace, InPlace
<1>2. UNCHANGED <<planStatus, status, trip, disturbed>> /\ DocumentsTyped'
  BY DEF ReadRoutes, documents, DocumentsTyped, IInv, TypeOK
<1>3. CASE saves
  <2>1. GoesTo(q, "savePlan")
    BY <1>3 DEF ReadRoutes
  <2>2. at'[q] = "savePlan" /\ local' = local
    BY <2>1 DEF GoesTo, IInv, TypeOK
  <2>3. InPlace(q)'
    BY <1>1, <2>2 DEF InPlace, Ensuring, Cancelling
  <2>4. ASSUME Underway(q), OthersAgree(q) PROVE Underway(q)' /\ OthersAgree(q)'
    <3>1. TripAgrees(r)' /\ OthersAgree(q)'
      BY <1>1, <1>2, <2>2, <2>4 DEF Underway, OthersAgree, TripAgrees
    <3>2. by = "remove" => \A s \in PlanRoutes' : status'[s] = "PLANNED"
      BY <1>2, <1>3 DEF Concludes, PlanRoutes, RouteStatus, Committed
    <3>3. by = "finalize" => PlanRoutes' # {} /\ \A s \in PlanRoutes' : status'[s] = "FINALIZED"
      BY <1>2, <1>3 DEF Concludes, PlanRoutes
    <3> QED
      BY <1>1, <2>2, <3>1, <3>2, <3>3 DEF Underway, Ensuring, Cancelling
  <2> QED
    BY <1>1, <1>2, <2>1, <2>3, <2>4, GoesToKeeps DEF Stage
<1>4. CASE ~saves
  <2>1. Answers(q)
    BY <1>4 DEF ReadRoutes
  <2>2. ASSUME Underway(q), OthersAgree(q) PROVE Resting'
    BY <1>1, <1>2, <2>2 DEF Underway, OthersAgree, Resting, PlanAgrees, PlanRoutes, TripAgrees
  <2> QED
    BY <1>1, <1>2, <2>1, <2>2, AnswersKeeps
<1> QED
  BY <1>3, <1>4

LEMMA SavePlanKeeps ==
  ASSUME IInv, NEW q \in Slots, SavePlan(q)
  PROVE  IInv'
<1> DEFINE r == local[q].route
           by == local[q].by
<1>1. r \in Routes /\ at[q] = "savePlan" /\ by \in {"lock", "remove", "finalize"}
  BY DEF SavePlan, IInv, LocalsInPlace, InPlace
<1>2. planStatus' = PlanBecomes[by] /\ UNCHANGED <<status, trip, disturbed>>
  BY DEF SavePlan
<1>3. DocumentsTyped'
  BY <1>1, <1>2 DEF DocumentsTyped, IInv, TypeOK, PlanBecomes, PlanStatus
<1>4. ASSUME Underway(q), OthersAgree(q) PROVE Resting'
  <2>1. PlanAgrees'
    BY <1>1, <1>2, <1>4 DEF Underway, PlanAgrees, PlanRoutes, PlanBecomes
  <2> QED
    BY <1>1, <1>2, <1>4, <2>1 DEF Underway, OthersAgree, Resting, TripAgrees
<1> QED
  BY <1>1, <1>2, <1>3, <1>4, AnswersKeeps DEF SavePlan

LEMMA DriverSaveKeeps ==
  ASSUME IInv, NEW q \in Slots, DriverSave(q)
  PROVE  IInv'
<1> DEFINE r == local[q].route
<1>1. r \in Routes /\ at[q] = "driverSave" /\ local[q].seen \in TripStatus
  BY DEF DriverSave, IInv, LocalsInPlace, InPlace, TypeOK, Local
<1>2. trip' = [trip EXCEPT ![r] = local[q].seen] /\ UNCHANGED <<planStatus, status, disturbed>>
  BY DEF DriverSave
<1>3. DocumentsTyped' /\ \A s \in Routes : trip'[s] = IF s = r THEN local[q].seen ELSE trip[s]
  BY <1>1, <1>2 DEF DocumentsTyped, IInv, TypeOK
<1>4. ASSUME Underway(q), OthersAgree(q) PROVE Resting'
  <2>1. PlanAgrees /\ status[r] \in Committed /\ local[q].seen \in Live
    BY <1>1, <1>4 DEF Underway, TripAgrees
  <2>2. \A s \in Routes : TripAgrees(s)'
    BY <1>2, <1>3, <1>4, <2>1 DEF TripAgrees, OthersAgree
  <2> QED
    BY <1>2, <2>1, <2>2 DEF Resting, PlanAgrees, PlanRoutes
<1> QED
  BY <1>1, <1>2, <1>3, <1>4, AnswersKeeps DEF DriverSave

-----------------------------------------------------------------------------
(* The theorems.                                                           *)

LEMMA InitIInv == Init => IInv
<1> SUFFICES ASSUME Init PROVE IInv
  OBVIOUS
<1>1. TypeOK
  BY BlankTyped DEF Init, TypeOK, PlanStatus, RouteStatus, TripStatus, Stage
<1>2. \A q \in Slots : at[q] = "idle"
  BY DEF Init
<1>3. LocalsInPlace
  BY <1>2 DEF LocalsInPlace, InPlace, Ensuring, Cancelling
<1>4. Resting
  BY DEF Init, Resting, PlanAgrees, PlanRoutes, RouteStatus, TripAgrees, Committed, Startable
<1> QED
  BY <1>1, <1>2, <1>3, <1>4 DEF IInv, Serial, Alone

LEMMA NextKeeps == IInv /\ [Next]_vars => IInv'
<1> SUFFICES ASSUME IInv, [Next]_vars PROVE IInv'
  OBVIOUS
<1>1. ASSUME NEW q \in Requests, NEW r \in Routes,
             \/ LockRoute(q, r) \/ UnlockRoute(q, r) \/ FinalizeRoute(q, r)
             \/ RemoveRoute(q, r) \/ AddRoute(q, r)
             \/ \E to \in TripStatus : DriverRequest(q, r, to)
      PROVE  IInv'
  BY <1>1, ReadPlanKeeps, UnlockRouteKeeps, AddRouteKeeps, DriverRequestKeeps
<1>2. ASSUME NEW q \in Requests, Fails(q) PROVE IInv'
  BY <1>2, FailsKeeps
<1>3. ASSUME NEW q \in Slots, Continues(q) PROVE IInv'
  BY <1>3, CreateRouteKeeps, ReadRouteKeeps, SaveStatusKeeps, EnsureRouteKeeps, EnsureTripKeeps,
     CreateTripKeeps, EnsureSaveKeeps, CancelReadKeeps, CancelSaveKeeps, DeleteRouteKeeps,
     ReadRoutesKeeps, SavePlanKeeps, DriverSaveKeeps
     DEF Continues
<1>4. CASE UNCHANGED vars
  BY <1>4 DEF vars, documents, IInv, TypeOK, LocalsInPlace, InPlace, Serial, Alone, Resting, OthersAgree,
     Underway, PlanAsRead, PlanAgrees, PlanRoutes, TripAgrees
<1> QED
  BY <1>1, <1>2, <1>3, <1>4, ListTripsKeeps DEF Next

LEMMA Invariance == Spec => []IInv
  BY InitIInv, NextKeeps, PTL DEF Spec

\* The documents and what the handlers of routePlanController, tripService and
\* tripController remember at their awaits have their types.
THEOREM Types == Spec => []TypeOK
<1>1. IInv => TypeOK
  BY DEF IInv
<1> QED
  BY <1>1, Invariance, PTL

\* Served one at a time and to the end, lockRoute, unlockRoute, finalizeRoute,
\* removeRoute, addRoute, the trip lists and the driver's saves leave the plan's
\* status, its routes and their trips in agreement, for any number of routes and
\* of requests: a disagreement takes two that overlap, or one that fails half-way.
THEOREM SerialAgreement == Spec => []SerialRequestsAgree
<1>1. IInv => SerialRequestsAgree
  BY DEF IInv, Serial, Resting, SerialRequestsAgree
<1> QED
  BY <1>1, Invariance, PTL

=============================================================================
