-------------------------- MODULE OptimizeRace_proofs --------------------------
(***************************************************************************)
(* Proofs about OptimizeRace, for any number of orders, plans, vehicles,   *)
(* drivers, routes and requests.  The argument is the same three times:    *)
(* Watch puts in the history what two requests have in memory at the same  *)
(* time, so whatever is not in the history is in at most one memory, and   *)
(* what that memory says of it is still what the documents say.            *)
(***************************************************************************)
EXTENDS OptimizeRace, FiniteSetTheorems, TLAPS

-----------------------------------------------------------------------------
(* What requests have in memory.                                           *)

Planning == {"release", "drop", "pool", "create", "save", "mark"}
Locking == {"lockSave", "lockOrders"}
Dispatching == {"clear", "dispatch"}

\* A request for one plan works on that plan's routes, and never on an id not used yet.
Memory(q) ==
  /\ at[q] \in Planning \cup Locking \cup Dispatching \cup {"assign"} => local[q].plan \in Plans
  /\ at[q] \in Locking \cup {"assign"} =>
       local[q].id \in Routes /\ route[local[q].id].status # "UNUSED"
         /\ route[local[q].id].plan = local[q].plan
  /\ at[q] \in Locking => local[q].hand = route[local[q].id].load
  /\ at[q] \in Dispatching => \A r \in local[q].open :
       route[r].status # "UNUSED" /\ route[r].plan = local[q].plan
  /\ at[q] \in {"release", "drop"} => \A r \in local[q].reset :
       route[r].status # "UNUSED" /\ route[r].load \subseteq local[q].hand
  /\ at[q] \in {"release", "drop", "pool"} => local[q].made = {}
  /\ at[q] \in {"idle", "count", "assign", "clear", "dispatch"} => local[q].hand = {}

\* The packing in memory: every order on one vehicle, those on routes already on none.
Packing(q) ==
  at[q] \in {"create", "save", "mark"} =>
    /\ local[q].made \subseteq local[q].hand
    /\ \A v \in Vehicles : local[q].todo[v] \subseteq local[q].hand \ local[q].made
    /\ \A v, w \in Vehicles : v # w => local[q].todo[v] \cap local[q].todo[w] = {}

Filed == \A r \in Routes : Stored(r) => route[r].plan \in Plans /\ route[r].vehicle \in Vehicles

Memories == Filed /\ \A q \in Requests : Memory(q) /\ Packing(q)

-----------------------------------------------------------------------------
(* The numbers of plans.                                                   *)

Count == Cardinality({p \in Plans : code[p] # 0})

Numbered ==
  ~recounted =>
    /\ \A p \in Plans : code[p] <= Count
    /\ \A p, q \in Plans : p # q /\ code[p] # 0 => code[p] # code[q]
    /\ \A q, s \in Requests : at[q] = "count" /\ at[s] = "count" => q = s
    /\ \A q \in Requests : at[q] = "count" => local[q].count = Count

-----------------------------------------------------------------------------
(* The drivers of a plan.                                                  *)

\* Two requests on one plan are in the history.
Apart ==
  \A q, s \in Requests : q # s /\ local[q].plan = local[s].plan /\ local[q].plan \in Plans
    => local[q].plan \in crowded

\* The drivers of the plan's routes, but for those in R, are used in q's memory.
Knows(q, R) ==
  \A r \in Routes \ R : Stored(r) /\ route[r].plan = local[q].plan
    => route[r].driver \in local[q].used \cup {None}

Informed(q) ==
  local[q].plan \notin crowded =>
    /\ at[q] \in {"release", "drop", "clear"} => Knows(q, local[q].reset)
    /\ at[q] \in {"pool", "create", "save", "dispatch"} => Knows(q, {})
    /\ at[q] = "lockSave" => \A r \in Routes \ {local[q].id} :
         Stored(r) /\ route[r].plan = local[q].plan
           => route[r].driver = None \/ route[r].driver # local[q].driver

Staffed == Apart /\ (\A q \in Requests : Informed(q)) /\ OneRoutePerDriver

-----------------------------------------------------------------------------
(* The orders.                                                             *)

\* An order in the hands of two requests is in the history.
Disjoint ==
  \A q, s \in Requests : q # s => local[q].hand \cap local[s].hand \subseteq contested

Free(o) == Carrying(o) = {} /\ planning[o] = "PENDING"
OnOne(o) == \E r \in Routes : Carrying(o) = {r} /\ planning[o] = route[r].status

\* An order in one hand is as far as the request that holds it.
Held(q, o) ==
  /\ at[q] \in {"release", "drop"} => Carrying(o) \subseteq local[q].reset
  /\ at[q] = "drop" => planning[o] = "PENDING"
  /\ at[q] = "pool" => Free(o)
  /\ at[q] \in {"create", "save", "mark"} =>
       IF o \in local[q].made THEN \E r \in Routes : Carrying(o) = {r} /\ route[r].status = "PLANNED"
                              ELSE Free(o)
  /\ at[q] = "lockSave" => Carrying(o) = {local[q].id} /\ planning[o] = "PLANNED"
  /\ at[q] = "lockOrders" => /\ Carrying(o) = {local[q].id} /\ planning[o] = "PLANNED"
                             /\ route[local[q].id].status = "LOCKED"

Ordered ==
  /\ Disjoint
  /\ \A o \in Orders \ contested :
       /\ ~InHand(o) => Free(o) \/ OnOne(o)
       /\ \A q \in Requests : o \in local[q].hand => Held(q, o)

IInv == TypeOK /\ Memories /\ Numbered /\ Staffed /\ Ordered

-----------------------------------------------------------------------------
(* One step: what moves and what stays.                                    *)

Moved(q, stage, memory) ==
  /\ at' = [at EXCEPT ![q] = stage]
  /\ local' = [local EXCEPT ![q] = memory]

Others(q) == \A s \in Requests \ {q} : at'[s] = at[s] /\ local'[s] = local[s]

\* Routes are neither renamed nor reloaded, and their ids never used again.
RoutesKept ==
  \A r \in Routes : route[r].status # "UNUSED" =>
    route'[r].status # "UNUSED" /\ route'[r].plan = route[r].plan /\ route'[r].load = route[r].load

\* Plan p gets no route and no driver.
DriversKept(p) ==
  \A r \in Routes : Stored(r)' /\ route'[r].plan = p =>
    Stored(r) /\ route[r].plan = p /\ route'[r].driver \in {route[r].driver, None}

\* OneRoutePerDriver, of one plan.
PlanStaffed(p) ==
  \A r, s \in Routes :
    (r # s /\ Stored(r) /\ Stored(s) /\ route[r].plan = p /\ route[s].plan = p
       /\ route[r].driver = route[s].driver /\ route[r].driver # None)
      => p \in crowded \/ r \in byHand \/ s \in byHand

\* Neither order o nor a route that carries it changes.
Untouched(o) ==
  /\ Carrying(o)' = Carrying(o) /\ planning'[o] = planning[o]
  /\ \A r \in Carrying(o) : route'[r].status = route[r].status

\* What the histories say after a step.
HistoryGrows ==
  /\ contested \subseteq contested' /\ crowded \subseteq crowded' /\ byHand \subseteq byHand'
  /\ Apart' /\ Disjoint'

LEMMA BlankIsLocal == Blank \in Local
BY DEF Blank, Local

LEMMA MovedTo ==
  ASSUME TypeOK, NEW q \in Requests, NEW stage \in Stage, NEW memory \in Local,
         Moved(q, stage, memory)
  PROVE  /\ at' \in [Requests -> Stage] /\ local' \in [Requests -> Local]
         /\ at'[q] = stage /\ local'[q] = memory /\ Others(q)
BY DEF TypeOK, Moved, Others

LEMMA WatchTypes ==
  ASSUME TypeOK, Watch
  PROVE  /\ contested' \in SUBSET Orders /\ crowded' \in SUBSET Plans
         /\ contested \subseteq contested' /\ crowded \subseteq crowded'
BY DEF TypeOK, Watch

LEMMA WatchHistory ==
  ASSUME TypeOK, TypeOK', Watch, byHand \subseteq byHand'
  PROVE  HistoryGrows
<1>1. \A q \in Requests : local'[q].hand \subseteq Orders
  BY DEF TypeOK, Local
<1>2. Disjoint'
  BY <1>1 DEF Watch, Disjoint
<1>3. Apart'
  BY DEF Watch, Apart
<1> QED
  BY <1>2, <1>3, WatchTypes DEF HistoryGrows

LEMMA RoutesStay ==
  ASSUME route' = route
  PROVE  RoutesKept /\ (Filed => Filed') /\ \A p \in Plans : DriversKept(p)
BY DEF RoutesKept, DriversKept, Filed, Stored

\* The driver and the vehicle of a route are nothing to its orders.
LEMMA LoadsStay ==
  ASSUME planning' = planning,
         \A r \in Routes : route'[r].status = route[r].status /\ route'[r].load = route[r].load
  PROVE  \A o \in Orders : Untouched(o)
BY DEF Untouched, Carrying, Stored

\* What the other requests have in memory stays true of their routes.
LEMMA OthersRemember ==
  ASSUME IInv, TypeOK', RoutesKept, Filed', NEW q \in Requests, Others(q), Memory(q)', Packing(q)'
  PROVE  Memories'
<1> SUFFICES ASSUME NEW s \in Requests \ {q} PROVE Memory(s)' /\ Packing(s)'
  BY DEF Memories
<1>1. Memory(s) /\ Packing(s) /\ at'[s] = at[s] /\ local'[s] = local[s]
  BY DEF IInv, Memories, Others
<1>2. local[s].open \subseteq Routes /\ local[s].reset \subseteq Routes
  BY DEF IInv, TypeOK, Local
<1>3. Packing(s)'
  BY <1>1 DEF Packing
<1>4. Memory(s)'
  BY <1>1, <1>2 DEF Memory, RoutesKept
<1> QED
  BY <1>3, <1>4

\* Nor does the driver of another plan's route become one they know nothing of.
LEMMA OthersInformed ==
  ASSUME IInv, TypeOK', HistoryGrows, NEW q \in Requests, Others(q), Informed(q)',
         \A p \in Plans : DriversKept(p) \/ (p = local[q].plan /\ PlanStaffed(p)'), Filed'
  PROVE  Staffed'
<1>1. ASSUME NEW s \in Requests \ {q} PROVE Informed(s)'
  <2>1. Informed(s) /\ Memory(s) /\ at'[s] = at[s] /\ local'[s] = local[s]
    BY DEF IInv, Memories, Staffed, Others
  <2> SUFFICES ASSUME local[s].plan \notin crowded' PROVE Informed(s)'
    BY <2>1 DEF Informed
  <2>2. CASE local[s].plan \notin Plans
    BY <2>1, <2>2 DEF Informed, Memory, Planning, Locking, Dispatching
  <2>3. CASE local[s].plan \in Plans
    <3>1. local[s].plan # local[q].plan
      BY <2>3 DEF IInv, Staffed, Apart, HistoryGrows
    <3>2. DriversKept(local[s].plan) /\ local[s].plan \notin crowded
      BY <2>3, <3>1 DEF HistoryGrows
    <3>3. ASSUME NEW R, Knows(s, R) PROVE Knows(s, R)'
      BY <2>1, <3>2, <3>3 DEF Knows, DriversKept
    <3> QED
      BY <2>1, <3>2, <3>3 DEF Informed, DriversKept
  <2> QED
    BY <2>2, <2>3
<1>2. OneRoutePerDriver'
  <2> SUFFICES ASSUME NEW r \in Routes, NEW s \in Routes, r # s, Stored(r)', Stored(s)',
                      route'[r].plan = route'[s].plan, route'[r].driver = route'[s].driver,
                      route'[r].driver # None
               PROVE  route'[r].plan \in crowded' \/ r \in byHand' \/ s \in byHand'
    BY DEF OneRoutePerDriver
  <2>1. PICK p \in Plans : p = route'[r].plan
    BY DEF Filed
  <2>2. CASE DriversKept(p)
    BY <2>1, <2>2 DEF DriversKept, IInv, Staffed, OneRoutePerDriver, HistoryGrows
  <2>3. CASE PlanStaffed(p)'
    BY <2>1, <2>3 DEF PlanStaffed
  <2> QED
    BY <2>2, <2>3
<1> QED
  BY <1>1, <1>2 DEF Staffed, HistoryGrows

\* Nor is an order touched that is in other hands, unless the history says so.
LEMMA OthersHold ==
  ASSUME IInv, TypeOK', HistoryGrows, NEW q \in Requests, Others(q),
         \A o \in Orders \ contested' :
           /\ o \notin local[q].hand \cup local'[q].hand => Untouched(o)
           /\ o \in local'[q].hand => Held(q, o)'
           /\ o \in local[q].hand \ local'[q].hand => Free(o)' \/ OnOne(o)'
  PROVE  Ordered'
<1> SUFFICES ASSUME NEW o \in Orders \ contested'
             PROVE  /\ ~InHand(o)' => Free(o)' \/ OnOne(o)'
                    /\ \A s \in Requests : o \in local'[s].hand => Held(s, o)'
  BY DEF Ordered, HistoryGrows
<1>1. o \notin contested
  BY DEF HistoryGrows
<1>2. ASSUME ~InHand(o)' PROVE Free(o)' \/ OnOne(o)'
  <2>1. o \notin local'[q].hand
    BY <1>2 DEF InHand
  <2>2. CASE o \in local[q].hand
    BY <2>1, <2>2
  <2>3. CASE o \notin local[q].hand
    <3>1. Untouched(o)
      BY <2>1, <2>3
    <3>2. ~InHand(o)
      BY <1>2, <2>3 DEF InHand, Others
    <3>3. Free(o) \/ OnOne(o)
      BY <1>1, <3>2 DEF IInv, Ordered
    <3>4. CASE Free(o)
      BY <3>1, <3>4 DEF Free, Untouched
    <3>5. CASE OnOne(o)
      BY <3>1, <3>5 DEF OnOne, Untouched
    <3> QED
      BY <3>3, <3>4, <3>5
  <2> QED
    BY <2>2, <2>3
<1>3. ASSUME NEW s \in Requests, o \in local'[s].hand PROVE Held(s, o)'
  <2>1. CASE s = q
    BY <1>3, <2>1
  <2>2. CASE s # q
    <3>1. at'[s] = at[s] /\ local'[s] = local[s]
      BY <2>2 DEF Others
    <3>2. o \notin local'[q].hand
      BY <1>3, <2>2 DEF HistoryGrows, Disjoint
    <3>3. o \notin local[q].hand
      BY <1>1, <1>3, <2>2, <3>1 DEF IInv, Ordered, Disjoint
    <3>4. Untouched(o) /\ Held(s, o)
      BY <1>1, <1>3, <3>1, <3>2, <3>3 DEF IInv, Ordered
    <3>5. Free(o) => Free(o)'
      BY <3>4 DEF Free, Untouched
    <3> QED
      BY <3>1, <3>4, <3>5 DEF Held, Untouched
  <2> QED
    BY <2>1, <2>2
<1> QED
  BY <1>2, <1>3

\* Only requests that count and the documents of plans bear on the numbers.
LEMMA NumbersStay ==
  ASSUME IInv, NEW q \in Requests, Others(q), at'[q] # "count",
         code' = code, recounted' = recounted
  PROVE  Numbered'
<1>1. Count' = Count
  BY DEF Count
<1> QED
  BY <1>1 DEF IInv, Numbered, Others

-----------------------------------------------------------------------------
(* Every step of a request.                                                *)

LEMMA WatchedStep ==
  ASSUME IInv, NEW q \in Requests, NEW stage \in Stage, NEW memory \in Local,
         Moved(q, stage, memory), Watch,
         code' \in [Plans -> Nat], planning' \in [Orders -> {"PENDING", "PLANNED", "LOCKED"}],
         route' \in [Routes -> DeliveryRoute],
         byHand \subseteq byHand', byHand' \in SUBSET Routes, recounted' \in BOOLEAN
  PROVE  /\ TypeOK' /\ HistoryGrows
         /\ Others(q) /\ at'[q] = stage /\ local'[q] = memory
<1>1. TypeOK
  BY DEF IInv
<1>2. /\ at' \in [Requests -> Stage] /\ local' \in [Requests -> Local]
      /\ at'[q] = stage /\ local'[q] = memory /\ Others(q)
  BY <1>1, MovedTo
<1>3. contested' \in SUBSET Orders /\ crowded' \in SUBSET Plans
  BY <1>1, WatchTypes
<1>4. TypeOK'
  BY <1>2, <1>3 DEF TypeOK
<1> QED
  BY <1>1, <1>2, <1>4, WatchHistory

\* An order that a request has newly in hand agreed with its route.
LEMMA NewlyHeld ==
  ASSUME IInv, HistoryGrows, NEW q \in Requests, Others(q), NEW o \in Orders \ contested',
         o \in local'[q].hand, o \notin local[q].hand
  PROVE  Free(o) \/ OnOne(o)
<1>1. ~InHand(o)
  BY DEF InHand, Others, HistoryGrows, Disjoint
<1> QED
  BY <1>1 DEF HistoryGrows, IInv, Ordered

\* A step that writes no document.
LEMMA ReadStep ==
  ASSUME IInv, NEW q \in Requests, NEW stage \in Stage, NEW memory \in Local,
         Moved(q, stage, memory), Watch, UNCHANGED <<documents, byHand>>, recounted' \in BOOLEAN,
         stage # "count" => recounted' = recounted,
         stage = "count" => Numbered',
         Memory(q)', Packing(q)', Informed(q)',
         \A o \in Orders \ contested' :
           /\ o \in memory.hand => Held(q, o)'
           /\ o \in local[q].hand \ memory.hand => Free(o) \/ OnOne(o)
  PROVE  IInv'
<1>1. /\ code' = code /\ planning' = planning /\ route' = route /\ byHand' = byHand
      /\ TypeOK /\ Filed
  BY DEF documents, IInv, Memories
<1>2. /\ TypeOK' /\ HistoryGrows
      /\ Others(q) /\ at'[q] = stage /\ local'[q] = memory
  BY <1>1, WatchedStep DEF TypeOK
<1>3. RoutesKept /\ Filed' /\ \A p \in Plans : DriversKept(p)
  BY <1>1, RoutesStay
<1>4. \A o \in Orders : Untouched(o)
  BY <1>1, LoadsStay
<1>5. \A o \in Orders : (Free(o) \/ OnOne(o)) => (Free(o)' \/ OnOne(o)')
  BY <1>1, <1>4 DEF Free, OnOne, Untouched
<1>6. Memories'
  BY <1>2, <1>3, OthersRemember
<1>7. Staffed'
  BY <1>2, <1>3, OthersInformed
<1>8. Ordered'
  BY <1>2, <1>4, <1>5, OthersHold
<1>9. Numbered'
  BY <1>1, <1>2, NumbersStay
<1> QED
  BY <1>2, <1>6, <1>7, <1>8, <1>9 DEF IInv

\* A step that writes documents, but no plan.
LEMMA WriteStep ==
  ASSUME IInv, NEW q \in Requests, NEW stage \in Stage, NEW memory \in Local,
         Moved(q, stage, memory), Watch, stage # "count", code' = code, recounted' = recounted,
         planning' \in [Orders -> {"PENDING", "PLANNED", "LOCKED"}],
         route' \in [Routes -> DeliveryRoute],
         byHand \subseteq byHand', byHand' \in SUBSET Routes,
         RoutesKept, Filed', Memory(q)', Packing(q)', Informed(q)',
         \A p \in Plans : DriversKept(p) \/ (p = local[q].plan /\ PlanStaffed(p)'),
         \A o \in Orders \ contested' :
           /\ o \notin local[q].hand \cup memory.hand => Untouched(o)
           /\ o \in memory.hand => Held(q, o)'
           /\ o \in local[q].hand \ memory.hand => Free(o)' \/ OnOne(o)'
  PROVE  IInv'
<1>1. /\ TypeOK' /\ HistoryGrows
      /\ Others(q) /\ at'[q] = stage /\ local'[q] = memory
  BY WatchedStep DEF IInv, TypeOK
<1>2. Memories'
  BY <1>1, OthersRemember
<1>3. Staffed'
  BY <1>1, OthersInformed
<1>4. Ordered'
  BY <1>1, OthersHold
<1>5. Numbered'
  BY <1>1, NumbersStay
<1> QED
  BY <1>1, <1>2, <1>3, <1>4, <1>5 DEF IInv

-----------------------------------------------------------------------------
(* Plans.                                                                  *)

LEMMA CountIsNat == Count \in Nat /\ IsFiniteSet({p \in Plans : code[p] # 0})
<1>1. IsFiniteSet({p \in Plans : code[p] # 0})
  BY PlansAssumption, FS_Subset
<1> QED
  BY <1>1, FS_CardinalityType DEF Count

\* A request that counts is alone with the number it has read, or the history says so.
LEMMA CreatePlanCountsStep ==
  ASSUME IInv, NEW q \in Requests, CreatePlanCounts(q)
  PROVE  IInv'
<1> DEFINE memory == [Blank EXCEPT !.count = SameDayCount]
<1>1. memory \in Local /\ memory.count = Count /\ memory.hand = {} /\ memory.plan = None
  BY CountIsNat, BlankIsLocal DEF Blank, Local, SameDayCount, Count
<1>2. Moved(q, "count", memory) /\ at[q] = "idle" /\ Watch /\ UNCHANGED <<documents, byHand>>
  BY DEF CreatePlanCounts, Arrives, Moved
<1>3. recounted' \in BOOLEAN /\ recounted' = (recounted \/ \E p \in Requests : at[p] = "count")
  BY DEF CreatePlanCounts, IInv, TypeOK
<1> HIDE DEF memory
<1>4. at'[q] = "count" /\ local'[q] = memory /\ Others(q)
  BY <1>1, <1>2, MovedTo DEF IInv, Stage
<1>5. local[q].hand = {}
  BY <1>2 DEF IInv, Memories, Memory
<1>6. Memory(q)' /\ Packing(q)' /\ Informed(q)'
  BY <1>1, <1>4 DEF Memory, Packing, Informed, Planning, Locking, Dispatching
<1>7. Numbered'
  <2>1. code' = code /\ Count' = Count
    BY <1>2 DEF documents, Count
  <2> QED
    BY <1>1, <1>3, <1>4, <2>1 DEF Numbered, IInv, Others
<1> QED
  BY <1>1, <1>2, <1>3, <1>5, <1>6, <1>7, ReadStep DEF Stage

\* The new plan's number is above all others, if nobody else counted meanwhile.
LEMMA CreatePlanStep ==
  ASSUME IInv, NEW q \in Requests, NEW p \in Plans, CreatePlan(q, p)
  PROVE  IInv'
<1>1. Moved(q, "idle", Blank) /\ Watch /\ at[q] = "count" /\ code[p] = 0
  BY DEF CreatePlan, Answers, Goes, Moved
<1>2. /\ code' = [code EXCEPT ![p] = local[q].count + 1] /\ planning' = planning
      /\ route' = route /\ byHand' = byHand /\ recounted' = recounted
  BY DEF CreatePlan
<1>3. code \in [Plans -> Nat] /\ local[q].count \in Nat /\ local[q].hand = {}
  BY <1>1 DEF IInv, TypeOK, Local, Memories, Memory
<1>4. code' \in [Plans -> Nat]
  BY <1>2, <1>3
<1>5. /\ TypeOK' /\ HistoryGrows
      /\ Others(q) /\ at'[q] = "idle" /\ local'[q] = Blank
  BY <1>1, <1>2, <1>4, BlankIsLocal, WatchedStep DEF IInv, TypeOK, Stage
<1>6. Blank.hand = {} /\ Blank.made = {}
  BY DEF Blank
<1>7. Memory(q)' /\ Packing(q)' /\ Informed(q)'
  BY <1>5, <1>6 DEF Memory, Packing, Informed, Planning, Locking, Dispatching
<1>8. RoutesKept /\ Filed' /\ \A x \in Plans : DriversKept(x)
  BY <1>2, RoutesStay DEF IInv, Memories
<1>9. \A o \in Orders : Untouched(o)
  BY <1>2, LoadsStay
<1>10. Memories' /\ Staffed'
  BY <1>5, <1>7, <1>8, OthersRemember, OthersInformed
<1>11. Ordered'
  BY <1>3, <1>5, <1>6, <1>9, OthersHold
<1>12. Numbered'
  <2> SUFFICES ASSUME ~recounted PROVE Numbered'
    BY <1>2 DEF Numbered
  <2>1. /\ \A x \in Plans : code[x] <= Count
        /\ \A x, y \in Plans : x # y /\ code[x] # 0 => code[x] # code[y]
        /\ \A s \in Requests : at[s] = "count" => s = q
        /\ local[q].count = Count
    BY <1>1 DEF IInv, Numbered
  <2> DEFINE used == {x \in Plans : code[x] # 0}
  <2>2. {x \in Plans : code'[x] # 0} = used \cup {p}
    BY <1>2, <1>3
  <2>3. p \notin used /\ IsFiniteSet(used) /\ Count = Cardinality(used) /\ Count \in Nat
    BY <1>1, CountIsNat DEF Count
  <2> HIDE DEF used
  <2>4. Count' = Count + 1
    BY <2>2, <2>3, FS_AddElement DEF Count
  <2>5. code'[p] = Count + 1 /\ \A x \in Plans \ {p} : code'[x] = code[x] /\ code[x] \in Nat
    BY <1>2, <1>3, <2>1
  <2>6. \A s \in Requests : at'[s] # "count"
    BY <1>5, <2>1 DEF Others
  <2>7. \A x \in Plans : code'[x] <= Count'
    BY <2>1, <2>3, <2>4, <2>5
  <2>8. \A x, y \in Plans : x # y /\ code'[x] # 0 => code'[x] # code'[y]
    BY <2>1, <2>3, <2>5
  <2> QED
    BY <2>6, <2>7, <2>8 DEF Numbered
<1> QED
  BY <1>5, <1>10, <1>11, <1>12 DEF IInv

\* A deleted plan takes its orders back; those somebody holds are in the history.
LEMMA DeletePlanStep ==
  ASSUME IInv, NEW p \in Plans, DeletePlan(p)
  PROVE  IInv'
<1>1. /\ code' = [code EXCEPT ![p] = 0] /\ recounted' = TRUE
      /\ planning' = [o \in Orders |->
           IF \E r \in RoutesOf(p) : o \in route[r].load /\ route[r].status = planning[o]
             THEN "PENDING" ELSE planning[o]]
      /\ route' = [r \in Routes |->
           IF r \in RoutesOf(p) THEN [route[r] EXCEPT !.status = "DELETED"] ELSE route[r]]
      /\ contested' = contested \cup
           {o \in LoadOf(RoutesOf(p)) : \E q \in Requests : o \in local[q].hand}
      /\ UNCHANGED <<at, local, crowded, byHand>>
  BY DEF DeletePlan
<1>2. TypeOK
  BY DEF IInv
<1>3. \A r \in Routes : /\ route'[r].plan = route[r].plan /\ route'[r].load = route[r].load
                        /\ route'[r].driver = route[r].driver /\ route'[r].vehicle = route[r].vehicle
                        /\ route'[r].status = IF r \in RoutesOf(p) THEN "DELETED"
                                                                   ELSE route[r].status
  BY <1>1, <1>2 DEF TypeOK, DeliveryRoute
<1>4. TypeOK'
  <2>1. route' \in [Routes -> DeliveryRoute]
    BY <1>1, <1>2 DEF TypeOK, DeliveryRoute, RouteStatus
  <2>2. code' \in [Plans -> Nat]
    BY <1>1, <1>2 DEF TypeOK
  <2>3. contested' \in SUBSET Orders
    BY <1>1, <1>2 DEF TypeOK, LoadOf, RoutesOf, DeliveryRoute
  <2>4. planning' \in [Orders -> {"PENDING", "PLANNED", "LOCKED"}]
    BY <1>1, <1>2 DEF TypeOK
  <2> QED
    BY <1>1, <1>2, <2>1, <2>2, <2>3, <2>4 DEF TypeOK
<1>5. \A r \in Routes : Stored(r)' <=> Stored(r) /\ route[r].plan # p
  BY <1>3 DEF Stored, RoutesOf
<1>6. Memories'
  <2>1. Filed'
    BY <1>3, <1>5 DEF IInv, Memories, Filed
  <2>2. RoutesKept
    BY <1>3, <1>5 DEF RoutesKept, RoutesOf, Stored
  <2>3. ASSUME NEW q \in Requests PROVE Memory(q)' /\ Packing(q)'
    <3>1. Memory(q) /\ Packing(q) /\ at' = at /\ local' = local
      BY <1>1 DEF IInv, Memories
    <3>2. local[q].open \subseteq Routes /\ local[q].reset \subseteq Routes
      BY <1>2 DEF TypeOK, Local
    <3>3. Packing(q)'
      BY <3>1 DEF Packing
    <3>4. Memory(q)'
      BY <2>2, <3>1, <3>2 DEF Memory, RoutesKept
    <3> QED
      BY <3>3, <3>4
  <2> QED
    BY <2>1, <2>3 DEF Memories
<1>7. Staffed'
  <2>1. OneRoutePerDriver'
    BY <1>1, <1>3, <1>5 DEF IInv, Staffed, OneRoutePerDriver
  <2>2. Apart'
    BY <1>1 DEF IInv, Staffed, Apart
  <2>3. ASSUME NEW q \in Requests PROVE Informed(q)'
    <3>1. Informed(q) /\ UNCHANGED <<at, local, crowded>>
      BY <1>1 DEF IInv, Staffed
    <3>2. ASSUME NEW R, Knows(q, R) PROVE Knows(q, R)'
      BY <1>3, <1>5, <3>1, <3>2 DEF Knows
    <3> QED
      BY <1>3, <1>5, <3>1, <3>2 DEF Informed
  <2> QED
    BY <2>1, <2>2, <2>3 DEF Staffed
<1>8. Ordered'
  <2> SUFFICES ASSUME NEW o \in Orders \ contested'
               PROVE  /\ ~InHand(o)' => Free(o)' \/ OnOne(o)'
                      /\ \A q \in Requests : o \in local'[q].hand => Held(q, o)'
    BY <1>1 DEF Ordered, IInv, Disjoint
  <2>1. o \notin contested /\ (InHand(o)' <=> InHand(o))
    BY <1>1 DEF InHand
  <2>2. Carrying(o)' = Carrying(o) \ RoutesOf(p)
    BY <1>3, <1>5 DEF Carrying, RoutesOf, Stored
  <2>3. CASE Carrying(o) \cap RoutesOf(p) = {}
    <3>1. Untouched(o)
      BY <1>1, <1>3, <2>2, <2>3 DEF Untouched, Carrying, RoutesOf
    <3>2. (Free(o) => Free(o)') /\ (OnOne(o) => OnOne(o)')
      BY <3>1 DEF Free, OnOne, Untouched
    <3>3. ASSUME NEW q \in Requests, o \in local'[q].hand PROVE Held(q, o)'
      <4>1. Held(q, o) /\ at' = at /\ local' = local
        BY <1>1, <2>1, <3>3 DEF IInv, Ordered
      <4> QED
        BY <3>1, <3>2, <4>1 DEF Held, Untouched
    <3> QED
      BY <2>1, <3>2, <3>3 DEF IInv, Ordered
  <2>4. CASE Carrying(o) \cap RoutesOf(p) # {}
    <3>1. PICK r \in RoutesOf(p) : r \in Carrying(o)
      BY <2>4
    <3>2. ~InHand(o)
      BY <1>1, <3>1 DEF InHand, LoadOf, Carrying
    <3>3. OnOne(o)
      BY <2>1, <3>1, <3>2 DEF IInv, Ordered, Free
    <3>4. Carrying(o) = {r} /\ planning[o] = route[r].status
      BY <3>1, <3>3 DEF OnOne
    <3>5. Carrying(o)' = {} /\ planning'[o] = "PENDING"
      BY <1>1, <2>2, <3>1, <3>4 DEF Carrying
    <3> QED
      BY <1>1, <2>1, <3>2, <3>5 DEF Free, InHand
  <2> QED
    BY <2>3, <2>4
<1>9. Numbered'
  BY <1>1 DEF Numbered
<1> QED
  BY <1>4, <1>6, <1>7, <1>8, <1>9 DEF IInv

\* What a request that dies leaves half-done is in the history.
LEMMA FailsStep ==
  ASSUME IInv, NEW q \in Requests, Fails(q)
  PROVE  IInv'
<1>1. Moved(q, "idle", Blank) /\ contested' = contested \cup local[q].hand
  BY DEF Fails, Moved
<1>2. /\ code' = code /\ planning' = planning /\ route' = route
      /\ crowded' = crowded /\ byHand' = byHand /\ recounted' = recounted
  BY DEF Fails, documents
<1>3. TypeOK
  BY DEF IInv
<1>4. /\ at' \in [Requests -> Stage] /\ local' \in [Requests -> Local]
      /\ at'[q] = "idle" /\ local'[q] = Blank /\ Others(q)
  BY <1>1, <1>3, BlankIsLocal, MovedTo DEF Stage
<1>5. TypeOK'
  <2>1. local[q].hand \subseteq Orders
    BY <1>3 DEF TypeOK, Local
  <2> QED
    BY <1>1, <1>2, <1>3, <1>4, <2>1 DEF TypeOK
<1>6. Blank.hand = {} /\ Blank.plan = None
  BY DEF Blank
<1>7. HistoryGrows
  <2>1. Apart'
    BY <1>2, <1>4, <1>6, NoneAssumption DEF IInv, Staffed, Apart, Others
  <2>2. Disjoint'
    BY <1>1, <1>4, <1>6 DEF IInv, Ordered, Disjoint, Others
  <2> QED
    BY <1>1, <1>2, <2>1, <2>2 DEF HistoryGrows
<1>8. Memory(q)' /\ Packing(q)' /\ Informed(q)'
  BY <1>4, <1>6 DEF Memory, Packing, Informed, Planning, Locking, Dispatching
<1>9. RoutesKept /\ Filed' /\ \A x \in Plans : DriversKept(x)
  BY <1>2, RoutesStay DEF IInv, Memories
<1>10. \A o \in Orders : Untouched(o)
  BY <1>2, LoadsStay
<1>11. Memories' /\ Staffed'
  BY <1>4, <1>5, <1>7, <1>8, <1>9, OthersRemember, OthersInformed
<1>12. Ordered'
  BY <1>1, <1>4, <1>5, <1>6, <1>7, <1>10, OthersHold
<1>13. Numbered'
  BY <1>2, <1>4, NumbersStay
<1> QED
  BY <1>5, <1>11, <1>12, <1>13 DEF IInv

-----------------------------------------------------------------------------
(* optimizeRoutePlan.                                                      *)

\* The orders it takes in hand are on the routes it is going to wipe, on no others.
LEMMA OptimizeReadsStep ==
  ASSUME IInv, NEW q \in Requests, NEW p \in Plans, OptimizeReads(q, p)
  PROVE  IInv'
<1> DEFINE reset == ToReset(p)
           kept == RoutesOf(p) \ reset
           stage == IF reset = {} THEN "pool" ELSE "release"
           memory == [Blank EXCEPT !.plan = p, !.reset = reset, !.hand = LoadOf(reset),
                                   !.busy = {route[r].vehicle : r \in kept}, !.used = DriversOf(kept)]
<1>1. /\ Moved(q, stage, memory) /\ at[q] = "idle" /\ Watch
      /\ UNCHANGED <<documents, byHand>> /\ recounted' = recounted
  BY DEF OptimizeReads, Arrives, Moved
<1>2. TypeOK /\ Filed /\ local[q].hand = {}
  BY <1>1 DEF IInv, Memories, Memory
<1>3. reset \subseteq RoutesOf(p) /\ kept \subseteq RoutesOf(p) /\ RoutesOf(p) \subseteq Routes
  BY DEF ToReset, RoutesOf
<1>4. /\ memory \in Local /\ memory.plan = p /\ memory.hand = LoadOf(reset)
      /\ memory.reset = reset /\ memory.used = DriversOf(kept) /\ memory.made = {}
  <2>1. LoadOf(reset) \in SUBSET Orders
    BY <1>2, <1>3 DEF LoadOf, TypeOK, DeliveryRoute
  <2>2. DriversOf(kept) \in SUBSET Drivers
    BY <1>2, <1>3 DEF DriversOf, TypeOK, DeliveryRoute
  <2>3. \A r \in kept : route[r].vehicle \in Vehicles
    BY <1>2, <1>3 DEF Filed, RoutesOf
  <2>4. {route[r].vehicle : r \in kept} \in SUBSET Vehicles /\ reset \in SUBSET Routes
    BY <1>3, <2>3
  <2> HIDE DEF reset, kept
  <2> QED
    BY <2>1, <2>2, <2>4 DEF Local, Blank
<1>5. stage \in Stage
  BY DEF Stage
<1> HIDE DEF memory, stage
<1>6. /\ TypeOK' /\ HistoryGrows
      /\ Others(q) /\ at'[q] = stage /\ local'[q] = memory
  BY <1>1, <1>2, <1>4, <1>5, WatchedStep DEF documents, TypeOK
<1>7. route' = route /\ planning' = planning
  BY <1>1 DEF documents
<1>8. \A r \in reset : route[r].status = "PLANNED" /\ route[r].load \subseteq LoadOf(reset)
  BY DEF ToReset, LoadOf
<1>9. reset = {} => LoadOf(reset) = {}
  BY DEF LoadOf
<1>10. Memory(q)'
  BY <1>4, <1>6, <1>7, <1>8 DEF Memory, Planning, Locking, Dispatching, stage
<1>11. Packing(q)'
  BY <1>6 DEF Packing, stage
<1>12. Informed(q)'
  <2>1. \A r \in Routes \ reset : Stored(r) /\ route[r].plan = p
          => route[r].driver \in DriversOf(kept) \cup {None}
    BY DEF RoutesOf, DriversOf
  <2>2. \A r \in Routes : Stored(r)' <=> Stored(r)
    BY <1>7 DEF Stored
  <2>3. Knows(q, local[q].reset)'
    BY <1>4, <1>6, <1>7, <2>1, <2>2 DEF Knows
  <2>4. reset = {} => Knows(q, {})'
    BY <1>4, <1>6, <2>3
  <2> QED
    BY <1>6, <2>3, <2>4 DEF Informed, stage
<1>13. ASSUME NEW o \in Orders \ contested', o \in memory.hand PROVE Held(q, o)'
  <2>1. Free(o) \/ OnOne(o)
    BY <1>2, <1>6, <1>13, NewlyHeld
  <2>2. PICK r \in reset : o \in route[r].load
    BY <1>4, <1>13 DEF LoadOf
  <2>3. r \in Carrying(o)
    BY <1>3, <1>8, <2>2 DEF Carrying, Stored
  <2>4. Carrying(o) \subseteq reset
    BY <2>1, <2>2, <2>3 DEF Free, OnOne
  <2>5. Carrying(o)' = Carrying(o)
    BY <1>7 DEF Carrying, Stored
  <2>6. at'[q] = "release"
    BY <1>4, <1>6, <1>9, <1>13 DEF stage
  <2> QED
    BY <1>4, <1>6, <2>4, <2>5, <2>6 DEF Held
<1> HIDE DEF reset, kept
<1> QED
  BY <1>1, <1>2, <1>4, <1>5, <1>10, <1>11, <1>12, <1>13, ReadStep DEF stage, IInv, TypeOK

\* It releases the orders in its hand, nobody else's.
LEMMA OptimizeReleasesStep ==
  ASSUME IInv, NEW q \in Requests, OptimizeReleases(q)
  PROVE  IInv'
<1>1. Moved(q, "drop", local[q]) /\ at[q] = "release" /\ Watch
  BY DEF OptimizeReleases, Goes, Moved
<1>2. /\ code' = code /\ route' = route /\ byHand' = byHand /\ recounted' = recounted
      /\ planning' = [o \in Orders |-> IF o \in local[q].hand THEN "PENDING" ELSE planning[o]]
  BY DEF OptimizeReleases, Released
<1>3. TypeOK /\ Filed /\ local[q] \in Local
  BY DEF IInv, Memories, TypeOK
<1>4. planning' \in [Orders -> {"PENDING", "PLANNED", "LOCKED"}]
  BY <1>2, <1>3 DEF TypeOK
<1>5. /\ TypeOK' /\ HistoryGrows
      /\ Others(q) /\ at'[q] = "drop" /\ local'[q] = local[q]
  BY <1>1, <1>2, <1>3, <1>4, WatchedStep DEF TypeOK, Stage
<1>6. /\ RoutesKept /\ Filed' /\ \A p \in Plans : DriversKept(p)
      /\ \A o \in Orders : Carrying(o)' = Carrying(o)
  BY <1>2, <1>3, RoutesStay DEF Carrying, Stored
<1>7. Memory(q)' /\ Packing(q)'
  BY <1>1, <1>2, <1>5 DEF IInv, Memories, Memory, Packing, Planning, Locking, Dispatching
<1>8. Informed(q)'
  <2>1. Knows(q, local[q].reset) => Knows(q, local[q].reset)'
    BY <1>2, <1>5 DEF Knows, Stored
  <2> QED
    BY <1>1, <1>5, <2>1 DEF IInv, Staffed, Informed, HistoryGrows
<1>9. ASSUME NEW o \in Orders \ contested'
      PROVE  /\ o \notin local[q].hand => Untouched(o)
             /\ o \in local[q].hand => Held(q, o)'
  <2>1. o \notin local[q].hand => Untouched(o)
    BY <1>2, <1>6 DEF Untouched
  <2>2. o \in local[q].hand => Held(q, o)
    BY <1>5 DEF IInv, Ordered, HistoryGrows
  <2>3. o \in local[q].hand => planning'[o] = "PENDING"
    BY <1>2
  <2> QED
    BY <1>1, <1>5, <1>6, <2>1, <2>2, <2>3 DEF Held
<1> QED
  BY <1>1, <1>2, <1>3, <1>4, <1>6, <1>7, <1>8, <1>9, WriteStep DEF IInv, TypeOK, Stage

\* What it deletes carries only orders in its hand, and afterwards they are on no route.
LEMMA OptimizeDropsStep ==
  ASSUME IInv, NEW q \in Requests, OptimizeDrops(q)
  PROVE  IInv'
<1> DEFINE reset == local[q].reset
<1>1. Moved(q, "pool", local[q]) /\ at[q] = "drop" /\ Watch
  BY DEF OptimizeDrops, Goes, Moved
<1>2. /\ code' = code /\ planning' = planning /\ byHand' = byHand /\ recounted' = recounted
      /\ route' = [r \in Routes |-> IF r \in reset
                                       THEN [route[r] EXCEPT !.status = "DELETED"] ELSE route[r]]
  BY DEF OptimizeDrops
<1>3. TypeOK /\ Filed /\ local[q] \in Local /\ Memory(q)
  BY DEF IInv, Memories, TypeOK
<1>4. route' \in [Routes -> DeliveryRoute]
  BY SMTT(30), <1>2, <1>3 DEF TypeOK, DeliveryRoute, RouteStatus
<1>5. \A r \in Routes : /\ route'[r].plan = route[r].plan /\ route'[r].load = route[r].load
                        /\ route'[r].driver = route[r].driver /\ route'[r].vehicle = route[r].vehicle
                        /\ route'[r].status = IF r \in reset THEN "DELETED" ELSE route[r].status
  BY <1>2, <1>3 DEF TypeOK, DeliveryRoute
<1>6. \A r \in Routes : Stored(r)' <=> Stored(r) /\ r \notin reset
  BY <1>5 DEF Stored
<1>7. /\ TypeOK' /\ HistoryGrows
      /\ Others(q) /\ at'[q] = "pool" /\ local'[q] = local[q]
  BY <1>1, <1>2, <1>3, <1>4, WatchedStep DEF TypeOK, Stage
<1>8. \A r \in reset : route[r].status # "UNUSED" /\ route[r].load \subseteq local[q].hand
  BY <1>1, <1>3 DEF Memory
<1> HIDE DEF reset
<1>9. RoutesKept /\ Filed' /\ \A p \in Plans : DriversKept(p)
  <2>1. Filed'
    BY <1>3, <1>5, <1>6 DEF Filed
  <2>2. RoutesKept
    BY <1>5 DEF RoutesKept
  <2>3. \A p \in Plans : DriversKept(p)
    BY <1>5, <1>6 DEF DriversKept
  <2> QED
    BY <2>1, <2>2, <2>3
<1>10. Memory(q)' /\ Packing(q)'
  BY <1>1, <1>3, <1>7 DEF Memory, Packing, Planning, Locking, Dispatching
<1>11. Informed(q)'
  <2>1. Knows(q, reset) => Knows(q, {})'
    BY <1>5, <1>6, <1>7 DEF Knows
  <2> QED
    BY <1>1, <1>7, <2>1 DEF IInv, Staffed, Informed, HistoryGrows, reset
<1>12. ASSUME NEW o \in Orders \ contested'
       PROVE  /\ o \notin local[q].hand => Untouched(o)
              /\ o \in local[q].hand => Held(q, o)'
  <2>1. Carrying(o)' = Carrying(o) \ reset
    BY <1>5, <1>6 DEF Carrying
  <2>2. ASSUME o \notin local[q].hand PROVE Untouched(o)
    <3>1. \A r \in Carrying(o) : r \notin reset
      BY <1>8, <2>2 DEF Carrying
    <3> QED
      BY <1>2, <1>5, <2>1, <3>1 DEF Untouched, Carrying
  <2>3. ASSUME o \in local[q].hand PROVE Held(q, o)'
    <3>1. Carrying(o) \subseteq reset /\ planning[o] = "PENDING"
      BY <1>1, <1>7, <2>3 DEF IInv, Ordered, HistoryGrows, Held, reset
    <3>2. Free(o)'
      BY <1>2, <2>1, <3>1 DEF Free
    <3> QED
      BY <1>7, <3>2 DEF Held
  <2> QED
    BY <2>2, <2>3
<1> QED
  BY <1>1, <1>2, <1>3, <1>4, <1>9, <1>10, <1>11, <1>12, WriteStep DEF IInv, TypeOK, Stage

\* What it packs was in nobody's hand and on no route.
LEMMA OptimizeReadsPoolStep ==
  ASSUME IInv, NEW q \in Requests, OptimizeReadsPool(q)
  PROVE  IInv'
<1>1. PICK todo \in Packings(Pool, Vehicles \ local[q].busy) :
        Goes(q, "pool", "create", [local[q] EXCEPT !.todo = todo,
                                     !.hand = @ \cup UNION {todo[v] : v \in Vehicles}])
  BY DEF OptimizeReadsPool
<1> DEFINE packed == UNION {todo[v] : v \in Vehicles}
           memory == [local[q] EXCEPT !.todo = todo, !.hand = @ \cup packed]
<1>2. /\ Moved(q, "create", memory) /\ at[q] = "pool" /\ Watch
      /\ UNCHANGED <<documents, byHand>> /\ recounted' = recounted
  BY <1>1 DEF OptimizeReadsPool, Goes, Moved
<1>3. TypeOK /\ Filed /\ local[q] \in Local /\ Memory(q)
  BY DEF IInv, Memories, TypeOK
<1>4. /\ todo \in [Vehicles -> SUBSET Pool]
      /\ \A v, w \in Vehicles : v # w => todo[v] \cap todo[w] = {}
  <2>1. /\ todo \in [Vehicles -> SUBSET Pool]
        /\ \A v \in Vehicles \ (Vehicles \ local[q].busy) : todo[v] = {}
        /\ \A v, w \in Vehicles \ local[q].busy : v # w => todo[v] \cap todo[w] = {}
    BY <1>1 DEF Packings
  <2>2. ASSUME NEW v \in Vehicles, NEW w \in Vehicles, v # w PROVE todo[v] \cap todo[w] = {}
    <3>1. CASE v \in local[q].busy \/ w \in local[q].busy
      BY <2>1, <3>1
    <3>2. CASE v \notin local[q].busy /\ w \notin local[q].busy
      BY <2>1, <2>2, <3>2
    <3> QED
      BY <3>1, <3>2
  <2> QED
    BY <2>1, <2>2
<1>5. packed \subseteq Pool /\ Pool \subseteq Orders /\ \A v \in Vehicles : todo[v] \subseteq packed
  BY <1>4 DEF Pool
<1> HIDE DEF packed
<1>6. /\ memory \in Local /\ memory.hand = local[q].hand \cup packed /\ memory.todo = todo
      /\ memory.plan = local[q].plan /\ memory.made = local[q].made /\ memory.used = local[q].used
  <2>1. todo \in [Vehicles -> SUBSET Orders]
    BY <1>4, <1>5
  <2> QED
    BY <1>3, <1>5, <2>1 DEF Local
<1> HIDE DEF memory
<1>7. /\ TypeOK' /\ HistoryGrows
      /\ Others(q) /\ at'[q] = "create" /\ local'[q] = memory
  BY <1>2, <1>3, <1>6, WatchedStep DEF documents, TypeOK, Stage
<1>8. route' = route /\ planning' = planning
  BY <1>2 DEF documents
<1>9. local[q].made = {} /\ local[q].plan \in Plans
  BY <1>2, <1>3 DEF Memory, Planning
<1>10. Memory(q)'
  BY <1>6, <1>7, <1>9 DEF Memory, Planning, Locking, Dispatching
<1>11. Packing(q)'
  BY <1>4, <1>5, <1>6, <1>7, <1>9 DEF Packing
<1>12. Informed(q)'
  <2>1. Knows(q, {}) => Knows(q, {})'
    BY <1>6, <1>7, <1>8 DEF Knows, Stored
  <2> QED
    BY <1>2, <1>6, <1>7, <2>1 DEF IInv, Staffed, Informed, HistoryGrows
<1>13. ASSUME NEW o \in Orders \ contested', o \in memory.hand PROVE Held(q, o)'
  <2>1. Free(o) => Free(o)'
    BY <1>8 DEF Free, Carrying, Stored
  <2>2. Free(o)
    <3>1. CASE o \in local[q].hand
      BY <1>2, <1>7, <3>1 DEF IInv, Ordered, HistoryGrows, Held
    <3>2. CASE o \notin local[q].hand
      <4>1. Free(o) \/ OnOne(o)
        BY <1>7, <1>13, <3>2, NewlyHeld
      <4>2. planning[o] = "PENDING"
        BY <1>5, <1>6, <1>13, <3>2 DEF Pool
      <4> QED
        BY <4>1, <4>2 DEF OnOne, Carrying, Stored
    <3> QED
      BY <3>1, <3>2
  <2> QED
    BY <1>6, <1>7, <1>9, <2>1, <2>2 DEF Held
<1> QED
  BY <1>2, <1>3, <1>6, <1>10, <1>11, <1>12, <1>13, ReadStep DEF IInv, TypeOK, Stage

\* A new route gets orders that are on none, and a driver the plan does not use.
LEMMA OptimizeCreatesStep ==
  ASSUME IInv, NEW q \in Requests, OptimizeCreates(q)
  PROVE  IInv'
<1> DEFINE p == local[q].plan
<1>1. PICK v \in Vehicles, r \in Routes, d \in FreeDrivers(local[q].used) :
        /\ route[r].status = "UNUSED"
        /\ route' = [route EXCEPT ![r] =
             [plan |-> p, vehicle |-> v, driver |-> d, status |-> "PLANNED", load |-> local[q].todo[v]]]
        /\ Goes(q, "create", "save",
             [local[q] EXCEPT !.todo[v] = {}, !.id = r, !.used = (@ \cup {d}) \ {None},
                              !.made = @ \cup local[q].todo[v]])
        /\ Watch
        /\ UNCHANGED <<code, planning, byHand, recounted>>
  BY DEF OptimizeCreates
<1> DEFINE packed == local[q].todo[v]
           memory == [local[q] EXCEPT !.todo[v] = {}, !.id = r, !.used = (@ \cup {d}) \ {None},
                                      !.made = @ \cup packed]
<1>2. Moved(q, "save", memory) /\ at[q] = "create"
  BY <1>1 DEF Goes, Moved
<1>3. TypeOK /\ Filed /\ local[q] \in Local /\ Memory(q) /\ Packing(q) /\ Informed(q)
  BY DEF IInv, Memories, Staffed, TypeOK
<1>4. d \in Drivers \cup {None} /\ (d = None \/ d \notin local[q].used) /\ p \in Plans
  BY <1>1, <1>2, <1>3 DEF FreeDrivers, Memory, Planning
<1>5. /\ packed \subseteq local[q].hand \ local[q].made /\ local[q].made \subseteq local[q].hand
      /\ local[q].todo \in [Vehicles -> SUBSET Orders]
  BY <1>1, <1>2, <1>3 DEF Packing, Local
<1>6. /\ memory.plan = p /\ memory.hand = local[q].hand
      /\ memory.used = (local[q].used \cup {d}) \ {None}
      /\ memory.made = local[q].made \cup packed
      /\ memory.todo = [local[q].todo EXCEPT ![v] = {}]
      /\ memory \in Local
  <2>1. (local[q].used \cup {d}) \ {None} \in SUBSET Drivers
    BY <1>3, <1>4 DEF Local
  <2>2. [local[q].todo EXCEPT ![v] = {}] \in [Vehicles -> SUBSET Orders]
    BY <1>5
  <2>3. local[q].made \cup packed \in SUBSET Orders
    BY <1>3, <1>5 DEF Local
  <2> HIDE DEF p, packed
  <2> QED
    BY <1>3, <2>1, <2>2, <2>3 DEF Local, p
<1>7. route' \in [Routes -> DeliveryRoute]
  <2>1. packed \in SUBSET Orders
    BY <1>5
  <2> QED
    BY <1>1, <1>3, <1>4, <2>1 DEF TypeOK, DeliveryRoute, RouteStatus
<1>8. /\ route'[r] = [plan |-> p, vehicle |-> v, driver |-> d, status |-> "PLANNED", load |-> packed]
      /\ \A s \in Routes \ {r} : route'[s] = route[s]
  BY <1>1, <1>3 DEF TypeOK
<1> HIDE DEF memory
<1>9. /\ TypeOK' /\ HistoryGrows
      /\ Others(q) /\ at'[q] = "save" /\ local'[q] = memory
  BY <1>1, <1>2, <1>3, <1>6, <1>7, WatchedStep DEF TypeOK, Stage
<1>10. Stored(r)' /\ ~Stored(r) /\ \A s \in Routes \ {r} : Stored(s)' <=> Stored(s)
  BY <1>1, <1>8 DEF Stored
<1>11. RoutesKept
  BY <1>1, <1>8 DEF RoutesKept
<1>12. Filed'
  BY <1>3, <1>4, <1>8, <1>10 DEF Filed
<1>13. Memory(q)'
  BY <1>4, <1>6, <1>9 DEF Memory, Planning, Locking, Dispatching
<1>14. Packing(q)'
  <2>1. ASSUME NEW w \in Vehicles, w # v PROVE local[q].todo[w] \cap packed = {}
    BY <1>2, <1>3, <2>1 DEF Packing
  <2>2. \A w \in Vehicles : local[q].todo[w] \subseteq local[q].hand \ local[q].made
    BY <1>2, <1>3 DEF Packing
  <2>3. \A w, x \in Vehicles : w # x => local[q].todo[w] \cap local[q].todo[x] = {}
    BY <1>2, <1>3 DEF Packing
  <2>4. \A w \in Vehicles : memory.todo[w] = IF w = v THEN {} ELSE local[q].todo[w]
    BY <1>5, <1>6
  <2>5. \A w \in Vehicles : memory.todo[w] \subseteq memory.hand \ memory.made
    BY <1>6, <2>1, <2>2, <2>4
  <2>6. \A w, x \in Vehicles : w # x => memory.todo[w] \cap memory.todo[x] = {}
    BY <2>3, <2>4
  <2>7. memory.made \subseteq memory.hand
    BY <1>5, <1>6
  <2> QED
    BY <1>9, <2>5, <2>6, <2>7 DEF Packing
<1>15. Informed(q)'
  <2>1. Knows(q, {}) => Knows(q, {})'
    BY <1>6, <1>8, <1>9, <1>10 DEF Knows
  <2> QED
    BY <1>2, <1>3, <1>6, <1>9, <2>1 DEF Informed, HistoryGrows
<1>16. ASSUME NEW x \in Plans PROVE DriversKept(x) \/ (x = p /\ PlanStaffed(x)')
  <2>1. CASE x # p
    BY <1>8, <1>10, <2>1 DEF DriversKept
  <2>2. CASE x = p
    <3> SUFFICES ASSUME p \notin crowded' PROVE PlanStaffed(x)'
      BY <2>2 DEF PlanStaffed
    <3>1. Knows(q, {})
      BY <1>2, <1>3, <1>9 DEF Informed, HistoryGrows
    <3>2. \A s \in Routes \ {r} : Stored(s) /\ route[s].plan = p
            => route[s].driver = None \/ route[s].driver # d
      BY <1>4, <3>1 DEF Knows
    <3>3. byHand' = byHand
      BY <1>1
    <3>4. ASSUME NEW s \in Routes, NEW t \in Routes, s # t, Stored(s)', Stored(t)',
                 route'[s].plan = x, route'[t].plan = x,
                 route'[s].driver = route'[t].driver, route'[s].driver # None
          PROVE  s \in byHand \/ t \in byHand
      <4>1. CASE s = r \/ t = r
        BY <1>8, <1>10, <2>2, <3>2, <3>4, <4>1
      <4>2. CASE s # r /\ t # r
        BY <1>8, <1>9, <1>10, <2>2, <3>4, <4>2 DEF IInv, Staffed, OneRoutePerDriver, HistoryGrows
      <4> QED
        BY <4>1, <4>2
    <3> QED
      BY <3>3, <3>4 DEF PlanStaffed
  <2> QED
    BY <2>1, <2>2
<1>17. ASSUME NEW o \in Orders \ contested'
       PROVE  /\ o \notin local[q].hand => Untouched(o)
              /\ o \in local[q].hand => Held(q, o)'
  <2>1. Carrying(o)' = IF o \in packed THEN Carrying(o) \cup {r} ELSE Carrying(o)
    BY <1>8, <1>10 DEF Carrying
  <2>2. r \notin Carrying(o) /\ planning' = planning
    BY <1>1, <1>10 DEF Carrying
  <2>3. o \notin local[q].hand => Untouched(o)
    BY <1>5, <1>8, <2>1, <2>2 DEF Untouched, Carrying
  <2>4. ASSUME o \in local[q].hand PROVE Held(q, o)'
    <3>1. Held(q, o)
      BY <1>9, <2>4 DEF IInv, Ordered, HistoryGrows
    <3>2. CASE o \in packed
      <4>1. Carrying(o)' = {r}
        BY <1>2, <1>5, <2>1, <3>1, <3>2 DEF Held, Free
      <4> QED
        BY <1>6, <1>8, <1>9, <3>2, <4>1 DEF Held
    <3>3. CASE o \in local[q].made
      <4>1. PICK s \in Routes : Carrying(o) = {s} /\ route[s].status = "PLANNED"
        BY <1>2, <3>1, <3>3 DEF Held
      <4>2. Carrying(o)' = {s} /\ route'[s].status = "PLANNED"
        BY <1>5, <1>8, <2>1, <2>2, <3>3, <4>1
      <4> QED
        BY <1>6, <1>9, <3>3, <4>2 DEF Held
    <3>4. CASE o \notin packed \cup local[q].made
      <4>1. Free(o)'
        BY <1>2, <2>1, <2>2, <3>1, <3>4 DEF Held, Free
      <4> QED
        BY <1>6, <1>9, <3>4, <4>1 DEF Held
    <3> QED
      BY <3>2, <3>3, <3>4
  <2> QED
    BY <2>3, <2>4
<1> QED
  BY <1>1, <1>2, <1>3, <1>6, <1>7, <1>11, <1>12, <1>13, <1>14, <1>15, <1>16, <1>17, WriteStep
     DEF IInv, TypeOK, Stage

\* The memory of a request that answers is blank.
LEMMA AnswersBlank ==
  ASSUME IInv, NEW q \in Requests, NEW from \in Stage, Answers(q, from), Watch,
         code' \in [Plans -> Nat], planning' \in [Orders -> {"PENDING", "PLANNED", "LOCKED"}],
         route' \in [Routes -> DeliveryRoute],
         byHand \subseteq byHand', byHand' \in SUBSET Routes, recounted' \in BOOLEAN
  PROVE  /\ Moved(q, "idle", Blank) /\ at[q] = from
         /\ Blank \in Local /\ Blank.hand = {}
         /\ Memory(q)' /\ Packing(q)' /\ Informed(q)'
         /\ HistoryGrows
<1>1. Moved(q, "idle", Blank) /\ at[q] = from
  BY DEF Answers, Goes, Moved
<1>2. HistoryGrows /\ Others(q) /\ at'[q] = "idle" /\ local'[q] = Blank
  BY <1>1, BlankIsLocal, WatchedStep DEF Stage
<1>3. Blank.hand = {} /\ Blank.made = {}
  BY DEF Blank
<1>4. Memory(q)' /\ Packing(q)' /\ Informed(q)'
  BY <1>2, <1>3 DEF Memory, Packing, Informed, Planning, Locking, Dispatching
<1> QED
  BY <1>1, <1>2, <1>3, <1>4, BlankIsLocal

LEMMA OptimizeSavesStep ==
  ASSUME IInv, NEW q \in Requests, OptimizeSaves(q)
  PROVE  IInv'
<1> DEFINE stage == IF \E v \in Vehicles : local[q].todo[v] # {} THEN "create" ELSE "mark"
<1>1. /\ Moved(q, stage, local[q]) /\ at[q] = "save" /\ Watch
      /\ UNCHANGED <<documents, byHand>> /\ recounted' = recounted
  BY DEF OptimizeSaves, Goes, Moved
<1>2. stage \in {"create", "mark"}
  OBVIOUS
<1> HIDE DEF stage
<1>3. TypeOK /\ local[q] \in Local /\ Memory(q) /\ Packing(q) /\ Informed(q)
  BY DEF IInv, Memories, Staffed, TypeOK
<1>4. /\ TypeOK' /\ HistoryGrows
      /\ Others(q) /\ at'[q] = stage /\ local'[q] = local[q]
  BY <1>1, <1>2, <1>3, WatchedStep DEF documents, TypeOK, Stage
<1>5. route' = route /\ planning' = planning
  BY <1>1 DEF documents
<1>6. Memory(q)' /\ Packing(q)'
  BY <1>1, <1>2, <1>3, <1>4 DEF Memory, Packing, Planning, Locking, Dispatching
<1>7. Informed(q)'
  <2>1. Knows(q, {}) => Knows(q, {})'
    BY <1>4, <1>5 DEF Knows, Stored
  <2> QED
    BY <1>1, <1>2, <1>3, <1>4, <2>1 DEF Informed, HistoryGrows
<1>8. ASSUME NEW o \in Orders \ contested', o \in local[q].hand PROVE Held(q, o)'
  <2>1. Held(q, o)
    BY <1>4, <1>8 DEF IInv, Ordered, HistoryGrows
  <2>2. (Free(o) => Free(o)') /\ Carrying(o)' = Carrying(o)
    BY <1>5 DEF Free, Carrying, Stored
  <2> QED
    BY <1>1, <1>2, <1>4, <1>5, <2>1, <2>2 DEF Held
<1> QED
  BY <1>1, <1>2, <1>3, <1>6, <1>7, <1>8, ReadStep DEF IInv, TypeOK, Stage

\* The orders it has put on routes are marked, the rest it never touched.
LEMMA OptimizeMarksStep ==
  ASSUME IInv, NEW q \in Requests, OptimizeMarks(q)
  PROVE  IInv'
<1>1. /\ Answers(q, "mark") /\ Watch /\ code' = code /\ route' = route
      /\ byHand' = byHand /\ recounted' = recounted
      /\ planning' = [o \in Orders |-> IF o \in local[q].made THEN "PLANNED" ELSE planning[o]]
  BY DEF OptimizeMarks
<1>2. TypeOK /\ Filed /\ Packing(q)
  BY DEF IInv, Memories
<1>3. planning' \in [Orders -> {"PENDING", "PLANNED", "LOCKED"}]
  BY <1>1, <1>2 DEF TypeOK
<1>4. /\ Moved(q, "idle", Blank) /\ at[q] = "mark" /\ Blank \in Local /\ Blank.hand = {}
      /\ Memory(q)' /\ Packing(q)' /\ Informed(q)' /\ HistoryGrows
  BY <1>1, <1>2, <1>3, AnswersBlank DEF TypeOK, Stage
<1>5. RoutesKept /\ Filed' /\ \A p \in Plans : DriversKept(p)
  BY <1>1, <1>2, RoutesStay
<1>6. local[q].made \subseteq local[q].hand
  BY <1>2, <1>4 DEF Packing
<1>7. ASSUME NEW o \in Orders \ contested'
      PROVE  /\ o \notin local[q].hand => Untouched(o)
             /\ o \in local[q].hand => Free(o)' \/ OnOne(o)'
  <2>1. Carrying(o)' = Carrying(o)
    BY <1>1 DEF Carrying, Stored
  <2>2. o \notin local[q].hand => Untouched(o)
    BY <1>1, <1>6, <2>1 DEF Untouched
  <2>3. ASSUME o \in local[q].hand PROVE Free(o)' \/ OnOne(o)'
    <3>1. Held(q, o)
      BY <1>4, <2>3 DEF IInv, Ordered, HistoryGrows
    <3>2. CASE o \in local[q].made
      BY <1>1, <1>4, <2>1, <3>1, <3>2 DEF Held, OnOne
    <3>3. CASE o \notin local[q].made
      BY <1>1, <1>4, <2>1, <3>1, <3>3 DEF Held, Free
    <3> QED
      BY <3>2, <3>3
  <2> QED
    BY <2>2, <2>3
<1> QED
  BY <1>1, <1>2, <1>3, <1>4, <1>5, <1>7, WriteStep DEF IInv, TypeOK, Stage

-----------------------------------------------------------------------------
(* lockRoute.                                                              *)

\* The driver it has found for the route none of the plan's other routes has.
LEMMA LockReadsStep ==
  ASSUME IInv, NEW q \in Requests, NEW r \in Routes, LockReads(q, r)
  PROVE  IInv'
<1> DEFINE p == route[r].plan
<1>1. PICK d \in (IF route[r].driver = None THEN FreeDrivers(UsedBeside(r)) \ {None} ELSE {None}) :
        Arrives(q, "lockSave", [Blank EXCEPT !.plan = route[r].plan, !.id = r, !.driver = d,
                                             !.hand = route[r].load])
  BY DEF LockReads
<1> DEFINE memory == [Blank EXCEPT !.plan = p, !.id = r, !.driver = d, !.hand = route[r].load]
<1>2. /\ Moved(q, "lockSave", memory) /\ at[q] = "idle" /\ Watch
      /\ UNCHANGED <<documents, byHand>> /\ recounted' = recounted
      /\ route[r].status = "PLANNED"
  BY <1>1 DEF LockReads, Arrives, Moved
<1>3. TypeOK /\ Filed /\ local[q].hand = {}
  BY <1>2 DEF IInv, Memories, Memory
<1>4. p \in Plans
  BY <1>2, <1>3 DEF Filed, Stored
<1>5. d \in Drivers \cup {None} /\ (d = None \/ d \notin UsedBeside(r))
  BY <1>1 DEF FreeDrivers
<1>6. route[r].load \in SUBSET Orders
  BY <1>3 DEF TypeOK, DeliveryRoute
<1> HIDE DEF p
<1>7. /\ memory \in Local /\ memory.plan = p /\ memory.id = r /\ memory.driver = d
      /\ memory.hand = route[r].load
  BY <1>4, <1>5, <1>6 DEF Local, Blank
<1> HIDE DEF memory
<1>8. /\ TypeOK' /\ HistoryGrows
      /\ Others(q) /\ at'[q] = "lockSave" /\ local'[q] = memory
  BY <1>2, <1>3, <1>7, WatchedStep DEF documents, TypeOK, Stage
<1>9. route' = route /\ planning' = planning
  BY <1>2 DEF documents
<1>10. Memory(q)'
  BY <1>2, <1>4, <1>7, <1>8, <1>9 DEF Memory, Planning, Locking, Dispatching, p
<1>11. Packing(q)'
  BY <1>8 DEF Packing
<1>12. Informed(q)'
  <2>1. ASSUME NEW s \in Routes \ {r}, Stored(s), route[s].plan = p
        PROVE  route[s].driver = None \/ route[s].driver # d
    BY <1>5, <2>1 DEF UsedBeside, DriversOf, RoutesOf, p
  <2>2. \A s \in Routes : Stored(s)' <=> Stored(s)
    BY <1>9 DEF Stored
  <2> QED
    BY <1>7, <1>8, <1>9, <2>1, <2>2 DEF Informed
<1>13. ASSUME NEW o \in Orders \ contested', o \in memory.hand PROVE Held(q, o)'
  <2>1. Free(o) \/ OnOne(o)
    BY <1>3, <1>8, <1>13, NewlyHeld
  <2>2. r \in Carrying(o)
    BY <1>2, <1>7, <1>13 DEF Carrying, Stored
  <2>3. Carrying(o) = {r} /\ planning[o] = "PLANNED"
    BY <1>2, <2>1, <2>2 DEF Free, OnOne
  <2>4. Carrying(o)' = Carrying(o)
    BY <1>9 DEF Carrying, Stored
  <2> QED
    BY <1>7, <1>8, <1>9, <2>3, <2>4 DEF Held
<1> QED
  BY <1>2, <1>3, <1>7, <1>10, <1>11, <1>12, <1>13, ReadStep DEF IInv, TypeOK, Stage

\* A route that gets a driver: the plan stays staffed if no other route has that driver,
\* or the driver was picked by hand.
LEMMA DriverSet ==
  ASSUME IInv, HistoryGrows, NEW r \in Routes, NEW p \in Plans, route[r].plan = p,
         route'[r].plan = p,
         \A s \in Routes : Stored(s)' <=> Stored(s),
         \A s \in Routes \ {r} : route'[s].plan = route[s].plan /\ route'[s].driver = route[s].driver,
         \/ p \in crowded' \/ r \in byHand' \/ route'[r].driver \in {route[r].driver, None}
         \/ \A s \in Routes \ {r} : Stored(s) /\ route[s].plan = p
              => route[s].driver = None \/ route[s].driver # route'[r].driver
  PROVE  \A x \in Plans : DriversKept(x) \/ (x = p /\ PlanStaffed(x)')
<1> SUFFICES ASSUME NEW x \in Plans PROVE DriversKept(x) \/ (x = p /\ PlanStaffed(x)')
  OBVIOUS
<1>1. CASE x # p
  BY <1>1 DEF DriversKept
<1>2. CASE x = p /\ x \notin crowded' /\ r \notin byHand'
  <2> SUFFICES ASSUME NEW s \in Routes, NEW t \in Routes, s # t, Stored(s)', Stored(t)',
                      route'[s].plan = x, route'[t].plan = x,
                      route'[s].driver = route'[t].driver, route'[s].driver # None
               PROVE  s \in byHand' \/ t \in byHand'
    BY <1>2 DEF PlanStaffed
  <2>1. x \notin crowded
    BY <1>2 DEF HistoryGrows
  <2>2. CASE route'[s].driver = route[s].driver /\ route'[t].driver = route[t].driver
    BY <1>2, <2>1, <2>2 DEF IInv, Staffed, OneRoutePerDriver, HistoryGrows
  <2>3. CASE (s = r \/ t = r) /\ route'[r].driver # route[r].driver
    BY <1>2, <2>3
  <2> QED
    BY <2>2, <2>3
<1>3. CASE x = p /\ (x \in crowded' \/ r \in byHand')
  <2>1. CASE x \in crowded'
    BY <1>3, <2>1 DEF PlanStaffed
  <2>2. CASE r \in byHand'
    <3> SUFFICES ASSUME NEW s \in Routes, NEW t \in Routes, s # t, Stored(s)', Stored(t)',
                        route'[s].plan = x, route'[t].plan = x,
                        route'[s].driver = route'[t].driver, route'[s].driver # None
                 PROVE  x \in crowded' \/ s \in byHand' \/ t \in byHand'
      BY <1>3 DEF PlanStaffed
    <3>1. CASE s # r /\ t # r
      BY <1>3, <3>1 DEF IInv, Staffed, OneRoutePerDriver, HistoryGrows
    <3> QED
      BY <2>2, <3>1
  <2> QED
    BY <1>3, <2>1, <2>2
<1> QED
  BY <1>1, <1>2, <1>3

LEMMA LockSavesStep ==
  ASSUME IInv, NEW q \in Requests, LockSaves(q)
  PROVE  IInv'
<1> DEFINE r == local[q].id
           p == local[q].plan
<1>1. /\ Moved(q, "lockOrders", local[q]) /\ at[q] = "lockSave" /\ Watch /\ Stored(r)
      /\ code' = code /\ planning' = planning /\ byHand' = byHand /\ recounted' = recounted
      /\ route' = [route EXCEPT ![r].status = "LOCKED",
                                ![r].driver = IF local[q].driver = None THEN @ ELSE local[q].driver]
  BY DEF LockSaves, Goes, Moved
<1>2. TypeOK /\ Filed /\ local[q] \in Local /\ Memory(q) /\ Informed(q)
  BY DEF IInv, Memories, Staffed, TypeOK
<1>3. r \in Routes /\ p \in Plans /\ route[r].plan = p /\ local[q].hand = route[r].load
  BY <1>1, <1>2 DEF Memory, Locking
<1> HIDE DEF p
<1>4. /\ route'[r].status = "LOCKED" /\ route'[r].plan = p /\ route'[r].load = route[r].load
      /\ route'[r].vehicle = route[r].vehicle
      /\ route'[r].driver = IF local[q].driver = None THEN route[r].driver ELSE local[q].driver
      /\ \A s \in Routes \ {r} : route'[s] = route[s]
  BY <1>1, <1>2, <1>3 DEF TypeOK, DeliveryRoute
<1>5. route' \in [Routes -> DeliveryRoute]
  <2>1. local[q].driver \in Drivers \cup {None}
    BY <1>2 DEF Local
  <2> QED
    BY <1>1, <1>2, <1>3, <2>1 DEF TypeOK, DeliveryRoute, RouteStatus
<1>6. /\ TypeOK' /\ HistoryGrows
      /\ Others(q) /\ at'[q] = "lockOrders" /\ local'[q] = local[q]
  BY <1>1, <1>2, <1>5, WatchedStep DEF TypeOK, Stage
<1>7. \A s \in Routes : Stored(s)' <=> Stored(s)
  BY <1>1, <1>4 DEF Stored
<1>8. RoutesKept /\ Filed'
  <2>1. RoutesKept
    BY <1>3, <1>4 DEF RoutesKept
  <2>2. Filed'
    BY <1>2, <1>3, <1>4, <1>7 DEF Filed
  <2> QED
    BY <2>1, <2>2
<1>9. Memory(q)' /\ Packing(q)' /\ Informed(q)'
  <2>1. Memory(q)'
    BY <1>3, <1>4, <1>6 DEF Memory, Planning, Locking, Dispatching, p
  <2> QED
    BY <1>6, <2>1 DEF Packing, Informed
<1>10. \A x \in Plans : DriversKept(x) \/ (x = p /\ PlanStaffed(x)')
  <2>1. \/ p \in crowded' \/ route'[r].driver = route[r].driver
        \/ \A s \in Routes \ {r} : Stored(s) /\ route[s].plan = p
             => route[s].driver = None \/ route[s].driver # route'[r].driver
    BY <1>1, <1>2, <1>4, <1>6 DEF Informed, HistoryGrows, p
  <2> QED
    BY <1>3, <1>4, <1>6, <1>7, <2>1, DriverSet
<1>11. ASSUME NEW o \in Orders \ contested'
       PROVE  /\ o \notin local[q].hand => Untouched(o)
              /\ o \in local[q].hand => Held(q, o)'
  <2>1. Carrying(o)' = Carrying(o)
    BY <1>4, <1>7 DEF Carrying
  <2>2. o \notin local[q].hand => Untouched(o)
    BY <1>1, <1>3, <1>4, <2>1 DEF Untouched, Carrying
  <2>3. ASSUME o \in local[q].hand PROVE Held(q, o)'
    <3>1. Carrying(o) = {r} /\ planning[o] = "PLANNED"
      BY <1>1, <1>6, <2>3 DEF IInv, Ordered, HistoryGrows, Held
    <3> QED
      BY <1>1, <1>4, <1>6, <2>1, <3>1 DEF Held
  <2> QED
    BY <2>2, <2>3
<1> QED
  BY <1>1, <1>2, <1>5, <1>8, <1>9, <1>10, <1>11, WriteStep DEF IInv, TypeOK, Stage, p

\* The orders of the locked route follow it.
LEMMA LockMarksStep ==
  ASSUME IInv, NEW q \in Requests, LockMarks(q)
  PROVE  IInv'
<1>1. /\ Answers(q, "lockOrders") /\ Watch /\ code' = code /\ route' = route
      /\ byHand' = byHand /\ recounted' = recounted
      /\ planning' = [o \in Orders |-> IF o \in local[q].hand /\ planning[o] = "PLANNED"
                                         THEN "LOCKED" ELSE planning[o]]
  BY DEF LockMarks
<1>2. TypeOK /\ Filed /\ Memory(q)
  BY DEF IInv, Memories
<1>3. planning' \in [Orders -> {"PENDING", "PLANNED", "LOCKED"}]
  BY <1>1, <1>2 DEF TypeOK
<1>4. /\ Moved(q, "idle", Blank) /\ at[q] = "lockOrders" /\ Blank \in Local /\ Blank.hand = {}
      /\ Memory(q)' /\ Packing(q)' /\ Informed(q)' /\ HistoryGrows
  BY <1>1, <1>2, <1>3, AnswersBlank DEF TypeOK, Stage
<1>5. RoutesKept /\ Filed' /\ \A p \in Plans : DriversKept(p)
  BY <1>1, <1>2, RoutesStay
<1>6. ASSUME NEW o \in Orders \ contested'
      PROVE  /\ o \notin local[q].hand => Untouched(o)
             /\ o \in local[q].hand => Free(o)' \/ OnOne(o)'
  <2>1. Carrying(o)' = Carrying(o)
    BY <1>1 DEF Carrying, Stored
  <2>2. o \notin local[q].hand => Untouched(o)
    BY <1>1, <2>1 DEF Untouched
  <2>3. ASSUME o \in local[q].hand PROVE OnOne(o)'
    <3>1. Held(q, o) /\ local[q].id \in Routes
      BY <1>2, <1>4, <2>3 DEF IInv, Ordered, HistoryGrows, Memory, Locking
    <3> QED
      BY <1>1, <1>4, <2>1, <2>3, <3>1 DEF Held, OnOne
  <2> QED
    BY <2>2, <2>3
<1> QED
  BY <1>1, <1>2, <1>3, <1>4, <1>5, <1>6, WriteStep DEF IInv, TypeOK, Stage

-----------------------------------------------------------------------------
(* assignRoute and autoDispatchPlan.                                       *)

LEMMA AssignReadsStep ==
  ASSUME IInv, NEW q \in Requests, NEW r \in Routes, NEW d \in Drivers \cup {None},
         NEW v \in Vehicles \cup {None}, AssignReads(q, r, d, v)
  PROVE  IInv'
<1> DEFINE p == route[r].plan
           memory == [Blank EXCEPT !.plan = p, !.id = r, !.driver = d, !.vehicle = v]
<1>1. /\ Moved(q, "assign", memory) /\ at[q] = "idle" /\ Watch
      /\ UNCHANGED <<documents, byHand>> /\ recounted' = recounted /\ Stored(r)
  BY DEF AssignReads, Arrives, Moved
<1>2. TypeOK /\ Filed /\ local[q].hand = {} /\ p \in Plans
  BY <1>1 DEF IInv, Memories, Memory, Filed
<1> HIDE DEF p
<1>3. memory \in Local /\ memory.plan = p /\ memory.id = r /\ memory.hand = {}
  BY <1>2 DEF Local, Blank
<1> HIDE DEF memory
<1>4. Others(q) /\ at'[q] = "assign" /\ local'[q] = memory /\ route' = route
  BY <1>1, <1>2, <1>3, MovedTo DEF documents, Stage
<1>5. Memory(q)' /\ Packing(q)' /\ Informed(q)'
  BY <1>1, <1>2, <1>3, <1>4 DEF Memory, Packing, Informed, Planning, Locking, Dispatching, Stored, p
<1> QED
  BY <1>1, <1>2, <1>3, <1>5, ReadStep DEF TypeOK, Stage

\* A driver picked by hand is in the history; the orders of the route stay.
LEMMA AssignSavesStep ==
  ASSUME IInv, NEW q \in Requests, AssignSaves(q)
  PROVE  IInv'
<1> DEFINE r == local[q].id
           p == local[q].plan
           v == local[q].vehicle
<1>1. /\ Answers(q, "assign") /\ Watch /\ Stored(r)
      /\ code' = code /\ planning' = planning /\ byHand' = byHand \cup {r} /\ recounted' = recounted
      /\ route' = [route EXCEPT ![r].driver = local[q].driver,
                                ![r].vehicle = IF v = None THEN @ ELSE v]
  BY DEF AssignSaves
<1>2. TypeOK /\ Filed /\ local[q] \in Local /\ Memory(q) /\ at[q] = "assign"
  BY <1>1 DEF IInv, Memories, TypeOK, Answers, Goes
<1>3. r \in Routes /\ p \in Plans /\ route[r].plan = p /\ local[q].hand = {}
  BY <1>2 DEF Memory
<1>4. local[q].driver \in Drivers \cup {None} /\ v \in Vehicles \cup {None}
  BY <1>2 DEF Local
<1> HIDE DEF p, v
<1>5. /\ route'[r].status = route[r].status /\ route'[r].plan = p /\ route'[r].load = route[r].load
      /\ route'[r].vehicle = (IF v = None THEN route[r].vehicle ELSE v)
      /\ \A s \in Routes \ {r} : route'[s] = route[s]
  BY <1>1, <1>2, <1>3 DEF TypeOK, DeliveryRoute
<1>6. route' \in [Routes -> DeliveryRoute]
  BY <1>1, <1>2, <1>3, <1>4 DEF TypeOK, DeliveryRoute
<1>7. byHand' \in SUBSET Routes /\ byHand \subseteq byHand'
  BY <1>1, <1>2, <1>3 DEF TypeOK
<1>8. /\ Moved(q, "idle", Blank) /\ Blank \in Local /\ Blank.hand = {}
      /\ Memory(q)' /\ Packing(q)' /\ Informed(q)' /\ HistoryGrows
  BY <1>1, <1>2, <1>6, <1>7, AnswersBlank DEF TypeOK, Stage
<1>9. \A s \in Routes : Stored(s)' <=> Stored(s)
  BY <1>5 DEF Stored
<1>10. RoutesKept
  BY <1>3, <1>5 DEF RoutesKept
<1>11. Filed'
  BY <1>2, <1>3, <1>4, <1>5, <1>9 DEF Filed
<1>12. \A x \in Plans : DriversKept(x) \/ (x = p /\ PlanStaffed(x)')
  BY <1>1, <1>3, <1>5, <1>8, <1>9, DriverSet
<1>13. \A o \in Orders : Untouched(o)
  <2>1. \A s \in Routes : route'[s].status = route[s].status /\ route'[s].load = route[s].load
    BY <1>5
  <2> QED
    BY <1>1, <2>1, LoadsStay
<1> QED
  BY <1>1, <1>2, <1>3, <1>6, <1>7, <1>8, <1>10, <1>11, <1>12, <1>13, WriteStep DEF IInv, TypeOK, Stage, p

\* The routes it will give drivers to have none, or are going to lose them first.
LEMMA DispatchReadsStep ==
  ASSUME IInv, NEW q \in Requests, NEW p \in Plans, NEW all \in BOOLEAN, DispatchReads(q, p, all)
  PROVE  IInv'
<1> DEFINE clear == {r \in RoutesOf(p) : /\ all /\ route[r].status = "PLANNED"
                                         /\ route[r].driver # None}
           open == clear \cup {r \in RoutesOf(p) : route[r].driver = None}
           stage == IF clear = {} THEN "dispatch" ELSE "clear"
           memory == [Blank EXCEPT !.plan = p, !.reset = clear, !.open = open,
                                   !.used = DriversOf(RoutesOf(p) \ open)]
<1>1. /\ Moved(q, stage, memory) /\ at[q] = "idle" /\ Watch
      /\ UNCHANGED <<documents, byHand>> /\ recounted' = recounted
  BY DEF DispatchReads, Arrives, Moved
<1>2. TypeOK /\ local[q].hand = {}
  BY <1>1 DEF IInv, Memories, Memory
<1>3. /\ clear \subseteq RoutesOf(p) /\ open \subseteq RoutesOf(p) /\ RoutesOf(p) \subseteq Routes
      /\ \A r \in open \ clear : route[r].driver = None
  BY DEF RoutesOf
<1> HIDE DEF clear, open
<1>4. DriversOf(RoutesOf(p) \ open) \in SUBSET Drivers
  BY <1>2, <1>3 DEF DriversOf, TypeOK, DeliveryRoute
<1>5. /\ memory \in Local /\ memory.plan = p /\ memory.reset = clear /\ memory.open = open
      /\ memory.used = DriversOf(RoutesOf(p) \ open) /\ memory.hand = {}
  BY <1>3, <1>4 DEF Local, Blank
<1> HIDE DEF memory
<1>6. Others(q) /\ at'[q] = stage /\ local'[q] = memory /\ route' = route
  BY <1>1, <1>2, <1>5, MovedTo DEF documents, Stage
<1>7. \A r \in open : route[r].plan = p /\ route[r].status # "UNUSED"
  BY <1>3 DEF RoutesOf, Stored
<1>8. Memory(q)' /\ Packing(q)'
  BY <1>5, <1>6, <1>7 DEF Memory, Packing, Planning, Locking, Dispatching
<1>9. Informed(q)'
  <2>1. \A r \in Routes \ clear : Stored(r) /\ route[r].plan = p
          => route[r].driver \in DriversOf(RoutesOf(p) \ open) \cup {None}
    BY <1>3 DEF RoutesOf, DriversOf
  <2>2. \A r \in Routes : Stored(r)' <=> Stored(r)
    BY <1>6 DEF Stored
  <2>3. Knows(q, local[q].reset)'
    BY <1>5, <1>6, <2>1, <2>2 DEF Knows
  <2>4. clear = {} => Knows(q, {})'
    BY <1>5, <1>6, <2>3
  <2> QED
    BY <1>6, <2>3, <2>4 DEF Informed
<1>10. stage \in Stage /\ stage # "count"
  BY DEF Stage
<1> HIDE DEF stage
<1> QED
  BY <1>1, <1>2, <1>5, <1>8, <1>9, <1>10, ReadStep DEF TypeOK

LEMMA DispatchClearsStep ==
  ASSUME IInv, NEW q \in Requests, DispatchClears(q)
  PROVE  IInv'
<1>1. PICK r \in local[q].reset :
        /\ Goes(q, "clear", IF local[q].reset = {r} THEN "dispatch" ELSE "clear",
                [local[q] EXCEPT !.reset = @ \ {r}])
        /\ route' = [route EXCEPT ![r].driver = None]
  BY DEF DispatchClears
<1> DEFINE stage == IF local[q].reset = {r} THEN "dispatch" ELSE "clear"
           memory == [local[q] EXCEPT !.reset = @ \ {r}]
<1>2. /\ Moved(q, stage, memory) /\ at[q] = "clear" /\ Watch
      /\ code' = code /\ planning' = planning /\ byHand' = byHand /\ recounted' = recounted
  BY <1>1 DEF DispatchClears, Goes, Moved
<1>3. TypeOK /\ Filed /\ local[q] \in Local /\ Memory(q) /\ Informed(q)
  BY DEF IInv, Memories, Staffed, TypeOK
<1>4. r \in Routes
  BY <1>1, <1>3 DEF Local
<1>5. /\ memory \in Local /\ memory.plan = local[q].plan /\ memory.open = local[q].open
      /\ memory.used = local[q].used /\ memory.hand = local[q].hand
      /\ memory.reset = local[q].reset \ {r}
  BY <1>3 DEF Local
<1>6. /\ route' \in [Routes -> DeliveryRoute]
      /\ \A s \in Routes : /\ route'[s].status = route[s].status /\ route'[s].plan = route[s].plan
                           /\ route'[s].load = route[s].load /\ route'[s].vehicle = route[s].vehicle
                           /\ route'[s].driver = IF s = r THEN None ELSE route[s].driver
  BY <1>1, <1>3, <1>4 DEF TypeOK, DeliveryRoute
<1>7. stage \in Stage /\ stage \in {"dispatch", "clear"}
  BY DEF Stage
<1> HIDE DEF memory
<1>8. HistoryGrows /\ Others(q) /\ at'[q] = stage /\ local'[q] = memory
  BY <1>2, <1>3, <1>5, <1>6, <1>7, WatchedStep DEF TypeOK
<1>9. \A s \in Routes : Stored(s)' <=> Stored(s)
  BY <1>6 DEF Stored
<1>10. RoutesKept /\ Filed' /\ \A p \in Plans : DriversKept(p)
  <2>1. RoutesKept
    BY <1>6 DEF RoutesKept
  <2>2. Filed'
    BY <1>3, <1>6, <1>9 DEF Filed
  <2>3. \A p \in Plans : DriversKept(p)
    BY <1>6, <1>9 DEF DriversKept
  <2> QED
    BY <2>1, <2>2, <2>3
<1>11. \A o \in Orders : Untouched(o)
  BY <1>2, <1>6, LoadsStay
<1>12. local[q].hand = {}
  BY <1>2, <1>3 DEF Memory
<1>13. Memory(q)' /\ Packing(q)'
  <2>1. local[q].open \subseteq Routes
    BY <1>3 DEF Local
  <2> QED
    BY <1>2, <1>3, <1>5, <1>6, <1>7, <1>8, <1>12, <2>1
       DEF Memory, Packing, Planning, Locking, Dispatching
<1>14. Informed(q)'
  <2> SUFFICES ASSUME local[q].plan \notin crowded' PROVE Informed(q)'
    BY <1>5, <1>8 DEF Informed
  <2>1. Knows(q, local[q].reset)
    BY <1>2, <1>3, <1>8 DEF Informed, HistoryGrows
  <2>2. \A s \in Routes \ (local[q].reset \ {r}) : Stored(s) /\ route[s].plan = local[q].plan
          => route'[s].driver \in local[q].used \cup {None}
    BY <1>6, <2>1 DEF Knows
  <2>3. Knows(q, local[q].reset)'
    BY <1>5, <1>6, <1>8, <1>9, <2>2 DEF Knows
  <2>4. stage = "dispatch" => Knows(q, {})'
    BY <1>5, <1>6, <1>8, <1>9, <2>2 DEF Knows
  <2> QED
    BY <1>7, <1>8, <2>3, <2>4 DEF Informed
<1> HIDE DEF stage
<1> QED
  BY <1>2, <1>3, <1>5, <1>6, <1>7, <1>10, <1>11, <1>12, <1>13, <1>14, WriteStep DEF TypeOK

\* The driver it gives a route was used on none of the plan's.
LEMMA DispatchesStep ==
  ASSUME IInv, NEW q \in Requests, Dispatches(q)
  PROVE  IInv'
<1> DEFINE p == local[q].plan
<1>1. PICK r \in local[q].open, d \in FreeDrivers(local[q].used) :
        /\ d # None => Stored(r)
        /\ route' = IF d = None THEN route ELSE [route EXCEPT ![r].driver = d]
        /\ Goes(q, "dispatch", "dispatch",
                [local[q] EXCEPT !.open = @ \ {r}, !.used = (@ \cup {d}) \ {None}])
  BY DEF Dispatches
<1> DEFINE memory == [local[q] EXCEPT !.open = @ \ {r}, !.used = (@ \cup {d}) \ {None}]
<1>2. /\ Moved(q, "dispatch", memory) /\ at[q] = "dispatch" /\ Watch
      /\ code' = code /\ planning' = planning /\ byHand' = byHand /\ recounted' = recounted
  BY <1>1 DEF Dispatches, Goes, Moved
<1>3. TypeOK /\ Filed /\ local[q] \in Local /\ Memory(q) /\ Informed(q)
  BY DEF IInv, Memories, Staffed, TypeOK
<1>4. /\ r \in Routes /\ route[r].plan = p /\ p \in Plans /\ local[q].hand = {}
      /\ d \in Drivers \cup {None} /\ (d = None \/ d \notin local[q].used)
  BY <1>1, <1>2, <1>3 DEF Local, Memory, Dispatching, FreeDrivers
<1>5. /\ memory \in Local /\ memory.plan = p /\ memory.open = local[q].open \ {r}
      /\ memory.used = (local[q].used \cup {d}) \ {None} /\ memory.hand = local[q].hand
  <2>1. (local[q].used \cup {d}) \ {None} \in SUBSET Drivers
    BY <1>3, <1>4 DEF Local
  <2> QED
    BY <1>3, <2>1 DEF Local
<1>6. /\ route' \in [Routes -> DeliveryRoute]
      /\ \A s \in Routes :
           /\ route'[s].status = route[s].status /\ route'[s].plan = route[s].plan
           /\ route'[s].load = route[s].load /\ route'[s].vehicle = route[s].vehicle
           /\ route'[s].driver = IF s = r /\ d # None THEN d ELSE route[s].driver
  BY <1>1, <1>3, <1>4 DEF TypeOK, DeliveryRoute
<1> HIDE DEF memory, p
<1>7. HistoryGrows /\ Others(q) /\ at'[q] = "dispatch" /\ local'[q] = memory
  BY <1>2, <1>3, <1>5, <1>6, WatchedStep DEF TypeOK, Stage
<1>8. \A s \in Routes : Stored(s)' <=> Stored(s)
  BY <1>6 DEF Stored
<1>9. RoutesKept /\ Filed'
  <2>1. RoutesKept
    BY <1>6 DEF RoutesKept
  <2>2. Filed'
    BY <1>3, <1>6, <1>8 DEF Filed
  <2> QED
    BY <2>1, <2>2
<1>10. \A o \in Orders : Untouched(o)
  BY <1>2, <1>6, LoadsStay
<1>11. Memory(q)' /\ Packing(q)'
  <2>1. local[q].open \subseteq Routes
    BY <1>3 DEF Local
  <2>2. \A s \in local[q].open : route[s].status # "UNUSED" /\ route[s].plan = p
    BY <1>2, <1>3 DEF Memory, Dispatching, p
  <2> QED
    BY <1>4, <1>5, <1>6, <1>7, <2>1, <2>2 DEF Memory, Packing, Planning, Locking, Dispatching
<1>12. p \in crowded' \/ Knows(q, {})
  BY <1>2, <1>3, <1>7 DEF Informed, HistoryGrows, p
<1>13. Informed(q)'
  <2>1. Knows(q, {}) => Knows(q, {})'
    BY <1>5, <1>6, <1>7, <1>8 DEF Knows, p
  <2> QED
    BY <1>5, <1>7, <1>12, <2>1 DEF Informed
<1>14. \A x \in Plans : DriversKept(x) \/ (x = p /\ PlanStaffed(x)')
  <2>1. \/ p \in crowded' \/ route'[r].driver = route[r].driver
        \/ \A s \in Routes \ {r} : Stored(s) /\ route[s].plan = p
             => route[s].driver = None \/ route[s].driver # route'[r].driver
    BY <1>4, <1>6, <1>12 DEF Knows, p
  <2> QED
    BY <1>4, <1>6, <1>7, <1>8, <2>1, DriverSet
<1> QED
  BY <1>2, <1>3, <1>4, <1>5, <1>6, <1>9, <1>10, <1>11, <1>13, <1>14, WriteStep DEF TypeOK, Stage, p

LEMMA DispatchAnswersStep ==
  ASSUME IInv, NEW q \in Requests, DispatchAnswers(q)
  PROVE  IInv'
<1>1. /\ Answers(q, "dispatch") /\ Watch
      /\ UNCHANGED <<documents, byHand, recounted>>
  BY DEF DispatchAnswers
<1>2. TypeOK /\ Memory(q)
  BY DEF IInv, Memories
<1>3. /\ Moved(q, "idle", Blank) /\ at[q] = "dispatch" /\ Blank \in Local /\ Blank.hand = {}
      /\ Memory(q)' /\ Packing(q)' /\ Informed(q)'
  BY <1>1, <1>2, AnswersBlank DEF TypeOK, Stage, documents
<1>4. local[q].hand = {}
  BY <1>2, <1>3 DEF Memory
<1> QED
  BY <1>1, <1>2, <1>3, <1>4, ReadStep DEF TypeOK, Stage

-----------------------------------------------------------------------------
(* The theorems.                                                           *)

LEMMA InitIInv == Init => IInv
<1> SUFFICES ASSUME Init PROVE IInv
  OBVIOUS
<1>1. Blank.hand = {} /\ Blank.plan = None /\ Blank \in Local
  BY BlankIsLocal DEF Blank
<1>2. NoRoute \in DeliveryRoute /\ NoRoute.status = "UNUSED"
  BY DEF NoRoute, DeliveryRoute, RouteStatus
<1>3. TypeOK
  BY <1>1, <1>2 DEF Init, TypeOK, Stage
<1>4. \A r \in Routes : ~Stored(r)
  BY <1>2 DEF Init, Stored
<1>5. Memories
  BY <1>1, <1>4 DEF Init, Memories, Filed, Memory, Packing, Planning, Locking, Dispatching
<1>6. Numbered
  <2>1. \A p \in Plans : code[p] = 0
    BY DEF Init
  <2> QED
    BY <2>1, CountIsNat DEF Init, Numbered
<1>7. Staffed
  BY <1>1, <1>4, NoneAssumption DEF Init, Staffed, Apart, Informed, OneRoutePerDriver
<1>8. Ordered
  BY <1>1, <1>4 DEF Init, Ordered, Disjoint, Free, Carrying
<1> QED
  BY <1>3, <1>5, <1>6, <1>7, <1>8 DEF IInv

LEMMA StutterIInv == IInv /\ UNCHANGED vars => IInv'
<1> SUFFICES ASSUME IInv, UNCHANGED vars PROVE IInv'
  OBVIOUS
<1>1. /\ code' = code /\ planning' = planning /\ route' = route /\ at' = at /\ local' = local
      /\ contested' = contested /\ crowded' = crowded /\ byHand' = byHand /\ recounted' = recounted
  BY DEF vars
<1>2. TypeOK'
  BY <1>1 DEF IInv, TypeOK
<1>3. Memories'
  BY <1>1 DEF IInv, Memories, Filed, Stored, Memory, Packing
<1>4. Numbered'
  BY <1>1 DEF IInv, Numbered, Count
<1>5. Staffed'
  BY <1>1 DEF IInv, Staffed, Apart, Informed, Knows, Stored, OneRoutePerDriver
<1>6. Ordered'
  BY <1>1 DEF IInv, Ordered, Disjoint, InHand, Held, Free, OnOne, Carrying, Stored
<1> QED
  BY <1>2, <1>3, <1>4, <1>5, <1>6 DEF IInv

LEMMA StepIInv == IInv /\ [Next]_vars => IInv'
<1> SUFFICES ASSUME IInv, Next PROVE IInv'
  BY StutterIInv
<1>1. ASSUME NEW q \in Requests, Step(q) PROVE IInv'
  BY <1>1, CreatePlanCountsStep, CreatePlanStep, OptimizeReadsStep, OptimizeReleasesStep,
     OptimizeDropsStep, OptimizeReadsPoolStep, OptimizeCreatesStep, OptimizeSavesStep,
     OptimizeMarksStep, LockReadsStep, LockSavesStep, LockMarksStep, AssignReadsStep,
     AssignSavesStep, DispatchReadsStep, DispatchClearsStep, DispatchesStep,
     DispatchAnswersStep, FailsStep DEF Step
<1> QED
  BY <1>1, DeletePlanStep DEF Next

THEOREM Invariance == Spec => []IInv
BY InitIInv, StepIInv, PTL DEF Spec

\* Documents, memories and histories keep their types, whatever two dispatchers do.
THEOREM Types == Spec => []TypeOK
<1>1. IInv => TypeOK
  BY DEF IInv
<1> QED
  BY <1>1, Invariance, PTL

\* An order that was never in the hands of two requests, nor of one that failed, is PENDING
\* on no route or on exactly one, with its status (routePlanController.js:1328-1651, 862-899).
THEOREM OrdersAgree == Spec => []UncontestedOrdersAgree
<1>1. IInv => UncontestedOrdersAgree
  <2> SUFFICES ASSUME IInv, NEW o \in Orders \ contested, ~InHand(o)
               PROVE  /\ \A r, s \in Carrying(o) : r = s
                      /\ planning[o] = IF Carrying(o) = {} THEN "PENDING"
                                       ELSE route[CHOOSE r \in Carrying(o) : TRUE].status
    BY DEF UncontestedOrdersAgree
  <2>1. Free(o) \/ OnOne(o)
    BY DEF IInv, Ordered
  <2>2. CASE Free(o)
    BY <2>2 DEF Free
  <2>3. CASE OnOne(o)
    <3>1. PICK r \in Routes : Carrying(o) = {r} /\ planning[o] = route[r].status
      BY <2>3 DEF OnOne
    <3>2. (CHOOSE s \in Carrying(o) : TRUE) = r
      BY <3>1
    <3> QED
      BY <3>1, <3>2
  <2> QED
    BY <2>1, <2>2, <2>3
<1> QED
  BY <1>1, Invariance, PTL

\* What a handler has looked up as free, a driver or a plan's number, is still free when it
\* is taken, unless the history says why not (routePlanController.js:606-620, 871-882).
THEOREM FreeWhenTaken == Spec => []TakenOnce
<1>1. IInv => TakenOnce
  BY DEF IInv, Staffed, Numbered, TakenOnce, PlanCodesDiffer
<1> QED
  BY <1>1, Invariance, PTL
=============================================================================
