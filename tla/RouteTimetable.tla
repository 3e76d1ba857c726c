---------------------------- MODULE RouteTimetable ----------------------------
(***************************************************************************)
(* What routePlanController.js derives from the stops of a route and       *)
(* stores beside them: times, distance, load and cost, through every       *)
(* request that changes stops, vehicle, shift or contract.                 *)
(*                                                                         *)
(* Times are tenths of a minute since midnight, distances in units of      *)
(* 5 km as in TrafficTable.  Weight stands for weight and volume.  PLANNED *)
(* routes of one plan only: the guards on statuses are in RoutePlanning.   *)
(***************************************************************************)
EXTENDS TrafficTable, FiniteSets

CONSTANTS Routes, Orders, Vehicles,
          Customer,  \* of an order
          Weight,    \* of an order
          Cases,     \* of an order
          Distance,  \* between customers; "depot" is where routes begin and end
          Vehicle,   \* [speed, loading, unloading, maxWeight, outsourced] of a vehicle
          Tables     \* traffic tables a plan may be optimised with
ASSUME TimetableAssumption == \A v \in Vehicles : Vehicle[v].speed > 0 /\ Vehicle[v].maxWeight \in Nat

Shifts == {"MORNING", "AFTERNOON", "FULL_DAY"}
Departs(shift) == IF shift = "AFTERNOON" THEN 8100 ELSE 4800
LunchStart == 7200
LunchEnd == 8100
NoTraffic == <<>>

-----------------------------------------------------------------------------
(* The arithmetic.                                                         *)

\* Work that meets the lunch break of a full day is put off or prolonged.
AddWork(start, duration, shift) ==
    IF shift /= "FULL_DAY" THEN start + duration
    ELSE IF start >= LunchStart /\ start < LunchEnd THEN LunchEnd + duration
    ELSE IF start < LunchStart /\ start + duration >= LunchStart
         THEN start + duration + (LunchEnd - LunchStart)
         ELSE start + duration

SumOver(f, S) == FoldSet(LAMBDA o, n : f[o] + n, 0, S)
\* stopServiceMinutes: the vehicle's own time, else heavy or light.
ServiceTime(v, stop) ==
    IF Vehicle[v].unloading > 0 THEN Vehicle[v].unloading
    ELSE IF SumOver(Cases, stop.orders) >= 10 \/ Cardinality(stop.orders) > 1 THEN 300 ELSE 150
LoadingTime(v) == IF Vehicle[v].loading < 300 THEN Vehicle[v].loading ELSE 300

FactorAt(table, t, leg) ==
    IF table = NoTraffic THEN 1000 ELSE TotalFactor(table, (t \div 600) % 24, leg)
\* ROAD_TIME_FACTOR 1.35 on the straight line.
Travel(v, leg, t, table) == (leg * 4050 * FactorAt(table, t, leg)) \div (Vehicle[v].speed * 1000)

\* minutesToHHMM: the hour is split off before the minutes are rounded.
HHMM(t) == <<(t \div 600) % 24, ((t + 5) \div 10) % 60>>

\* recomputeRouteTimings; the way back knows no traffic.
Departing(v, shift) ==
    [at |-> "depot", t |-> AddWork(Departs(shift), LoadingTime(v), shift), stops |-> <<>>]
Visit(v, shift, table, w, stop) ==
    LET leg == Distance[w.at][stop.customer]
        arrival == AddWork(w.t, Travel(v, leg, w.t, table), shift)
        departure == AddWork(arrival, ServiceTime(v, stop), shift)
    IN [at |-> stop.customer, t |-> departure, stops |-> Append(w.stops, <<HHMM(arrival), HHMM(departure)>>)]
Drive(stops, v, shift, table) ==
    FoldLeft(LAMBDA w, stop : Visit(v, shift, table, w, stop), Departing(v, shift), stops)
Timetable(stops, v, shift, table) ==
    IF stops = <<>> THEN [start |-> "", stops |-> <<>>, back |-> ""]
    ELSE LET w == Drive(stops, v, shift, table)
             home == Distance[w.at]["depot"]
         IN [start |-> HHMM(Departs(shift)), stops |-> w.stops,
             back |-> HHMM(AddWork(w.t, Travel(v, home, w.t, NoTraffic), shift))]
\* The legs and the way back; recomputeRouteTimings adds up the same.
Round(stops) ==
    LET end == FoldLeft(LAMBDA w, stop : [at |-> stop.customer, distance |-> w.distance + Distance[w.at][stop.customer]],
                        [at |-> "depot", distance |-> 0], stops)
    IN end.distance + Distance[end.at]["depot"]
Length(stops) == IF stops = <<>> THEN 0 ELSE Round(stops)

Carried(stops) == UNION {stops[i].orders : i \in DOMAIN stops}
Load(stops) == IF stops = <<>> THEN 0 ELSE SumOver(Weight, Carried(stops))

\* recomputeEstimatedCost: by contract if the route or the vehicle is outsourced and one
\* is known, with its minimal charge, else by the vehicle's own rates.
Cost(v, contract, distance, load) ==
    IF (contract.outsourced /\ contract.service) \/ Vehicle[v].outsourced
    THEN LET base == 2 * distance + load IN IF base < 5 THEN 5 ELSE base
    ELSE 3 + distance

-----------------------------------------------------------------------------
(* The routes.                                                             *)

VARIABLES stops,     \* DeliveryRoute.Stops: [customer, orders]
          vehicle, shift,
          contract,  \* IsOutsourced, and whether ServiceID is set
          times,     \* the stored times
          distance, load, cost,
          timedBy,   \* history: the traffic table of the stored times
          behind,    \* history: routes whose times are not those of their stops
          overfilled \* history: routes loaded by hand beyond their vehicle

timetable == <<stops, vehicle, shift, contract, times, distance, load, cost, timedBy, behind, overfilled>>

NoContract == [outsourced |-> FALSE, service |-> FALSE]

TimetableInit ==
    /\ stops = [r \in Routes |-> <<>>]
    /\ vehicle \in {f \in [Routes -> Vehicles] : IsInjective(f)}
    /\ shift = [r \in Routes |-> "FULL_DAY"]
    /\ contract = [r \in Routes |-> NoContract]
    /\ times = [r \in Routes |-> Timetable(<<>>, vehicle[r], "FULL_DAY", NoTraffic)]
    /\ distance = [r \in Routes |-> 0] /\ load = [r \in Routes |-> 0] /\ cost = [r \in Routes |-> 0]
    /\ timedBy = [r \in Routes |-> NoTraffic]
    /\ behind = {} /\ overfilled = {}

\* A vehicle without a limit has 0.
TooHeavy(v, weight) == Vehicle[v].maxWeight > 0 /\ weight > Vehicle[v].maxWeight

\* refreshRouteMetrics on the routes whose stops change to new[r]: a route that is
\* empty keeps the times it had, and times forget the traffic.
Refresh(new) ==
    LET touched == DOMAIN new
        filled == {r \in touched : new[r] /= <<>>}
        Of(r) == Length(new[r])
    IN /\ stops' = [r \in Routes |-> IF r \in touched THEN new[r] ELSE stops[r]]
       /\ load' = [r \in Routes |-> IF r \in touched THEN Load(new[r]) ELSE load[r]]
       /\ distance' = [r \in Routes |-> IF r \in touched THEN Of(r) ELSE distance[r]]
       /\ cost' = [r \in Routes |-> IF r \in filled THEN Cost(vehicle[r], contract[r], Of(r), Load(new[r]))
                                    ELSE IF r \in touched THEN 0 ELSE cost[r]]
       /\ times' = [r \in Routes |->
             IF r \in filled THEN Timetable(new[r], vehicle[r], shift[r], NoTraffic) ELSE times[r]]
       /\ timedBy' = [r \in Routes |-> IF r \in filled THEN NoTraffic ELSE timedBy[r]]
       /\ behind' = (behind \ filled) \cup (touched \ filled)
       /\ overfilled' = (overfilled \ {r \in touched : ~TooHeavy(vehicle[r], Load(new[r]))})
                            \cup {r \in touched : TooHeavy(vehicle[r], Load(new[r]))}
       /\ UNCHANGED <<vehicle, shift, contract>>

Dropped(ss, o) ==
    SelectSeq([i \in DOMAIN ss |-> [ss[i] EXCEPT !.orders = @ \ {o}]], LAMBDA s : s.orders /= {})
\* To the stop of its customer if there is one, else to a stop of its own before the i-th.
Put(ss, o, i) ==
    IF \E j \in DOMAIN ss : ss[j].customer = Customer[o]
    THEN [j \in DOMAIN ss |-> IF ss[j].customer = Customer[o]
                              THEN [ss[j] EXCEPT !.orders = @ \cup {o}] ELSE ss[j]]
    ELSE InsertAt(ss, i, [customer |-> Customer[o], orders |-> {o}])

\* No capacity is looked at.
AddOrder(r, o) ==
    /\ \A q \in Routes : o \notin Carried(stops[q])
    /\ Refresh([q \in {r} |-> Put(stops[r], o, Len(stops[r]) + 1)])

RemoveOrder(r, o) ==
    /\ o \in Carried(stops[r])
    /\ Refresh([q \in {r} |-> Dropped(stops[r], o)])

\* reorderOrder within a route, or to another that can carry it.
Reorder(from, to, o, i) ==
    /\ o \in Carried(stops[from])
    /\ from /= to => ~TooHeavy(vehicle[to], load[to] + Weight[o])
    /\ LET left == Dropped(stops[from], o)
           into == IF from = to THEN left ELSE stops[to]
           at == IF i > Len(into) + 1 THEN Len(into) + 1 ELSE i
       IN Refresh([q \in {from, to} |-> IF q = to THEN Put(into, o, at) ELSE left])

\* Mutant: the new vehicle is not weighed against what is loaded.
SwapAnyVehicle(r, v) ==
    /\ v /= vehicle[r]
    /\ \A q \in Routes \ {r} : vehicle[q] /= v
    /\ vehicle' = [vehicle EXCEPT ![r] = v]
    /\ cost' = [cost EXCEPT ![r] = Cost(v, contract[r], distance[r], load[r])]
    /\ behind' = behind \cup {r}
    /\ overfilled' = overfilled \ {r}
    /\ UNCHANGED <<stops, shift, contract, times, distance, load, timedBy>>

\* assignRoute with a vehicle: the cost is the new vehicle's, the times stay the old one's.
SwapVehicle(r, v) ==
    /\ v /= vehicle[r]
    /\ \A q \in Routes \ {r} : vehicle[q] /= v
    /\ ~TooHeavy(v, load[r])
    /\ vehicle' = [vehicle EXCEPT ![r] = v]
    /\ cost' = [cost EXCEPT ![r] = Cost(v, contract[r], distance[r], load[r])]
    /\ behind' = behind \cup {r}
    /\ overfilled' = overfilled \ {r}
    /\ UNCHANGED <<stops, shift, contract, times, distance, load, timedBy>>

\* assignRoute with a shift: the cost, then recomputeRouteTimings without traffic.
SetShift(r, s) ==
    /\ shift' = [shift EXCEPT ![r] = s]
    /\ times' = [times EXCEPT ![r] = Timetable(stops[r], vehicle[r], s, NoTraffic)]
    /\ timedBy' = [timedBy EXCEPT ![r] = NoTraffic]
    /\ cost' = [cost EXCEPT ![r] = Cost(vehicle[r], contract[r], distance[r], load[r])]
    /\ distance' = [distance EXCEPT ![r] = Length(stops[r])]
    /\ behind' = behind \ {r}
    /\ UNCHANGED <<stops, vehicle, contract, load, overfilled>>

\* assignRoute with a service or the outsourced mark.
SetContract(r, c) ==
    /\ contract' = [contract EXCEPT ![r] = c]
    /\ cost' = [cost EXCEPT ![r] = Cost(vehicle[r], c, distance[r], load[r])]
    /\ UNCHANGED <<stops, vehicle, shift, times, distance, load, timedBy, behind, overfilled>>

\* optimizeRoutePlan: routes of a full day packed anew within the capacities and timed
\* with one table.
Optimise(packing, table) ==
    /\ \A r \in Routes : ~TooHeavy(vehicle[r], Load(packing[r]))
    /\ stops' = packing
    /\ load' = [r \in Routes |-> Load(packing[r])]
    /\ distance' = [r \in Routes |-> Length(packing[r])]
    /\ shift' = [r \in Routes |-> "FULL_DAY"]
    /\ contract' = [r \in Routes |-> NoContract]
    /\ times' = [r \in Routes |-> Timetable(packing[r], vehicle[r], "FULL_DAY", table)]
    /\ timedBy' = [r \in Routes |-> table]
    /\ cost' = [r \in Routes |-> Cost(vehicle[r], NoContract, distance'[r], load'[r])]
    /\ behind' = {} /\ overfilled' = {}
    /\ UNCHANGED vehicle

\* Orders of one customer share a stop.
Stopping(S) ==
    {ss \in SetToAllKPermutations({[customer |-> c, orders |-> {o \in S : Customer[o] = c}] :
                                     c \in {Customer[o] : o \in S}}) : Carried(ss) = S}
Packings ==
    UNION {{[r \in Routes |-> f[r]] : f \in {g \in [Routes -> UNION {Stopping(S) : S \in SUBSET Orders}] :
              \A r \in Routes : Carried(g[r]) = {o \in DOMAIN on : on[o] = r}}} :
           on \in UNION {[S -> Routes] : S \in SUBSET Orders}}

TimetableNext ==
    \/ \E r \in Routes, o \in Orders : AddOrder(r, o) \/ RemoveOrder(r, o)
    \/ \E r, q \in Routes, o \in Orders, i \in 1 .. Cardinality(Orders) : Reorder(r, q, o, i)
    \/ \E r \in Routes, v \in Vehicles : SwapVehicle(r, v)
    \/ \E r \in Routes, s \in Shifts : SetShift(r, s)
    \/ \E r \in Routes, c \in [outsourced : BOOLEAN, service : BOOLEAN] : SetContract(r, c)
    \/ \E p \in Packings, t \in Tables : Optimise(p, t)

TimetableSpec == TimetableInit /\ [][TimetableNext]_timetable

-----------------------------------------------------------------------------
\* What a route says of itself (routePlanController.js:194-271, 315-376) follows from its
\* stops, vehicle, shift and contract: the load and the distance always, the cost of a
\* route with stops, the times unless the vehicle was swapped or the route emptied since;
\* and no route is too heavy for its vehicle unless orders were added to it by hand.
RouteFiguresAgree ==
    \A r \in Routes :
       /\ load[r] = Load(stops[r])
       /\ distance[r] = Length(stops[r])
       /\ stops[r] /= <<>> => cost[r] = Cost(vehicle[r], contract[r], distance[r], load[r])
       /\ r \notin behind => times[r] = Timetable(stops[r], vehicle[r], shift[r], timedBy[r])
       /\ r \notin overfilled => ~TooHeavy(vehicle[r], load[r])
=============================================================================
