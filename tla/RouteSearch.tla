----------------------------- MODULE RouteSearch -----------------------------
(***************************************************************************)
(* How stops are given to vehicles: the two packers of routePlanController *)
(* ("pack"), and the heuristics of utils/routeOptimizer, furthest-first    *)
(* with 2-opt ("nn2opt") and cheapest insertion with a large-neighbourhood *)
(* search ("lns-sa").  Every insertion, removal and improving move is a    *)
(* step; where the code takes the first improving move it finds, or draws  *)
(* at random, the model allows any of them.                                *)
(***************************************************************************)
EXTENDS RouteMoves

CONSTANTS Loading, Service,      \* minutes at the depot and at each stop
          ShiftStart, ShiftEnd, LunchStart, LunchEnd,
          Removed,    \* stops shawRemoval takes out
          MaxIters    \* bound: iterations of the large-neighbourhood search

\* Both entry points answer at once when they are given no vehicle.
ASSUME VehiclesAssumption ==
    IsFiniteSet(Vehicles) /\ Vehicles # {} /\ Vehicles = 1 .. Cardinality(Vehicles)
ASSUME DaysAssumption ==
    \A d \in DOMAIN Days :
        /\ Days[d].weight \in Seq(Nat) /\ Days[d].volume \in Seq(Nat)
        /\ Len(Days[d].volume) = Len(Days[d].weight)
        /\ Days[d].maxWeight \in [Vehicles -> Nat]
        /\ Days[d].place \in [0 .. Len(Days[d].weight) -> Int \X Int]
ASSUME ShiftAssumption == \A s \in DOMAIN ShiftStart : ShiftStart[s] <= ShiftEnd[s]

VARIABLES alg,    \* the algorithm that runs
          shift,  \* RoutePlan.Shift
          phase,  \* build, loop, final or last
          pc,     \* where it is in the phase
          at,     \* vehicle being seeded, packed or improved
          sol,    \* the solution being built: routes and loads
          open,   \* stops not placed yet: remaining, unassigned, pool
          left,   \* stops given up: reported as skipped
          cur, best, \* the search's current and best solutions
          iter,
          forced  \* history: a stop was put on a vehicle that cannot take it

search == <<day, alg, shift, phase, pc, at, sol, open, left, cur, best, iter, forced>>

TotalCost(x) == Length(x.routes)

Empty == [routes |-> [v \in Vehicles |-> <<>>],
          load |-> [v \in Vehicles |-> [weight |-> 0, volume |-> 0]]]
Loaded(load, s, n) == [weight |-> load.weight + n * Weight[s],
                       volume |-> load.volume + n * Volume[s]]

Insert(x, v, p, s) == [routes |-> [x.routes EXCEPT ![v] = InsertAt(@, p, s)],
                       load |-> [x.load EXCEPT ![v] = Loaded(@, s, 1)]]
Append1(x, v, s) == Insert(x, v, Len(x.routes[v]) + 1, s)
\* Mutant: the stop leaves, its weight stays.
RemoveStopOnly(x, v, s) == [x EXCEPT !.routes[v] = Without(@, {s})]
Remove1(x, v, s) == [routes |-> [x.routes EXCEPT ![v] = Without(@, {s})],
                     load |-> [x.load EXCEPT ![v] = Loaded(@, s, -1)]]

-----------------------------------------------------------------------------
(* May stop s ride on vehicle v?                                           *)

CapacityOk(v, load, s) ==
    /\ MaxWeight[v] > 0 => load.weight + Weight[s] <= MaxWeight[v]
    /\ MaxVolume[v] > 0 => load.volume + Volume[s] <= MaxVolume[v]

ClassesMix(S, s) ==
    \A t \in S : Classes[s] \cap Refuses[t] = {} /\ Classes[t] \cap Refuses[s] = {}

CanTake(x, v, s) ==
    /\ CapacityOk(v, x.load[v], s)
    /\ Needs[s] \subseteq Has[v]
    /\ ClassesMix(ToSet(x.routes[v]), s)

\* The stop, the vehicle and the position of an insertion.
Places(x, S) == {c \in S \X Vehicles \X (1 .. Cardinality(Stops)) :
                    c[3] <= Len(x.routes[c[2]]) + 1 /\ CanTake(x, c[2], c[1])}
Price(x, c) == InsertDelta(x.routes[c[2]], c[3], c[1])
Cheapest(x, C) == {c \in C : \A d \in C : Price(x, c) <= Price(x, d)}
-----------------------------------------------------------------------------
(* The packers: vehicles in order of capacity, each filled by cheapest     *)
(* insertion while it is back at the depot before the shift ends.          *)

PackOrder == SetToSortSeq(Vehicles, LAMBDA v, w :
                MaxWeight[v] > MaxWeight[w] \/ (MaxWeight[v] = MaxWeight[w] /\ v < w))

AddWork(t, d, when) ==
    IF when = "FULL_DAY" /\ t >= LunchStart /\ t < LunchEnd THEN LunchEnd + d
    ELSE IF when = "FULL_DAY" /\ t < LunchStart /\ t + d >= LunchStart
         THEN t + d + (LunchEnd - LunchStart)
    ELSE t + d

\* When the vehicle is back from r.
BackAt(r, place, when) ==
    LET drive(i, j) == Apart(place[i], place[j])
    IN AddWork(FoldLeftDomain(
                 LAMBDA t, i : AddWork(AddWork(t, drive(At(r, i - 1), r[i]), when), Service, when),
                 ShiftStart[when] + Loading, r),
               drive(Last(r), Depot), when)
FinishOf(r, place, when) == IF r = <<>> THEN ShiftStart[when] ELSE BackAt(r, place, when)
Finish(r) == FinishOf(r, Place, shift)

Fits(v) == {c \in Places(sol, open) : c[2] = v
                /\ Finish(InsertAt(sol.routes[v], c[3], c[1])) <= ShiftEnd[shift]}

PackStop ==
    /\ pc = "pack" /\ at <= Cardinality(Vehicles)
    /\ \E c \in Cheapest(sol, Fits(PackOrder[at])) :
          /\ sol' = Insert(sol, c[2], c[3], c[1])
          /\ open' = open \ {c[1]}
    /\ UNCHANGED <<day, alg, shift, phase, pc, at, left, cur, best, iter, forced>>

NextVehicle ==
    /\ pc = "pack" /\ at <= Cardinality(Vehicles)
    /\ Fits(PackOrder[at]) = {}
    /\ at' = at + 1
    /\ IF at = Cardinality(Vehicles)
       THEN pc' = "done" /\ left' = open /\ open' = {}
       ELSE UNCHANGED <<pc, left, open>>
    /\ UNCHANGED <<day, alg, shift, phase, sol, cur, best, iter, forced>>

-----------------------------------------------------------------------------
(* Construction: nearestNeighborConstruct, cheapestInsertionConstruct.     *)

Slack(v, s) == IF MaxWeight[v] > 0 THEN MaxWeight[v] - sol.load[v].weight - Weight[s] ELSE 0
BestFit(s) == LET can == {v \in Vehicles : CanTake(sol, v, s)}
              IN {v \in can : \A w \in can : Slack(v, s) <= Slack(w, s)}

FitFurthest ==
    /\ pc = "fit"
    /\ \E s \in Furthest(open) :
          /\ open' = open \ {s}
          /\ \/ BestFit(s) = {} /\ left' = left \cup {s} /\ UNCHANGED sol
             \/ \E v \in BestFit(s) : sol' = Append1(sol, v, s) /\ UNCHANGED left
    /\ pc' = IF open' = {} THEN "2opt" ELSE "fit"
    /\ UNCHANGED <<day, alg, shift, phase, at, cur, best, iter, forced>>

SeedVehicle ==
    /\ pc = "seed"
    /\ LET can == {s \in open : CanTake(sol, at, s)}
       IN \/ can = {} /\ UNCHANGED <<sol, open>>
          \/ \E s \in Furthest(can) : sol' = Append1(sol, at, s) /\ open' = open \ {s}
    /\ pc' = IF at = Cardinality(Vehicles) THEN "insert" ELSE "seed"
    /\ at' = IF at = Cardinality(Vehicles) THEN 1 ELSE at + 1
    /\ UNCHANGED <<day, alg, shift, phase, left, cur, best, iter, forced>>

InsertCheapest ==
    /\ pc = "insert"
    /\ IF Places(sol, open) = {}
       THEN pc' = "2opt" /\ left' = left \cup open /\ open' = {} /\ UNCHANGED sol
       ELSE \E c \in Cheapest(sol, Places(sol, open)) :
               /\ sol' = Insert(sol, c[2], c[3], c[1])
               /\ open' = open \ {c[1]}
               /\ UNCHANGED <<pc, left>>
    /\ UNCHANGED <<day, alg, shift, phase, at, cur, best, iter, forced>>

-----------------------------------------------------------------------------
(* Local search.  Each move yields the solutions it may lead to.           *)

\* What the operator named by pc offers for one route.
Offers(r) == CASE pc = "2opt" -> TwoOpt(r, 2)
               [] pc = "or1" -> OrOpt(r, 1)
               [] pc = "or2" -> OrOpt(r, 2)
               [] pc = "or3" -> OrOpt(r, 3)

Relocated ==
    {Insert(Remove1(sol, c[1], c[2]), c[3], c[4], c[2]) :
       c \in {d \in Vehicles \X Stops \X Vehicles \X (1 .. Cardinality(Stops)) :
                /\ d[2] \in ToSet(sol.routes[d[1]]) /\ d[1] /= d[3]
                /\ <<d[2], d[3], d[4]>> \in Places(sol, {d[2]})
                /\ LET r == sol.routes[d[1]]
                       i == CHOOSE k \in DOMAIN r : r[k] = d[2]
                   IN InsertDelta(RemoveAt(r, i), i, d[2])
                        > InsertDelta(sol.routes[d[3]], d[4], d[2])}}

\* trySwap weighs the exchange but does not measure its volume.
MaySwap(v, a, w, b) ==
    /\ MaxWeight[v] > 0 => sol.load[v].weight - Weight[a] + Weight[b] <= MaxWeight[v]
    /\ MaxWeight[w] > 0 => sol.load[w].weight - Weight[b] + Weight[a] <= MaxWeight[w]
    /\ Needs[b] \subseteq Has[v] /\ Needs[a] \subseteq Has[w]
    /\ ClassesMix(ToSet(sol.routes[v]) \ {a}, b)
    /\ ClassesMix(ToSet(sol.routes[w]) \ {b}, a)
Put(x, v, a, b) == [routes |-> [x.routes EXCEPT ![v] = [i \in DOMAIN @ |-> IF @[i] = a THEN b ELSE @[i]]],
                    load |-> [x.load EXCEPT ![v] = Loaded(Loaded(@, a, -1), b, 1)]]
Swapped ==
    {Put(Put(sol, c[1], c[2], c[4]), c[3], c[4], c[2]) :
       c \in {d \in Vehicles \X Stops \X Vehicles \X Stops :
                /\ d[1] < d[3]
                /\ d[2] \in ToSet(sol.routes[d[1]]) /\ d[4] \in ToSet(sol.routes[d[3]])
                /\ MaySwap(d[1], d[2], d[3], d[4])
                /\ SwapDelta(sol.routes[d[1]], d[2], d[4])
                     + SwapDelta(sol.routes[d[3]], d[4], d[2]) < 0}}

-----------------------------------------------------------------------------
(* localSearchAll, and the same two operators inside the loop: route by    *)
(* route, each operator until it finds nothing more.                       *)

LocalMove ==
    /\ pc \in {"2opt", "or1", "or2", "or3"}
    /\ \E r \in Offers(sol.routes[at]) : sol' = [sol EXCEPT !.routes[at] = r]
    /\ UNCHANGED <<day, alg, shift, phase, pc, at, open, left, cur, best, iter, forced>>

After == [build |-> "relocate", loop |-> "accept", final |-> "relocate", last |-> "done"]
NextRoute ==
    IF at < Cardinality(Vehicles) THEN at' = at + 1 /\ pc' = "2opt"
    ELSE at' = 1 /\ pc' = IF alg = "nn2opt" THEN "done" ELSE After[phase]

LocalNext ==
    /\ pc \in {"2opt", "or1", "or2", "or3"}
    /\ Offers(sol.routes[at]) = {}
    /\ \/ pc = "2opt" /\ alg = "lns-sa" /\ pc' = "or1" /\ UNCHANGED at
       \/ pc = "or1" /\ phase /= "loop" /\ pc' = "or2" /\ UNCHANGED at
       \/ pc = "or2" /\ pc' = "or3" /\ UNCHANGED at
       \/ pc = "2opt" /\ alg = "nn2opt" /\ NextRoute
       \/ pc = "or1" /\ phase = "loop" /\ NextRoute
       \/ pc = "or3" /\ NextRoute
    /\ UNCHANGED <<day, alg, shift, phase, sol, open, left, cur, best, iter, forced>>

Relocate ==
    /\ pc = "relocate"
    /\ \/ sol' \in Relocated /\ UNCHANGED pc
       \/ Relocated = {} /\ pc' = "swap" /\ UNCHANGED sol
    /\ UNCHANGED <<day, alg, shift, phase, at, open, left, cur, best, iter, forced>>

Swap ==
    /\ pc = "swap"
    /\ \/ sol' \in Swapped /\ UNCHANGED <<phase, pc, cur, best>>
       \/ /\ Swapped = {} /\ UNCHANGED sol
          /\ IF phase = "build"
             THEN phase' = "loop" /\ pc' = "destroy" /\ cur' = sol /\ best' = sol
             ELSE phase' = "last" /\ pc' = "2opt" /\ UNCHANGED <<cur, best>>
    /\ UNCHANGED <<day, alg, shift, at, open, left, iter, forced>>

-----------------------------------------------------------------------------
(* lnsSa: take related stops out of a copy of the current solution, put    *)
(* them back greedily, accept or not.                                      *)

Placed(x) == UNION {ToSet(x.routes[v]) : v \in Vehicles}
Related(x) == {R \in SUBSET Placed(x) :
                 /\ Cardinality(R) = Min({Removed, Cardinality(Placed(x))})
                 /\ \E p \in R : \A s \in R, t \in Placed(x) \ R : Dist(p, s) <= Dist(p, t)}
TakeOut(x, R) ==
    [routes |-> [v \in Vehicles |-> Without(x.routes[v], R)],
     load |-> [v \in Vehicles |->
                 [weight |-> x.load[v].weight - SumOf(Weight, R \cap ToSet(x.routes[v])),
                  volume |-> x.load[v].volume - SumOf(Volume, R \cap ToSet(x.routes[v]))]]]

Destroy ==
    /\ pc = "destroy" /\ iter < MaxIters
    /\ \/ Placed(cur) = {} /\ sol' = cur /\ open' = {}
       \/ Placed(cur) /= {} /\ \E R \in Related(cur) : sol' = TakeOut(cur, R) /\ open' = R
    /\ pc' = "reinsert" /\ iter' = iter + 1
    /\ UNCHANGED <<day, alg, shift, phase, at, left, cur, best, forced>>

LeastLoaded(x) == {v \in Vehicles : \A w \in Vehicles : x.load[v].weight <= x.load[w].weight}
Reinsert ==
    /\ pc = "reinsert"
    /\ \/ open = {} /\ pc' = "2opt" /\ UNCHANGED <<sol, open, forced>>
       \/ \E c \in Cheapest(sol, Places(sol, open)) :
             /\ sol' = Insert(sol, c[2], c[3], c[1]) /\ open' = open \ {c[1]}
             /\ UNCHANGED <<pc, forced>>
       \/ /\ Places(sol, open) = {}
          /\ \E s \in open : \E v \in LeastLoaded(sol) :
                sol' = Append1(sol, v, s) /\ open' = open \ {s}
          /\ forced' = TRUE
          /\ UNCHANGED pc
    /\ UNCHANGED <<day, alg, shift, phase, at, left, cur, best, iter>>

Accept ==
    /\ pc = "accept"
    /\ \/ /\ cur' = sol
          /\ best' = IF TotalCost(sol) < TotalCost(best) THEN sol ELSE best
       \/ TotalCost(sol) >= TotalCost(cur) /\ UNCHANGED <<cur, best>>
    /\ pc' = "destroy"
    /\ UNCHANGED <<day, alg, shift, phase, at, sol, open, left, iter, forced>>

Intensify ==
    /\ pc = "destroy" /\ iter = MaxIters
    /\ sol' = best /\ phase' = "final" /\ pc' = "2opt"
    /\ UNCHANGED <<day, alg, shift, at, open, left, cur, best, iter, forced>>

-----------------------------------------------------------------------------
SearchInit ==
    /\ day \in DOMAIN Days
    /\ \/ alg = "pack" /\ pc = "pack"
       \/ alg = "nn2opt" /\ pc = "fit"
       \/ alg = "lns-sa" /\ pc = "seed"
    /\ shift \in DOMAIN ShiftStart
    /\ alg = "pack" \/ shift = "FULL_DAY"
    /\ phase = "build" /\ at = 1 /\ iter = 0
    /\ sol = Empty /\ cur = Empty /\ best = Empty
    /\ open = Stops /\ left = {} /\ forced = FALSE

SearchNext ==
    \/ PackStop \/ NextVehicle
    \/ FitFurthest \/ SeedVehicle \/ InsertCheapest
    \/ LocalMove \/ LocalNext \/ Relocate \/ Swap
    \/ Destroy \/ Reinsert \/ Accept \/ Intensify

SearchSpec == SearchInit /\ [][SearchNext]_search

-----------------------------------------------------------------------------
(* Properties.                                                             *)

\* In every step of every algorithm each stop is on one vehicle, waiting or given up,
\* never on two vehicles and never lost, and the loads the code keeps incrementally are
\* the sums over the routes (buildOutput reports them as the route's weight and volume).
StopsAreKept ==
    /\ \A s \in Stops :
          Cardinality({p \in Vehicles \X (1 .. Cardinality(Stops)) :
                         At(sol.routes[p[1]], p[2]) = s}) = IF s \in open \cup left THEN 0 ELSE 1
    /\ open \cap left = {}
    /\ \A v \in Vehicles :
          /\ sol.load[v].weight = SumOf(Weight, ToSet(sol.routes[v]))
          /\ sol.load[v].volume = SumOf(Volume, ToSet(sol.routes[v]))

\* A vehicle carries only what it may: weight, capabilities and classes always, unless
\* a reinsertion had to be forced; what the packers leave also drives home in time.
VehiclesAgree ==
    /\ forced \/ \A v \in Vehicles :
          /\ MaxWeight[v] > 0 => sol.load[v].weight <= MaxWeight[v]
          /\ \A s \in ToSet(sol.routes[v]) :
                /\ Needs[s] \subseteq Has[v]
                /\ \A t \in ToSet(sol.routes[v]) : s /= t => Classes[s] \cap Refuses[t] = {}
    /\ alg = "pack" => \A v \in Vehicles : Finish(sol.routes[v]) <= ShiftEnd[shift]

\* Every move of the local search, priced by the edges it changes, lowers the length of
\* the whole solution.
MovesPay ==
    [][(/\ pc \in {"2opt", "or1", "or2", "or3", "relocate", "swap"}
        /\ sol' /= sol) => TotalCost(sol') < TotalCost(sol)]_search
=============================================================================
