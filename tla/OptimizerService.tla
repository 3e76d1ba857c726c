--------------------------- MODULE OptimizerService ---------------------------
(***************************************************************************)
(* optimizer-service: what POST /optimize computes with each of its three  *)
(* algorithms, and POST /benchmark with one after the other.  "hgs" breeds *)
(* a population of feasible and infeasible individuals, educates each      *)
(* child with local search and prices overloads with a penalty that        *)
(* adapts; "lns-sa" and "nn2opt" are the baselines it is compared with.    *)
(*                                                                         *)
(* An insertion or a move is a step; a random draw is any of its outcomes. *)
(* The time budget may end the first and the second phase anywhere.        *)
(***************************************************************************)
EXTENDS RouteSearch

CONSTANTS Mu, Lambda,      \* Population's mu and lam
          Elites,          \* mu // 4 of them survive a diversification
          Stagnation,      \* stagnation_limit
          Period,          \* iterations between two adaptations of the penalty (50)
          Light,           \* more stops than this get the light education (50)
          Rounds,          \* bound: iterations of the main loop
          Penalties,       \* bound: the values the penalty may take
          Fixed,           \* the penalty of lns-sa: 1e6
          OutRemoved       \* stops lns-sa takes out

VARIABLES algorithm,       \* of the request
          step,            \* what it is doing
          ind,             \* the individual being built: its routes
          out,             \* stops not on a route yet
          todo,            \* operators of the education still to run
          passes, changed, \* passes of a full education, did this one change ind
          pop,             \* the population: [routes, fitness] of each individual
          fresh, renewing, \* the population a diversification fills, while it does
          made,            \* individuals made in this phase
          current, found,  \* lns-sa's cur, and the best so far
          foundAt, round,  \* best_iter and the iteration
          penalty          \* penalty_w and penalty_v

service == <<algorithm, step, ind, out, todo, passes, changed, pop, fresh, renewing, made,
             current, found, foundAt, round, penalty>>

NoRoutes == [v \in Vehicles |-> <<>>]
Sum(r, W) == SumOf(W, ToSet(r))
Over(n, cap) == IF cap > 0 /\ n > cap THEN n - cap ELSE 0
RouteExcess(v, r) == Over(Sum(r, Weight), MaxWeight[v]) + Over(Sum(r, Volume), MaxVolume[v])
Excess(x) == MapThenSumSet(LAMBDA v : RouteExcess(v, x[v]), Vehicles)
Feasible(x) == Excess(x) = 0
Fitness(x, p) == Length(x) + p * Excess(x)                       \* evaluate's fitness
HasRoom(x, v, s) ==
    /\ MaxWeight[v] > 0 => Sum(x[v], Weight) + Weight[s] <= MaxWeight[v]
    /\ MaxVolume[v] > 0 => Sum(x[v], Volume) + Volume[s] <= MaxVolume[v]

PutIn(x, v, p, s) == [x EXCEPT ![v] = InsertAt(@, p, s)]
Drop(x, S) == [v \in Vehicles |-> Without(x[v], S)]
Slots(x, S) == {c \in S \X Vehicles \X (1 .. Cardinality(Stops)) : c[3] <= Len(x[c[2]]) + 1}
Roomy(x, S) == {c \in Slots(x, S) : HasRoom(x, c[2], c[1])}
Delta(x, c) == InsertDelta(x[c[2]], c[3], c[1])
Cheap(x, C) == {c \in C : \A d \in C : Delta(x, c) <= Delta(x, d)}
Foremost(V) == {v \in V : \A w \in V : v <= w}
Lightest(x) == Foremost({v \in Vehicles : \A w \in Vehicles : Sum(x[v], Weight) <= Sum(x[w], Weight)})

Placing(c) == ind' = PutIn(ind, c[2], c[3], c[1]) /\ out' = out \ {c[1]}
AtEnd(v, s) == <<s, v, Len(ind[v]) + 1>>

-----------------------------------------------------------------------------
(* The education: intra_route_search, relocate_inter, swap_inter.          *)

Intra == <<"2opt", "or1", "or2", "or3">>
FullPass == Intra \o <<"relocate", "swap", "again">>
LightPass == Intra \o <<"relocate">> \o Intra
Polish == Intra \o <<"relocate", "swap">>

Shorter(f(_)) == UNION {{[ind EXCEPT ![v] = r] : r \in f(ind[v])} : v \in Vehicles}

Now(p) == IF algorithm = "hgs" THEN p ELSE Fixed
Gain(x) == Fitness(x, Now(penalty)) - Fitness(ind, Now(penalty))
\* The i-th stop of v goes to the position of another route that costs least.
Elsewhere(v, i) ==
    LET rest == [ind EXCEPT ![v] = RemoveAt(@, i)]
        to == {PutIn(rest, c[2], c[3], ind[v][i]) : c \in {d \in Slots(rest, {ind[v][i]}) : d[2] /= v}}
    IN {x \in to : Gain(x) < 0 /\ \A y \in to : Gain(x) <= Gain(y)}
Exchanged(a, b) == [v \in Vehicles |-> [i \in DOMAIN ind[v] |->
                      CASE ind[v][i] = a -> b [] ind[v][i] = b -> a [] OTHER -> ind[v][i]]]
Together(a, b) == \E v \in Vehicles : {a, b} \subseteq ToSet(ind[v])

Offer(o) ==
    CASE o = "2opt" -> Shorter(LAMBDA r : TwoOpt(r, 1))
      [] o = "or1" -> Shorter(LAMBDA r : OrOpt(r, 1))
      [] o = "or2" -> Shorter(LAMBDA r : OrOpt(r, 2))
      [] o = "or3" -> Shorter(LAMBDA r : OrOpt(r, 3))
      [] o = "relocate" -> UNION {UNION {Elsewhere(v, i) : i \in DOMAIN ind[v]} : v \in Vehicles}
      [] o = "swap" -> {x \in {Exchanged(p[1], p[2]) : p \in {q \in Stops \X Stops : ~Together(q[1], q[2])}} :
                          Gain(x) < 0}
      [] o = "again" -> {}

Educating == step \in {"educate", "polish", "tune"} /\ todo /= <<>>

Improve ==
    /\ Educating
    /\ ind' \in Offer(Head(todo))
    /\ changed' = TRUE
    /\ UNCHANGED <<algorithm, step, out, todo, passes, pop, fresh, renewing, made, current, found,
                   foundAt, round, penalty>>

NoMore ==
    /\ Educating /\ Offer(Head(todo)) = {}
    /\ \/ Head(todo) /= "again" /\ todo' = Tail(todo) /\ UNCHANGED <<passes, changed>>
       \/ /\ Head(todo) = "again"
          /\ IF changed /\ passes < 4
             THEN todo' = FullPass /\ passes' = passes + 1 /\ changed' = FALSE
             ELSE todo' = <<>> /\ UNCHANGED <<passes, changed>>
    /\ UNCHANGED <<algorithm, step, ind, out, pop, fresh, renewing, made, current, found,
                   foundAt, round, penalty>>

Educate(name, ops) == step' = name /\ todo' = ops /\ passes' = 1 /\ changed' = FALSE

-----------------------------------------------------------------------------
(* Constructions.                                                          *)

\* _nearest_neighbor_construct: the furthest stop to the first vehicle with room, or to
\* the first vehicle.
Nearest ==
    /\ step = "nearest"
    /\ \E s \in Furthest(out) :
          LET room == {v \in Vehicles : HasRoom(ind, v, s)}
          IN \E v \in IF room = {} THEN {1} ELSE Foremost(room) : Placing(AtEnd(v, s))
    /\ IF out' = {} THEN Educate("polish", <<"2opt">>) ELSE UNCHANGED <<step, todo, passes, changed>>
    /\ UNCHANGED <<algorithm, pop, fresh, renewing, made, current, found, foundAt, round, penalty>>

Constructed == IF algorithm = "hgs" THEN Educate("educate", FullPass) ELSE Educate("tune", Polish)

\* cheapest_insertion: each vehicle's seed is the furthest stop it can carry; the others go
\* where they cost least, or are drawn at random and then go where they cost least, or on
\* the lightest vehicle when no one has room.
Seeds(v) == {s \in out : HasRoom(NoRoutes, v, s)}
Seed ==
    /\ step \in {"cheapest", "shuffled"}
    /\ \E v \in Vehicles :
          /\ ind[v] = <<>> /\ Seeds(v) /= {}
          /\ \A w \in Vehicles : w < v => ind[w] /= <<>> \/ Seeds(w) = {}
          /\ \E s \in Furthest(Seeds(v)) : Placing(<<s, v, 1>>)
    /\ UNCHANGED <<algorithm, step, todo, passes, changed, pop, fresh, renewing, made, current, found,
                   foundAt, round, penalty>>

Seeded == \A v \in Vehicles : ind[v] /= <<>> \/ Seeds(v) = {}
Insertion ==
    /\ step \in {"cheapest", "shuffled"} /\ Seeded
    /\ \/ out = {} /\ Constructed /\ UNCHANGED <<ind, out>>
       \/ /\ \/ step = "cheapest" /\ \E c \in Cheap(ind, Roomy(ind, out)) : Placing(c)
             \/ step = "shuffled" /\ \E s \in out : \E c \in Cheap(ind, Roomy(ind, {s})) : Placing(c)
             \/ \E s \in out : /\ Roomy(ind, IF step = "cheapest" THEN out ELSE {s}) = {}
                               /\ \E v \in Lightest(ind) : Placing(AtEnd(v, s))
          /\ UNCHANGED <<step, todo, passes, changed>>
    /\ UNCHANGED <<algorithm, pop, fresh, renewing, made, current, found, foundAt, round, penalty>>

\* random_split: a stop drawn at random goes to the first of the vehicles with most slack.
Room(v, s) == IF MaxWeight[v] > 0 THEN MaxWeight[v] - Sum(ind[v], Weight) - Weight[s] ELSE 1000
Slackest(s) == LET room == {v \in Vehicles : HasRoom(ind, v, s)}
               IN IF room = {} THEN Lightest(ind)
                  ELSE Foremost({v \in room : \A w \in room : Room(w, s) <= Room(v, s)})
Scatter ==
    /\ step = "scatter"
    /\ \/ out = {} /\ Constructed /\ UNCHANGED <<ind, out>>
       \/ \E s \in out : /\ \E v \in Slackest(s) : Placing(AtEnd(v, s))
                         /\ UNCHANGED <<step, todo, passes, changed>>
    /\ UNCHANGED <<algorithm, pop, fresh, renewing, made, current, found, foundAt, round, penalty>>

-----------------------------------------------------------------------------
(* hgs.                                                                    *)

Member(x) == [routes |-> x, fitness |-> Fitness(x, penalty)]
Bucket(P, x) == {m \in P : Feasible(m.routes) = Feasible(x)}
\* Population.add, _survivor_select: beyond mu + lam a bucket keeps mu; which ones its
\* ranks of fitness and diversity keep is left open.
Added(P, x) ==
    LET b == Bucket(P \cup {Member(x)}, x)
        rest == (P \cup {Member(x)}) \ b
    IN IF Cardinality(b) > Mu + Lambda THEN {rest \cup K : K \in kSubset(Mu, b)} ELSE {rest \cup b}
Fittest(S) == {m \in S : \A o \in S : m.fitness <= o.fitness}
BestOverall(P) ==
    LET ok == {m \in P : Feasible(m.routes)} IN {m.routes : m \in Fittest(IF ok = {} THEN P ELSE ok)}

StartWith(kind) == ind' = NoRoutes /\ out' = Stops /\ step' = kind

\* The first individuals: one cheapest insertion, mu drawn ones, the others scattered.  When
\* they are all in, or the time is over, the best of them is the first best.
Enter ==
    /\ step = "educate" /\ todo = <<>> /\ round = 0
    /\ pop' \in Added(pop, ind)
    /\ made' = made + 1
    /\ \/ /\ made' < 2 * Mu
          /\ StartWith(IF made' <= Mu THEN "shuffled" ELSE "scatter")
          /\ UNCHANGED <<found, foundAt, round>>
       \/ /\ found' \in BestOverall(pop') /\ round' = 1 /\ foundAt' = 1 /\ step' = "breed"
          /\ UNCHANGED <<ind, out>>
    /\ UNCHANGED <<algorithm, todo, passes, changed, fresh, renewing, current, penalty>>

\* Diversification: the elites and mu new individuals replace the population.
Renew ==
    /\ step = "breed" /\ round <= Rounds /\ round - foundAt > Stagnation
    /\ \E E \in kSubset(Min({Elites, Cardinality(pop)}), pop) :
          /\ \A e \in E, m \in pop \ E : e.fitness <= m.fitness
          /\ fresh' = E
    /\ made' = 0 /\ foundAt' = round /\ renewing' = TRUE
    /\ StartWith("scatter")
    /\ UNCHANGED <<algorithm, todo, passes, changed, pop, current, found, round, penalty>>

Refill ==
    /\ step = "educate" /\ todo = <<>> /\ round > 0 /\ renewing
    /\ made' = made + 1
    /\ \E P \in Added(fresh, ind) :
          IF made' < Mu THEN fresh' = P /\ StartWith("scatter") /\ UNCHANGED <<pop, renewing>>
          ELSE pop' = P /\ fresh' = {} /\ renewing' = FALSE /\ step' = "breed" /\ UNCHANGED <<ind, out>>
    /\ UNCHANGED <<algorithm, todo, passes, changed, current, found, foundAt, round, penalty>>

\* srex_crossover: some routes of a, the rest of b's routes with their own stops in the
\* free vehicles, b's first in the first free one; b's last routes find no vehicle and
\* their stops are missing.
Taken(a) == LET used == {v \in Vehicles : a[v] /= <<>>}
            IN {T \in SUBSET used : Cardinality(T) \in 1 .. Max({1, Cardinality(used) - 1})}
Child(a, b, T) ==
    LET place(v) == Cardinality({w \in Vehicles \ T : w <= v})
        mine == UNION {ToSet(a[v]) : v \in T}
    IN [v \in Vehicles |-> IF v \in T THEN a[v] ELSE Without(b[place(v)], mine)]
Born(a, b, T) == Child(a, b, T)

Parents == {p \in pop \X pop : p[1] /= p[2] \/ Cardinality(pop) = 1}
Breed ==
    /\ step = "breed" /\ round <= Rounds /\ round - foundAt <= Stagnation
    /\ \E p \in Parents : \E T \in Taken(p[1].routes) :
          /\ ind' = Born(p[1].routes, p[2].routes, T)
          /\ out' = Stops \ UNION {ToSet(ind'[v]) : v \in Vehicles}
    /\ step' = "missing"
    /\ UNCHANGED <<algorithm, todo, passes, changed, pop, fresh, renewing, made, current, found, foundAt,
                   round, penalty>>

\* Missing stops go where they cost least; a vehicle without room costs 1000 more for the
\* weight and 1000 more for the volume.
Score(c) == LET v == c[2] IN Delta(ind, c)
              + (IF MaxWeight[v] > 0 /\ Sum(ind[v], Weight) + Weight[c[1]] > MaxWeight[v] THEN 1000 ELSE 0)
              + (IF MaxVolume[v] > 0 /\ Sum(ind[v], Volume) + Volume[c[1]] > MaxVolume[v] THEN 1000 ELSE 0)
Missing ==
    /\ step = "missing"
    /\ \/ /\ out = {}
          /\ Educate("educate", IF Cardinality(Stops) > Light THEN LightPass ELSE FullPass)
          /\ UNCHANGED <<ind, out>>
       \/ /\ \E s \in out : \E c \in Slots(ind, {s}) :
                /\ \A d \in Slots(ind, {s}) : Score(c) <= Score(d)
                /\ Placing(c)
          /\ UNCHANGED <<step, todo, passes, changed>>
    /\ UNCHANGED <<algorithm, pop, fresh, renewing, made, current, found, foundAt, round, penalty>>

\* The child joins; it is the best so far if it is feasible and shorter; every Period
\* rounds the penalty follows the share of feasible individuals.
Adapted(P) ==
    LET ok == Cardinality({m \in P : Feasible(m.routes)})
    IN IF round % Period /= 0 THEN penalty
       ELSE IF 100 * ok < 15 * Cardinality(P) /\ penalty + 1 \in Penalties THEN penalty + 1
       ELSE IF 100 * ok > 35 * Cardinality(P) /\ penalty - 1 \in Penalties THEN penalty - 1
       ELSE penalty
Join ==
    /\ step = "educate" /\ todo = <<>> /\ round > 0 /\ ~renewing
    /\ pop' \in Added(pop, ind)
    /\ IF Feasible(ind) /\ Length(ind) < Length(found)
       THEN found' = ind /\ foundAt' = round ELSE UNCHANGED <<found, foundAt>>
    /\ penalty' = Adapted(pop')
    /\ round' = round + 1 /\ step' = "breed"
    /\ UNCHANGED <<algorithm, ind, out, todo, passes, changed, fresh, renewing, made, current>>

\* The iterations or the time are over: the best is educated once more.
Finale ==
    /\ step = "breed"
    /\ ind' = found /\ Educate("polish", FullPass)
    /\ UNCHANGED <<algorithm, out, pop, fresh, renewing, made, current, found, foundAt, round, penalty>>

-----------------------------------------------------------------------------
(* lns-sa.                                                                 *)

Ruin ==
    /\ step = "destroy" /\ round < Rounds
    /\ LET n == Min({OutRemoved, Cardinality(Stops)})
       IN \E R \in kSubset(n, Stops) :
             /\ \E p \in R : \A s \in R, t \in Stops \ R : Dist(p, s) <= Dist(p, t)
             /\ ind' = Drop(current, R) /\ out' = R
    /\ step' = "reinsert" /\ round' = round + 1
    /\ UNCHANGED <<algorithm, todo, passes, changed, pop, fresh, renewing, made, current, found, foundAt,
                   penalty>>

Reinsertion ==
    /\ step = "reinsert"
    /\ \/ out = {} /\ Educate("tune", <<"2opt", "or1">>) /\ UNCHANGED <<ind, out>>
       \/ /\ \/ \E c \in Cheap(ind, Roomy(ind, out)) : Placing(c)
             \/ Roomy(ind, out) = {} /\ \E s \in out, v \in Lightest(ind) : Placing(AtEnd(v, s))
          /\ UNCHANGED <<step, todo, passes, changed>>
    /\ UNCHANGED <<algorithm, pop, fresh, renewing, made, current, found, foundAt, round, penalty>>

Anneal ==
    /\ step = "tune" /\ todo = <<>>
    /\ \/ round = 0 /\ current' = ind /\ found' = ind
       \/ /\ round > 0 /\ current' = ind
          /\ found' = IF Length(ind) < Length(found) THEN ind ELSE found
       \/ round > 0 /\ Length(ind) >= Length(current) /\ UNCHANGED <<current, found>>
    /\ step' = "destroy"
    /\ UNCHANGED <<algorithm, ind, out, todo, passes, changed, pop, fresh, renewing, made, foundAt, round,
                   penalty>>

Cooled ==
    /\ step = "destroy" /\ round = Rounds
    /\ ind' = found /\ Educate("polish", Polish \o Intra)
    /\ UNCHANGED <<algorithm, out, pop, fresh, renewing, made, current, found, foundAt, round, penalty>>

-----------------------------------------------------------------------------
\* What the request answers with: nn2opt and lns-sa what the last step made; hgs its best,
\* or its education when that is feasible and shorter.
Answer ==
    /\ step = "polish" /\ todo = <<>>
    /\ found' = IF algorithm = "hgs" /\ ~(Feasible(ind) /\ Length(ind) < Length(found)) THEN found ELSE ind
    /\ step' = "done"
    /\ UNCHANGED <<algorithm, ind, out, todo, passes, changed, pop, fresh, renewing, made, current,
                   foundAt, round, penalty>>

ServiceInit ==
    /\ algorithm \in {"hgs", "lns-sa", "nn2opt"}
    /\ step = IF algorithm = "nn2opt" THEN "nearest" ELSE "cheapest"
    /\ ind = NoRoutes /\ out = Stops
    /\ todo = <<>> /\ passes = 1 /\ changed = FALSE
    /\ pop = {} /\ fresh = {} /\ renewing = FALSE /\ made = 0
    /\ current = NoRoutes /\ found = NoRoutes
    /\ foundAt = 0 /\ round = 0
    /\ penalty \in Penalties /\ (algorithm = "hgs" \/ penalty = Min(Penalties))

ServiceNext ==
    \/ Improve \/ NoMore
    \/ Nearest \/ Seed \/ Insertion \/ Scatter
    \/ Enter \/ Renew \/ Refill \/ Breed \/ Missing \/ Join \/ Finale
    \/ Ruin \/ Reinsertion \/ Anneal \/ Cooled
    \/ Answer

-----------------------------------------------------------------------------
(* Properties.                                                             *)

Whole(x) == \A s \in Stops :
    Cardinality({p \in Vehicles \X (1 .. Cardinality(Stops)) : At(x[p[1]], p[2]) = s}) = 1

\* However individuals are bred, taken apart and put together, every stop is on one route of
\* everyone in the population and of the answer: app.py returns the routes as the plan.
EveryoneIsWhole ==
    /\ \A m \in pop \cup fresh : Whole(m.routes)
    /\ (round > 0 \/ step = "done") => Whole(found)

-----------------------------------------------------------------------------
\* A request plans a day with the backend's own heuristics or with the optimizer service.
RoutingInit == SearchInit /\ ServiceInit
RoutingNext == (SearchNext /\ UNCHANGED service) \/ (ServiceNext /\ UNCHANGED search)
RoutingSpec == RoutingInit /\ [][RoutingNext]_<<search, service>>

\* Whatever heuristic runs, in the backend or in the service, stops are neither lost nor
\* carried twice, and vehicles carry what they may (routeOptimizer.js, hgs/crossover.py).
RoutesAreSound == StopsAreKept /\ VehiclesAgree /\ EveryoneIsWhole
=============================================================================
