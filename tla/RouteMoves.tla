------------------------------ MODULE RouteMoves ------------------------------
(***************************************************************************)
(* What utils/routeOptimizer.js and optimizer-service/hgs compute about a  *)
(* route: its length, the price of an insertion, and the moves of the      *)
(* local search, priced by the edges they change.                          *)
(*                                                                         *)
(* A position is a pair of coordinates and a distance the Manhattan one,   *)
(* a metric like the haversine; a minute of driving is a unit of distance. *)
(***************************************************************************)
EXTENDS Integers, Sequences, FiniteSets, SequencesExt, FiniteSetsExt, Functions

CONSTANTS Vehicles,   \* 1 .. m
          Days        \* a sequence of cases, each the data of one day

VARIABLE day          \* the case that is planned

Place == Days[day].place           \* Place[0] is the depot's position
Weight == Days[day].weight         \* of a stop 1 .. n
Stops == DOMAIN Weight
Volume == Days[day].volume
Needs == Days[day].needs           \* requiredCapabilities
Classes == Days[day].classes       \* handlingClasses
Refuses == Days[day].refuses       \* incompatibleClasses
MaxWeight == Days[day].maxWeight   \* of a vehicle; 0 is no limit
MaxVolume == Days[day].maxVolume
Has == Days[day].has               \* capabilities of a vehicle

Depot == 0
Abs(n) == IF n < 0 THEN -n ELSE n
Apart(p, q) == Abs(p[1] - q[1]) + Abs(p[2] - q[2])
Dist(i, j) == Apart(Place[i], Place[j])

At(r, i) == IF i \in DOMAIN r THEN r[i] ELSE Depot
\* f[1] + ... + f[n].
SumTo(f, n) ==
    LET sum[k \in 0 .. n] == IF k = 0 THEN 0 ELSE sum[k - 1] + f[k]
    IN sum[n]
RouteDist(r) == SumTo([i \in 1 .. Len(r) + 1 |-> Dist(At(r, i - 1), At(r, i))], Len(r) + 1)
Length(routes) == SumTo([v \in Vehicles |-> RouteDist(routes[v])], Cardinality(Vehicles))
\* What the stops of S weigh together, or take up.
SumOf(W, S) == SumTo([n \in 1 .. Len(W) |-> IF n \in S THEN W[n] ELSE 0], Len(W))
\* r without the stops of S.
Without(r, S) ==
    LET left[n \in 0 .. Len(r)] ==
            IF n = 0 THEN <<>> ELSE IF r[n] \in S THEN left[n - 1] ELSE Append(left[n - 1], r[n])
    IN left[Len(r)]
Furthest(S) == {s \in S : \A t \in S : Dist(Depot, t) <= Dist(Depot, s)}

\* The price of s before position p of r.
InsertDelta(r, p, s) ==
    Dist(At(r, p - 1), s) + Dist(s, At(r, p)) - Dist(At(r, p - 1), At(r, p))

Reversed(r, i, j) == SubSeq(r, 1, i - 1) \o Reverse(SubSeq(r, i, j)) \o SubSeq(r, j + 1, Len(r))
\* Mutant: the way back to the depot is forgotten.
TwoOptDeltaOpen(r, i, j) ==
    LET to(k, p) == IF p \in DOMAIN r THEN Dist(k, r[p]) ELSE 0
    IN Dist(At(r, i - 1), r[j]) + to(r[i], j + 1) - Dist(At(r, i - 1), r[i]) - to(r[j], j + 1)
TwoOptDelta(r, i, j) ==
    Dist(At(r, i - 1), r[j]) + Dist(r[i], At(r, j + 1))
      - Dist(At(r, i - 1), r[i]) - Dist(r[j], At(r, j + 1))
TwoOpt(r, gap) ==
    IF Len(r) < 3 THEN {}
    ELSE {Reversed(r, c[1], c[2]) :
            c \in {d \in (1 .. Len(r)) \X (1 .. Len(r)) :
                     d[2] >= d[1] + gap /\ TwoOptDelta(r, d[1], d[2]) < 0}}

\* A segment of n stops from position i goes to position p of what is left.
Cut(r, i, n) == SubSeq(r, 1, i - 1) \o SubSeq(r, i + n, Len(r))
Moved(r, i, n, p) ==
    LET w == Cut(r, i, n) IN SubSeq(w, 1, p - 1) \o SubSeq(r, i, i + n - 1) \o SubSeq(w, p, Len(w))
OrOptGain(r, i, n, p) ==
    LET w == Cut(r, i, n)
        save == Dist(At(r, i - 1), r[i]) + Dist(r[i + n - 1], At(r, i + n))
                  - Dist(At(r, i - 1), At(r, i + n))
        cost == Dist(At(w, p - 1), r[i]) + Dist(r[i + n - 1], At(w, p))
                  - Dist(At(w, p - 1), At(w, p))
    IN save - cost
OrOpt(r, n) ==
    IF Len(r) <= n THEN {}
    ELSE {Moved(r, c[1], n, c[2]) :
            c \in {d \in (1 .. Len(r) - n + 1) \X (1 .. Len(r) - n + 1) :
                     d[1] /= d[2] /\ OrOptGain(r, d[1], n, d[2]) > 0}}

SwapDelta(r, a, b) ==
    LET i == CHOOSE k \in DOMAIN r : r[k] = a
    IN Dist(At(r, i - 1), b) + Dist(b, At(r, i + 1)) - Dist(At(r, i - 1), a) - Dist(a, At(r, i + 1))
=============================================================================
