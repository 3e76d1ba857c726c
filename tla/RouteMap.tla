------------------------------- MODULE RouteMap -------------------------------
(***************************************************************************)
(* The map of PlanningPage.jsx: its two effects look up the places of      *)
(* stops without coordinates and the roads between the points, and nothing *)
(* stops a look-up that is out of date.  One route; its stops are          *)
(* customers in the order of the visits.                                   *)
(*                                                                         *)
(* External: a customer's address is found at his place, or not at all;    *)
(* the road between two points is found, or drawn straight.                *)
(***************************************************************************)
EXTENDS Integers, Sequences, FiniteSets, SequencesExt

CONSTANTS Customers,
          Located,   \* the customers whose coordinates are stored with the stop
          MaxViews   \* bound: versions of the route that are shown
ASSUME MapAssumption == Located \subseteq Customers /\ MaxViews \in Nat

VARIABLES shown,      \* the route's stops
          views,      \* how many routes objects were shown
          mapPoints,  \* what was geocoded: <<index, customer, place>>
          lookUps,    \* geocoding under way: of which view, for which stops
          roadLines,  \* the places of the roads drawn
          roadRuns,   \* road look-ups under way: of which view, along which places
          failed,     \* history: the last look-up did not find every address
          forgotten,  \* history: points emptied with no look-up to follow, or set by a slower older one
          crossed     \* history: the road look-up that ended last was not the last to begin

map == <<shown, views, mapPoints, lookUps, roadLines, roadRuns, failed, forgotten, crossed>>

NoLines == <<"none">>

MapInit ==
    /\ shown = <<>> /\ views = 0
    /\ mapPoints = {} /\ lookUps = {}
    /\ roadLines = NoLines /\ roadRuns = {}
    /\ failed = FALSE /\ forgotten = FALSE /\ crossed = FALSE

\* Mutant: a key without the customer.
PointsOfIndex(stops, points) ==
    {<<i, stops[i], stops[i]>> : i \in {j \in DOMAIN stops : stops[j] \in Located}}
        \cup {<<p[1], stops[p[1]], p[3]>> :
                 p \in {q \in points : q[1] \in DOMAIN stops /\ stops[q[1]] \notin Located}}

\* displayMapPoints: a stop's own coordinates, else a point of the same key.
PointsOf(stops, points) ==
    {<<i, stops[i], stops[i]>> : i \in {j \in DOMAIN stops : stops[j] \in Located}}
        \cup {p \in points : p[1] \in DOMAIN stops /\ stops[p[1]] = p[2] /\ p[2] \notin Located}

Places(points) ==
    LET at(i) == {p \in points : p[1] = i}
    IN FoldLeft(LAMBDA seq, i : IF at(i) = {} THEN seq ELSE Append(seq, (CHOOSE p \in at(i) : TRUE)[3]),
                <<>>, [i \in 1 .. Cardinality(Customers) |-> i])

\* The second effect, after a render in which its dependencies are new.
DrawRoads(stops, points, lines) ==
    /\ roadLines' = IF stops = <<>> THEN NoLines ELSE lines
    /\ roadRuns' = IF stops = <<>> THEN roadRuns
                   ELSE roadRuns \cup {[view |-> views + 1, along |-> Places(PointsOf(stops, points))]}
    /\ crossed' = FALSE

\* Other stops come from the server: both effects run.
ShowStops(stops) ==
    /\ views < MaxViews /\ stops # shown
    /\ shown' = stops /\ views' = views + 1
    /\ IF stops = <<>>
       THEN mapPoints' = {} /\ lookUps' = lookUps
       ELSE mapPoints' = mapPoints /\ lookUps' = lookUps \cup {[view |-> views + 1, stops |-> stops]}
    /\ DrawRoads(stops, mapPoints', NoLines)
    /\ forgotten' = FALSE /\ failed' = FALSE

\* invalidate() empties the map; times, shift or driver are new, the signature is not.
Invalidated ==
    /\ views < MaxViews /\ shown # <<>>
    /\ views' = views + 1
    /\ mapPoints' = {} /\ lookUps' = lookUps
    /\ DrawRoads(shown, {}, NoLines)
    /\ forgotten' = (lookUps = {})
    /\ UNCHANGED <<shown, failed>>

Found(stops, found) ==
    {<<i, stops[i], stops[i]>> : i \in {j \in DOMAIN stops : stops[j] \in Located \/ j \in found}}

GeocodeDone(run) ==
    /\ run \in lookUps
    /\ lookUps' = lookUps \ {run}
    /\ views' = views + 1
    /\ \E found \in SUBSET DOMAIN run.stops :
          /\ mapPoints' = Found(run.stops, found)
          /\ failed' = (found # DOMAIN run.stops)
    /\ forgotten' = (run.stops # shown)
    /\ DrawRoads(shown, mapPoints', roadLines)
    /\ UNCHANGED shown

RoadsFound(run) ==
    /\ run \in roadRuns
    /\ roadRuns' = roadRuns \ {run}
    /\ roadLines' = run.along
    /\ crossed' = (run.view # views)
    /\ UNCHANGED <<shown, views, mapPoints, lookUps, failed, forgotten>>

MapNext ==
    \/ \E stops \in SetToAllKPermutations(Customers) : ShowStops(stops)
    \/ Invalidated
    \/ \E run \in lookUps : GeocodeDone(run)
    \/ \E run \in roadRuns : RoadsFound(run)

MapSpec == MapInit /\ [][MapNext]_map

-----------------------------------------------------------------------------
\* The map of PlanningPage.jsx:324-432 never shows a stop at another customer's place,
\* whatever order its look-ups end in; and when none is under way every stop has its
\* point, unless its address was not found, a slower look-up of other stops ended last,
\* or the points were emptied without a look-up to bring them back.  The roads drawn
\* are those between the points, unless an older look-up of roads ended last.
StopsAreDrawnInPlace ==
    LET points == PointsOf(shown, mapPoints)
    IN /\ \A p \in points : p[3] = shown[p[1]]
       /\ lookUps = {} /\ ~failed /\ ~forgotten => {p[1] : p \in points} = DOMAIN shown
       /\ lookUps = {} /\ roadRuns = {} /\ shown # <<>> /\ ~crossed => roadLines = Places(points)
=============================================================================
