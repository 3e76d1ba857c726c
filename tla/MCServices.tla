------------------------------ MODULE MCServices ------------------------------
EXTENDS LiveDeviation, VehicleMaintenance, ResponseCache, Organizations, Accounts,
        TrafficFactors, RouteTimetable, EtaCascade, TLC

VARIABLE part    \* the service at work in this behaviour

HqAndBranch == [hq |-> {"hq", "branch"}, branch |-> {"branch"}]
OrgNames == {"hq", "branch"}

\* Two orders for a van each; the second one is heavy and far.
OrderCustomer == [o1 |-> "c1", o2 |-> "c2"]
OrderWeight == [o1 |-> 2, o2 |-> 3]
OrderCases == [o1 |-> 4, o2 |-> 12]
Roads == [depot |-> [depot |-> 0, c1 |-> 1, c2 |-> 4], c1 |-> [depot |-> 1, c1 |-> 0, c2 |-> 5],
          c2 |-> [depot |-> 4, c1 |-> 5, c2 |-> 0]]
Van == [speed |-> 30, loading |-> 150, unloading |-> 0, maxWeight |-> 5, outsourced |-> FALSE]
Fleet == [v1 |-> Van,
          v2 |-> [Van EXCEPT !.speed = 50, !.loading = 600, !.unloading = 200, !.maxWeight = 7],
          v3 |-> [Van EXCEPT !.maxWeight = 3, !.outsourced = TRUE]]
RushHour == << Factor(1, "HOUR", 8, 8, 9, 1600, 0), Factor(2, "ZONE", 1, 0, 2, 1400, 0),
               Factor(3, "DOW", 0, 0, 0, 1050, 0) >>
Rush == {RushHour}
Samples == {<<>>, <<0, 60, 60>>}

\* Two stops planned at slots 2 and 6 of a day of 8 slots, so that a delay carries the second
\* one over midnight; completions up to one slot late or two early are absorbed, three slots
\* are the limit of belief.
TwoStops == <<2, 6>>
Confirmed == {-3}

\* Whatever serves a part's requests has the same two names.
Symmetry == Permutations(Handlers)

MCInit ==
    /\ part \in {"live", "maintenance", "cache", "tree", "accounts", "traffic", "timetable", "road"}
    /\ DeviationInit /\ MaintenanceInit /\ CacheInit /\ TreeInit /\ AccountsInit /\ TrafficInit /\ TimetableInit
    /\ CascadeInit
    /\ part = "timetable" \/ vehicle = [r \in Routes |-> IF r = 1 THEN "v1" ELSE "v2"]
MCNext ==
    \/ part = "live" /\ DeviationNext
       /\ UNCHANGED <<maintenance, cache, tree, accounts, traffic, timetable, cascade, part>>
    \/ part = "maintenance" /\ MaintenanceNext
       /\ UNCHANGED <<deviation, cache, tree, accounts, traffic, timetable, cascade, part>>
    \/ part = "cache" /\ CacheNext
       /\ UNCHANGED <<deviation, maintenance, tree, accounts, traffic, timetable, cascade, part>>
    \/ part = "tree" /\ TreeNext
       /\ UNCHANGED <<deviation, maintenance, cache, accounts, traffic, timetable, cascade, part>>
    \/ part = "accounts" /\ AccountsNext
       /\ UNCHANGED <<deviation, maintenance, cache, tree, traffic, timetable, cascade, part>>
    \/ part = "traffic" /\ TrafficNext
       /\ UNCHANGED <<deviation, maintenance, cache, tree, accounts, timetable, cascade, part>>
    \/ part = "timetable" /\ TimetableNext
       /\ UNCHANGED <<deviation, maintenance, cache, tree, accounts, traffic, cascade, part>>
    \/ part = "road" /\ CascadeNext
       /\ UNCHANGED <<deviation, maintenance, cache, tree, accounts, traffic, timetable, part>>
MCSpec == MCInit /\ [][MCNext]_<<deviation, maintenance, cache, tree, accounts, traffic, timetable, cascade, part>>

\* Bounds: the histories; one hour learns once, with two jams; and one of a route's
\* shift and contract changes or its times fall behind.
ShortHistories ==
    /\ drift <= Trigger + 1 /\ Len(warnings) <= 2
    /\ made <= 8 /\ Cardinality(excused) <= 1
    /\ \A f \in ToSet(factors) : f.scope = "HOUR" => f.factor \in (IF f.at = 1 THEN {1600, 2020} ELSE {1100})
    /\ Cardinality({r \in Routes : shift[r] # "FULL_DAY"})
         + Cardinality({r \in Routes : contract[r] # NoContract}) + Cardinality(behind) <= 1

\* Bound: incidents and entries of EtaHistory, three together, two once requests have raced;
\* and one of the mishaps at most: a race, times copied again, a request that breaks off.
FewEvents ==
    /\ Len(incidents) <= MaxEvents /\ Len(history) <= MaxEvents
    /\ Len(incidents) + Len(history) <= (IF raced THEN 2 ELSE 3)
    /\ Cardinality({n \in 1 .. 3 : <<raced, wiped, broken>>[n]}) <= 1
OnTheRoad == part = "road"
=============================================================================
