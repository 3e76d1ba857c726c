---------------------------- MODULE MCWorkday ----------------------------
(***************************************************************************)
(* A day's work: the master data, the orders, the search for their routes, *)
(* and the screens on which drivers work the trips off.                    *)
(***************************************************************************)
EXTENDS MasterData, OrderEntry, OrdersScreen, OptimizerService, DriverScreens

VARIABLE part    \* what is at work in this behaviour

Two == 1 .. 2

Map(depot, p1, p2, p3, p4, p5) ==
    0 :> depot @@ 1 :> p1 @@ 2 :> p2 @@ 3 :> p3 @@ 4 :> p4 @@ 5 :> p5
Around == Map(<<0, 0>>, <<3, 1>>, <<1, 3>>, <<2, -1>>, <<-1, 1>>, <<-2, -2>>)
EastWest == Map(<<0, 0>>, <<5, 1>>, <<-4, 1>>, <<4, -1>>, <<-3, -1>>, <<5, 0>>)
FarNear == Map(<<0, 0>>, <<5, 0>>, <<5, 1>>, <<-2, 0>>, <<-2, 1>>, <<1, 0>>)
OneRoad == Map(<<0, 0>>, <<1, 0>>, <<6, 0>>, <<3, 2>>, <<4, 0>>, <<2, 1>>)

None == <<{}, {}, {}, {}, {}>>
Cold == <<{}, {"cold"}, {}, {}, {}>>
Day(place, weight, volume, needs, classes, refuses, maxWeight, maxVolume, has) ==
    [place |-> place, weight |-> weight, volume |-> volume, needs |-> needs,
     classes |-> classes, refuses |-> refuses,
     maxWeight |-> maxWeight, maxVolume |-> maxVolume, has |-> has]

\* Mixed goods; a vehicle without limit; light trucks; full trucks that can only
\* exchange stops; goods no vehicle may carry.
FiveDays == <<
    Day(Around, <<2, 1, 2, 1, 1>>, <<1, 2, 1, 1, 1>>, Cold,
        <<{"food"}, {}, {}, {"paint"}, {}>>, <<{"paint"}, {}, {}, {}, {}>>,
        <<4, 3>>, <<4, 0>>, <<{"cold"}, {}>>),
    Day(EastWest, <<1, 1, 1, 1, 1>>, <<1, 1, 1, 1, 1>>, None, None, None,
        <<3, 0>>, <<0, 0>>, <<{}, {}>>),
    Day(OneRoad, <<2, 2, 1, 1, 1>>, <<1, 1, 1, 1, 1>>, None, None, None,
        <<3, 4>>, <<3, 3>>, <<{}, {}>>),
    Day(FarNear, <<1, 1, 1, 1, 2>>, <<1, 1, 1, 2, 1>>, None, None, None,
        <<2, 2>>, <<3, 3>>, <<{}, {}>>),
    Day(Around, <<1, 1, 1, 1, 1>>, <<1, 1, 1, 1, 1>>,
        <<{"cold"}, {"cold"}, {"cold"}, {"cold"}, {"cold"}>>, None, None,
        <<3, 3>>, <<4, 4>>, <<{}, {}>>) >>

\* The optimizer service's case: three stops whose loads fit in one way only.
ServiceDay ==
    Day(0 :> <<0, 0>> @@ 1 :> <<3, 0>> @@ 2 :> <<3, 1>> @@ 3 :> <<-2, 0>>,
        <<2, 1, 1>>, <<1, 1, 1>>, <<{}, {}, {}>>, <<{}, {}, {}>>, <<{}, {}, {}>>,
        <<2, 2>>, <<0, 0>>, <<{}, {}>>)
AllDays == Append(FiveDays, ServiceDay)

Starts == [MORNING |-> 8, FULL_DAY |-> 8]
Ends == [MORNING |-> 18, FULL_DAY |-> 30]

-----------------------------------------------------------------------------
Symmetry == Permutations(Carriers) \cup Permutations(Offices)

\* A request plans a day with the backend's own heuristics or with the optimizer service.
MCInit ==
    /\ part \in {"records", "entry", "orders", "search", "service", "driver"}
    /\ RecordsInit /\ EntryInit /\ ListInit /\ SearchInit /\ ServiceInit /\ DriverScreensInit
    /\ part = "records" \/ dataTab = "customers"
    /\ part = "orders" \/ (filter = "PENDING" /\ \A o \in ListOrders : approval[o] = "absent")
    /\ part = "search" \/ alg = "nn2opt"
    /\ part = "service" \/ (algorithm = "nn2opt" /\ penalty = 1)
    /\ part = "driver" \/ trip.status = "ASSIGNED"
    /\ CASE part = "search" -> day <= Len(FiveDays)
         [] part = "service" -> day > Len(FiveDays)
         [] OTHER -> day = 1
MCNext ==
    \/ part = "records" /\ RecordsNext
       /\ UNCHANGED <<entering, orderList, search, service, driving, part>>
    \/ part = "entry" /\ EntryNext
       /\ UNCHANGED <<records, orderList, search, service, driving, part>>
    \/ part = "orders" /\ ListNext
       /\ UNCHANGED <<records, entering, search, service, driving, part>>
    \/ part = "search" /\ SearchNext
       /\ UNCHANGED <<records, entering, orderList, service, driving, part>>
    \/ part = "service" /\ ServiceNext
       /\ UNCHANGED <<records, entering, orderList, search, driving, part>>
    \/ part = "driver" /\ DriverScreensNext
       /\ UNCHANGED <<records, entering, orderList, search, service, part>>
MCSpec == MCInit /\ [][MCNext]_<<records, entering, orderList, search, service, driving, part>>

\* Bound: from the map a driver goes to the stop or to its ePOD, not on from there.
ShortWalks == Len(stack) <= 3
=============================================================================
