----------------------------- MODULE DriverScreens -----------------------------
(***************************************************************************)
(* The screens on which a driver works off a trip: RouteListScreen,        *)
(* RouteDetailScreen, MapScreen, StopDetailScreen and PODScreen, with the  *)
(* server's rules of TripExecution.  Each screen holds the trip as it last *)
(* read it; every look at one asks again.  The dispatcher leaves the trip  *)
(* alone.  syncTracker turns GpsTracker on and off.                        *)
(*                                                                         *)
(* External: react-navigation.  A screen that is left for another above it *)
(* stays as it is; one that is gone back from is gone, its requests go on. *)
(***************************************************************************)
EXTENDS Integers, Sequences, FiniteSets, SequencesExt

CONSTANTS StopCount,
          Mapped,     \* the stops with coordinates
          Lines,      \* requests that may be under way at once
          MaxPresses  \* bound: presses that ask for a change
ASSUME DriverScreensAssumption ==
    StopCount \in Nat \ {0} /\ Mapped \subseteq 1..StopCount /\ MaxPresses \in Nat

TripStops == 1..StopCount
Working == {"IN_PROGRESS", "RETURNING"}
Ended == {"COMPLETED", "FAILED"}

VARIABLES trip,      \* server: [status, task]
          stack,     \* the screens, the last one in focus; empty on the list of trips
          atStop,    \* the stop of the stop screen and of the ePOD screen
          shownTrip, \* the trip as each screen has it
          waiting,   \* the screens that wait for the answer to a press
          line,      \* requests: [at, from, what, stop, got, live]
          tracker,   \* whether GPS is sent
          overlap,   \* history: since the last look with nothing else under way, a press
                     \* crossed another request, or an answer was lost
          presses

driving == <<trip, stack, atStop, shownTrip, waiting, line, tracker, overlap, presses>>

ScreenNames == {"detail", "map", "stop", "pod"}
Unread == [status |-> "unread", task |-> [s \in TripStops |-> "PENDING"]]
Free == [at |-> "free", from |-> "none", what |-> "none", stop |-> 0, got |-> Unread, live |-> FALSE]

\* The history after a request for what on line l.
CrossedAfter(l, what) ==
    LET others == {line[k].what : k \in {j \in Lines \ {l} : line[j] # Free}}
    IN IF others = {} THEN overlap /\ what # "look" ELSE overlap \/ others \cup {what} # {"look"}

InFocus(screen) == stack # <<>> /\ Last(stack) = screen
Open(t) == {s \in TripStops : t.task[s] \notin Ended}

DriverScreensInit ==
    /\ \E status \in {"ASSIGNED", "IN_PROGRESS"}, first \in {"PENDING", "COMPLETED"} :
          /\ status = "ASSIGNED" => first = "PENDING"
          /\ trip = [status |-> status, task |-> [s \in TripStops |-> IF s = 1 THEN first ELSE "PENDING"]]
    /\ stack = <<>> /\ atStop = 0
    /\ shownTrip = [x \in ScreenNames |-> Unread]
    /\ waiting = {}
    /\ line = [l \in Lines |-> Free]
    /\ tracker = (trip.status \in Working)
    /\ overlap = FALSE /\ presses = 0

Sent(from, what, s) ==
    [at |-> "sent", from |-> from, what |-> what, stop |-> s, got |-> Unread, live |-> TRUE]
Request(l, from, what, s) ==
    /\ line[l] = Free
    /\ line' = [line EXCEPT ![l] = Sent(from, what, s)]

-----------------------------------------------------------------------------
(* Moving between the screens.                                             *)

\* The stops with coordinates, by their markers and by the rows of the panel.
MarkerOffers(screen, s) == screen = "pod" /\ s \in Mapped
PanelOffers(screen, s) == screen = "stop" /\ s \in Mapped
StopOffers(screen, s) == screen = "pod" /\ s = atStop /\ shownTrip["stop"].task[s] \notin Ended
RouteOffers(screen) == screen \in {"map", "stop"}

Offered(screen, s) ==
    CASE stack = <<>> -> screen = "detail"
      [] InFocus("detail") -> RouteOffers(screen)
      [] InFocus("map") -> MarkerOffers(screen, s) \/ PanelOffers(screen, s)
      [] InFocus("stop") -> StopOffers(screen, s)
      [] InFocus("pod") -> FALSE

\* useFocusEffect of fetchDetail, of the map and of refreshStop.  The map drops the answer
\* to an earlier look; the others take it.
ShowScreen(l, screen, s) ==
    /\ stack # <<>> => shownTrip[Last(stack)] # Unread
    /\ Offered(screen, s)
    /\ screen \notin {"stop", "pod"} => s = 1
    /\ atStop' = IF screen \in {"stop", "pod"} THEN s ELSE atStop
    /\ stack' = Append(stack, screen)
    /\ shownTrip' = [shownTrip EXCEPT ![screen] = IF stack = <<>> THEN Unread ELSE shownTrip[Last(stack)]]
    /\ IF screen = "pod" THEN UNCHANGED <<line, overlap>>
       ELSE Request(l, screen, "look", 0) /\ overlap' = CrossedAfter(l, "look")
    /\ UNCHANGED <<trip, waiting, tracker, presses>>

\* What a screen that is gone has asked for still comes in; a look of another than the route
\* screen then does nothing.
Leave(screen) ==
    [l \in Lines |-> IF line[l].from # screen THEN line[l]
                    ELSE IF screen # "detail" /\ line[l].what = "look" THEN Free
                    ELSE [line[l] EXCEPT !.live = FALSE]]

GoBack(l) ==
    /\ stack # <<>>
    /\ stack' = Front(stack)
    /\ waiting' = waiting \ {Last(stack)}
    /\ shownTrip' = [shownTrip EXCEPT ![Last(stack)] = Unread]
    /\ LET left == Leave(Last(stack)) IN
       IF stack' = <<>> THEN line' = left /\ UNCHANGED overlap
       ELSE /\ left[l] = Free
            /\ overlap' = CrossedAfter(l, "look")
            /\ line' = [left EXCEPT ![l] = Sent(Last(stack'), "look", 0)]
    /\ atStop' = IF \E i \in DOMAIN stack' : stack'[i] \in {"stop", "pod"} THEN atStop ELSE 0
    /\ UNCHANGED <<trip, tracker, presses>>

-----------------------------------------------------------------------------
(* The buttons, for the trip as it is shown.                               *)

Press(l, screen, what, s) ==
    /\ InFocus(screen) /\ screen \notin waiting /\ presses < MaxPresses
    /\ Request(l, screen, what, s)
    /\ waiting' = waiting \cup {screen} /\ presses' = presses + 1
    /\ overlap' = CrossedAfter(l, what)
    /\ UNCHANGED <<trip, stack, atStop, shownTrip, tracker>>

\* "Xuất kho" is offered to every trip that has not started.
TripButtons(t) ==
    (IF t.status = "ASSIGNED" THEN {"confirm"} ELSE {})
        \cup (IF t.status \in {"ASSIGNED", "DRIVER_CONFIRMED"} THEN {"load"} ELSE {})
        \cup (IF t.status \notin Working \cup {"COMPLETED"} THEN {"start"} ELSE {})
        \cup (IF Open(t) = {} /\ t.status # "COMPLETED" THEN {"return"} ELSE {})
        \cup (IF t.status = "RETURNING" THEN {"finish"} ELSE {})
PressTrip(l, what) ==
    shownTrip["detail"] # Unread /\ what \in TripButtons(shownTrip["detail"]) /\ Press(l, "detail", what, 0)

\* ACTIONS; ARRIVED stands for EN_ROUTE too.
StopButtons == [arrive |-> "ARRIVED", complete |-> "COMPLETED", fail |-> "FAILED"]
PressStop(l, what) ==
    /\ what \in DOMAIN StopButtons
    /\ InFocus("stop") /\ shownTrip["stop"].task[atStop] \notin Ended \cup {StopButtons[what]}
    /\ Press(l, "stop", what, atStop)

\* With a signature; the ePOD screen does not look at the stop again.
PressPod(l) == InFocus("pod") /\ Press(l, "pod", "complete", atStop)

-----------------------------------------------------------------------------
(* The server.                                                             *)

StatusAfter(task, status) ==
    IF \A s \in TripStops : task[s] \in Ended THEN "RETURNING"
    ELSE IF \E s \in TripStops : task[s] # "PENDING" THEN "IN_PROGRESS" ELSE status

\* confirmTrip, startLoading and startTrip answer with the trip when there is nothing to
\* do; the others refuse.
Allows(c) ==
    CASE c.what = "look" -> TRUE
      [] c.what \in {"confirm", "load", "start"} -> trip.status # "COMPLETED"
      [] c.what \in {"return", "finish"} -> trip.status # "COMPLETED" /\ Open(trip) = {}
      [] OTHER -> trip.status # "COMPLETED" /\ trip.task[c.stop] \notin Ended
TripAfter(c) ==
    CASE c.what = "confirm" /\ trip.status = "ASSIGNED" -> [trip EXCEPT !.status = "DRIVER_CONFIRMED"]
      [] c.what = "load" /\ trip.status \in {"ASSIGNED", "DRIVER_CONFIRMED"} -> [trip EXCEPT !.status = "LOADING"]
      [] c.what = "start" /\ trip.status \notin Working -> [trip EXCEPT !.status = "IN_PROGRESS"]
      [] c.what = "return" -> [trip EXCEPT !.status = "RETURNING"]
      [] c.what = "finish" -> [trip EXCEPT !.status = "COMPLETED"]
      [] c.what \in DOMAIN StopButtons ->
           LET task == [trip.task EXCEPT ![c.stop] = StopButtons[c.what]]
           IN [status |-> StatusAfter(task, trip.status), task |-> task]
      [] OTHER -> trip

Serve(l) ==
    /\ line[l].at = "sent"
    /\ trip' = IF Allows(line[l]) THEN TripAfter(line[l]) ELSE trip
    /\ \E answer \in {"ok", "lost"} :
          line' = IF answer = "ok" /\ Allows(line[l]) THEN [line EXCEPT ![l].at = "ok", ![l].got = trip']
                  ELSE [line EXCEPT ![l].at = IF answer = "ok" THEN "refused" ELSE "lost"]
    /\ UNCHANGED <<stack, atStop, shownTrip, waiting, tracker, overlap, presses>>

-----------------------------------------------------------------------------
(* The answers.                                                            *)

\* Mutant: a trip on its way back is not followed.
TrackedStatusesOut == {"IN_PROGRESS"}

\* ACTIVE_TRIP_STATUSES.
TrackedStatuses == {"IN_PROGRESS", "RETURNING"}

\* syncTracker, even of a route screen that is gone; the stop's screens leave it alone.
RouteAnswer(l) ==
    /\ line[l].at = "ok" /\ line[l].from = "detail"
    /\ tracker' = (line[l].got.status \in TrackedStatuses)
    /\ shownTrip' = IF line[l].live THEN [shownTrip EXCEPT !["detail"] = line[l].got] ELSE shownTrip
    /\ waiting' = IF line[l].live /\ line[l].what # "look" THEN waiting \ {"detail"} ELSE waiting
    /\ line' = [line EXCEPT ![l] = Free]
    /\ UNCHANGED <<trip, stack, atStop, overlap, presses>>

OtherAnswer(l) ==
    /\ line[l].at = "ok" /\ line[l].from \in {"map", "stop"}
    /\ shownTrip' = IF line[l].live THEN [shownTrip EXCEPT ![line[l].from] = line[l].got] ELSE shownTrip
    /\ waiting' = IF line[l].live /\ line[l].what # "look" THEN waiting \ {line[l].from} ELSE waiting
    /\ line' = [line EXCEPT ![l] = Free]
    /\ UNCHANGED <<trip, stack, atStop, tracker, overlap, presses>>

\* handleSubmit; OK then goes back.
PodAnswer(l) ==
    /\ line[l].at = "ok" /\ line[l].from = "pod"
    /\ waiting' = IF line[l].live THEN waiting \ {"pod"} ELSE waiting
    /\ line' = [line EXCEPT ![l] = Free]
    /\ UNCHANGED <<trip, stack, atStop, shownTrip, tracker, overlap, presses>>

\* The stop screen looks again, before it takes the next press.
FailedAnswer(l) ==
    /\ line[l].at \in {"lost", "refused"}
    /\ IF line[l].from = "stop" /\ line[l].what # "look" /\ line[l].live
       THEN /\ overlap' = CrossedAfter(l, "look")
            /\ line' = [line EXCEPT ![l] = Sent("stop", "look", 0)]
       ELSE /\ overlap' = (overlap \/ line[l].at = "lost")
            /\ line' = [line EXCEPT ![l] = Free]
    /\ waiting' = IF line[l].live /\ line[l].what # "look" THEN waiting \ {line[l].from} ELSE waiting
    /\ UNCHANGED <<trip, stack, atStop, shownTrip, tracker, presses>>

\* currentDestination: the depot, or the first stop that can be drawn and is still to do.
Destination(t) ==
    LET left == {s \in Open(t) : s \in Mapped}
    IN IF t.status # "IN_PROGRESS" \/ left = {} THEN 0 ELSE CHOOSE s \in left : \A r \in left : s <= r

DriverScreensNext ==
    \E l \in Lines :
        \/ \E screen \in ScreenNames, s \in TripStops : ShowScreen(l, screen, s)
        \/ GoBack(l)
        \/ \E what \in {"confirm", "load", "start", "return", "finish"} : PressTrip(l, what)
        \/ \E what \in DOMAIN StopButtons : PressStop(l, what)
        \/ PressPod(l)
        \/ Serve(l) \/ RouteAnswer(l) \/ OtherAnswer(l) \/ PodAnswer(l) \/ FailedAnswer(l)

DriverScreensSpec == DriverScreensInit /\ [][DriverScreensNext]_driving

-----------------------------------------------------------------------------
AtRest == \A l \in Lines : line[l] = Free

\* Whenever nothing is under way, the route screen (RouteDetailScreen.jsx:14-62) shows the
\* trip as it is, whichever screen changed it, GPS is sent just while the trip is on the
\* road, and the map (MapScreen.jsx:179-211) points to the next stop; unless since the last
\* look an answer was lost, or a press was made while the answer to another request was out.
ScreensFollowTheTrip ==
    AtRest /\ ~overlap =>
        /\ InFocus("detail") => shownTrip["detail"] = trip /\ (tracker <=> trip.status \in Working)
        /\ InFocus("map") => Destination(shownTrip["map"]) = Destination(trip)
=============================================================================
