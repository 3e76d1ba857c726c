----------------------------- MODULE EtaCascade -----------------------------
(***************************************************************************)
(* The planned times of one trip while it is driven: etaService's cascade, *)
(* the handlers of tripController that shift times (completing a stop,     *)
(* explaining a deviation, reporting an incident), the synchronisation of  *)
(* tripService that copies the plan's times again, and the driver app's    *)
(* prompts for an explanation.  Each handler is cut at its awaits: it      *)
(* loads the trip, writes another collection, saves what it changed.       *)
(*                                                                         *)
(* A time is a number of slots after midnight and wraps at DayLength, as   *)
(* "HH:mm" does.  A stop is OPEN until it is COMPLETED or FAILED;          *)
(* confirming, loading and driving up to a stop are Start.                 *)
(*                                                                         *)
(* External: save() sends the changed paths only.  Setting fields of tasks *)
(* in place may be refused once the version has moved, pushing to          *)
(* EtaHistory moves it, replacing Tasks is refused whenever it has moved.  *)
(***************************************************************************)
EXTENDS Integers, Sequences, FiniteSets, FiniteSetsExt

CONSTANTS NStops,     \* stops of the trip
          Plan,       \* the route's PlannedArrivalTime of each stop
          DayLength,  \* slots of a day
          Late,       \* LATE_THRESHOLD_MIN
          Early,      \* EARLY_THRESHOLD_MIN
          Sanity,     \* SANITY_LIMIT_MIN
          Clock,      \* times of the plan's day at which a stop is completed
          Delays,     \* delays a driver asks for with an incident (expectedDelayMinutes)
          Explained,  \* deviations a driver confirms in the prompt
          Handlers,   \* slots for requests being served
          MaxEvents   \* bound: incidents, and entries of EtaHistory

Stops == 1 .. NStops
Times == 0 .. DayLength - 1

ASSUME EtaAssumption ==
    /\ NStops \in Nat \ {0} /\ DayLength \in Nat \ {0}
    /\ Plan \in [Stops -> Times]
    /\ Late \in Nat /\ Early \in Nat /\ Sanity \in Nat
    /\ Clock \subseteq Times
    /\ Delays \subseteq Nat /\ Explained \subseteq Int

VARIABLES trip,      \* the Trip document
          history,   \* Trip.EtaHistory
          delivered, \* stops whose orders are DELIVERED
          incidents, \* ExpectedDelayMinutes of the TripIncident documents
          prompt,    \* stops whose explanation prompt is open in the driver app
          req,       \* requests being served
          raced,     \* history: a request saved what it computed from an older trip
          wiped,     \* history: the plan's times were copied over shifted ones
          broken     \* history: a request ended before its save, or had it refused

cascade == <<trip, history, delivered, incidents, prompt, req, raced, wiped, broken>>

Day == {"plan", "other"}
TaskStatus == {"OPEN", "COMPLETED", "FAILED"}
doneStatuses == {"COMPLETED", "FAILED"}
Trip == [phase : {"BEFORE", "ROAD", "OVER"}, task : [Stops -> TaskStatus],
         planned : [Stops -> Times]]
Entry == [from : 0 .. NStops, shift : Int, incident : Nat]

\* base: the trip as loaded; copy: as changed in memory; entry: what is pushed to
\* EtaHistory; asks: the answer will ask for an explanation; touched, moved: another
\* request has saved times or tasks, or moved the version, since.
Stage == {"idle", "loaded", "ready"}
Kind == {"complete", "fail", "explain", "report", "sync"}
Request == [stage : Stage, kind : Kind, stop : 0 .. NStops, base : Trip, copy : Trip,
            entry : Seq(Entry), asks : BOOLEAN, touched : BOOLEAN, moved : BOOLEAN]
Planned == [phase |-> "BEFORE", task |-> [i \in Stops |-> "OPEN"], planned |-> Plan]
Idle == [stage |-> "idle", kind |-> "sync", stop |-> 0, base |-> Planned, copy |-> Planned,
         entry |-> <<>>, asks |-> FALSE, touched |-> FALSE, moved |-> FALSE]

CascadeInit ==
    /\ trip = Planned
    /\ history = <<>> /\ incidents = <<>>
    /\ delivered = {} /\ prompt = {}
    /\ req = [q \in Handlers |-> Idle]
    /\ raced = FALSE /\ wiped = FALSE /\ broken = FALSE

-----------------------------------------------------------------------------
(* etaService.                                                             *)

Open(t) == {i \in Stops : t.task[i] \notin doneStatuses}

\* Mutant: open stops before `from' move as well.
ShiftedAll(t, from, shift) ==
    [t EXCEPT !.planned = [j \in Stops |-> IF j \in Open(t)
                                           THEN (@[j] + shift) % DayLength ELSE @[j]]]

\* cascadeEta: the open stops after stop `from' move; minutesToHhmm wraps at midnight.
Shifted(t, from, shift) ==
    [t EXCEPT !.planned = [j \in Stops |-> IF j > from /\ j \in Open(t)
                                           THEN (@[j] + shift) % DayLength ELSE @[j]]]

\* A shift of nothing is not recorded.
Recorded(from, shift, incident) ==
    IF shift = 0 THEN <<>> ELSE <<[from |-> from, shift |-> shift, incident |-> incident]>>

\* handleStopCompletion of stop i at time now: by how much the later stops move, and
\* whether the driver has to explain.
Deviation(t, i, now) == now - t.planned[i]
InSanity(d) == -Sanity <= d /\ d <= Sanity
InAutoBand(d) == -Early <= d /\ d <= Late
AutoShift(t, i, day, now) ==
    LET d == Deviation(t, i, now)
    IN  IF day = "plan" /\ InSanity(d) /\ InAutoBand(d) THEN d ELSE 0
Asks(t, i, day, now) ==
    LET d == Deviation(t, i, now) IN day = "plan" /\ InSanity(d) /\ ~InAutoBand(d)

-----------------------------------------------------------------------------
(* Loading and saving the trip.                                            *)

\* loadDriverTrip refuses a trip that has ended.
Loads(q, kind, i) ==
    /\ req[q].stage = "idle"
    /\ trip.phase # "OVER"
    /\ req' = [req EXCEPT ![q] = [Idle EXCEPT !.stage = "loaded", !.kind = kind, !.stop = i,
                                              !.base = trip, !.copy = trip]]

At(q, stage, kind) == req[q].stage = stage /\ req[q].kind = kind

\* What the request changed, written over the trip as it is.
SavedOver(base, copy) ==
    [phase   |-> IF copy.phase = base.phase THEN trip.phase ELSE copy.phase,
     task    |-> [i \in Stops |-> IF copy.task[i] = base.task[i] THEN trip.task[i]
                                                                 ELSE copy.task[i]],
     planned |-> [i \in Stops |-> IF copy.planned[i] = base.planned[i] THEN trip.planned[i]
                                                                       ELSE copy.planned[i]]]

\* What the other requests must know of a save.
Told(q, moves) ==
    [p \in Handlers |-> IF p = q \/ req[p].stage = "idle" THEN req[p]
                        ELSE [req[p] EXCEPT !.touched = TRUE, !.moved = @ \/ moves]]

\* The save of a handler that changed times or tasks in place.
Saves(q) ==
    LET r == req[q]
    IN  /\ r.stage = "ready"
        /\ trip' = SavedOver(r.base, r.copy)
        /\ history' = history \o r.entry
        /\ req' = [Told(q, r.entry # <<>>) EXCEPT ![q] = Idle]
        /\ raced' = (raced \/ r.touched)

\* A refused save, or a server that goes down at any await.
Breaks(q) ==
    /\ req[q].stage # "idle"
    /\ req' = [req EXCEPT ![q] = Idle]
    /\ broken' = TRUE
    /\ prompt' = IF req[q].kind = "explain" THEN prompt \ {req[q].stop} ELSE prompt
    /\ UNCHANGED <<trip, history, delivered, incidents, raced, wiped>>

-----------------------------------------------------------------------------
(* updateTask.                                                             *)

\* Mutant: a closed task may be reported again.
MayReport(i) == i \in Stops

\* "Task already closed" otherwise.
NotClosed(i) == i \in Open(trip)

UpdateTaskLoads(q, i, kind) ==
    /\ kind \in {"complete", "fail"}
    /\ NotClosed(i)
    /\ Loads(q, kind, i)
    /\ UNCHANGED <<trip, history, delivered, incidents, prompt, raced, wiped, broken>>

\* The task as reported; the trip is on the road from its first report on.
Reported(t, i, status) == [t EXCEPT !.task[i] = status, !.phase = "ROAD"]

\* complete: the orders become DELIVERED, then the deviation is handled in memory; a
\* warning is filed when the vehicle is not near the customer.
CompleteDelivers(q, day, now, far) ==
    LET r == req[q]
        t == Reported(r.base, r.stop, "COMPLETED")
        shift == AutoShift(r.base, r.stop, day, now)
    IN  /\ At(q, "loaded", "complete")
        /\ delivered' = delivered \cup {r.stop}
        /\ incidents' = IF far THEN Append(incidents, 0) ELSE incidents
        /\ req' = [req EXCEPT ![q] = [r EXCEPT
                     !.stage = "ready", !.copy = Shifted(t, r.stop, shift),
                     !.entry = Recorded(r.stop, shift, 0), !.asks = Asks(r.base, r.stop, day, now)]]
        /\ UNCHANGED <<trip, history, prompt, raced, wiped, broken>>

\* The app opens its prompt if the answer asks for it, arrives, and was not to the
\* proof-of-delivery screen.
CompleteSaves(q) ==
    /\ At(q, "ready", "complete")
    /\ Saves(q)
    /\ prompt' \in {prompt, IF req[q].asks THEN prompt \cup {req[q].stop} ELSE prompt}
    /\ UNCHANGED <<delivered, incidents, wiped, broken>>

FailSaves(q) ==
    LET r == req[q]
        t == Reported(r.base, r.stop, "FAILED")
    IN  /\ At(q, "loaded", "fail")
        /\ trip' = SavedOver(r.base, t)
        /\ req' = [Told(q, FALSE) EXCEPT ![q] = Idle]
        /\ raced' = (raced \/ r.touched)
        /\ UNCHANGED <<history, delivered, incidents, prompt, wiped, broken>>

-----------------------------------------------------------------------------
(* explainStopDeviation and reportIncident.                                *)

\* The prompt's button may be pressed again until the answer closes the prompt.
ExplainLoads(q, i) ==
    /\ i \in prompt
    /\ Loads(q, "explain", i)
    /\ UNCHANGED <<trip, history, delivered, incidents, prompt, raced, wiped, broken>>

ReportLoads(q) ==
    /\ Loads(q, "report", 0)
    /\ UNCHANGED <<trip, history, delivered, incidents, prompt, raced, wiped, broken>>

\* CurrentTaskIndex: the first open stop, or the last one worked on when none is open.
CurrentTask(t) == IF Open(t) = {} THEN NStops ELSE Min(Open(t))

\* The incident is stored, then the shift made in memory.
Files(q, from, shift) ==
    LET r == req[q]
    IN  /\ incidents' = Append(incidents, shift)
        /\ req' = [req EXCEPT ![q] = [r EXCEPT
                     !.stage = "ready", !.copy = Shifted(r.base, from, shift),
                     !.entry = Recorded(from, shift, Len(incidents) + 1)]]
        /\ UNCHANGED <<trip, history, delivered, prompt, raced, wiped, broken>>

ExplainFiles(q, shift) ==
    /\ At(q, "loaded", "explain")
    /\ Files(q, req[q].stop, shift)

ExplainSaves(q) ==
    /\ At(q, "ready", "explain")
    /\ Saves(q)
    /\ prompt' = prompt \ {req[q].stop}
    /\ UNCHANGED <<delivered, incidents, wiped, broken>>

ReportFiles(q, delay) ==
    /\ At(q, "loaded", "report")
    /\ Files(q, CurrentTask(req[q].base) - 1, delay)

\* Nothing is saved when no delay was asked for.
ReportSaves(q) ==
    /\ At(q, "ready", "report")
    /\ IF req[q].entry = <<>>
       THEN req' = [req EXCEPT ![q] = Idle] /\ UNCHANGED <<trip, history, raced>>
       ELSE Saves(q)
    /\ UNCHANGED <<delivered, incidents, prompt, wiped, broken>>

-----------------------------------------------------------------------------
(* The rest of the trip's life.                                            *)

\* confirm, loading, start, en-route or arrive: nothing here changes but the phase.
Start ==
    /\ trip.phase = "BEFORE"
    /\ trip' = [trip EXCEPT !.phase = "ROAD"]
    /\ UNCHANGED <<history, delivered, incidents, prompt, req, raced, wiped, broken>>

\* finishTrip.
Finish ==
    /\ trip.phase = "ROAD" /\ Open(trip) = {}
    /\ trip' = [trip EXCEPT !.phase = "OVER"]
    /\ UNCHANGED <<history, delivered, incidents, prompt, req, raced, wiped, broken>>

\* ensureTripForRouteId, which every trip list calls: only a trip that has not started
\* gets new tasks.
SyncLoads(q) ==
    /\ trip.phase = "BEFORE"
    /\ Loads(q, "sync", 0)
    /\ UNCHANGED <<trip, history, delivered, incidents, prompt, raced, wiped, broken>>

\* Tasks is replaced by the route's stops, unless the version has moved.
SyncSaves(q) ==
    /\ At(q, "loaded", "sync")
    /\ ~req[q].moved
    /\ trip' = [trip EXCEPT !.task = Planned.task, !.planned = Plan]
    /\ req' = [Told(q, TRUE) EXCEPT ![q] = Idle]
    /\ raced' = (raced \/ trip.task # Planned.task \/ trip.phase # "BEFORE")
    /\ wiped' = (wiped \/ history # <<>>)
    /\ UNCHANGED <<history, delivered, incidents, prompt, broken>>

CascadeNext ==
    \/ Start \/ Finish
    \/ \E q \in Handlers :
        \/ Breaks(q)
        \/ \E i \in Stops : \/ \E kind \in {"complete", "fail"} : UpdateTaskLoads(q, i, kind)
                            \/ ExplainLoads(q, i)
        \/ \E day \in Day, now \in Clock, far \in BOOLEAN : CompleteDelivers(q, day, now, far)
        \/ CompleteSaves(q) \/ FailSaves(q)
        \/ \E shift \in Explained : ExplainFiles(q, shift)
        \/ ExplainSaves(q)
        \/ ReportLoads(q)
        \/ \E delay \in Delays : ReportFiles(q, delay)
        \/ ReportSaves(q)
        \/ SyncLoads(q) \/ SyncSaves(q)

CascadeSpec == CascadeInit /\ [][CascadeNext]_cascade

-----------------------------------------------------------------------------
(* Properties.                                                             *)

\* The type invariant.
TypeOK ==
    /\ trip \in Trip
    /\ history \in Seq(Entry)
    /\ delivered \subseteq Stops /\ prompt \subseteq Stops
    /\ incidents \in Seq(Int)
    /\ req \in [Handlers -> Request]
    /\ {raced, wiped, broken} \subseteq BOOLEAN

\* The sum of the shifts recorded before stop j.
ShiftsBefore(j, entries) ==
    LET sum[n \in 0 .. Len(entries)] ==
            IF n = 0 THEN 0
            ELSE sum[n - 1] + (IF entries[n].from < j THEN entries[n].shift ELSE 0)
    IN  sum[Len(entries)]

FollowsHistory == \A j \in Open(trip) : trip.planned[j] = (Plan[j] + ShiftsBefore(j, history)) % DayLength

\* EtaHistory explains the times the driver and the dispatcher see: every stop that
\* is still open stands at the plan's time moved by exactly the recorded shifts that
\* come before it, in whatever order stops are closed and shifts are made, unless
\* two requests raced or the plan's times were copied again.
ShiftsAddUp == raced \/ wiped \/ FollowsHistory

\* tripController.js:312: a delay asked for moves the stops not delivered yet and is
\* kept in EtaHistory.  Without any race the times and EtaHistory agree.
DelaysSurvive == raced \/ FollowsHistory

\* The orders of a stop are DELIVERED exactly when the trip says the stop was
\* completed, but for a completion that is being saved or that broke off.
DeliveredAsReported ==
    \A i \in Stops :
        /\ trip.task[i] = "COMPLETED" => i \in delivered
        /\ i \in delivered /\ ~broken /\ ~raced =>
             \/ trip.task[i] = "COMPLETED"
             \/ \E q \in Handlers : req[q].kind = "complete" /\ req[q].stop = i

\* Every incident with a delay has moved the times once, by that delay, unless the
\* request is still at it or broke off.
IncidentsShiftOnce ==
    \A n \in 1 .. Len(incidents) :
        LET entries == {k \in 1 .. Len(history) : history[k].incident = n}
            pending == \E q \in Handlers : req[q].entry # <<>> /\ req[q].entry[1].incident = n
        IN  /\ \A k \in entries : history[k].shift = incidents[n]
            /\ Cardinality(entries) <= 1
            /\ incidents[n] # 0 /\ ~broken /\ ~pending => entries # {}

\* The times of a trip are accounted for: by the shifts that are recorded, and these by
\* the incidents that were reported (etaService.js:50-130, tripController.js:262-340).
TimesAreAccounted == ShiftsAddUp /\ IncidentsShiftOnce
=============================================================================
