---------------------------- MODULE TripLifecycle ----------------------------
(***************************************************************************)
(* What planning and the driver app promise each other about the trip of a *)
(* delivery route.  RoutePlanning (all planning operations, coarse driver) *)
(* and TripExecution (all driver handlers, coarse planning) both implement *)
(* this specification.                                                     *)
(*                                                                         *)
(* A trip may be opened, reopened with another load and cancelled as often *)
(* as planning likes, until its driver starts it.  From then on nobody but *)
(* the driver decides about it: its load is fixed, it cannot be cancelled  *)
(* and it can only end, once.                                              *)
(***************************************************************************)
CONSTANTS Routes,   \* the delivery routes, each owning at most one trip
          Loads     \* what a trip may carry

VARIABLES trip,     \* NONE, OPEN, RUNNING, ENDED or CANCELLED
          load      \* what the trip carries

Init ==
  /\ trip = [r \in Routes |-> "NONE"]
  /\ load \in [Routes -> Loads]

Stays(r)   == trip'[r] = trip[r] /\ load'[r] = load[r]
Opens(r)   == trip[r] \in {"NONE", "OPEN", "CANCELLED"} /\ trip'[r] = "OPEN" /\ load'[r] \in Loads
Cancels(r) == trip[r] = "OPEN" /\ trip'[r] = "CANCELLED" /\ load'[r] = load[r]
Starts(r)  == trip[r] = "OPEN" /\ trip'[r] = "RUNNING" /\ load'[r] = load[r]
Ends(r)    == trip[r] = "RUNNING" /\ trip'[r] = "ENDED" /\ load'[r] = load[r]

\* One request may move several trips (deleting a plan cancels all of its trips).
Next == \A r \in Routes : Stays(r) \/ Opens(r) \/ Cancels(r) \/ Starts(r) \/ Ends(r)

Spec == Init /\ [][Next]_<<trip, load>>
=============================================================================
