----------------------------- MODULE LiveDeviation -----------------------------
(***************************************************************************)
(* socket.js checkDeviation: every position a driver posts is compared     *)
(* with the planned points of the trip in progress; far from all of them   *)
(* often enough in a row, it files a DEVIATION incident, then none for     *)
(* five minutes.  The count lives in a Map of the server process.          *)
(*                                                                         *)
(* A check awaits twice, for the trip and for the incident it files, and   *)
(* postGps does not wait for it: checks of one trip overlap.               *)
(***************************************************************************)
EXTENDS Integers, Sequences

CONSTANTS Checks,      \* calls of checkDeviation that may be in flight
          Trigger,     \* DEVIATION_COUNT_TRIGGER
          Cooldown,    \* DEVIATION_COOLDOWN_MS, in ticks of the clock
          MaxTime      \* bound: ticks

ASSUME TriggerAssumption == Trigger \in Nat \ {0, 1} /\ Cooldown \in Nat

VARIABLES live,        \* of each check: how far it got
          counter,     \* the trip's entry in deviationState: [count, last]
          now,
          drift,       \* history: positions judged far since the last near one
          warnings     \* history: the incidents of this process

deviation == <<live, counter, now, drift, warnings>>

\* Later than any cooldown, as lastIncidentAt = 0 is.
Never == 0 - Cooldown - 1
NoCount == [count |-> 0, last |-> Never]
NotRunning == [at |-> "idle", far |-> FALSE, drift |-> 0, overtaken |-> FALSE]

CheckTrip(c) ==
    /\ live[c].at = "idle"
    /\ \E far \in BOOLEAN : live' = [live EXCEPT ![c].at = "trip", ![c].far = far]
    /\ UNCHANGED <<counter, now, drift, warnings>>

\* The driver has no trip in progress: nothing is counted.
NoTrip(c) ==
    /\ live[c].at = "trip"
    /\ live' = [live EXCEPT ![c] = NotRunning]
    /\ UNCHANGED <<counter, now, drift, warnings>>

Triggers(s) == s.count >= Trigger /\ now - s.last > Cooldown
Counted == [counter EXCEPT !.count = @ + 1]

\* Counting and deciding is one synchronous step, storing the incident is not.
JudgeFar(c) ==
    /\ live[c].at = "trip" /\ live[c].far
    /\ counter' = Counted
    /\ drift' = drift + 1
    /\ live' = [live EXCEPT ![c] =
                  IF Triggers(Counted) THEN [@ EXCEPT !.at = "create", !.drift = drift'] ELSE NotRunning]
    /\ UNCHANGED <<now, warnings>>

\* Mutant: a near position leaves the count.
KeepCount(s) == s
Cleared(s) == [s EXCEPT !.count = 0]
JudgeNear(c) ==
    /\ live[c].at = "trip" /\ ~live[c].far
    /\ counter' = Cleared(counter)
    /\ drift' = 0
    /\ live' = [live EXCEPT ![c] = NotRunning]
    /\ UNCHANGED <<now, warnings>>

\* The checks still storing an incident did not see this one.
CreateIncident(c) ==
    /\ live[c].at = "create"
    /\ warnings' = Append(warnings, [at |-> now, drift |-> live[c].drift, overtaken |-> live[c].overtaken])
    /\ counter' = [count |-> 0, last |-> now]
    /\ live' = [d \in Checks |-> IF d = c THEN NotRunning
                                 ELSE [live[d] EXCEPT !.overtaken = live[d].at = "create"]]
    /\ UNCHANGED <<now, drift>>

\* The error is logged and the count stays: the next far position tries again.
CreateFailed(c) ==
    /\ live[c].at = "create"
    /\ live' = [live EXCEPT ![c] = NotRunning]
    /\ UNCHANGED <<counter, now, drift, warnings>>

\* The Map is lost with the process, and so is every check.
RestartServer ==
    /\ live' = [c \in Checks |-> NotRunning]
    /\ counter' = NoCount
    /\ drift' = 0 /\ warnings' = <<>>
    /\ UNCHANGED now

Tick ==
    /\ now < MaxTime
    /\ now' = now + 1
    /\ UNCHANGED <<live, counter, drift, warnings>>

DeviationInit ==
    /\ live = [c \in Checks |-> NotRunning]
    /\ counter = NoCount
    /\ now = 0 /\ drift = 0 /\ warnings = <<>>

DeviationNext ==
    \/ \E c \in Checks : CheckTrip(c)
    \/ \E c \in Checks : NoTrip(c)
    \/ \E c \in Checks : JudgeFar(c)
    \/ \E c \in Checks : JudgeNear(c)
    \/ \E c \in Checks : CreateIncident(c)
    \/ \E c \in Checks : CreateFailed(c)
    \/ RestartServer
    \/ Tick

DeviationSpec == DeviationInit /\ [][DeviationNext]_deviation

-----------------------------------------------------------------------------
\* checkDeviation promises "4 consecutive pings" and "don't spam more than 1 /
\* 5min per trip" (socket.js 22-24): an incident rests on that many far positions
\* in a row, and a second one comes after the cooldown unless it had been decided
\* on before the first was stored.
WarningsAreEarned ==
    /\ \A i \in DOMAIN warnings : warnings[i].drift >= Trigger
    /\ \A i, j \in DOMAIN warnings :
          i < j /\ warnings[j].at - warnings[i].at <= Cooldown => warnings[j].overtaken
=============================================================================
