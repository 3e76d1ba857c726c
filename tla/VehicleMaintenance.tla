-------------------------- MODULE VehicleMaintenance --------------------------
(***************************************************************************)
(* One maintenance record and the requests that work on it: the office     *)
(* creates, edits and deletes it (maintenanceController), the driver it is *)
(* assigned to acknowledges and completes it (driverMaintenanceController).*)
(*                                                                         *)
(* Every handler reads the record, changes its copy and saves the fields   *)
(* it changed.  Only a save that replaces the array of photos compares the *)
(* record's version; every other save writes over what came between.       *)
(* The dates the handlers stamp decide nothing and are left out.           *)
(***************************************************************************)
EXTENDS Integers, Documents

CONSTANTS Drivers,     \* drivers the record can be assigned to
          Photos,      \* uploads of a driver
          MaxVersion   \* bound: completions saved

NoDriver == "none"
\* The driver of a request is told from nobody.
ASSUME DriversAssumption == "nobody" \notin Drivers
NoPhotos == "no photos"

VARIABLES record,      \* the stored record; exists = FALSE when there is none
          work,        \* of each request: who, what it read, what it changes
          overtaken    \* history: requests whose record was closed after they read it

maintenance == <<record, work, overtaken>>

MaintenanceStatus ==
    {"SCHEDULED", "ACKNOWLEDGED", "IN_PROGRESS", "AWAITING_REVIEW", "COMPLETED", "CANCELLED"}
Ended == {"COMPLETED", "CANCELLED"}
Blank == [exists |-> FALSE, status |-> "SCHEDULED", driver |-> NoDriver,
          photos |-> NoPhotos, version |-> 0]
NoWork == [who |-> "nobody", version |-> 0, changes |-> Changes(Blank, Blank)]
Work(who, copy) == [who |-> who, version |-> record.version, changes |-> Changes(record, copy)]

\* Closing the record overtakes every request that holds an open copy of it.
Noted(q, after) ==
    overtaken' = (IF record.exists /\ record.status \notin Ended
                     /\ (~after.exists \/ after.status \in Ended)
                  THEN overtaken \cup {p \in Requests : work[p].who # "nobody"} ELSE overtaken) \ {q}

CreateMaintenance(q) ==
    /\ work[q] = NoWork /\ ~record.exists
    /\ \E s \in MaintenanceStatus, d \in Drivers \cup {NoDriver} :
          record' = [Blank EXCEPT !.exists = TRUE, !.status = s, !.driver = d]
    /\ UNCHANGED <<work, overtaken>>

\* updateMaintenance reads, applies the body and looks the new driver up.
UpdateReads(q) ==
    /\ work[q] = NoWork /\ record.exists
    /\ \E s \in MaintenanceStatus, d \in Drivers \cup {NoDriver} :
          work' = [work EXCEPT ![q] = Work("office", [record EXCEPT !.status = s, !.driver = d])]
    /\ overtaken' = overtaken \ {q}
    /\ UNCHANGED record

\* Mutant: a cancelled record can be worked on.
NotCompleted == record.status # "COMPLETED"
StillOpen == record.status \notin Ended

AcknowledgeReads(q, d) ==
    /\ work[q] = NoWork /\ record.exists /\ record.driver = d /\ StillOpen
    /\ work' = [work EXCEPT ![q] =
          Work(d, [record EXCEPT !.status = IF @ = "SCHEDULED" THEN "ACKNOWLEDGED" ELSE @])]
    /\ overtaken' = overtaken \ {q}
    /\ UNCHANGED record

\* Replacing the photos by different ones counts the version.
CompleteReads(q, d) ==
    /\ work[q] = NoWork /\ record.exists /\ record.driver = d /\ StillOpen
    /\ record.version < MaxVersion
    /\ \E p \in Photos :
          work' = [work EXCEPT ![q] =
             Work(d, [record EXCEPT !.status = "AWAITING_REVIEW", !.photos = p,
                         !.version = IF p = record.photos THEN @ ELSE @ + 1])]
    /\ overtaken' = overtaken \ {q}
    /\ UNCHANGED record

SaveWork(q) ==
    /\ work[q] # NoWork
    /\ LET w == work[q]
           conflict == "version" \in DOMAIN w.changes /\ record.version # w.version
           after == Merged(record, w.changes)
       IN /\ record.exists /\ ~conflict
          /\ record' = after
          /\ Noted(q, after)
    /\ work' = [work EXCEPT ![q] = NoWork]

\* A version conflict, a deleted record, or a save that never reaches the database.
SaveFails(q) ==
    /\ work[q] # NoWork
    /\ work' = [work EXCEPT ![q] = NoWork]
    /\ overtaken' = overtaken \ {q}
    /\ UNCHANGED record

DeleteMaintenance(q) ==
    /\ work[q] = NoWork /\ record.exists
    /\ record' = Blank
    /\ Noted(q, Blank)
    /\ UNCHANGED work

MaintenanceInit ==
    /\ record = Blank
    /\ work = [q \in Requests |-> NoWork]
    /\ overtaken = {}

MaintenanceNext ==
    \/ \E q \in Requests : CreateMaintenance(q)
    \/ \E q \in Requests : UpdateReads(q)
    \/ \E q \in Requests, d \in Drivers : AcknowledgeReads(q, d)
    \/ \E q \in Requests, d \in Drivers : CompleteReads(q, d)
    \/ \E q \in Requests : SaveWork(q)
    \/ \E q \in Requests : SaveFails(q)
    \/ \E q \in Requests : DeleteMaintenance(q)

MaintenanceSpec == MaintenanceInit /\ [][MaintenanceNext]_maintenance

-----------------------------------------------------------------------------
\* "Lịch bảo dưỡng đã kết thúc" (driverMaintenanceController 51, 74): a record the
\* office has closed is opened again by the office, or by a driver's request that
\* had read it while it was open; never by one that came after.
DriversNeverReopen ==
    [][record.exists /\ record.status \in Ended /\ record'.exists /\ record'.status \notin Ended
       => \E q \in Requests : /\ work[q] # NoWork /\ work'[q] = NoWork
                              /\ work[q].who = "office" \/ q \in overtaken]_maintenance
=============================================================================
