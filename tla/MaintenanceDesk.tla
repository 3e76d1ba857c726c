---------------------------- MODULE MaintenanceDesk ----------------------------
(***************************************************************************)
(* A vehicle's maintenance record on two screens: the office's list with   *)
(* its form, review and buttons (MaintenanceTab.jsx), and the screen of    *)
(* the driver it is assigned to (MaintenanceDetailScreen.jsx).             *)
(*                                                                         *)
(* The office's list is read when the tab opens, by its refresh button and *)
(* after each of the office's changes: what drivers do does not reach it.  *)
(* A change is carried out in one step here; VehicleMaintenance has the    *)
(* handlers that read and save beside each other.                          *)
(***************************************************************************)
EXTENDS Integers, FiniteSets

CONSTANTS Orders,     \* the office's changes that may be under way at once
          Assignees,  \* the drivers to choose from
          AtPhone,    \* the one whose screen is modelled
          Picks,      \* bound: the statuses the office picks in its form
          MaxOrders   \* bound: presses of office and driver

JobStatus == {"SCHEDULED", "ACKNOWLEDGED", "IN_PROGRESS", "AWAITING_REVIEW", "COMPLETED", "CANCELLED"}
Over == {"COMPLETED", "CANCELLED"}
ASSUME MaintenanceDeskAssumption == AtPhone \in Assignees /\ Picks \subseteq JobStatus /\ MaxOrders \in Nat

VARIABLES job,        \* server: the record, NoJob before it is created, GoneJob when removed
          jobRow,     \* the office's list: [row, excused]
          jobFetch,   \* the list being read: [at, row, excused]
          jobForm,    \* the office's form: [open, for, status, driver, picked, excused]
          review,     \* the row whose photos are looked at: [row, excused]
          order,      \* changes under way: [kind, at, body, picked, excused]
          phone,      \* the driver's screen: [doc, photos, asks, at, got]
          told,       \* whether the driver has been notified of the record
          ordered

jobs == <<job, jobRow, jobFetch, jobForm, review, order, phone, told, ordered>>

Nobody == "nobody"
NoJob == [status |-> "none", driver |-> Nobody, acknowledged |-> FALSE]
GoneJob == [NoJob EXCEPT !.status = "gone"]
NewJob == "new"
NotReviewing == [row |-> NoJob, excused |-> FALSE]
\* A form or the photos cover the list and its buttons.
Uncovered == ~jobForm.open /\ review = NotReviewing
NotFetching == [at |-> "idle", row |-> NoJob, excused |-> FALSE]
Shut == [open |-> FALSE, for |-> NewJob, status |-> "SCHEDULED", driver |-> Nobody, picked |-> FALSE, excused |-> FALSE]
NoOrder == [kind |-> "none", at |-> "idle", status |-> "none", driver |-> Nobody, picked |-> FALSE, excused |-> FALSE]
PhoneOff == [doc |-> NoJob, photos |-> FALSE, asks |-> "none", at |-> "idle", got |-> NoJob]

JobsInit ==
    /\ job = NoJob
    /\ jobRow = [row |-> NoJob, excused |-> FALSE]
    /\ jobFetch = [NotFetching EXCEPT !.at = "asked"]
    /\ jobForm = Shut /\ review = NotReviewing
    /\ order = [o \in Orders |-> NoOrder]
    /\ phone = PhoneOff
    /\ told = FALSE
    /\ ordered = 0

-----------------------------------------------------------------------------
(* History.  A copy of the record is excused once somebody else, or a call *)
(* whose answer was lost, has changed the record since it was read; and    *)
(* from the start when it is taken while an own change is not yet seen.    *)

Excusing(c) == [c EXCEPT !.excused = TRUE]
Unseen == (\E o \in Orders : order[o] # NoOrder) \/ jobFetch.at # "idle"

\* The record is changed while these were taken from it.
TakenExcused ==
    /\ jobForm' = IF jobForm.open THEN Excusing(jobForm) ELSE jobForm
    /\ review' = IF review # NotReviewing THEN Excusing(review) ELSE review

-----------------------------------------------------------------------------
(* The office's list.                                                      *)

RefreshJobs ==
    /\ Uncovered /\ jobFetch.at = "idle"
    /\ jobFetch' = [NotFetching EXCEPT !.at = "asked"]
    /\ UNCHANGED <<job, jobRow, jobForm, review, order, phone, told, ordered>>
JobsAreRead ==
    /\ jobFetch.at = "asked"
    /\ jobFetch' = [at |-> "read", row |-> IF job = GoneJob THEN NoJob ELSE job, excused |-> FALSE]
    /\ UNCHANGED <<job, jobRow, jobForm, review, order, phone, told, ordered>>
JobsArrive ==
    /\ jobFetch.at = "read"
    /\ jobRow' = [row |-> jobFetch.row, excused |-> jobFetch.excused]
    /\ jobFetch' = NotFetching
    /\ UNCHANGED <<job, jobForm, review, order, phone, told, ordered>>
\* The old list stays.
JobsFail ==
    /\ jobFetch.at # "idle"
    /\ jobFetch' = NotFetching
    /\ jobRow' = Excusing(jobRow)
    /\ UNCHANGED <<job, jobForm, review, order, phone, told, ordered>>

-----------------------------------------------------------------------------
(* The office's form, review and buttons.                                  *)

\* One record is modelled.
OpenNewJob ==
    /\ Uncovered /\ job = NoJob
    /\ jobForm' = [Shut EXCEPT !.open = TRUE]
    /\ UNCHANGED <<job, jobRow, jobFetch, review, order, phone, told, ordered>>
OpenJob ==
    /\ Uncovered /\ jobRow.row # NoJob
    /\ jobForm' = [open |-> TRUE, for |-> "row", status |-> jobRow.row.status, driver |-> jobRow.row.driver,
                   picked |-> FALSE, excused |-> jobRow.excused \/ Unseen]
    /\ UNCHANGED <<job, jobRow, jobFetch, review, order, phone, told, ordered>>
CloseJobForm ==
    /\ jobForm.open
    /\ jobForm' = Shut
    /\ UNCHANGED <<job, jobRow, jobFetch, review, order, phone, told, ordered>>

Pressed(o, what) ==
    /\ order[o] = NoOrder /\ ordered < MaxOrders
    /\ order' = [order EXCEPT ![o] = what]
    /\ ordered' = ordered + 1
    /\ UNCHANGED <<job, jobRow, jobFetch, jobForm, phone, told>>

\* The form sends all its fields, the status with them.  A cleared driver is left out of the
\* request, which then leaves the driver alone.
SubmitJob(o) ==
    /\ jobForm.open /\ (jobForm.for = NewJob => job = NoJob) /\ \A p \in Orders : order[p].kind \notin {"create", "edit"}
    /\ \E s \in {jobForm.status} \cup Picks, d \in {jobForm.driver} \cup Assignees :
          Pressed(o, [kind |-> IF jobForm.for = NewJob THEN "create" ELSE "edit", at |-> "sent", status |-> s,
                      driver |-> d, picked |-> s # jobForm.status, excused |-> jobForm.excused])
    /\ UNCHANGED review

LookAtPhotos ==
    /\ Uncovered /\ jobRow.row.status = "AWAITING_REVIEW"
    /\ review' = [row |-> jobRow.row, excused |-> jobRow.excused \/ Unseen]
    /\ UNCHANGED <<job, jobRow, jobFetch, jobForm, order, phone, told, ordered>>
CloseReview ==
    /\ review # NotReviewing
    /\ review' = NotReviewing
    /\ UNCHANGED <<job, jobRow, jobFetch, jobForm, order, phone, told, ordered>>

Approval(excused) ==
    [NoOrder EXCEPT !.kind = "approve", !.at = "sent", !.status = "COMPLETED", !.excused = excused]
\* On the row, or below the photos of the row that was looked at.
ApproveJob(o) ==
    \/ /\ Uncovered /\ jobRow.row.status = "AWAITING_REVIEW"
       /\ Pressed(o, Approval(jobRow.excused \/ Unseen))
       /\ UNCHANGED review
    \/ /\ review # NotReviewing
       /\ Pressed(o, Approval(review.excused))
       /\ review' = NotReviewing
RemoveJob(o) ==
    /\ Uncovered /\ jobRow.row # NoJob
    /\ Pressed(o, [NoOrder EXCEPT !.kind = "remove", !.at = "sent"])
    /\ UNCHANGED review

-----------------------------------------------------------------------------
(* The server and its answers to the office.                               *)

CreatedJob(o) == [NoJob EXCEPT !.status = order[o].status, !.driver = order[o].driver]
\* updateMaintenance: an approval sends the status alone; what the driver has done stays.
EditedJob(o) ==
    [job EXCEPT !.status = order[o].status,
                !.driver = IF order[o].driver = Nobody THEN @ ELSE order[o].driver]

ServeOrder(o) ==
    /\ order[o].at = "sent"
    /\ order[o].kind # "create" => job \notin {NoJob, GoneJob}
    /\ job' = CASE order[o].kind = "create" -> CreatedJob(o)
                [] order[o].kind = "remove" -> GoneJob
                [] OTHER -> EditedJob(o)
    /\ told' = (told \/ (job'.driver = AtPhone /\ job.driver # AtPhone))
    /\ TakenExcused
    /\ order' = [p \in Orders |-> CASE p = o -> [order[p] EXCEPT !.at = "served"]
                                    [] p # o /\ order[p] # NoOrder -> Excusing(order[p])
                                    [] OTHER -> NoOrder]
    /\ UNCHANGED <<jobRow, jobFetch, phone, ordered>>

\* Mutant: an approval leaves the list as it is.
RefetchedButApproved == {"create", "edit", "remove"}
\* The changes whose success has the list read again.
Refetched == {"create", "edit", "remove", "approve"}

\* The success of a form shuts whichever form is open by then.
OrderSucceeds(o) ==
    /\ order[o].at = "served"
    /\ jobFetch' = IF order[o].kind \in Refetched THEN [NotFetching EXCEPT !.at = "asked"] ELSE jobFetch
    /\ jobForm' = IF order[o].kind \in {"create", "edit"} THEN Shut ELSE jobForm
    /\ order' = [order EXCEPT ![o] = NoOrder]
    /\ UNCHANGED <<job, jobRow, review, phone, told, ordered>>
\* Refused, or the answer is lost: an error is shown and nothing is read again.
OrderFails(o) ==
    /\ order[o] # NoOrder
    /\ jobRow' = Excusing(jobRow)
    /\ jobFetch' = IF jobFetch.at = "read" THEN Excusing(jobFetch) ELSE jobFetch
    /\ order' = [order EXCEPT ![o] = NoOrder]
    /\ UNCHANGED <<job, jobForm, review, phone, told, ordered>>

-----------------------------------------------------------------------------
(* The driver's screen, opened from the notice of the assignment.          *)

OpenJobScreen ==
    /\ told /\ phone = PhoneOff
    /\ phone' = [PhoneOff EXCEPT !.asks = "look", !.at = "sent"]
    /\ UNCHANGED <<job, jobRow, jobFetch, jobForm, review, order, told, ordered>>
LeaveJobScreen ==
    /\ phone.doc # NoJob /\ phone.asks = "none"
    /\ phone' = PhoneOff
    /\ UNCHANGED <<job, jobRow, jobFetch, jobForm, review, order, told, ordered>>

CanAck == phone.doc.status \in {"SCHEDULED", "ACKNOWLEDGED"} /\ ~phone.doc.acknowledged
CanComplete == phone.doc.status \in {"SCHEDULED", "ACKNOWLEDGED", "IN_PROGRESS"}

TakePhoto ==
    /\ CanComplete /\ ~phone.photos
    /\ phone' = [phone EXCEPT !.photos = TRUE]
    /\ UNCHANGED <<job, jobRow, jobFetch, jobForm, review, order, told, ordered>>
PressJob(what) ==
    /\ phone.asks = "none" /\ ordered < MaxOrders
    /\ IF what = "acknowledge" THEN CanAck ELSE CanComplete /\ phone.photos
    /\ phone' = [phone EXCEPT !.asks = what, !.at = "sent"]
    /\ ordered' = ordered + 1
    /\ UNCHANGED <<job, jobRow, jobFetch, jobForm, review, order, told>>

\* acknowledgeMaintenance, completeMaintenance: nothing is taken back by a driver.
JobAfter(what) ==
    CASE what = "acknowledge" -> [job EXCEPT !.acknowledged = TRUE, !.status = IF @ = "SCHEDULED" THEN "ACKNOWLEDGED" ELSE @]
      [] what = "complete" -> [job EXCEPT !.acknowledged = TRUE, !.status = "AWAITING_REVIEW"]
      [] OTHER -> job

ServePhone ==
    /\ phone.at = "sent"
    /\ job.driver = AtPhone /\ (phone.asks = "look" \/ job.status \notin Over)
    /\ job' = JobAfter(phone.asks)
    /\ phone' = [phone EXCEPT !.at = "served", !.got = job']
    /\ IF job' = job THEN UNCHANGED <<jobRow, jobFetch, jobForm, review, order>>
       ELSE /\ jobRow' = Excusing(jobRow)
            /\ jobFetch' = IF jobFetch.at = "read" THEN Excusing(jobFetch) ELSE jobFetch
            /\ TakenExcused
            /\ order' = [o \in Orders |-> IF order[o] # NoOrder THEN Excusing(order[o]) ELSE NoOrder]
    /\ UNCHANGED <<told, ordered>>
PhoneAnswered ==
    /\ phone.at = "served"
    /\ phone' = [phone EXCEPT !.doc = phone.got, !.photos = @ /\ phone.asks # "complete", !.asks = "none",
                              !.at = "idle", !.got = NoJob]
    /\ UNCHANGED <<job, jobRow, jobFetch, jobForm, review, order, told, ordered>>
\* Refused or lost: the screen stays as it is, and goes back when it has nothing to show.
PhoneFails ==
    /\ phone.at \in {"sent", "served"}
    /\ phone' = IF phone.asks = "look" THEN PhoneOff ELSE [phone EXCEPT !.asks = "none", !.at = "idle", !.got = NoJob]
    /\ UNCHANGED <<job, jobRow, jobFetch, jobForm, review, order, told, ordered>>

JobsNext ==
    \/ RefreshJobs \/ JobsAreRead \/ JobsArrive \/ JobsFail
    \/ OpenNewJob \/ OpenJob \/ CloseJobForm \/ LookAtPhotos \/ CloseReview
    \/ \E o \in Orders : \/ SubmitJob(o) \/ ApproveJob(o) \/ RemoveJob(o)
                         \/ ServeOrder(o) \/ OrderSucceeds(o) \/ OrderFails(o)
    \/ OpenJobScreen \/ LeaveJobScreen \/ TakePhoto
    \/ PressJob("acknowledge") \/ PressJob("complete")
    \/ ServePhone \/ PhoneAnswered \/ PhoneFails

-----------------------------------------------------------------------------
\* The form sends the status it was opened with (MaintenanceTab.jsx:146-155), and an
\* approval looks at no status (134): they write over what the driver, a call whose answer
\* was lost, or another change under way has done, and never over a change of the office's
\* own that it has been told of.
OfficeKnowsItsOwnWork ==
    [][\A o \in Orders : order[o].at = "sent" /\ order'[o].at = "served" /\ ~order[o].excused =>
          /\ order[o].kind = "edit" /\ ~order[o].picked => job'.status = job.status
          /\ order[o].kind = "approve" => job.status = "AWAITING_REVIEW"]_jobs
=============================================================================
