------------------------------ MODULE MasterData ------------------------------
(***************************************************************************)
(* masterDataController.js with the CrudTab of MasterDataPage.jsx: the     *)
(* records of one organisation under a tab, several desks with a form      *)
(* each and a dialog for imports.  What a record holds beside its          *)
(* employment and its carrier is one of two names.  A vehicle or driver is *)
(* in house, or outsourced to a carrier (a 3PL Service); the carriers on   *)
(* offer are read once and may be gone.                                    *)
(* The maintenance tab is in VehicleMaintenance.  A code used again after  *)
(* its record is deleted is another record, and another element.           *)
(*                                                                         *)
(* External: mongoose.  save() writes only what differs from the document  *)
(* it loaded, and fails when that is gone; the code of a record is unique. *)
(***************************************************************************)
EXTENDS Integers, FiniteSets

CONSTANTS Records,   \* by their codes
          Carriers, NoCarrier,
          Offices,   \* the desks
          MaxSubmits \* bound: forms submitted and files imported
ASSUME RecordsAssumption == NoCarrier \notin Carriers /\ MaxSubmits \in Nat

Tabs == {"customers", "groups", "categories", "products", "vehicles", "drivers", "services"}
Employing == {"vehicles", "drivers"}
Names == 1..2

VARIABLES dataTab,   \* the tab at work
          filed,     \* server: the records
          rows,      \* of each desk: the records it has listed
          form,      \* of each desk: shut, or open on a new record or on a row
          sent,      \* of each desk: its create or update under way
          chosen,    \* importRows: the rows of the file in the dialog
          importing, \* the rows an import has left
          overlapped,\* history: the last update of a record wrote over one it had not read
          submits

records == <<dataTab, filed, rows, form, sent, chosen, importing, overlapped, submits>>

NoRecord == [employment |-> "none", carrier |-> NoCarrier, name |-> 1]
Deleted == [NoRecord EXCEPT !.employment = "gone"]
There(doc) == doc \notin {NoRecord, Deleted}
Nothing == [r \in Records |-> NoRecord]
NoSubmit == [at |-> "none", of |-> "new", body |-> NoRecord, loaded |-> NoRecord]

RecordsInit ==
    /\ dataTab \in Tabs
    /\ filed = Nothing
    /\ rows = [d \in Offices |-> Nothing]
    /\ form = [d \in Offices |-> "shut"]
    /\ sent = [d \in Offices |-> NoSubmit]
    /\ chosen = {} /\ importing = {}
    /\ overlapped = {} /\ submits = 0

\* Where the form or the body says outsourced, it names a carrier.
Bodies ==
    [employment : {"IN_HOUSE"}, carrier : {NoCarrier}, name : Names]
        \cup (IF dataTab \in Employing
              THEN [employment : {"OUTSOURCED"}, carrier : Carriers, name : Names] ELSE {})

-----------------------------------------------------------------------------
(* The tab.                                                                *)

\* paginate; an answer that is late is a list that was read before.
ListRows(d) ==
    /\ rows' = [rows EXCEPT ![d] = filed]
    /\ UNCHANGED <<dataTab, filed, form, sent, chosen, importing, overlapped, submits>>

ListCustomers(d) == dataTab = "customers" /\ ListRows(d)
ListProducts(d) == dataTab = "products" /\ ListRows(d)
ListServices(d) == dataTab = "services" /\ ListRows(d)
ListCustomerGroups(d) == dataTab = "groups" /\ ListRows(d)
ListProductCategories(d) == dataTab = "categories" /\ ListRows(d)
ListVehicles(d) == dataTab = "vehicles" /\ ListRows(d)
ListDrivers(d) == dataTab = "drivers" /\ ListRows(d)

OpenCreate(d) ==
    /\ form' = [form EXCEPT ![d] = "new"]
    /\ UNCHANGED <<dataTab, filed, rows, sent, chosen, importing, overlapped, submits>>

\* The form starts from the values of the row, not of the record, and may send them all.
OpenEdit(d, r) ==
    /\ There(rows[d][r])
    /\ form' = [form EXCEPT ![d] = r]
    /\ UNCHANGED <<dataTab, filed, rows, sent, chosen, importing, overlapped, submits>>

CloseForm(d) ==
    /\ form[d] # "shut"
    /\ form' = [form EXCEPT ![d] = "shut"]
    /\ UNCHANGED <<dataTab, filed, rows, sent, chosen, importing, overlapped, submits>>

\* onOk: the button waits while a create or an update of the tab is pending.
Submit(d, r, body) ==
    /\ sent[d] = NoSubmit /\ submits < MaxSubmits
    /\ form[d] = r \/ (form[d] = "new" /\ filed[r] # Deleted)
    /\ submits' = submits + 1
    /\ sent' = [sent EXCEPT ![d] = [at |-> IF form[d] = "new" THEN "create" ELSE "update",
                                    of |-> r, body |-> body, loaded |-> NoRecord]]
    /\ UNCHANGED <<dataTab, filed, rows, form, chosen, importing, overlapped>>

\* onSuccess: the form that is open by now is closed.
FormDone(d) ==
    /\ sent' = [sent EXCEPT ![d] = NoSubmit]
    /\ form' = [form EXCEPT ![d] = "shut"]
\* onError leaves the form.
Refused(d) == sent' = [sent EXCEPT ![d] = NoSubmit] /\ UNCHANGED form

\* The dialog opens without rows, and gets those of a file whenever it has been read.
OpenImport ==
    /\ chosen # {} /\ chosen' = {}
    /\ UNCHANGED <<dataTab, filed, rows, form, sent, importing, overlapped, submits>>
FileRead(S) ==
    /\ S # {} /\ chosen' = S
    /\ UNCHANGED <<dataTab, filed, rows, form, sent, importing, overlapped, submits>>

\* The button waits while an import is loading.
MayImport == importing = {} /\ chosen # {}
SubmitImport ==
    /\ MayImport /\ submits < MaxSubmits
    /\ importing' = chosen /\ submits' = submits + 1
    /\ UNCHANGED <<dataTab, filed, rows, form, sent, chosen, overlapped>>

-----------------------------------------------------------------------------
(* The controller.                                                         *)

Keep(r, new) == filed' = [filed EXCEPT ![r] = new]

\* A code that is there is refused, by the look-up or by the index.
CreateCoded(d) ==
    LET r == sent[d].of IN
    /\ sent[d].at = "create"
    /\ IF filed[r] = NoRecord
       THEN Keep(r, sent[d].body) /\ overlapped' = overlapped \ {r} /\ FormDone(d)
       ELSE UNCHANGED <<filed, overlapped>> /\ Refused(d)
    /\ UNCHANGED <<dataTab, rows, chosen, importing, submits>>

CreateCustomer(d) == dataTab = "customers" /\ CreateCoded(d)
CreateProduct(d) == dataTab = "products" /\ CreateCoded(d)
CreateService(d) == dataTab = "services" /\ CreateCoded(d)
CreateCustomerGroup(d) == dataTab = "groups" /\ CreateCoded(d)
CreateProductCategory(d) == dataTab = "categories" /\ CreateCoded(d)
\* An outsourced one without a carrier is refused; the page sends none.
CreateVehicle(d) == dataTab = "vehicles" /\ CreateCoded(d)
CreateDriver(d) == dataTab = "drivers" /\ CreateCoded(d)

\* findById of the update.
LoadRecord(d) ==
    LET r == sent[d].of IN
    /\ sent[d].at = "update"
    /\ IF filed[r] = Deleted THEN Refused(d)
       ELSE sent' = [sent EXCEPT ![d].at = "loaded", ![d].loaded = filed[r]] /\ UNCHANGED form
    /\ UNCHANGED <<dataTab, filed, rows, chosen, importing, overlapped, submits>>

\* The fields of the body that are there: the carrier only of an outsourced one.
Assigned(loaded, body) ==
    [employment |-> body.employment, name |-> body.name,
     carrier |-> IF body.employment = "OUTSOURCED" THEN body.carrier ELSE loaded.carrier]

\* Mutant: an in-house vehicle keeps the carrier it had.
KeepsCarrier(doc) == doc

Employed(doc) == [doc EXCEPT !.carrier = IF doc.employment = "IN_HOUSE" THEN NoCarrier ELSE @]

\* save() of a document.
Saved(now, loaded, doc) == [f \in DOMAIN doc |-> IF doc[f] # loaded[f] THEN doc[f] ELSE now[f]]

SaveRecord(d, doc) ==
    LET r == sent[d].of IN
    /\ sent[d].at = "loaded"
    /\ IF filed[r] = Deleted THEN UNCHANGED <<filed, overlapped>> /\ Refused(d)
       ELSE /\ Keep(r, Saved(filed[r], sent[d].loaded, doc))
            /\ overlapped' = IF filed[r] = sent[d].loaded THEN overlapped \ {r} ELSE overlapped \cup {r}
            /\ FormDone(d)
    /\ UNCHANGED <<dataTab, rows, chosen, importing, submits>>

Filled(d) == Assigned(sent[d].loaded, sent[d].body)
UpdateCustomer(d) == dataTab = "customers" /\ SaveRecord(d, Filled(d))
UpdateProduct(d) == dataTab = "products" /\ SaveRecord(d, Filled(d))
UpdateService(d) == dataTab = "services" /\ SaveRecord(d, Filled(d))
UpdateCustomerGroup(d) == dataTab = "groups" /\ SaveRecord(d, Filled(d))
UpdateProductCategory(d) == dataTab = "categories" /\ SaveRecord(d, Filled(d))
UpdateVehicle(d) == dataTab = "vehicles" /\ SaveRecord(d, Employed(Filled(d)))
UpdateDriver(d) == dataTab = "drivers" /\ SaveRecord(d, Employed(Filled(d)))

\* Nothing asks whether the record is in use: a carrier's vehicles keep its id.
DeleteRecord(d, r) ==
    /\ There(rows[d][r]) /\ filed[r] # Deleted
    /\ Keep(r, Deleted)
    /\ UNCHANGED <<dataTab, rows, form, sent, chosen, importing, overlapped, submits>>

DeleteCustomer(d, r) == dataTab = "customers" /\ DeleteRecord(d, r)
DeleteProduct(d, r) == dataTab = "products" /\ DeleteRecord(d, r)
DeleteService(d, r) == dataTab = "services" /\ DeleteRecord(d, r)
DeleteCustomerGroup(d, r) == dataTab = "groups" /\ DeleteRecord(d, r)
DeleteProductCategory(d, r) == dataTab = "categories" /\ DeleteRecord(d, r)
DeleteVehicle(d, r) == dataTab = "vehicles" /\ DeleteRecord(d, r)
DeleteDriver(d, r) == dataTab = "drivers" /\ DeleteRecord(d, r)

\* bulkImport, a row at a time: what is there is skipped.  What a file says of the
\* employment is not read.
ImportRow(r) ==
    /\ r \in importing
    /\ importing' = importing \ {r}
    \* The answer to the last row empties the dialog, unless it is an error or is lost.
    /\ chosen' = chosen \/ (importing' = {} /\ chosen' = {})
    /\ IF filed[r] = NoRecord
       THEN /\ Keep(r, [employment |-> "IN_HOUSE", carrier |-> NoCarrier, name |-> 1])
            /\ overlapped' = overlapped \ {r}
       ELSE UNCHANGED <<filed, overlapped>>
    /\ UNCHANGED <<dataTab, rows, form, sent, submits>>

RecordsNext ==
    \/ \E d \in Offices :
         \/ ListCustomers(d) \/ ListProducts(d) \/ ListServices(d) \/ ListCustomerGroups(d)
         \/ ListProductCategories(d) \/ ListVehicles(d) \/ ListDrivers(d)
         \/ OpenCreate(d) \/ CloseForm(d) \/ LoadRecord(d)
         \/ CreateCustomer(d) \/ CreateProduct(d) \/ CreateService(d) \/ CreateCustomerGroup(d)
         \/ CreateProductCategory(d) \/ CreateVehicle(d) \/ CreateDriver(d)
         \/ UpdateCustomer(d) \/ UpdateProduct(d) \/ UpdateService(d) \/ UpdateCustomerGroup(d)
         \/ UpdateProductCategory(d) \/ UpdateVehicle(d) \/ UpdateDriver(d)
         \/ \E r \in Records :
              \/ OpenEdit(d, r)
              \/ DeleteCustomer(d, r) \/ DeleteProduct(d, r) \/ DeleteService(d, r)
              \/ DeleteCustomerGroup(d, r) \/ DeleteProductCategory(d, r)
              \/ DeleteVehicle(d, r) \/ DeleteDriver(d, r)
              \/ \E body \in Bodies : Submit(d, r, body)
    \/ \E S \in SUBSET {r \in Records : filed[r] # Deleted} : FileRead(S)
    \/ OpenImport \/ SubmitImport
    \/ \E r \in Records : ImportRow(r)

RecordsSpec == RecordsInit /\ [][RecordsNext]_records

-----------------------------------------------------------------------------
\* "Bảo toàn invariant: OUTSOURCED phải có ServiceID" (masterDataController.js:196): a
\* vehicle or driver has a carrier just when it is outsourced, whatever desks create, edit,
\* import and delete, but where one update has written over another that it had not read.
CarrierIffOutsourced ==
    \A r \in Records \ overlapped :
        There(filed[r]) => (filed[r].carrier # NoCarrier <=> filed[r].employment = "OUTSOURCED")
=============================================================================
