------------------------- MODULE RouteEdits_proofs -------------------------
(***************************************************************************)
(* Proofs about RouteEdits, for any orders, routes and request slots: an   *)
(* order is in at most one place and lost only with an error, and no save  *)
(* undoes another request's edit.  Everything rests on FreshCopies: a copy *)
(* that save() would accept is the document as it is.                      *)
(***************************************************************************)
EXTENDS RouteEdits, TLAPS

-----------------------------------------------------------------------------
(* The inductive invariant.                                                *)

\* What a request has in memory at each of its awaits.
HasOrder == Stage \ {"idle", "saveStatus", "nextOrder"}
HasFrom  == {"saveFrom", "saveRemoved"}
HasTo    == {"find", "saveFrom", "saveTo", "readAdded", "savePlanned", "saveAdded",
             "saveStatus", "nextOrder", "saveOrder"}

LocalsInPlace ==
  \A q \in Requests :
    /\ at[q] \in HasOrder => local[q].order \in Orders
    /\ at[q] \in HasFrom => local[q].from \in Routes /\ local[q].order \in local[q].copy[local[q].from]
    /\ at[q] \in HasTo => local[q].to \in Routes
    /\ at[q] = "saveStatus" => local[q].becomes \in RouteStatus

\* The copy of a route whose version has not moved is the route.
FreshCopies ==
  \A q \in Requests : at[q] # "idle" =>
    \A r \in fresh[q] : local[q].copy[r] = stops[r]

IInv == TypeOK /\ LocalsInPlace /\ FreshCopies /\ AtMostOnePlace /\ NoSilentLoss

-----------------------------------------------------------------------------

LEMMA BlankTyped == Blank \in Local
  BY DEF Blank, Local, Planning

\* A step that leaves the stops, the moves in hand and the histories alone keeps
\* every order where it is.
Unmoved ==
  /\ UNCHANGED <<stops, gone, lost, doubled>>
  /\ \A p \in Requests : at'[p] = "saveTo" <=> at[p] = "saveTo"
  /\ \A p \in Requests : at[p] = "saveTo" => local'[p].order = local[p].order

LEMMA UnmovedKeeps ==
  ASSUME AtMostOnePlace, NoSilentLoss, Unmoved
  PROVE  AtMostOnePlace' /\ NoSilentLoss'
<1>1. \A o \in Orders : Carrying(o)' = Carrying(o) /\ Moving(o)' = Moving(o)
  BY DEF Unmoved, Carrying, Moving
<1> QED
  BY <1>1 DEF Unmoved, AtMostOnePlace, NoSilentLoss

\* A save of stops that goes through works on the stops as they are.
LEMMA SavedCopyIsCurrent ==
  ASSUME FreshCopies, TypeOK, NEW q \in Requests, at[q] # "idle",
         NEW r, NEW S, SaveStops(q, r, S)
  PROVE  /\ r \in Routes
         /\ local[q].copy[r] = stops[r]
         /\ \A s \in Routes : stops'[s] = IF s = r THEN S ELSE stops[s]
<1>1. r \in Routes /\ local[q].copy[r] = stops[r]
  BY DEF FreshCopies, TypeOK, SaveStops
<1> QED
  BY <1>1 DEF SaveStops, TypeOK

LEMMA MoveOrderKeeps ==
  ASSUME IInv, NEW q \in Requests, NEW o \in Orders, NEW to \in Routes,
         MoveOrder(q, o, to)
  PROVE  IInv'
<1> USE BlankTyped DEF IInv
<1>1. TypeOK'
  BY DEF TypeOK, Local, Stage, Planning, RouteStatus, ReadStops, LocalsInPlace, HasOrder,
     MoveOrder, Arrives, documents, history
<1>2. LocalsInPlace'
  BY DEF LocalsInPlace, HasOrder, HasTo, HasFrom, TypeOK, Local, Stage, Blank, ReadStops,
     MoveOrder, Arrives, documents
<1>3. FreshCopies'
  BY DEF FreshCopies, LocalsInPlace, HasTo, TypeOK, Stage, Blank, ReadStops,
     MoveOrder, Arrives, documents
<1>4. Unmoved
  BY DEF Unmoved, TypeOK, Stage, MoveOrder, Arrives, documents, history
<1> QED
  BY <1>1, <1>2, <1>3, <1>4, UnmovedKeeps

LEMMA FindRoutesKeeps ==
  ASSUME IInv, NEW q \in Requests, NEW from \in Routes,
         FindRoutes(q, from)
  PROVE  IInv'
<1> USE BlankTyped DEF IInv
<1>1. TypeOK'
  <2>1. ReadStops({from, local[q].to}) \in [Routes -> SUBSET Orders]
    BY DEF TypeOK, ReadStops
  <2>2. local' \in [Requests -> Local]
    BY ZenonT(40), <2>1 DEF FindRoutes, TypeOK, Local
  <2>3. fresh' \in [Requests -> SUBSET Routes]
    BY DEF FindRoutes, LocalsInPlace, HasTo, TypeOK
  <2> QED
    BY <2>2, <2>3 DEF FindRoutes, TypeOK, Stage, documents, history
<1>2. LocalsInPlace'
  BY DEF LocalsInPlace, HasOrder, HasTo, HasFrom, TypeOK, Local, Stage, Blank, ReadStops,
     FindRoutes, documents
<1>3. FreshCopies'
  BY DEF FreshCopies, LocalsInPlace, HasTo, TypeOK, Stage, Blank, ReadStops,
     FindRoutes, documents
<1>4. Unmoved
  BY DEF Unmoved, TypeOK, Stage, FindRoutes, documents, history
<1> QED
  BY <1>1, <1>2, <1>3, <1>4, UnmovedKeeps

LEMMA MoveRefusedKeeps ==
  ASSUME IInv, NEW q \in Requests,
         MoveRefused(q)
  PROVE  IInv'
<1> USE BlankTyped DEF IInv
<1>1. TypeOK'
  BY DEF TypeOK, Local, Stage, Planning, RouteStatus, ReadStops, LocalsInPlace, HasOrder,
     MoveRefused, Fails, Answers, documents, history
<1>2. LocalsInPlace'
  BY DEF LocalsInPlace, HasOrder, HasTo, HasFrom, TypeOK, Local, Stage, Blank, ReadStops,
     MoveRefused, Fails, Answers, documents
<1>3. FreshCopies'
  BY DEF FreshCopies, LocalsInPlace, HasTo, TypeOK, Stage, Blank, ReadStops,
     MoveRefused, Fails, Answers, documents
<1>4. Unmoved
  BY DEF Unmoved, TypeOK, Stage, MoveRefused, Fails, Answers, documents, history
<1> QED
  BY <1>1, <1>2, <1>3, <1>4, UnmovedKeeps

LEMMA RemoveOrderKeeps ==
  ASSUME IInv, NEW q \in Requests, NEW o \in Orders, NEW r \in Routes,
         RemoveOrder(q, o, r)
  PROVE  IInv'
<1> USE BlankTyped DEF IInv
<1>1. TypeOK'
  BY DEF TypeOK, Local, Stage, Planning, RouteStatus, ReadStops, LocalsInPlace, HasOrder,
     RemoveOrder, Arrives, documents, history
<1>2. LocalsInPlace'
  BY DEF LocalsInPlace, HasOrder, HasTo, HasFrom, TypeOK, Local, Stage, Blank, ReadStops,
     RemoveOrder, Arrives, documents
<1>3. FreshCopies'
  BY DEF FreshCopies, LocalsInPlace, HasTo, TypeOK, Stage, Blank, ReadStops,
     RemoveOrder, Arrives, documents
<1>4. Unmoved
  BY DEF Unmoved, TypeOK, Stage, RemoveOrder, Arrives, documents, history
<1> QED
  BY <1>1, <1>2, <1>3, <1>4, UnmovedKeeps

LEMMA RemoveConflictsKeeps ==
  ASSUME IInv, NEW q \in Requests,
         RemoveConflicts(q)
  PROVE  IInv'
<1> USE BlankTyped DEF IInv
<1>1. TypeOK'
  BY DEF TypeOK, Local, Stage, Planning, RouteStatus, ReadStops, LocalsInPlace, HasOrder,
     RemoveConflicts, Fails, Answers, documents, history
<1>2. LocalsInPlace'
  BY DEF LocalsInPlace, HasOrder, HasTo, HasFrom, TypeOK, Local, Stage, Blank, ReadStops,
     RemoveConflicts, Fails, Answers, documents
<1>3. FreshCopies'
  BY DEF FreshCopies, LocalsInPlace, HasTo, TypeOK, Stage, Blank, ReadStops,
     RemoveConflicts, Fails, Answers, documents
<1>4. Unmoved
  BY DEF Unmoved, TypeOK, Stage, RemoveConflicts, Fails, Answers, documents, history
<1> QED
  BY <1>1, <1>2, <1>3, <1>4, UnmovedKeeps

LEMMA ReadRemovedKeeps ==
  ASSUME IInv, NEW q \in Requests,
         ReadRemoved(q)
  PROVE  IInv'
<1> USE BlankTyped DEF IInv
<1>1. TypeOK'
  <2>1. CASE planning[local[q].order] = "PLANNED"
    BY <2>1 DEF ReadRemoved, GoesTo, TypeOK, Stage, documents, history
  <2>2. CASE planning[local[q].order] # "PLANNED"
    BY <2>2 DEF ReadRemoved, Answers, TypeOK, Stage, documents, history
  <2> QED
    BY <2>1, <2>2
<1>2. LocalsInPlace'
  BY DEF LocalsInPlace, HasOrder, HasTo, HasFrom, TypeOK, Local, Stage, Blank, ReadStops,
     ReadRemoved, GoesTo, Answers, documents
<1>3. FreshCopies'
  BY DEF FreshCopies, LocalsInPlace, HasTo, TypeOK, Stage, Blank, ReadStops,
     ReadRemoved, GoesTo, Answers, documents
<1>4. Unmoved
  BY DEF Unmoved, TypeOK, Stage, ReadRemoved, GoesTo, Answers, documents, history
<1> QED
  BY <1>1, <1>2, <1>3, <1>4, UnmovedKeeps

LEMMA SavePendingKeeps ==
  ASSUME IInv, NEW q \in Requests,
         SavePending(q)
  PROVE  IInv'
<1> USE BlankTyped DEF IInv
<1>1. TypeOK'
  BY DEF TypeOK, Local, Stage, Planning, RouteStatus, ReadStops, LocalsInPlace, HasOrder,
     SavePending, SaveOrder, Answers, documents, history
<1>2. LocalsInPlace'
  BY DEF LocalsInPlace, HasOrder, HasTo, HasFrom, TypeOK, Local, Stage, Blank, ReadStops,
     SavePending, SaveOrder, Answers, documents
<1>3. FreshCopies'
  BY DEF FreshCopies, LocalsInPlace, HasTo, TypeOK, Stage, Blank, ReadStops,
     SavePending, SaveOrder, Answers, documents
<1>4. Unmoved
  BY DEF Unmoved, TypeOK, Stage, SavePending, SaveOrder, Answers, documents, history
<1> QED
  BY <1>1, <1>2, <1>3, <1>4, UnmovedKeeps

LEMMA AddOrderKeeps ==
  ASSUME IInv, NEW q \in Requests, NEW o \in Orders, NEW r \in Routes,
         AddOrder(q, o, r)
  PROVE  IInv'
<1> USE BlankTyped DEF IInv
<1>1. TypeOK'
  BY DEF TypeOK, Local, Stage, Planning, RouteStatus, ReadStops, LocalsInPlace, HasOrder,
     AddOrder, Arrives, documents, history
<1>2. LocalsInPlace'
  BY DEF LocalsInPlace, HasOrder, HasTo, HasFrom, TypeOK, Local, Stage, Blank, ReadStops,
     AddOrder, Arrives, documents
<1>3. FreshCopies'
  BY DEF FreshCopies, LocalsInPlace, HasTo, TypeOK, Stage, Blank, ReadStops,
     AddOrder, Arrives, documents
<1>4. Unmoved
  BY DEF Unmoved, TypeOK, Stage, AddOrder, Arrives, documents, history
<1> QED
  BY <1>1, <1>2, <1>3, <1>4, UnmovedKeeps

LEMMA ReadAddedKeeps ==
  ASSUME IInv, NEW q \in Requests,
         ReadAdded(q)
  PROVE  IInv'
<1> USE BlankTyped DEF IInv
<1>1. TypeOK'
  <2>1. CASE local[q].order \in local[q].copy[local[q].to]
    BY <2>1 DEF ReadAdded, Fails, Answers, TypeOK, Stage, documents, history
  <2>2. CASE local[q].order \notin local[q].copy[local[q].to]
    <3>1. at' \in [Requests -> Stage]
      BY <2>2 DEF ReadAdded, GoesTo, TypeOK, Stage
    <3> QED
      BY <2>2, <3>1 DEF ReadAdded, GoesTo, TypeOK, documents, history
  <2> QED
    BY <2>1, <2>2
<1>2. LocalsInPlace'
  BY DEF LocalsInPlace, HasOrder, HasTo, HasFrom, TypeOK, Local, Stage, Blank, ReadStops,
     ReadAdded, Fails, GoesTo, Answers, documents
<1>3. FreshCopies'
  BY DEF FreshCopies, LocalsInPlace, HasTo, TypeOK, Stage, Blank, ReadStops,
     ReadAdded, Fails, GoesTo, Answers, documents
<1>4. Unmoved
  BY DEF Unmoved, TypeOK, Stage, ReadAdded, Fails, GoesTo, Answers, documents, history
<1> QED
  BY <1>1, <1>2, <1>3, <1>4, UnmovedKeeps

LEMMA SavePlannedKeeps ==
  ASSUME IInv, NEW q \in Requests,
         SavePlanned(q)
  PROVE  IInv'
<1> USE BlankTyped DEF IInv
<1>1. TypeOK'
  BY DEF TypeOK, Local, Stage, Planning, RouteStatus, ReadStops, LocalsInPlace, HasOrder,
     SavePlanned, SaveOrder, GoesTo, documents, history
<1>2. LocalsInPlace'
  BY DEF LocalsInPlace, HasOrder, HasTo, HasFrom, TypeOK, Local, Stage, Blank, ReadStops,
     SavePlanned, SaveOrder, GoesTo, documents
<1>3. FreshCopies'
  BY DEF FreshCopies, LocalsInPlace, HasTo, TypeOK, Stage, Blank, ReadStops,
     SavePlanned, SaveOrder, GoesTo, documents
<1>4. Unmoved
  BY DEF Unmoved, TypeOK, Stage, SavePlanned, SaveOrder, GoesTo, documents, history
<1> QED
  BY <1>1, <1>2, <1>3, <1>4, UnmovedKeeps

LEMMA AddConflictsKeeps ==
  ASSUME IInv, NEW q \in Requests,
         AddConflicts(q)
  PROVE  IInv'
<1> USE BlankTyped DEF IInv
<1>1. TypeOK'
  BY DEF TypeOK, Local, Stage, Planning, RouteStatus, ReadStops, LocalsInPlace, HasOrder,
     AddConflicts, Fails, Answers, documents, history
<1>2. LocalsInPlace'
  BY DEF LocalsInPlace, HasOrder, HasTo, HasFrom, TypeOK, Local, Stage, Blank, ReadStops,
     AddConflicts, Fails, Answers, documents
<1>3. FreshCopies'
  BY DEF FreshCopies, LocalsInPlace, HasTo, TypeOK, Stage, Blank, ReadStops,
     AddConflicts, Fails, Answers, documents
<1>4. Unmoved
  BY DEF Unmoved, TypeOK, Stage, AddConflicts, Fails, Answers, documents, history
<1> QED
  BY <1>1, <1>2, <1>3, <1>4, UnmovedKeeps

LEMMA RecommitKeeps ==
  ASSUME IInv, NEW q \in Requests, NEW r \in Routes, NEW was \in RouteStatus, NEW becomes \in RouteStatus,
         Recommit(q, r, was, becomes)
  PROVE  IInv'
<1> USE BlankTyped DEF IInv
<1>1. TypeOK'
  BY DEF TypeOK, Local, Stage, Planning, RouteStatus, ReadStops, LocalsInPlace, HasOrder,
     Recommit, Arrives, documents, history
<1>2. LocalsInPlace'
  BY DEF LocalsInPlace, HasOrder, HasTo, HasFrom, TypeOK, Local, Stage, Blank, ReadStops,
     Recommit, Arrives, documents
<1>3. FreshCopies'
  BY DEF FreshCopies, LocalsInPlace, HasTo, TypeOK, Stage, Blank, ReadStops,
     Recommit, Arrives, documents
<1>4. Unmoved
  BY DEF Unmoved, TypeOK, Stage, Recommit, Arrives, documents, history
<1> QED
  BY <1>1, <1>2, <1>3, <1>4, UnmovedKeeps

LEMMA SaveStatusKeeps ==
  ASSUME IInv, NEW q \in Requests,
         SaveStatus(q)
  PROVE  IInv'
<1> USE BlankTyped DEF IInv
<1>1. TypeOK'
  <2>1. CASE status[local[q].to] = "DELETED"
    BY <2>1 DEF SaveStatus, Fails, Answers, TypeOK, Stage, documents, history
  <2>2. CASE status[local[q].to] # "DELETED"
    <3>1. status' = [status EXCEPT ![local[q].to] = local[q].becomes]
      BY <2>2 DEF SaveStatus
    <3>2. status' \in [Routes -> RouteStatus \cup {"DELETED"}]
      BY <3>1 DEF SaveStatus, TypeOK, LocalsInPlace
    <3> QED
      BY <2>2, <3>2 DEF SaveStatus, GoesTo, TypeOK, Stage, history
  <2> QED
    BY <2>1, <2>2
<1>2. LocalsInPlace'
  BY DEF LocalsInPlace, HasOrder, HasTo, HasFrom, TypeOK, Local, Stage, Blank, ReadStops,
     SaveStatus, Fails, Answers, GoesTo, documents
<1>3. FreshCopies'
  <2>1. CASE status[local[q].to] = "DELETED"
    BY <2>1 DEF SaveStatus, Fails, Answers, FreshCopies, TypeOK, Stage, documents, history
  <2>2. CASE status[local[q].to] # "DELETED"
    BY <2>2 DEF SaveStatus, GoesTo, FreshCopies, TypeOK, Stage, documents, history
  <2> QED
    BY <2>1, <2>2
<1>4. Unmoved
  BY DEF Unmoved, TypeOK, Stage, SaveStatus, Fails, Answers, GoesTo, documents, history
<1> QED
  BY <1>1, <1>2, <1>3, <1>4, UnmovedKeeps

LEMMA RemoveRouteKeeps ==
  ASSUME IInv, NEW q \in Requests, NEW r \in Routes,
         RemoveRoute(q, r)
  PROVE  IInv'
<1> USE BlankTyped DEF IInv
<1>1. TypeOK'
  BY DEF TypeOK, Local, Stage, Planning, RouteStatus, ReadStops, LocalsInPlace, HasOrder,
     RemoveRoute, Arrives, documents, history
<1>2. LocalsInPlace'
  BY DEF LocalsInPlace, HasOrder, HasTo, HasFrom, TypeOK, Local, Stage, Blank, ReadStops,
     RemoveRoute, Arrives, documents
<1>3. FreshCopies'
  BY DEF FreshCopies, LocalsInPlace, HasTo, TypeOK, Stage, Blank, ReadStops,
     RemoveRoute, Arrives, documents
<1>4. Unmoved
  BY DEF Unmoved, TypeOK, Stage, RemoveRoute, Arrives, documents, history
<1> QED
  BY <1>1, <1>2, <1>3, <1>4, UnmovedKeeps

LEMMA NextOrderKeeps ==
  ASSUME IInv, NEW q \in Requests, NEW o \in Orders,
         NextOrder(q, o)
  PROVE  IInv'
<1> USE BlankTyped DEF IInv
<1>1. TypeOK'
  <2>1. at' \in [Requests -> Stage]
    BY DEF NextOrder, TypeOK, Stage
  <2>2. local' \in [Requests -> Local]
    BY ZenonT(40) DEF NextOrder, TypeOK, Local
  <2> QED
    BY <2>1, <2>2 DEF NextOrder, TypeOK, documents, history
<1>2. LocalsInPlace'
  BY DEF LocalsInPlace, HasOrder, HasTo, HasFrom, TypeOK, Local, Stage, Blank, ReadStops,
     NextOrder, documents
<1>3. FreshCopies'
  BY DEF FreshCopies, LocalsInPlace, HasTo, TypeOK, Stage, Blank, ReadStops,
     NextOrder, documents
<1>4. Unmoved
  BY DEF Unmoved, TypeOK, Stage, NextOrder, documents, history
<1> QED
  BY <1>1, <1>2, <1>3, <1>4, UnmovedKeeps

LEMMA SaveNextKeeps ==
  ASSUME IInv, NEW q \in Requests,
         SaveNext(q)
  PROVE  IInv'
<1> USE BlankTyped DEF IInv
<1>1. TypeOK'
  BY DEF TypeOK, Local, Stage, Planning, RouteStatus, ReadStops, LocalsInPlace, HasOrder,
     SaveNext, SaveOrder, GoesTo, documents, history
<1>2. LocalsInPlace'
  BY DEF LocalsInPlace, HasOrder, HasTo, HasFrom, TypeOK, Local, Stage, Blank, ReadStops,
     SaveNext, SaveOrder, GoesTo, documents
<1>3. FreshCopies'
  BY DEF FreshCopies, LocalsInPlace, HasTo, TypeOK, Stage, Blank, ReadStops,
     SaveNext, SaveOrder, GoesTo, documents
<1>4. Unmoved
  BY DEF Unmoved, TypeOK, Stage, SaveNext, SaveOrder, GoesTo, documents, history
<1> QED
  BY <1>1, <1>2, <1>3, <1>4, UnmovedKeeps

LEMMA SaveFromKeeps ==
  ASSUME IInv, NEW q \in Requests, SaveFrom(q)
  PROVE  IInv'
<1> USE BlankTyped DEF IInv
<1> DEFINE o == local[q].order  from == local[q].from  to == local[q].to
<1>0. /\ at[q] = "saveFrom"
      /\ o \in Orders /\ from \in Routes /\ to \in Routes /\ o \in stops[from]
      /\ local[q].copy[from] = stops[from]
      /\ \A p \in Requests : fresh'[p] = fresh[p] \ {from}
      /\ fresh' \in [Requests -> SUBSET Routes]
      /\ UNCHANGED <<planning, status, gone, lost, doubled, disturbed>>
  <2>1. at[q] = "saveFrom" /\ UNCHANGED <<planning, status, gone, lost, doubled, disturbed>>
    BY DEF SaveFrom, history
  <2>2. PICK S : SaveStops(q, from, S)
    BY DEF SaveFrom
  <2>3. from \in Routes /\ local[q].copy[from] = stops[from]
    BY <2>1, <2>2, SavedCopyIsCurrent
  <2>4. o \in Orders /\ to \in Routes /\ o \in local[q].copy[from]
    BY <2>1 DEF LocalsInPlace, HasOrder, HasFrom, HasTo, Stage
  <2>5. /\ \A p \in Requests : fresh'[p] = fresh[p] \ {from}
        /\ fresh' \in [Requests -> SUBSET Routes]
    BY <2>2 DEF SaveStops, TypeOK
  <2> QED
    BY <2>1, <2>3, <2>4, <2>5
<1> HIDE DEF o, from, to
<1>1. CASE from = to
  <2>1. SaveStops(q, from, stops[from]) /\ Answers(q)
    BY <1>0, <1>1 DEF SaveFrom, o, from, to
  <2>2. UNCHANGED stops
    BY <2>1, <1>0 DEF SaveStops, TypeOK
  <2>3. TypeOK'
    BY <2>1, <2>2, <1>0 DEF Answers, TypeOK, Stage
  <2>4. LocalsInPlace'
    BY <2>1, <1>0 DEF Answers, LocalsInPlace, TypeOK, HasOrder, HasFrom, HasTo, Stage
  <2>5. FreshCopies'
    BY <2>1, <2>2, <1>0 DEF Answers, FreshCopies, TypeOK
  <2>6. Unmoved
    BY <2>1, <2>2, <1>0 DEF Answers, Unmoved, TypeOK
  <2> QED
    BY <2>3, <2>4, <2>5, <2>6, UnmovedKeeps
<1>2. CASE from # to
  <2>1. SaveStops(q, from, stops[from] \ {o}) /\ GoesTo(q, "saveTo")
    BY <1>0, <1>2 DEF SaveFrom, o, from, to
  <2>2. \A s \in Routes : stops'[s] = IF s = from THEN stops[s] \ {o} ELSE stops[s]
    BY <2>1, <1>0 DEF SaveStops, TypeOK
  <2>3. TypeOK'
    BY <2>1, <1>0 DEF SaveStops, GoesTo, TypeOK, Stage
  <2>4. LocalsInPlace'
    BY <2>1, <1>0 DEF GoesTo, LocalsInPlace, TypeOK, HasOrder, HasFrom, HasTo, Stage, o, from, to
  <2>5. FreshCopies'
    <3>1. \A p \in Requests : at'[p] # "idle" => at[p] # "idle"
      BY <2>1, <1>0 DEF GoesTo, TypeOK
    <3>2. \A p \in Requests, s \in Routes :
            s \in fresh'[p] => s \in fresh[p] /\ stops'[s] = stops[s]
      BY <2>2, <1>0
    <3> QED
      BY <2>1, <3>1, <3>2, <1>0 DEF GoesTo, FreshCopies, TypeOK
  <2>6. \A x \in Orders : Carrying(x)' = IF x = o THEN Carrying(x) \ {from} ELSE Carrying(x)
    BY <2>2, <1>0 DEF Carrying
  <2>7. from \in Carrying(o)
    BY <1>0 DEF Carrying
  <2>8. \A x \in Orders : Moving(x)' = IF x = o THEN Moving(x) \cup {q} ELSE Moving(x)
    BY <2>1, <1>0 DEF GoesTo, Moving, TypeOK, o
  <2>9. AtMostOnePlace'
    BY <2>6, <2>7, <2>8, <1>0 DEF AtMostOnePlace
  <2>10. NoSilentLoss'
    BY <2>6, <2>8, <1>0 DEF NoSilentLoss
  <2> QED
    BY <2>3, <2>4, <2>5, <2>9, <2>10
<1> QED
  BY <1>1, <1>2

LEMMA SaveToKeeps ==
  ASSUME IInv, NEW q \in Requests, SaveTo(q)
  PROVE  IInv'
<1> USE BlankTyped DEF IInv
<1> DEFINE o == local[q].order  r == local[q].to
<1>0. /\ at[q] = "saveTo" /\ Answers(q)
      /\ o \in Orders /\ r \in Routes
      /\ SaveStops(q, r, stops[r] \cup {o})
      /\ UNCHANGED <<gone, lost, doubled>>
      /\ UNCHANGED <<planning, status, disturbed>>
  <2>1. at[q] = "saveTo" /\ SaveStops(q, r, local[q].copy[r] \cup {o})
    BY DEF SaveTo
  <2>2. r \in Routes /\ local[q].copy[r] = stops[r]
    BY <2>1, SavedCopyIsCurrent
  <2> QED
    BY <2>1, <2>2 DEF SaveTo, LocalsInPlace, HasOrder, HasFrom, Stage, documents, history
<1> HIDE DEF o, r
<1>1. \A s \in Routes : stops'[s] = IF s = r THEN stops[s] \cup {o} ELSE stops[s]
  BY <1>0 DEF SaveStops, TypeOK
<1>2. TypeOK'
  BY <1>0 DEF SaveStops, Answers, TypeOK, Stage
<1>3. LocalsInPlace'
  BY <1>0 DEF Answers, LocalsInPlace, TypeOK, HasOrder, HasFrom, HasTo, Stage, o
<1>4. FreshCopies'
  BY <1>0, <1>1 DEF SaveStops, Answers, FreshCopies, TypeOK
<1>5. \A x \in Orders : Carrying(x)' = IF x = o THEN Carrying(x) \cup {r} ELSE Carrying(x)
  BY <1>0, <1>1 DEF Carrying
<1>6. /\ \A x \in Orders : Moving(x)' = IF x = o THEN Moving(x) \ {q} ELSE Moving(x)
      /\ q \in Moving(o)
  BY <1>0 DEF Answers, Moving, TypeOK, o
<1>7. AtMostOnePlace'
  BY <1>0, <1>5, <1>6 DEF AtMostOnePlace
<1>8. NoSilentLoss'
  BY <1>0, <1>5, <1>6 DEF NoSilentLoss
<1> QED
  BY <1>2, <1>3, <1>4, <1>7, <1>8

LEMMA MoveConflictsKeeps ==
  ASSUME IInv, NEW q \in Requests, MoveConflicts(q)
  PROVE  IInv'
<1> USE BlankTyped DEF IInv
<1>1. TypeOK'
  BY DEF MoveConflicts, Fails, Answers, LocalsInPlace, HasOrder, TypeOK, Stage, documents
<1>2. LocalsInPlace'
  BY DEF MoveConflicts, Fails, Answers, LocalsInPlace, TypeOK, HasOrder, HasFrom, HasTo, Stage
<1>3. FreshCopies'
  BY DEF MoveConflicts, Fails, Answers, FreshCopies, TypeOK, documents
<1>4. CASE at[q] = "saveFrom"
  <2>1. Unmoved
    BY <1>4 DEF MoveConflicts, Fails, Answers, Unmoved, TypeOK, documents
  <2> QED
    BY <1>1, <1>2, <1>3, <2>1, UnmovedKeeps
<1>5. CASE at[q] = "saveTo"
  <2>1. \A x \in Orders : Carrying(x)' = Carrying(x)
    BY DEF MoveConflicts, Fails, Carrying, documents
  <2>2. \A x \in Orders : Moving(x)' = Moving(x) \ {q}
    BY <1>5 DEF MoveConflicts, Fails, Answers, Moving, TypeOK
  <2>3. lost' = lost \cup {local[q].order} /\ UNCHANGED <<gone, doubled>>
    BY <1>5 DEF MoveConflicts
  <2>4. \A x \in Orders : x # local[q].order => q \notin Moving(x)
    BY DEF Moving
  <2>5. AtMostOnePlace'
    BY <2>1, <2>2, <2>3 DEF AtMostOnePlace
  <2>6. NoSilentLoss'
    BY <2>1, <2>2, <2>3, <2>4 DEF NoSilentLoss
  <2> QED
    BY <1>1, <1>2, <1>3, <2>5, <2>6
<1> QED
  BY <1>4, <1>5 DEF MoveConflicts

LEMMA SaveRemovedKeeps ==
  ASSUME IInv, NEW q \in Requests, SaveRemoved(q)
  PROVE  IInv'
<1> USE BlankTyped DEF IInv
<1> DEFINE o == local[q].order  r == local[q].from
<1>0. /\ at[q] = "saveRemoved" /\ GoesTo(q, "readRemoved")
      /\ o \in Orders /\ r \in Routes
      /\ SaveStops(q, r, stops[r] \ {o})
      /\ gone' = gone \cup {o} /\ UNCHANGED <<lost, doubled>>
      /\ UNCHANGED <<planning, status, disturbed>>
  <2>1. at[q] = "saveRemoved" /\ SaveStops(q, r, local[q].copy[r] \ {o})
    BY DEF SaveRemoved
  <2>2. r \in Routes /\ local[q].copy[r] = stops[r]
    BY <2>1, SavedCopyIsCurrent
  <2> QED
    BY <2>1, <2>2 DEF SaveRemoved, LocalsInPlace, HasOrder, HasFrom, Stage, documents, history
<1> HIDE DEF o, r
<1>1. \A s \in Routes : stops'[s] = IF s = r THEN stops[s] \ {o} ELSE stops[s]
  BY <1>0 DEF SaveStops, TypeOK
<1>2. TypeOK'
  BY <1>0 DEF SaveStops, GoesTo, TypeOK, Stage
<1>3. LocalsInPlace'
  BY <1>0 DEF GoesTo, LocalsInPlace, TypeOK, HasOrder, HasFrom, HasTo, Stage, o
<1>4. FreshCopies'
  BY <1>0, <1>1 DEF SaveStops, GoesTo, FreshCopies, TypeOK
<1>5. \A x \in Orders : Carrying(x)' = IF x = o THEN Carrying(x) \ {r} ELSE Carrying(x)
  BY <1>0, <1>1 DEF Carrying
<1>6. \A x \in Orders : Moving(x)' = Moving(x)
  BY <1>0 DEF GoesTo, Moving, TypeOK, o
<1>7. AtMostOnePlace'
  BY <1>0, <1>5, <1>6 DEF AtMostOnePlace
<1>8. NoSilentLoss'
  BY <1>0, <1>5, <1>6 DEF NoSilentLoss
<1> QED
  BY <1>2, <1>3, <1>4, <1>7, <1>8

LEMMA SaveAddedKeeps ==
  ASSUME IInv, NEW q \in Requests, SaveAdded(q)
  PROVE  IInv'
<1> USE BlankTyped DEF IInv
<1> DEFINE o == local[q].order  r == local[q].to
<1>0. /\ at[q] = "saveAdded" /\ Answers(q)
      /\ o \in Orders /\ r \in Routes
      /\ SaveStops(q, r, stops[r] \cup {o})
      /\ doubled' = (IF Carrying(o) \cup Moving(o) = {} THEN doubled ELSE doubled \cup {o})
      /\ UNCHANGED <<gone, lost>>
      /\ UNCHANGED <<planning, status, disturbed>>
  <2>1. at[q] = "saveAdded" /\ SaveStops(q, r, local[q].copy[r] \cup {o})
    BY DEF SaveAdded
  <2>2. r \in Routes /\ local[q].copy[r] = stops[r]
    BY <2>1, SavedCopyIsCurrent
  <2> QED
    BY <2>1, <2>2 DEF SaveAdded, LocalsInPlace, HasOrder, HasFrom, Stage, documents, history
<1> HIDE DEF o, r
<1>1. \A s \in Routes : stops'[s] = IF s = r THEN stops[s] \cup {o} ELSE stops[s]
  BY <1>0 DEF SaveStops, TypeOK
<1>2. TypeOK'
  BY <1>0 DEF SaveStops, Answers, TypeOK, Stage
<1>3. LocalsInPlace'
  BY <1>0 DEF Answers, LocalsInPlace, TypeOK, HasOrder, HasFrom, HasTo, Stage, o
<1>4. FreshCopies'
  BY <1>0, <1>1 DEF SaveStops, Answers, FreshCopies, TypeOK
<1>5. \A x \in Orders : Carrying(x)' = IF x = o THEN Carrying(x) \cup {r} ELSE Carrying(x)
  BY <1>0, <1>1 DEF Carrying
<1>6. \A x \in Orders : Moving(x)' = Moving(x)
  BY <1>0 DEF Answers, Moving, TypeOK, o
<1>7. AtMostOnePlace'
  BY <1>0, <1>5, <1>6 DEF AtMostOnePlace
<1>8. NoSilentLoss'
  BY <1>0, <1>5, <1>6 DEF NoSilentLoss
<1> QED
  BY <1>2, <1>3, <1>4, <1>7, <1>8

LEMMA LoopEndsKeeps ==
  ASSUME IInv, NEW q \in Requests, LoopEnds(q)
  PROVE  IInv'
<1> USE BlankTyped DEF IInv
<1> DEFINE r == local[q].to
<1>0. at[q] = "nextOrder" /\ r \in Routes /\ Answers(q) /\ UNCHANGED <<planning, lost, doubled, disturbed>>
  BY DEF LoopEnds, LocalsInPlace, HasTo
<1>1. LocalsInPlace'
  BY <1>0 DEF Answers, LocalsInPlace, TypeOK, HasOrder, HasFrom, HasTo, Stage
<1>2. \A x \in Orders : Moving(x)' = Moving(x)
  BY <1>0 DEF Answers, Moving, TypeOK
<1>3. CASE local[q].becomes = "PENDING"
  <2>1. /\ status' = [status EXCEPT ![r] = "DELETED"]
        /\ stops' = [stops EXCEPT ![r] = {}]
        /\ fresh' = [p \in Requests |-> fresh[p] \ {r}]
        /\ gone' = gone \cup stops[r]
    BY <1>3 DEF LoopEnds
  <2> HIDE DEF r
  <2>2. TypeOK'
    BY <1>0, <2>1 DEF Answers, TypeOK, Stage
  <2>3. FreshCopies'
    BY <1>0, <2>1 DEF Answers, FreshCopies, TypeOK
  <2>4. \A x \in Orders : Carrying(x)' = Carrying(x) \ {r}
    BY <1>0, <2>1 DEF Carrying, TypeOK
  <2>5. AtMostOnePlace'
    BY <1>0, <1>2, <2>4 DEF AtMostOnePlace
  <2>6. \A x \in Orders \ gone' : r \notin Carrying(x)
    BY <2>1 DEF Carrying
  <2>7. NoSilentLoss'
    BY <1>0, <1>2, <2>1, <2>4, <2>6 DEF NoSilentLoss
  <2> QED
    BY <1>1, <2>2, <2>3, <2>5, <2>7
<1>4. CASE local[q].becomes # "PENDING"
  <2>1. UNCHANGED <<status, stops, fresh, gone>>
    BY <1>4 DEF LoopEnds
  <2>2. TypeOK' /\ FreshCopies'
    BY <1>0, <2>1 DEF Answers, TypeOK, Stage, FreshCopies
  <2>3. Unmoved
    BY <1>0, <2>1 DEF Answers, Unmoved, TypeOK
  <2> QED
    BY <1>1, <2>2, <2>3, UnmovedKeeps
<1> QED
  BY <1>3, <1>4

-----------------------------------------------------------------------------
(* Every step together.                                                    *)

LEMMA InitInv == Init => IInv
<1> SUFFICES ASSUME Init PROVE IInv
  OBVIOUS
<1>1. PICK place \in [Orders -> Routes \cup {None}] :
        /\ stops = [r \in Routes |-> {o \in Orders : place[o] = r}]
        /\ planning = [o \in Orders |-> IF place[o] = None THEN "PENDING" ELSE "PLANNED"]
        /\ gone = {o \in Orders : place[o] = None}
  BY DEF Init
<1>2. TypeOK
  BY <1>1, BlankTyped DEF Init, TypeOK, Planning, RouteStatus, Stage
<1>3. LocalsInPlace /\ FreshCopies
  BY DEF Init, LocalsInPlace, FreshCopies, HasOrder, HasFrom, HasTo
<1>4. \A o \in Orders : Moving(o) = {}
  BY DEF Init, Moving
<1>5. \A o \in Orders, r \in Routes : r \in Carrying(o) <=> place[o] = r
  BY <1>1 DEF Carrying
<1>6. AtMostOnePlace /\ NoSilentLoss
  BY <1>1, <1>4, <1>5 DEF AtMostOnePlace, NoSilentLoss, Carrying
<1> QED
  BY <1>2, <1>3, <1>6 DEF IInv

LEMMA InvStep == IInv /\ [Next]_vars => IInv'
<1> SUFFICES ASSUME IInv, [Next]_vars PROVE IInv'
  OBVIOUS
<1>1. CASE UNCHANGED vars
  BY <1>1 DEF vars, IInv, TypeOK, LocalsInPlace, FreshCopies, AtMostOnePlace, NoSilentLoss,
     Carrying, Moving
<1>2. CASE Next
  <2>1. PICK q \in Requests :
          \/ \E o \in Orders, r \in Routes :
               MoveOrder(q, o, r) \/ RemoveOrder(q, o, r) \/ AddOrder(q, o, r)
          \/ \E r \in Routes : \/ FindRoutes(q, r)
                               \/ LockRoute(q, r) \/ UnlockRoute(q, r) \/ FinalizeRoute(q, r)
                               \/ RemoveRoute(q, r)
          \/ MoveRefused(q) \/ SaveFrom(q) \/ SaveTo(q) \/ MoveConflicts(q)
          \/ SaveRemoved(q) \/ RemoveConflicts(q) \/ ReadRemoved(q) \/ SavePending(q)
          \/ ReadAdded(q) \/ SavePlanned(q) \/ SaveAdded(q) \/ AddConflicts(q)
          \/ SaveStatus(q) \/ \E o \in Orders : NextOrder(q, o)
          \/ SaveNext(q) \/ LoopEnds(q)
    BY <1>2 DEF Next
  <2>2. \A r \in Routes : LockRoute(q, r) \/ UnlockRoute(q, r) \/ FinalizeRoute(q, r) =>
          \E was, becomes \in RouteStatus : Recommit(q, r, was, becomes)
    BY DEF LockRoute, UnlockRoute, FinalizeRoute, RouteStatus
  <2>3. CASE \E o \in Orders, r \in Routes :
               MoveOrder(q, o, r) \/ RemoveOrder(q, o, r) \/ AddOrder(q, o, r)
    BY <2>3, MoveOrderKeeps, RemoveOrderKeeps, AddOrderKeeps
  <2>4. CASE \E r \in Routes : \/ FindRoutes(q, r)
                               \/ LockRoute(q, r) \/ UnlockRoute(q, r) \/ FinalizeRoute(q, r)
                               \/ RemoveRoute(q, r)
    BY <2>4, <2>2, FindRoutesKeeps, RecommitKeeps, RemoveRouteKeeps
  <2>5. CASE MoveRefused(q) \/ SaveFrom(q) \/ SaveTo(q) \/ MoveConflicts(q)
    BY <2>5, MoveRefusedKeeps, SaveFromKeeps, SaveToKeeps, MoveConflictsKeeps
  <2>6. CASE SaveRemoved(q) \/ RemoveConflicts(q) \/ ReadRemoved(q) \/ SavePending(q)
    BY <2>6, SaveRemovedKeeps, RemoveConflictsKeeps, ReadRemovedKeeps, SavePendingKeeps
  <2>7. CASE ReadAdded(q) \/ SavePlanned(q) \/ SaveAdded(q) \/ AddConflicts(q)
    BY <2>7, ReadAddedKeeps, SavePlannedKeeps, SaveAddedKeeps, AddConflictsKeeps
  <2>8. CASE SaveStatus(q) \/ (\E o \in Orders : NextOrder(q, o)) \/ SaveNext(q) \/ LoopEnds(q)
    BY <2>8, SaveStatusKeeps, NextOrderKeeps, SaveNextKeeps, LoopEndsKeeps
  <2> QED
    BY <2>1, <2>3, <2>4, <2>5, <2>6, <2>7, <2>8
<1> QED
  BY <1>1, <1>2

\* The inductive invariant, for any orders, routes and request slots.
THEOREM EditInvariance == Spec => []IInv
  BY InitInv, InvStep, PTL DEF Spec

\* Every reachable document and request memory has its type.
THEOREM EditTypes == Spec => []TypeOK
<1>1. IInv => TypeOK
  BY DEF IInv
<1> QED
  BY <1>1, EditInvariance, PTL

\* However many requests overlap, no order is on two routes unless an add doubled
\* it, nor on a route and in the hands of a move (moveOrderBetweenRoutes,
\* reorderOrder, removeOrderFromRoute, the locks and removeRoute).
THEOREM OnePlaceOnly == Spec => []AtMostOnePlace
<1>1. IInv => AtMostOnePlace
  BY DEF IInv
<1> QED
  BY <1>1, EditInvariance, PTL

\* However many requests overlap, an order leaves the plan only when it is taken
\* off its route or when a move is answered with an error.
THEOREM LossIsReported == Spec => []NoSilentLoss
<1>1. IInv => NoSilentLoss
  BY DEF IInv
<1> QED
  BY <1>1, EditInvariance, PTL

\* Both at once: every order is kept in one place (moveOrder and the other edits).
THEOREM OrdersStay == Spec => []OrdersAreKept
<1>1. IInv => OrdersAreKept
  BY DEF IInv, OrdersAreKept
<1> QED
  BY <1>1, EditInvariance, PTL

-----------------------------------------------------------------------------
(* No lost update.                                                         *)

LEMMA StopsAlone == UNCHANGED stops => SavesOnlyItsOrder
  BY DEF SavesOnlyItsOrder

\* A versioned save changes the stops of its route by the request's order.
LEMMA VersionedSave ==
  ASSUME IInv, NEW q \in Requests, at[q] # "idle", at'[q] # at[q], NEW r, NEW S,
         SaveStops(q, r, S),
         \A x \in Orders \ {local[q].order} : x \in S <=> x \in local[q].copy[r]
  PROVE  SavesOnlyItsOrder
<1>1. local[q].copy[r] = stops[r] /\ \A s \in Routes : stops'[s] = IF s = r THEN S ELSE stops[s]
  BY SavedCopyIsCurrent DEF IInv
<1> QED
  BY <1>1 DEF SavesOnlyItsOrder

LEMMA EditStep == IInv /\ [Next]_vars => [SavesOnlyItsOrder]_vars
<1> SUFFICES ASSUME IInv, Next PROVE SavesOnlyItsOrder
  OBVIOUS
<1>1. PICK q \in Requests :
        UNCHANGED stops \/ SaveFrom(q) \/ SaveTo(q) \/ SaveRemoved(q) \/ SaveAdded(q) \/ LoopEnds(q)
  BY ZenonT(40) DEF Next, MoveOrder, RemoveOrder, AddOrder, FindRoutes, LockRoute, UnlockRoute,
     FinalizeRoute,
     Recommit, RemoveRoute, MoveRefused, MoveConflicts, RemoveConflicts, ReadRemoved, SavePending,
     ReadAdded, SavePlanned, AddConflicts, SaveStatus, NextOrder, SaveNext, SaveOrder, Fails, documents
<1> USE DEF IInv
<1>2. CASE UNCHANGED stops
  BY <1>2, StopsAlone
<1>3. CASE SaveFrom(q)
  <2>1. at[q] = "saveFrom" /\ at'[q] # at[q]
    BY <1>3 DEF SaveFrom, Answers, GoesTo, TypeOK
  <2> QED
    BY <1>3, <2>1, VersionedSave DEF SaveFrom
<1>4. CASE SaveTo(q)
  <2>1. at[q] = "saveTo" /\ at'[q] # at[q]
    BY <1>4 DEF SaveTo, Answers, TypeOK
  <2> QED
    BY <1>4, <2>1, VersionedSave DEF SaveTo
<1>5. CASE SaveRemoved(q)
  <2>1. at[q] = "saveRemoved" /\ at'[q] # at[q]
    BY <1>5 DEF SaveRemoved, GoesTo, TypeOK
  <2> QED
    BY <1>5, <2>1, VersionedSave DEF SaveRemoved
<1>6. CASE SaveAdded(q)
  <2>1. at[q] = "saveAdded" /\ at'[q] # at[q]
    BY <1>6 DEF SaveAdded, Answers, TypeOK
  <2> QED
    BY <1>6, <2>1, VersionedSave DEF SaveAdded
<1>7. CASE LoopEnds(q)
  <2>1. UNCHANGED stops \/ (/\ status' = [status EXCEPT ![local[q].to] = "DELETED"]
                            /\ stops' = [stops EXCEPT ![local[q].to] = {}])
    BY <1>7 DEF LoopEnds
  <2> QED
    BY <2>1 DEF SavesOnlyItsOrder, TypeOK
<1> QED
  BY <1>1, <1>2, <1>3, <1>4, <1>5, <1>6, <1>7

\* However old the copy a request works on, its saves change the stops of a route
\* by its own order only (save() sends the version it read).
THEOREM NoLostUpdate == Spec => EditsAreNotLost
  BY EditInvariance, EditStep, PTL DEF Spec, EditsAreNotLost

-----------------------------------------------------------------------------
(* One request at a time.  Underway says what a lone request has done to   *)
(* the orders it has in hand by each await, and that nothing else needs    *)
(* mending.                                                                *)

Agrees(o) ==
  IF planning[o] = "PENDING"
  THEN Carrying(o) = {}
  ELSE \E r \in Routes : Carrying(o) = {r} /\ status[r] = planning[o]

Nowhere(o, state) == Carrying(o) = {} /\ planning[o] = state
OnlyOn(o, r, state) == Carrying(o) = {r} /\ planning[o] = state

Looping == {"nextOrder", "saveOrder"}

InHand(q) ==
  {o \in Orders :
     \/ at[q] \in {"saveTo", "readRemoved", "savePending", "savePlanned", "saveAdded"} /\ o = local[q].order
     \/ at[q] \in Looping /\ o \in stops[local[q].to]}

\* The routes are as the request read them, and still have the status it asked for.
RoutesAsRead(q) ==
  LET from == local[q].from  to == local[q].to IN
  /\ at[q] \in {"saveFrom", "saveRemoved"} => from \in fresh[q] /\ status[from] = "PLANNED"
  /\ at[q] \in {"saveFrom", "saveTo", "readAdded", "savePlanned", "saveAdded"} =>
       to \in fresh[q] /\ status[to] = "PLANNED"
  /\ at[q] = "saveStatus" => /\ status[to] = local[q].was /\ local[q].todo = stops[to]
                             /\ local[q].becomes # "PENDING"
  /\ at[q] \in Looping =>
       /\ local[q].todo \subseteq stops[to]
       /\ status[to] = IF local[q].becomes = "PENDING" THEN local[q].was ELSE local[q].becomes
  /\ at[q] = "saveOrder" => local[q].order \in stops[to] \ local[q].todo

\* Half-way, an order in hand is on no route, or on the one whose loop has still to
\* come to it, or has been there.
HalfWay(q, o) ==
  LET to == local[q].to IN
  /\ at[q] \in {"saveTo", "readRemoved", "savePending"} => Nowhere(o, "PLANNED")
  /\ at[q] = "savePlanned" => Nowhere(o, "PENDING")
  /\ at[q] = "saveAdded" => Nowhere(o, "PLANNED") \/ (Agrees(o) /\ Carrying(o) # {})
  /\ at[q] \in Looping =>
       OnlyOn(o, to, IF o \in local[q].todo \/ (at[q] = "saveOrder" /\ o = local[q].order)
                     THEN local[q].was ELSE local[q].becomes)

Underway(q) ==
  /\ RoutesAsRead(q)
  /\ \A o \in InHand(q) \ doubled : HalfWay(q, o)
  /\ \A o \in Orders \ (InHand(q) \cup doubled) : Agrees(o)

Resting == \A o \in Orders \ doubled : Agrees(o)

Alone == \A p, q \in Requests : at[p] # "idle" /\ at[q] # "idle" => p = q

Serial ==
  ~disturbed =>
    /\ Alone
    /\ (\A q \in Requests : at[q] = "idle") => Resting
    /\ \A q \in Requests : at[q] # "idle" => Underway(q)

LEMMA ArrivalKeepsSerial ==
  ASSUME TypeOK, Serial, NEW q \in Requests, NEW stage \in Stage \ {"idle"}, NEW memory, NEW R,
         Arrives(q, stage, memory, R), UNCHANGED <<documents, history>>,
         Resting' => Underway(q)'
  PROVE  Serial'
<1> SUFFICES ASSUME ~disturbed' PROVE Serial'
  BY DEF Serial
<1>1. ~disturbed /\ \A p \in Requests : at[p] = "idle"
  BY DEF Arrives
<1>2. Resting
  BY <1>1 DEF Serial
<1>3. Resting'
  BY <1>2 DEF Resting, Agrees, Carrying, documents, history
<1>4. at'[q] # "idle" /\ \A p \in Requests \ {q} : at'[p] = "idle"
  BY <1>1 DEF Arrives, TypeOK
<1> QED
  BY <1>3, <1>4 DEF Serial, Alone

LEMMA LoneStepKeepsSerial ==
  ASSUME Serial, NEW q \in Requests, at[q] # "idle", disturbed' = disturbed,
         \A p \in Requests \ {q} : at'[p] = at[p],
         Underway(q) => IF at'[q] = "idle" THEN Resting' ELSE Underway(q)'
  PROVE  Serial'
<1> SUFFICES ASSUME ~disturbed' PROVE Serial'
  BY DEF Serial
<1>1. Underway(q) /\ Alone
  BY DEF Serial
<1>2. \A p \in Requests \ {q} : at'[p] = "idle"
  BY <1>1 DEF Alone
<1>3. CASE at'[q] = "idle"
  BY <1>1, <1>2, <1>3 DEF Serial, Alone
<1>4. CASE at'[q] # "idle"
  BY <1>1, <1>2, <1>4 DEF Serial, Alone
<1> QED
  BY <1>3, <1>4

\* An order on a route agrees with it.
LEMMA AgreesOn ==
  ASSUME NEW o \in Orders, NEW r \in Routes, o \in stops[r], Agrees(o)
  PROVE  OnlyOn(o, r, status[r])
<1>1. r \in Carrying(o)
  BY DEF Carrying
<1> QED
  BY <1>1 DEF Agrees, OnlyOn

LEMMA MoveOrderSerial ==
  ASSUME TypeOK, Serial, NEW q \in Requests, NEW o \in Orders, NEW r \in Routes, MoveOrder(q, o, r)
  PROVE  Serial'
<1>1. at'[q] = "find"
  BY DEF MoveOrder, Arrives, TypeOK
<1>2. Resting' => Underway(q)'
  BY <1>1 DEF Underway, RoutesAsRead, InHand, Looping, Resting
<1> QED
  BY <1>2, ArrivalKeepsSerial DEF MoveOrder, Stage

LEMMA RemoveOrderSerial ==
  ASSUME TypeOK, Serial, NEW q \in Requests, NEW o \in Orders, NEW r \in Routes, RemoveOrder(q, o, r)
  PROVE  Serial'
<1>1. at'[q] = "saveRemoved" /\ local'[q].from = r /\ fresh'[q] = {r} /\ status'[r] = "PLANNED"
  BY DEF RemoveOrder, Arrives, TypeOK, Blank, documents
<1>2. Resting' => Underway(q)'
  BY <1>1 DEF Underway, RoutesAsRead, InHand, Looping, Resting
<1> QED
  BY <1>2, ArrivalKeepsSerial DEF RemoveOrder, Stage

LEMMA AddOrderSerial ==
  ASSUME TypeOK, Serial, NEW q \in Requests, NEW o \in Orders, NEW r \in Routes, AddOrder(q, o, r)
  PROVE  Serial'
<1>1. at'[q] = "readAdded" /\ local'[q].to = r /\ fresh'[q] = {r} /\ status'[r] = "PLANNED"
  BY DEF AddOrder, Arrives, TypeOK, Blank, documents
<1>2. Resting' => Underway(q)'
  BY <1>1 DEF Underway, RoutesAsRead, InHand, Looping, Resting
<1> QED
  BY <1>2, ArrivalKeepsSerial DEF AddOrder, Stage

LEMMA RecommitSerial ==
  ASSUME TypeOK, Serial, NEW q \in Requests, NEW r \in Routes, NEW was, NEW becomes \in RouteStatus,
         Recommit(q, r, was, becomes)
  PROVE  Serial'
<1>1. /\ at'[q] = "saveStatus" /\ local'[q].to = r /\ local'[q].todo = stops[r]
      /\ local'[q].was = was /\ local'[q].becomes = becomes
      /\ status'[r] = was /\ stops' = stops /\ becomes # "PENDING"
  BY DEF Recommit, Arrives, TypeOK, Blank, documents, RouteStatus
<1>2. Resting' => Underway(q)'
  BY <1>1 DEF Underway, RoutesAsRead, InHand, Looping, Resting
<1> QED
  BY <1>2, ArrivalKeepsSerial DEF Recommit, Stage

LEMMA RemoveRouteSerial ==
  ASSUME TypeOK, Serial, NEW q \in Requests, NEW r \in Routes, RemoveRoute(q, r)
  PROVE  Serial'
<1>1. /\ at'[q] = "nextOrder" /\ local'[q].to = r /\ local'[q].todo = stops'[r]
      /\ local'[q].was = status'[r] /\ local'[q].becomes = "PENDING"
  BY DEF RemoveRoute, Arrives, TypeOK, Blank, documents
<1>2. ASSUME Resting' PROVE Underway(q)'
  <2>1. RoutesAsRead(q)'
    BY <1>1 DEF RoutesAsRead, Looping
  <2>2. \A o \in Orders : o \in InHand(q)' <=> o \in stops'[r]
    BY <1>1 DEF InHand, Looping
  <2>3. \A o \in Orders \ doubled' : o \in stops'[r] => OnlyOn(o, r, status[r])'
    <3>1. ASSUME NEW o \in Orders, o \in stops[r], Agrees(o) PROVE OnlyOn(o, r, status[r])
      BY <3>1, AgreesOn
    <3>2. \A o \in Orders : Agrees(o)' => Agrees(o)
      BY DEF RemoveRoute, documents, Agrees, Carrying
    <3>3. \A o \in Orders \ doubled' : o \in stops'[r] => OnlyOn(o, r, status[r])
      BY <1>2, <3>1, <3>2 DEF Resting, RemoveRoute, documents
    <3> QED
      BY <3>3 DEF OnlyOn, RemoveRoute, documents, Carrying
  <2>4. \A o \in InHand(q)' \ doubled' : HalfWay(q, o)'
    BY <1>1, <2>2, <2>3 DEF HalfWay, OnlyOn, Carrying, InHand
  <2> QED
    BY <1>2, <2>1, <2>4 DEF Underway, Resting
<1> QED
  BY <1>2, ArrivalKeepsSerial DEF RemoveRoute, Stage

-----------------------------------------------------------------------------
(* The awaits of a lone request.                                           *)

\* It answers: nothing was in hand, or everything has been mended.
LEMMA AnswersSerial ==
  ASSUME TypeOK, Serial, NEW q \in Requests, at[q] # "idle", Answers(q), disturbed' = disturbed,
         Underway(q) => Resting'
  PROVE  Serial'
<1>1. at'[q] = "idle" /\ \A p \in Requests \ {q} : at'[p] = at[p]
  BY DEF Answers, TypeOK
<1> QED
  BY <1>1, LoneStepKeepsSerial

LEMMA GoesOnSerial ==
  ASSUME TypeOK, Serial, NEW q \in Requests, at[q] # "idle", disturbed' = disturbed,
         NEW stage \in Stage \ {"idle"}, at' = [at EXCEPT ![q] = stage],
         Underway(q) => Underway(q)'
  PROVE  Serial'
<1>1. at'[q] # "idle" /\ \A p \in Requests \ {q} : at'[p] = at[p]
  BY DEF TypeOK
<1> QED
  BY <1>1, LoneStepKeepsSerial

\* It is refused, or loses against another save, before it has changed anything.
LEMMA FailsSerial ==
  ASSUME TypeOK, Serial, NEW q \in Requests, at[q] \in {"find", "saveRemoved", "readAdded", "saveFrom"},
         Fails(q), doubled' = doubled
  PROVE  Serial'
<1>1. Underway(q) => Resting'
  BY DEF Underway, InHand, Looping, Resting, Agrees, Carrying, Fails, documents
<1> QED
  BY <1>1, AnswersSerial DEF Fails

\* A lone request never loses a save after its first one.
LEMMA ConflictsSerial ==
  ASSUME TypeOK, Serial, NEW q \in Requests,
         MoveConflicts(q) \/ AddConflicts(q) \/ RemoveConflicts(q)
  PROVE  Serial'
<1>1. ~Underway(q) /\ at[q] # "idle"
  BY DEF Underway, RoutesAsRead, MoveConflicts, AddConflicts, RemoveConflicts
<1>2. Fails(q)
  BY DEF MoveConflicts, AddConflicts, RemoveConflicts
<1> QED
  BY <1>1, <1>2, AnswersSerial DEF Fails

LEMMA FindRoutesSerial ==
  ASSUME TypeOK, Serial, NEW q \in Requests, NEW r \in Routes, FindRoutes(q, r)
  PROVE  Serial'
<1>1. /\ at[q] = "find" /\ at'[q] = "saveFrom" /\ local'[q].from = r /\ local'[q].to = local[q].to
      /\ fresh'[q] = {r, local[q].to} /\ UNCHANGED <<planning, status, stops, doubled>>
  BY DEF FindRoutes, TypeOK, Local, documents, history
<1>2. status[r] = "PLANNED" /\ status[local[q].to] = "PLANNED"
  BY DEF FindRoutes
<1>3. Underway(q) => Underway(q)'
  BY <1>1, <1>2 DEF Underway, RoutesAsRead, InHand, Looping, Agrees, Carrying
<1> QED
  BY <1>1, <1>3, GoesOnSerial DEF FindRoutes, Stage

LEMMA SaveFromSerial ==
  ASSUME IInv, Serial, NEW q \in Requests, SaveFrom(q)
  PROVE  Serial'
<1> DEFINE o == local[q].order
           from == local[q].from
           to == local[q].to
<1> USE DEF IInv
<1>1. /\ at[q] = "saveFrom" /\ from \in Routes /\ to \in Routes /\ o \in Orders
      /\ from \in fresh[q] /\ local[q].copy[from] = stops[from] /\ o \in stops[from]
      /\ UNCHANGED <<planning, status, doubled, disturbed>>
  BY DEF SaveFrom, SaveStops, history, LocalsInPlace, HasFrom, HasTo, HasOrder, FreshCopies, Stage
<1>2. CASE from = to
  <2>1. Answers(q) /\ stops' = stops
    BY <1>1, <1>2 DEF SaveFrom, SaveStops, TypeOK
  <2>2. Underway(q) => Resting'
    BY <1>1, <2>1 DEF Underway, InHand, Looping, Resting, Agrees, Carrying
  <2> QED
    BY <1>1, <2>1, <2>2, AnswersSerial
<1>3. CASE from # to
  <2>0. SaveStops(q, from, local[q].copy[from] \ {o}) /\ GoesTo(q, "saveTo")
    BY <1>3 DEF SaveFrom
  <2>0a. stops' = [stops EXCEPT ![from] = stops[from] \ {o}]
    BY <1>1, <2>0 DEF SaveStops
  <2>1. /\ at' = [at EXCEPT ![q] = "saveTo"] /\ local' = local /\ at'[q] = "saveTo"
        /\ fresh' = [p \in Requests |-> fresh[p] \ {from}]
        /\ \A s \in Routes : stops'[s] = IF s = from THEN stops[s] \ {o} ELSE stops[s]
    BY <1>1, <2>0, <2>0a DEF SaveStops, GoesTo, TypeOK
  <2>2. ASSUME Underway(q) PROVE Underway(q)'
    <3>1. to \in fresh[q] /\ status[to] = "PLANNED" /\ status[from] = "PLANNED" /\ InHand(q) = {}
      BY <1>1, <2>2 DEF Underway, RoutesAsRead, InHand, Looping
    <3>2. RoutesAsRead(q)' /\ InHand(q)' = {o}
      BY <1>1, <1>3, <2>1, <3>1 DEF RoutesAsRead, InHand, Looping
    <3>3. \A x \in Orders \ {o} : Carrying(x)' = Carrying(x)
      BY <2>1 DEF Carrying
    <3>4. o \notin doubled => Nowhere(o, "PLANNED")'
      <4> SUFFICES ASSUME o \notin doubled PROVE Carrying(o)' = {} /\ planning[o] = "PLANNED"
        BY <1>1, <2>1 DEF Nowhere, Carrying
      <4>1. Agrees(o)
        BY <1>1, <2>2, <3>1 DEF Underway
      <4>2. Carrying(o) = {from} /\ planning[o] = "PLANNED"
        BY <1>1, <3>1, <4>1, AgreesOn DEF OnlyOn
      <4> QED
        BY <2>1, <4>2 DEF Carrying
    <3>5. \A x \in Orders \ ({o} \cup doubled) : Agrees(x)'
      BY <1>1, <2>2, <3>1, <3>3 DEF Underway, Agrees
    <3>6. \A x \in InHand(q)' \ doubled' : HalfWay(q, x)'
      BY <1>1, <2>1, <3>2, <3>4 DEF HalfWay, Nowhere, Carrying, Looping
    <3> QED
      BY <1>1, <3>2, <3>5, <3>6 DEF Underway
  <2> QED
    BY <1>1, <2>1, <2>2, GoesOnSerial DEF Stage
<1> QED
  BY <1>2, <1>3

\* Where a lone request puts its order, it comes to be there only.
LEMMA PutsOn ==
  ASSUME IInv, NEW q \in Requests, at[q] \in {"saveTo", "saveAdded"}, Underway(q), Answers(q),
         SaveStops(q, local[q].to, local[q].copy[local[q].to] \cup {local[q].order}),
         UNCHANGED <<planning, status>>, doubled \subseteq doubled',
         local[q].order \notin doubled' => Carrying(local[q].order) = {}
  PROVE  Resting'
<1> DEFINE o == local[q].order
           to == local[q].to
<1> USE DEF IInv
<1>1. /\ to \in Routes /\ o \in Orders /\ to \in fresh[q] /\ local[q].copy[to] = stops[to]
      /\ status[to] = "PLANNED"
  BY DEF LocalsInPlace, HasTo, HasOrder, FreshCopies, Stage, Underway, RoutesAsRead
<1>2. \A s \in Routes : stops'[s] = IF s = to THEN stops[s] \cup {o} ELSE stops[s]
  BY <1>1 DEF SaveStops, TypeOK
<1>3. \A x \in Orders \ {o} : Carrying(x)' = Carrying(x)
  BY <1>2 DEF Carrying
<1>4. \A x \in Orders \ ({o} \cup doubled) : Agrees(x)'
  BY <1>3 DEF Underway, InHand, Looping, Agrees
<1>5. ASSUME NEW x \in Orders, x = o, o \notin doubled' PROVE Agrees(x)'
  <2>1. o \in InHand(q) \ doubled
    BY <1>1, <1>5 DEF InHand
  <2>2. Nowhere(o, "PLANNED")
    BY <1>5, <2>1 DEF Underway, HalfWay
  <2>3. planning'[o] = "PLANNED" /\ \A s \in Routes : o \in stops'[s] <=> s = to
    BY <1>2, <2>2 DEF Nowhere, Carrying
  <2>4. Carrying(x)' = {to}
    BY <1>1, <1>5, <2>3 DEF Carrying
  <2> QED
    BY <1>1, <1>5, <2>3, <2>4 DEF Agrees
<1> QED
  BY <1>4, <1>5 DEF Resting

LEMMA SaveToSerial ==
  ASSUME IInv, Serial, NEW q \in Requests, SaveTo(q)
  PROVE  Serial'
<1>1. at[q] = "saveTo" /\ at[q] # "idle" /\ local[q].order \in Orders /\ TypeOK
  BY DEF SaveTo, IInv, LocalsInPlace, HasOrder, Stage
<1>2. ASSUME Underway(q), local[q].order \notin doubled PROVE Carrying(local[q].order) = {}
  BY <1>1, <1>2 DEF Underway, InHand, HalfWay, Nowhere
<1>3. Underway(q) => Resting'
  BY <1>1, <1>2, PutsOn DEF SaveTo, history
<1> QED
  BY <1>1, <1>3, AnswersSerial DEF SaveTo

LEMMA SaveAddedSerial ==
  ASSUME IInv, Serial, NEW q \in Requests, SaveAdded(q)
  PROVE  Serial'
<1>1. at[q] = "saveAdded" /\ at[q] # "idle" /\ TypeOK
  BY DEF SaveAdded, IInv
<1>2. Underway(q) => Resting'
  BY <1>1, PutsOn DEF SaveAdded
<1> QED
  BY <1>1, <1>2, AnswersSerial DEF SaveAdded

LEMMA SaveRemovedSerial ==
  ASSUME IInv, Serial, NEW q \in Requests, SaveRemoved(q)
  PROVE  Serial'
<1> DEFINE o == local[q].order
           from == local[q].from
<1> USE DEF IInv
<1>1. /\ at[q] = "saveRemoved" /\ from \in Routes /\ o \in Orders
      /\ from \in fresh[q] /\ local[q].copy[from] = stops[from] /\ o \in stops[from]
      /\ UNCHANGED <<planning, status, doubled, disturbed>>
  BY DEF SaveRemoved, SaveStops, LocalsInPlace, HasFrom, HasOrder, FreshCopies, Stage
<1>2. SaveStops(q, from, local[q].copy[from] \ {o}) /\ GoesTo(q, "readRemoved")
  BY DEF SaveRemoved
<1>3. stops' = [stops EXCEPT ![from] = stops[from] \ {o}]
  BY <1>1, <1>2 DEF SaveStops
<1>4. /\ at' = [at EXCEPT ![q] = "readRemoved"] /\ local' = local /\ at'[q] = "readRemoved"
      /\ \A s \in Routes : stops'[s] = IF s = from THEN stops[s] \ {o} ELSE stops[s]
  BY <1>1, <1>2, <1>3 DEF GoesTo, TypeOK
<1>5. ASSUME Underway(q) PROVE Underway(q)'
  <2>1. status[from] = "PLANNED" /\ InHand(q) = {}
    BY <1>1, <1>5 DEF Underway, RoutesAsRead, InHand, Looping
  <2>2. RoutesAsRead(q)' /\ InHand(q)' = {o}
    BY <1>1, <1>4 DEF RoutesAsRead, InHand, Looping
  <2>3. \A x \in Orders \ {o} : Carrying(x)' = Carrying(x)
    BY <1>4 DEF Carrying
  <2>4. \A x \in Orders \ ({o} \cup doubled) : Agrees(x)'
    BY <1>1, <1>5, <2>1, <2>3 DEF Underway, Agrees
  <2>5. ASSUME o \notin doubled PROVE Carrying(o) = {from} /\ planning[o] = "PLANNED"
    <3>1. Agrees(o)
      BY <1>1, <1>5, <2>1, <2>5 DEF Underway
    <3> QED
      BY <1>1, <2>1, <3>1, AgreesOn DEF OnlyOn
  <2>6. o \notin doubled => \A s \in Routes : o \notin stops'[s]
    BY <1>4, <2>5 DEF Carrying
  <2>7. \A x \in InHand(q)' \ doubled' : HalfWay(q, x)'
    BY <1>1, <1>4, <2>2, <2>5, <2>6 DEF HalfWay, Nowhere, Carrying, Looping
  <2> QED
    BY <1>1, <2>2, <2>4, <2>7 DEF Underway
<1> QED
  BY <1>1, <1>4, <1>5, GoesOnSerial DEF Stage

\* The order taken off a route was PLANNED, as its route was.
LEMMA ReadRemovedSerial ==
  ASSUME IInv, Serial, NEW q \in Requests, ReadRemoved(q)
  PROVE  Serial'
<1> DEFINE o == local[q].order
<1> USE DEF IInv
<1>1. at[q] = "readRemoved" /\ o \in Orders /\ UNCHANGED <<planning, status, stops, fresh, doubled, disturbed>>
  BY DEF ReadRemoved, LocalsInPlace, HasOrder, Stage, documents, history
<1>2. CASE planning[o] = "PLANNED"
  <2>1. GoesTo(q, "savePending")
    BY <1>2 DEF ReadRemoved
  <2>2. at' = [at EXCEPT ![q] = "savePending"] /\ at'[q] = "savePending" /\ local' = local
    BY <2>1 DEF GoesTo, TypeOK
  <2>3. Underway(q) => Underway(q)'
    BY <1>1, <2>2 DEF Underway, RoutesAsRead, InHand, HalfWay, Nowhere, Looping, Agrees, Carrying
  <2> QED
    BY <1>1, <2>2, <2>3, GoesOnSerial DEF Stage
<1>3. CASE planning[o] # "PLANNED"
  <2>1. Answers(q)
    BY <1>3 DEF ReadRemoved
  <2>2. Underway(q) => Resting'
    BY <1>1, <1>3 DEF Underway, InHand, HalfWay, Nowhere, Looping, Resting, Agrees, Carrying
  <2> QED
    BY <1>1, <2>1, <2>2, AnswersSerial
<1> QED
  BY <1>2, <1>3

LEMMA SavePendingSerial ==
  ASSUME IInv, Serial, NEW q \in Requests, SavePending(q)
  PROVE  Serial'
<1> DEFINE o == local[q].order
<1> USE DEF IInv
<1>1. /\ at[q] = "savePending" /\ o \in Orders /\ UNCHANGED <<status, stops, doubled, disturbed>>
      /\ \A x \in Orders : planning'[x] = IF x = o THEN "PENDING" ELSE planning[x]
  BY DEF SavePending, SaveOrder, LocalsInPlace, HasOrder, Stage, history, TypeOK
<1>2. Underway(q) => Resting'
  BY <1>1 DEF Underway, InHand, HalfWay, Nowhere, Looping, Resting, Agrees, Carrying
<1> QED
  BY <1>1, <1>2, AnswersSerial DEF SavePending

LEMMA ReadAddedSerial ==
  ASSUME IInv, Serial, NEW q \in Requests, ReadAdded(q)
  PROVE  Serial'
<1> DEFINE o == local[q].order
           to == local[q].to
           stage == IF planning[o] = "PENDING" THEN "savePlanned" ELSE "saveAdded"
<1> USE DEF IInv
<1>1. at[q] = "readAdded" /\ o \in Orders /\ UNCHANGED <<planning, status, stops, doubled, disturbed>>
  BY DEF ReadAdded, LocalsInPlace, HasOrder, Stage, documents, history, Fails
<1>2. CASE o \in local[q].copy[to]
  BY <1>1, <1>2, FailsSerial DEF ReadAdded
<1>3. CASE o \notin local[q].copy[to]
  <2>1. GoesTo(q, stage) /\ fresh' = fresh
    BY <1>3 DEF ReadAdded
  <2>2. at' = [at EXCEPT ![q] = stage] /\ at'[q] = stage /\ local' = local
    BY <2>1 DEF GoesTo, TypeOK
  <2>3. ASSUME Underway(q) PROVE Underway(q)'
    <3>1. InHand(q) = {} /\ InHand(q)' = {o}
      BY <1>1, <2>2 DEF InHand, Looping
    <3>2. RoutesAsRead(q)'
      BY <1>1, <2>1, <2>2, <2>3 DEF Underway, RoutesAsRead, Looping
    <3>3. \A x \in Orders : Carrying(x)' = Carrying(x) /\ (Agrees(x)' <=> Agrees(x))
      BY <1>1 DEF Carrying, Agrees
    <3>4. ASSUME NEW x \in InHand(q)' \ doubled' PROVE HalfWay(q, x)'
      <4>1. x = o /\ Agrees(x) /\ x \in Orders
        BY <1>1, <2>3, <3>1, <3>4 DEF Underway
      <4>2. CASE planning[o] = "PENDING"
        BY <1>1, <2>2, <3>3, <4>1, <4>2 DEF HalfWay, Nowhere, Agrees, Looping
      <4>3. CASE planning[o] # "PENDING"
        BY <1>1, <2>2, <3>3, <4>1, <4>3 DEF HalfWay, Agrees, Looping
      <4> QED
        BY <4>2, <4>3
    <3> QED
      BY <1>1, <2>3, <3>1, <3>2, <3>3, <3>4 DEF Underway
  <2> QED
    BY <1>1, <2>2, <2>3, GoesOnSerial DEF Stage
<1> QED
  BY <1>2, <1>3

LEMMA SavePlannedSerial ==
  ASSUME IInv, Serial, NEW q \in Requests, SavePlanned(q)
  PROVE  Serial'
<1> DEFINE o == local[q].order
<1> USE DEF IInv
<1>1. /\ at[q] = "savePlanned" /\ o \in Orders /\ UNCHANGED <<status, stops, fresh, doubled, disturbed>>
      /\ \A x \in Orders : planning'[x] = IF x = o THEN "PLANNED" ELSE planning[x]
  BY DEF SavePlanned, SaveOrder, LocalsInPlace, HasOrder, Stage, history, TypeOK
<1>2. at' = [at EXCEPT ![q] = "saveAdded"] /\ at'[q] = "saveAdded" /\ local' = local
  BY DEF SavePlanned, GoesTo, TypeOK
<1>3. Underway(q) => Underway(q)'
  BY <1>1, <1>2 DEF Underway, RoutesAsRead, InHand, HalfWay, Nowhere, Looping, Agrees, Carrying
<1> QED
  BY <1>1, <1>2, <1>3, GoesOnSerial DEF Stage

LEMMA SaveStatusSerial ==
  ASSUME IInv, Serial, NEW q \in Requests, SaveStatus(q)
  PROVE  Serial'
<1> DEFINE to == local[q].to
<1> USE DEF IInv
<1>1. at[q] = "saveStatus" /\ to \in Routes /\ local[q].was \in Planning
  BY DEF SaveStatus, LocalsInPlace, HasTo, TypeOK, Local
<1>2. CASE status[to] = "DELETED"
  <2>1. Fails(q) /\ disturbed' = disturbed
    BY <1>2 DEF SaveStatus, Fails
  <2>2. ~Underway(q)
    BY <1>1, <1>2 DEF Underway, RoutesAsRead, Planning
  <2> QED
    BY <1>1, <2>1, <2>2, AnswersSerial DEF Fails
<1>3. CASE status[to] # "DELETED"
  <2>1. /\ at' = [at EXCEPT ![q] = "nextOrder"] /\ at'[q] = "nextOrder" /\ local' = local
        /\ UNCHANGED <<planning, stops, doubled, disturbed>>
        /\ \A s \in Routes : status'[s] = IF s = to THEN local[q].becomes ELSE status[s]
    BY <1>1, <1>3 DEF SaveStatus, GoesTo, TypeOK, history
  <2>2. ASSUME Underway(q) PROVE Underway(q)'
    <3>1. /\ status[to] = local[q].was /\ local[q].todo = stops[to] /\ local[q].becomes # "PENDING"
          /\ InHand(q) = {}
      BY <1>1, <2>2 DEF Underway, RoutesAsRead, InHand, Looping
    <3>2. RoutesAsRead(q)' /\ InHand(q)' = {x \in Orders : x \in stops[to]}
      BY <1>1, <2>1, <3>1 DEF RoutesAsRead, InHand, Looping
    <3>3. \A x \in Orders : Carrying(x)' = Carrying(x)
      BY <2>1 DEF Carrying
    <3>4. ASSUME NEW x \in Orders \ doubled, x \in stops[to] PROVE HalfWay(q, x)'
      <4>1. OnlyOn(x, to, local[q].was)
        BY <1>1, <2>2, <3>1, <3>4, AgreesOn DEF Underway
      <4> QED
        BY <2>1, <3>1, <3>3, <3>4, <4>1 DEF HalfWay, OnlyOn, Looping
    <3>5. ASSUME NEW x \in Orders \ doubled, x \notin stops[to] PROVE Agrees(x)'
      <4>1. Agrees(x) /\ to \notin Carrying(x)
        BY <2>2, <3>1, <3>5 DEF Underway, Carrying
      <4> QED
        BY <2>1, <3>3, <4>1 DEF Agrees
    <3> QED
      BY <2>1, <3>2, <3>4, <3>5 DEF Underway
  <2> QED
    BY <1>1, <2>1, <2>2, GoesOnSerial DEF Stage
<1> QED
  BY <1>2, <1>3

\* The loop finds the orders it has left as the route was.
LEMMA NextOrderSerial ==
  ASSUME IInv, Serial, NEW q \in Requests, NEW o \in Orders, NextOrder(q, o)
  PROVE  Serial'
<1> DEFINE to == local[q].to
           stage == IF planning[o] = local[q].was THEN "saveOrder" ELSE "nextOrder"
<1> USE DEF IInv
<1>1. /\ at[q] = "nextOrder" /\ to \in Routes /\ o \in local[q].todo
      /\ UNCHANGED <<planning, status, stops, fresh, doubled, disturbed>>
  BY DEF NextOrder, LocalsInPlace, HasTo, documents, history
<1>2. /\ at' = [at EXCEPT ![q] = stage] /\ at'[q] = stage
      /\ local'[q].order = o /\ local'[q].todo = local[q].todo \ {o} /\ local'[q].to = to
      /\ local'[q].was = local[q].was /\ local'[q].becomes = local[q].becomes
  BY <1>1 DEF NextOrder, TypeOK, Local
<1>3. ASSUME Underway(q) PROVE Underway(q)'
  <2>1. InHand(q)' = InHand(q)
    BY <1>1, <1>2 DEF InHand, Looping
  <2>2. RoutesAsRead(q)'
    BY <1>1, <1>2, <1>3 DEF Underway, RoutesAsRead, Looping
  <2>3. \A x \in Orders : Carrying(x)' = Carrying(x) /\ (Agrees(x)' <=> Agrees(x))
    BY <1>1 DEF Carrying, Agrees
  <2>4. ASSUME NEW x \in InHand(q) \ doubled PROVE HalfWay(q, x)'
    <3>1. OnlyOn(x, to, IF x \in local[q].todo THEN local[q].was ELSE local[q].becomes) /\ x \in Orders
      BY <1>1, <1>3, <2>4 DEF Underway, HalfWay, Looping, InHand
    <3>2. x = o => at'[q] = "saveOrder"
      BY <1>1, <1>2, <3>1 DEF OnlyOn
    <3>3. x \in local'[q].todo \/ (at'[q] = "saveOrder" /\ x = o) <=> x \in local[q].todo
      BY <1>1, <1>2, <3>2
    <3> QED
      BY <1>1, <1>2, <2>3, <3>1, <3>3 DEF HalfWay, OnlyOn, Looping
  <2> QED
    BY <1>1, <1>3, <2>1, <2>2, <2>3, <2>4 DEF Underway
<1> QED
  BY <1>1, <1>2, <1>3, GoesOnSerial DEF Stage

LEMMA SaveNextSerial ==
  ASSUME IInv, Serial, NEW q \in Requests, SaveNext(q)
  PROVE  Serial'
<1> DEFINE o == local[q].order
           to == local[q].to
<1> USE DEF IInv
<1>1. /\ at[q] = "saveOrder" /\ to \in Routes /\ o \in Orders
      /\ UNCHANGED <<status, stops, fresh, doubled, disturbed>>
      /\ \A x \in Orders : planning'[x] = IF x = o THEN local[q].becomes ELSE planning[x]
  BY DEF SaveNext, SaveOrder, LocalsInPlace, HasTo, HasOrder, Stage, history, TypeOK
<1>2. at' = [at EXCEPT ![q] = "nextOrder"] /\ at'[q] = "nextOrder" /\ local' = local
  BY DEF SaveNext, GoesTo, TypeOK
<1>3. ASSUME Underway(q) PROVE Underway(q)'
  <2>1. InHand(q)' = InHand(q) /\ o \in stops[to] \ local[q].todo
    BY <1>1, <1>2, <1>3 DEF InHand, Looping, Underway, RoutesAsRead
  <2>2. RoutesAsRead(q)'
    BY <1>1, <1>2, <1>3 DEF Underway, RoutesAsRead, Looping
  <2>3. \A x \in Orders : Carrying(x)' = Carrying(x)
    BY <1>1 DEF Carrying
  <2>4. ASSUME NEW x \in InHand(q) \ doubled PROVE HalfWay(q, x)'
    <3>1. /\ OnlyOn(x, to, IF x \in local[q].todo \/ x = o THEN local[q].was ELSE local[q].becomes)
          /\ x \in Orders
      BY <1>1, <1>3, <2>4 DEF Underway, HalfWay, Looping, InHand
    <3> QED
      BY <1>1, <1>2, <2>1, <2>3, <3>1 DEF HalfWay, OnlyOn, Looping
  <2>5. ASSUME NEW x \in Orders \ (InHand(q) \cup doubled) PROVE Agrees(x)'
    <3>1. Agrees(x) /\ x # o
      BY <1>1, <1>3, <2>1, <2>5 DEF Underway, InHand, Looping
    <3> QED
      BY <1>1, <2>3, <3>1 DEF Agrees
  <2> QED
    BY <1>1, <2>1, <2>2, <2>4, <2>5 DEF Underway
<1> QED
  BY <1>1, <1>2, <1>3, GoesOnSerial DEF Stage

\* When the loop is over its orders are as the route has become, or PENDING and
\* taken off it with the deletion.
LEMMA LoopEndsSerial ==
  ASSUME IInv, Serial, NEW q \in Requests, LoopEnds(q)
  PROVE  Serial'
<1> DEFINE to == local[q].to
<1> USE DEF IInv
<1>1. /\ at[q] = "nextOrder" /\ to \in Routes /\ local[q].todo = {} /\ Answers(q)
      /\ UNCHANGED <<planning, doubled, disturbed>>
  BY DEF LoopEnds, LocalsInPlace, HasTo
<1>2. ASSUME Underway(q) PROVE Resting'
  <2>1. \A x \in Orders \ doubled : x \in stops[to] => OnlyOn(x, to, local[q].becomes)
    BY <1>1, <1>2 DEF Underway, HalfWay, InHand, Looping
  <2>2. \A x \in Orders \ doubled : x \notin stops[to] => Agrees(x) /\ to \notin Carrying(x)
    BY <1>1, <1>2 DEF Underway, InHand, Looping, Carrying
  <2>3. CASE local[q].becomes = "PENDING"
    <3>1. /\ \A r \in Routes : status'[r] = IF r = to THEN "DELETED" ELSE status[r]
          /\ \A r \in Routes : stops'[r] = IF r = to THEN {} ELSE stops[r]
      BY <1>1, <2>3 DEF LoopEnds, TypeOK
    <3>2. \A x \in Orders : Carrying(x)' = Carrying(x) \ {to}
      BY <3>1 DEF Carrying
    <3>3. ASSUME NEW x \in Orders \ doubled, x \in stops[to] PROVE Agrees(x)'
      <4>1. Carrying(x)' = {} /\ planning'[x] = "PENDING"
        BY <1>1, <2>1, <2>3, <3>2, <3>3 DEF OnlyOn
      <4> QED
        BY <4>1 DEF Agrees
    <3>4. ASSUME NEW x \in Orders \ doubled, x \notin stops[to] PROVE Agrees(x)'
      <4>1. Agrees(x) /\ Carrying(x)' = Carrying(x) /\ to \notin Carrying(x)
        BY <2>2, <3>2, <3>4
      <4> QED
        BY <1>1, <3>1, <4>1 DEF Agrees
    <3> QED
      BY <1>1, <3>3, <3>4 DEF Resting
  <2>4. CASE local[q].becomes # "PENDING"
    <3>1. UNCHANGED <<status, stops>>
      BY <2>4 DEF LoopEnds
    <3>2. status[to] = local[q].becomes
      BY <1>1, <1>2, <2>4 DEF Underway, RoutesAsRead, Looping
    <3>3. \A x \in Orders \ doubled : Agrees(x)
      BY <1>1, <2>1, <2>2, <2>4, <3>2 DEF OnlyOn, Agrees
    <3> QED
      BY <1>1, <3>1, <3>3 DEF Resting, Agrees, Carrying
  <2> QED
    BY <2>3, <2>4
<1> QED
  BY <1>1, <1>2, AnswersSerial

LEMMA SerialStep == IInv /\ Serial /\ [Next]_vars => Serial'
<1> SUFFICES ASSUME IInv, Serial, [Next]_vars PROVE Serial'
  OBVIOUS
<1>1. TypeOK
  BY DEF IInv
<1>2. ASSUME NEW q \in Requests, NEW o \in Orders, NEW r \in Routes,
             MoveOrder(q, o, r) \/ RemoveOrder(q, o, r) \/ AddOrder(q, o, r)
      PROVE  Serial'
  BY <1>1, <1>2, MoveOrderSerial, RemoveOrderSerial, AddOrderSerial
<1>3. ASSUME NEW q \in Requests, NEW r \in Routes,
             LockRoute(q, r) \/ UnlockRoute(q, r) \/ FinalizeRoute(q, r)
      PROVE  Serial'
  BY <1>1, <1>3, RecommitSerial DEF LockRoute, UnlockRoute, FinalizeRoute, RouteStatus
<1>4. ASSUME NEW q \in Requests, NEW r \in Routes, FindRoutes(q, r) \/ RemoveRoute(q, r)
      PROVE  Serial'
  BY <1>1, <1>4, FindRoutesSerial, RemoveRouteSerial
<1>5. ASSUME NEW q \in Requests, MoveRefused(q) PROVE Serial'
  BY <1>1, <1>5, FailsSerial DEF MoveRefused, history
<1>6. ASSUME NEW q \in Requests, MoveConflicts(q) \/ AddConflicts(q) \/ RemoveConflicts(q)
      PROVE  Serial'
  BY <1>1, <1>6, ConflictsSerial
<1>7. ASSUME NEW q \in Requests,
             \/ SaveFrom(q) \/ SaveTo(q) \/ SaveRemoved(q) \/ ReadRemoved(q) \/ SavePending(q)
             \/ ReadAdded(q) \/ SavePlanned(q) \/ SaveAdded(q)
             \/ SaveStatus(q) \/ SaveNext(q) \/ LoopEnds(q) \/ \E o \in Orders : NextOrder(q, o)
      PROVE  Serial'
  BY <1>7, SaveFromSerial, SaveToSerial, SaveRemovedSerial, ReadRemovedSerial, SavePendingSerial,
     ReadAddedSerial, SavePlannedSerial, SaveAddedSerial, SaveStatusSerial, SaveNextSerial,
     LoopEndsSerial, NextOrderSerial
<1>8. CASE UNCHANGED vars
  BY <1>8 DEF vars, Serial, Alone, Resting, Underway, RoutesAsRead, InHand, HalfWay, Nowhere, OnlyOn,
     Agrees, Carrying, Looping
<1> QED
  BY <1>2, <1>3, <1>4, <1>5, <1>6, <1>7, <1>8 DEF Next

LEMMA InitSerial == Init => Serial
<1> SUFFICES ASSUME Init PROVE Serial
  OBVIOUS
<1>1. \A q \in Requests : at[q] = "idle"
  BY DEF Init
<1>2. PICK place \in [Orders -> Routes \cup {None}] :
        /\ stops = [r \in Routes |-> {o \in Orders : place[o] = r}]
        /\ planning = [o \in Orders |-> IF place[o] = None THEN "PENDING" ELSE "PLANNED"]
  BY DEF Init
<1>3. ASSUME NEW o \in Orders PROVE Agrees(o)
  <2>1. Carrying(o) = {r \in Routes : place[o] = r}
    BY <1>2 DEF Carrying
  <2>2. CASE place[o] = None
    <3>1. Carrying(o) = {} /\ planning[o] = "PENDING"
      BY <1>2, <2>1, <2>2, NoneAssumption
    <3> QED
      BY <3>1 DEF Agrees
  <2>3. CASE place[o] # None
    <3>1. place[o] \in Routes
      BY <1>2, <2>3
    <3>2. Carrying(o) = {place[o]} /\ planning[o] = "PLANNED"
      BY <1>2, <2>1, <2>3, <3>1
    <3>3. status[place[o]] = "PLANNED"
      BY <3>1 DEF Init
    <3> QED
      BY <3>1, <3>2, <3>3 DEF Agrees
  <2> QED
    BY <2>2, <2>3
<1> QED
  BY <1>1, <1>3 DEF Serial, Resting, Alone

\* Served one at a time, moveOrder, removeOrder, addOrder, lock, unlock, finalize and
\* removeRoute leave every order that was not doubled PENDING on no route, or on one
\* route of its own status, for any number of orders, routes and requests.
THEOREM SerialAgreement == Spec => []SerialRequestsAgree
<1>1. Serial => SerialRequestsAgree
  BY DEF Serial, Resting, Agrees, SerialRequestsAgree
<1> QED
  BY <1>1, EditInvariance, InitSerial, SerialStep, PTL DEF Spec
=============================================================================
