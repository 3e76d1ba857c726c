------------------------------ MODULE OrderEntry ------------------------------
(***************************************************************************)
(* How orders of one organisation are written, changed, approved and       *)
(* imported by orderController.js: what they carry and what they cost.     *)
(* Their planning is in RoutePlanning, here reduced to whether an order is *)
(* locked.  An order has a case of each of some products; what else may be *)
(* edited is left out but for the updates that leave the items alone.      *)
(*                                                                         *)
(* External: mongoose.  save() writes what differs from the document it    *)
(* loaded; one that writes the array of items fails when the version has   *)
(* moved since, and moves it, as a push to an array does.  The price list  *)
(* is edited in MasterData.                                                *)
(***************************************************************************)
EXTENDS Integers, FiniteSets, Functions

CONSTANTS Goods,     \* products by code
          Buyers,    \* customers by code
          OrderCodes,
          Edits,     \* updates under way
          MaxEntries \* bound: requests and changes of a price
ASSUME EntryAssumption == MaxEntries \in Nat

Prices == 0..2    \* 0: the product is not there
Baskets == SUBSET Goods \ {{}}

VARIABLES price,     \* Product.Price
          entry,     \* SalesOrder
          edit,      \* of each update: [at, code, items, loaded, total, behind, crossed, dated];
                     \* behind: the version has moved; crossed, dated: history
          upload,    \* orders that an uploaded file has left
          dated,     \* history: orders of which a price has changed since it was read
          entries

entering == <<price, entry, edit, upload, dated, entries>>

NoEntry == [is |-> "none", items |-> {}, total |-> 0, approval |-> "none", locked |-> FALSE]
NoEdit == [at |-> "none", code |-> "none", items |-> {}, loaded |-> NoEntry, total |-> 0,
           behind |-> FALSE, crossed |-> FALSE, dated |-> FALSE]

EntryInit ==
    /\ price \in [Goods -> {1}]
    /\ entry = [o \in OrderCodes |-> NoEntry]
    /\ edit = [e \in Edits |-> NoEdit]
    /\ upload = {} /\ dated = {} /\ entries = 0

\* calcOrderTotalPrice: a product that is not there costs nothing.
Total(prices, items) == IF items = {} THEN 0 ELSE SumFunction([p \in items |-> prices[p]])
TotalPrice(items) == Total(price, items)

Editing(o) == {e \in Edits : edit[e].code = o}

-----------------------------------------------------------------------------
(* updateProduct, deleteProduct.                                           *)

Reprice(p, n) ==
    /\ entries < MaxEntries /\ entries' = entries + 1
    /\ price[p] # n /\ price[p] # 0
    /\ price' = [price EXCEPT ![p] = n]
    /\ dated' = dated \cup {o \in OrderCodes : p \in entry[o].items}
    /\ edit' = [e \in Edits |-> IF edit[e].at = "priced" /\ p \in edit[e].items
                                THEN [edit[e] EXCEPT !.dated = TRUE] ELSE edit[e]]
    /\ UNCHANGED <<entry, upload>>

-----------------------------------------------------------------------------
(* createOrder and uploadOrders.                                           *)

\* The prices are read before it is stored; here nothing comes between.
Stored(o, items) ==
    [NoEntry EXCEPT !.is = "there", !.items = items, !.total = TotalPrice(items), !.approval = "PENDING"]

\* The index on the code refuses a second one.
CreateOrder(o, items) ==
    /\ entries < MaxEntries /\ entries' = entries + 1
    /\ entry[o] = NoEntry
    /\ entry' = [entry EXCEPT ![o] = Stored(o, items)]
    /\ UNCHANGED <<price, edit, upload, dated>>

\* A row of the file: what it orders for whom, and whether it can be read.
Rows == [code : OrderCodes, buyer : Buyers, product : Goods, sound : BOOLEAN]

\* buildImportOrders: a row that cannot be read, or names another customer than the first
\* sound row of its code, is reported; the order is made of the others.
FirstBuyers(S, o) == {r.buyer : r \in {s \in S : s.code = o /\ s.sound}}
ImportOrders(S) ==
    UNION {{[code |-> o, items |-> {r.product : r \in {s \in S : s.code = o /\ s.sound /\ s.buyer = b}}] :
               b \in FirstBuyers(S, o)} : o \in OrderCodes}

\* Of an order that the file gives two customers, the first row of the file decides.
UploadOrders(S, orders) ==
    /\ entries < MaxEntries /\ upload = {} /\ entries' = entries + 1
    /\ orders \subseteq ImportOrders(S)
    /\ {w.code : w \in orders} = {w.code : w \in ImportOrders(S)}
    /\ \A w, x \in orders : w.code = x.code => w = x
    /\ upload' = orders
    /\ UNCHANGED <<price, entry, edit, dated>>

\* An order that is there already, or with a product that is not, is reported.
ImportOrder(w) ==
    /\ w \in upload
    /\ upload' = upload \ {w}
    /\ entry' = IF entry[w.code] = NoEntry /\ \A p \in w.items : price[p] # 0
                THEN [entry EXCEPT ![w.code] = Stored(w.code, w.items)] ELSE entry
    /\ UNCHANGED <<price, edit, dated, entries>>

-----------------------------------------------------------------------------
(* updateOrder; a body without items has none of them.                     *)

LoadOrder(e, o, items) ==
    /\ entries < MaxEntries /\ entries' = entries + 1
    /\ edit[e] = NoEdit
    /\ entry[o].is = "there" /\ ~entry[o].locked
    /\ edit' = [edit EXCEPT ![e] = [NoEdit EXCEPT !.at = "loaded", !.code = o, !.loaded = entry[o],
                                    !.items = IF items = {} THEN entry[o].items ELSE items]]
    /\ UNCHANGED <<price, entry, upload, dated>>

\* The total of what the document now holds.
PriceOrder(e) ==
    /\ edit[e].at = "loaded"
    /\ edit' = [edit EXCEPT ![e].at = "priced", ![e].total = TotalPrice(edit[e].items)]
    /\ UNCHANGED <<price, entry, upload, dated, entries>>

WritesItems(e) == edit[e].items # edit[e].loaded.items
WritesTotal(e) == edit[e].total # edit[e].loaded.total

\* Mutant: nothing checks the version.
AnyVersion(e) == entry[edit[e].code].is = "there"

MaySave(e) ==
    /\ entry[edit[e].code].is = "there"
    /\ ~(WritesItems(e) /\ edit[e].behind)

\* The items of one update and the total of another that had none.
Crosses(e) == IF WritesItems(e) THEN edit[e].crossed ELSE entry[edit[e].code].items # edit[e].loaded.items

\* The lock is not looked at again.
SaveOrder(e) ==
    LET o == edit[e].code IN
    /\ edit[e].at = "priced"
    /\ IF MaySave(e)
       THEN /\ entry' = [entry EXCEPT ![o].items = IF WritesItems(e) THEN edit[e].items ELSE @,
                                      ![o].total = IF WritesTotal(e) THEN edit[e].total ELSE @]
            /\ dated' = IF ~WritesItems(e) /\ ~WritesTotal(e) THEN dated
                        ELSE IF edit[e].dated \/ Crosses(e) THEN dated \cup {o} ELSE dated \ {o}
       ELSE UNCHANGED <<entry, dated>>
    /\ edit' = [f \in Edits |-> IF f = e THEN NoEdit
                                ELSE IF f \notin Editing(o) \/ ~MaySave(e) THEN edit[f]
                                ELSE IF WritesItems(e) THEN [edit[f] EXCEPT !.behind = TRUE]
                                ELSE [edit[f] EXCEPT !.crossed = @ \/ WritesTotal(e)]]
    /\ UNCHANGED <<price, upload, entries>>

-----------------------------------------------------------------------------
(* approveOrder, deleteOrder and the planner's lock.                       *)

\* From whatever approval; the push to the history moves the version.
ApproveOrder(o, to) ==
    /\ entries < MaxEntries /\ entries' = entries + 1
    /\ entry[o].is = "there"
    /\ entry' = [entry EXCEPT ![o].approval = to, ![o].locked = @ /\ to # "REJECTED"]
    /\ edit' = [e \in Edits |-> IF e \in Editing(o) THEN [edit[e] EXCEPT !.behind = TRUE] ELSE edit[e]]
    /\ UNCHANGED <<price, upload, dated>>

DeleteOrder(o) ==
    /\ entries < MaxEntries /\ entries' = entries + 1
    /\ entry[o].is = "there" /\ ~entry[o].locked
    /\ entry' = [entry EXCEPT ![o] = [NoEntry EXCEPT !.is = "deleted"]]
    /\ dated' = dated \ {o}
    /\ UNCHANGED <<price, edit, upload>>

\* External: bulkUpdateOrderPlanningStatus leaves the version.
LockOrder(o) ==
    /\ entry[o].is = "there" /\ ~entry[o].locked
    /\ entry' = [entry EXCEPT ![o].locked = TRUE]
    /\ UNCHANGED <<price, edit, upload, dated, entries>>

EntryNext ==
    \/ \E p \in Goods, n \in Prices : Reprice(p, n)
    \/ \E o \in OrderCodes :
         \/ \E items \in Baskets : CreateOrder(o, items)
         \/ \E e \in Edits, items \in SUBSET Goods : LoadOrder(e, o, items)
         \/ \E to \in {"PENDING", "APPROVED", "REJECTED"} : ApproveOrder(o, to)
         \/ DeleteOrder(o) \/ LockOrder(o)
    \/ \E r, s \in Rows : \E orders \in SUBSET ImportOrders({r, s}) : UploadOrders({r, s}, orders)
    \/ \E w \in upload : ImportOrder(w)
    \/ \E e \in Edits : PriceOrder(e) \/ SaveOrder(e)

EntrySpec == EntryInit /\ [][EntryNext]_entering

-----------------------------------------------------------------------------
\* "Tự tính lại TotalPrice từ Items × Product.Price" (orderController.js:394): an order
\* costs what it carries at the prices of when it was last written, however updates of it
\* overlap; but where an update that leaves the items alone, and writes the total of the ones
\* it had loaded because a price has changed, crosses one that replaces them.
TotalIsOfItsItems ==
    \A o \in OrderCodes \ dated : entry[o].total = TotalPrice(entry[o].items)
=============================================================================
