----------------------------- MODULE OrdersScreen -----------------------------
(***************************************************************************)
(* The list of OrdersPage.jsx: a filter, a page and what is asked of the   *)
(* server, with the lists that react-query keeps.                          *)
(* The filter by approval stands for the four of the page; other clerks    *)
(* work on the same orders.  What the requests do is in OrderEntry.        *)
(*                                                                         *)
(* External: react-query 5, as PlanningScreen describes it.                *)
(***************************************************************************)
EXTENDS Integers, FiniteSets

CONSTANTS OrderCount,  \* the orders there may be
          Filters,     \* the filters in use
          PageSize,
          MaxTurns     \* bound: changes of an order, by anybody
ASSUME ListAssumption ==
    /\ Filters \subseteq {"all", "PENDING", "APPROVED", "REJECTED"}
    /\ OrderCount \in Nat /\ PageSize \in Nat \ {0} /\ MaxTurns \in Nat

All == "all"
Decisions == {"APPROVED", "REJECTED"}
ListOrders == 1..OrderCount
Pages == 1..OrderCount
ListKeys == Filters \X Pages

VARIABLES approval,  \* server: of each order
          filter, page,
          lists,     \* cache: of each key
          old,       \* the keys whose list was invalidated
          listLoading,   \* of each key: "none", "asked" or the list that was read
          drawer,    \* the pending order in the drawer, as it was listed; 0: none
          request,   \* what the clerk has asked for
          leftFrom,  \* history: the filters that an order has left
          turns

orderList == <<approval, filter, page, lists, old, listLoading, drawer, request, leftFrom, turns>>

NoList == [of |-> {}, pending |-> {}, total |-> 0, is |-> "none"]
NotLoading == [NoList EXCEPT !.is = "not loading"]
AskedFor == [NoList EXCEPT !.is = "asked"]
NoRequest == [orders |-> {}, to |-> "none"]
Key == <<filter, page>>
OnScreen == lists[Key]

\* The deep link of the assistant may bring a filter.
ListInit ==
    /\ approval \in [ListOrders -> {"absent", "PENDING"}]
    /\ filter \in Filters /\ page = 1
    /\ lists = [k \in ListKeys |-> NoList] /\ old = {}
    /\ listLoading = [k \in ListKeys |-> IF k = Key THEN AskedFor ELSE NotLoading]
    /\ drawer = 0 /\ request = NoRequest
    /\ leftFrom = {} /\ turns = 0

\* A key that is looked at is fetched when it has no list or an old one, and when the 30 s
\* of staleTime are over.
LookAt(k) ==
    \/ listLoading[k] = NotLoading /\ listLoading' = [listLoading EXCEPT ![k] = AskedFor]
    \/ (listLoading[k] # NotLoading \/ (lists[k] # NoList /\ k \notin old)) /\ UNCHANGED listLoading

-----------------------------------------------------------------------------
(* The list.                                                               *)

Matches(f) == {o \in ListOrders : approval[o] # "absent" /\ f \in {All, approval[o]}}

\* listOrders: sorted, a page of it, and the number of all.
ListPage(f, p) ==
    LET S == Matches(f)
        place(o) == Cardinality({q \in S : q <= o})
        rows == {o \in S : place(o) > (p - 1) * PageSize /\ place(o) <= p * PageSize}
    IN [of |-> rows, pending |-> {o \in rows : approval[o] = "PENDING"},
        total |-> Cardinality(S), is |-> "read"]

ListIsRead(k) ==
    /\ listLoading[k] = AskedFor
    /\ listLoading' = [listLoading EXCEPT ![k] = ListPage(k[1], k[2])]
    /\ UNCHANGED <<approval, filter, page, lists, old, drawer, request, leftFrom, turns>>

OrdersArrive(k) ==
    /\ listLoading[k].is = "read"
    /\ lists' = [lists EXCEPT ![k] = listLoading[k]]
    /\ listLoading' = [listLoading EXCEPT ![k] = NotLoading]
    /\ old' = old \ {k}
    /\ UNCHANGED <<approval, filter, page, drawer, request, leftFrom, turns>>

\* Mutant: the page stays.
PageAfterFilter(f) == page

FirstPage(f) == 1

\* setFilterValue.
SetFilter(f) ==
    /\ f # filter /\ filter' = f /\ page' = FirstPage(f)
    /\ LookAt(<<f, FirstPage(f)>>)
    /\ UNCHANGED <<approval, lists, old, drawer, request, leftFrom, turns>>

\* The table turns to the pages of the total it has.
TurnPage(p) ==
    /\ OnScreen # NoList /\ p # page /\ (p - 1) * PageSize < OnScreen.total
    /\ page' = p /\ LookAt(<<filter, p>>)
    /\ UNCHANGED <<approval, filter, lists, old, drawer, request, leftFrom, turns>>

-----------------------------------------------------------------------------
(* The orders.                                                             *)

Ask(S, to) ==
    /\ request = NoRequest /\ request' = [orders |-> S, to |-> to]
    /\ UNCHANGED <<approval, filter, page, lists, old, listLoading, leftFrom, turns>>

\* approveM, of a row that is pending or of the drawer.
PressApprove(o, to) == o \in OnScreen.pending /\ Ask({o}, to) /\ UNCHANGED drawer
PressInDrawer(to) == drawer # 0 /\ Ask({drawer}, to) /\ drawer' = 0

\* The drawer keeps the order as it was when it was opened; only a pending one has buttons.
OpenDrawer(o) ==
    /\ drawer = 0 /\ o \in OnScreen.pending /\ drawer' = o
    /\ UNCHANGED <<approval, filter, page, lists, old, listLoading, request, leftFrom, turns>>
CloseDrawer ==
    /\ drawer # 0 /\ drawer' = 0
    /\ UNCHANGED <<approval, filter, page, lists, old, listLoading, request, leftFrom, turns>>

\* createM, and uploadM with the orders of a file.
PressCreate(o) == approval[o] = "absent" /\ Ask({o}, "PENDING") /\ UNCHANGED drawer
Upload(S) == Cardinality(S) > 1 /\ Ask(S, "PENDING") /\ UNCHANGED drawer

\* S become to, each from what it was.
Become(S, to) ==
    /\ turns < MaxTurns /\ turns' = turns + 1
    /\ approval' = [o \in ListOrders |-> IF o \in S THEN to ELSE approval[o]]
    /\ leftFrom' = leftFrom \cup ({approval[o] : o \in S} \ {to}) \cup (IF to = "absent" THEN {All} ELSE {})

\* A code that is taken is refused, and an order that is gone.
Served == {o \in request.orders : (approval[o] = "absent") = (request.to = "PENDING")}

\* onSuccess invalidates the lists and fetches the one shown anew.
RequestServed ==
    /\ request # NoRequest /\ Served # {} /\ request' = NoRequest
    /\ Become(Served, request.to)
    /\ old' = {k \in ListKeys : lists[k] # NoList}
    /\ listLoading' = [listLoading EXCEPT ![Key] = AskedFor]
    /\ UNCHANGED <<filter, page, lists, drawer>>

RequestFails ==
    /\ request # NoRequest /\ request' = NoRequest
    /\ UNCHANGED <<approval, filter, page, lists, old, listLoading, drawer, leftFrom, turns>>

\* Another clerk creates, decides or deletes.
OthersWork(o, to) ==
    /\ to # approval[o]
    /\ Become({o}, to)
    /\ UNCHANGED <<filter, page, lists, old, listLoading, drawer, request>>

ListNext ==
    \/ \E k \in ListKeys : ListIsRead(k) \/ OrdersArrive(k)
    \/ \E f \in Filters : SetFilter(f)
    \/ \E p \in Pages : TurnPage(p)
    \/ \E o \in ListOrders :
         \/ PressCreate(o) \/ OpenDrawer(o)
         \/ \E to \in Decisions : PressApprove(o, to)
         \/ \E to \in Decisions \cup {"PENDING", "absent"} : OthersWork(o, to)
    \/ \E S \in SUBSET ListOrders : Upload(S)
    \/ \E to \in Decisions : PressInDrawer(to)
    \/ CloseDrawer \/ RequestServed \/ RequestFails

ListSpec == ListInit /\ [][ListNext]_orderList

-----------------------------------------------------------------------------
\* The page is not looked at again when the list shrinks (OrdersPage.jsx:530).  A page that
\* shows no orders is the first, or one that an order has left the filter of, whatever the
\* answers, the filters and the pages that cross.
EmptyPageHasShrunk ==
    page > 1 /\ OnScreen # NoList /\ OnScreen.of = {} => filter \in leftFrom
=============================================================================
