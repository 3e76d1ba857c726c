--------------------------- MODULE MCRoutePlanning ---------------------------
(* Model-checking values of RoutePlanning, and what the documentation says   *)
(* of planning that the handlers do not keep.                                *)
EXTENDS RoutePlanning, Integers, TLC

\* Orders, plans and routes are interchangeable: no action or property names one.
Symmetry == Permutations(Orders) \cup Permutations(Plans) \cup Permutations(Routes)

\* Bounds of the exploration: how many orders are ever set by hand, and how many
\* routes are ever pulled from under a started trip.
FewOverrides == Cardinality(overridden) <= 1
FewDetached  == Cardinality(detached) <= 1

\* The planner's guide: a LOCKED plan is not edited any more until it is unlocked.
\* Not kept: locking one route locks the plan, and routes are still added to it,
\* and the stops of its PLANNED routes edited.
LockedPlanFrozen ==
  [][\A p \in Plans : planStatus[p] = "LOCKED" /\ planStatus'[p] = "LOCKED" =>
       \A r \in RoutesOf(p)' : r \in RoutesOf(p) /\ stops'[r] = stops[r]]_vars

\* README's workflow ends an order at DELIVERED: what a trip has delivered is not
\* put on a route again.  Not kept: unlocking or removing the route of a started
\* trip frees its delivered orders, and neither optimizeRoutePlan nor
\* addOrderToRoute looks at DELIVERED.
DeliveredByTrip(o) ==
  orderStatus[o] = "DELIVERED" /\ \E r \in Routes : trip[r] \in Started /\ o \in manifest[r]

DeliveredNotReplanned ==
  [][\A o \in Orders : DeliveredByTrip(o) => Carrying(o)' \subseteq Carrying(o)]_vars
=============================================================================
