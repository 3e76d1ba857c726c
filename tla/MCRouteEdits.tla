----------------------------- MODULE MCRouteEdits -----------------------------
(* RouteEdits on small sets: overlapping requests on the routes of one plan. *)
EXTENDS RouteEdits, Naturals, TLC

Symmetry == Permutations(Orders) \cup Permutations(Routes) \cup Permutations(Requests)

\* Bound: states in which two orders have left the fold (taken off, lost or
\* doubled) are checked but not continued from.
FewAstray == Cardinality(gone) + Cardinality(lost) + Cardinality(doubled) < 2

\* moveOrderBetweenRoutes says of its two saves "Atomically move: remove from
\* source stop, add to (or create) target stop": once no request is in flight, an
\* order nobody took off a route is on one.  Not kept: if the second save conflicts,
\* the order is on no route and still PLANNED (README, section 5; to see it, name this
\* invariant in the cfg).
MoveIsAtomic ==
  (\A q \in Requests : at[q] = "idle") =>
    \A o \in Orders \ gone : Carrying(o) # {}
=============================================================================
